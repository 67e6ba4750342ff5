---------------------------- MODULE DashboardProofs ----------------------------
(***************************************************************************)
(* Proofs about the booking schedule, the dashboard and edits of records,  *)
(* for any opening hours, zones, instants and layers of settings, and any  *)
(* visits and records.                                                     *)
(*                                                                         *)
(* The schedule: the loop over a day's slots looks only at later times, so *)
(* that what it computes is settled from the last time of the day down; the*)
(* rest is the order of wall-clock times and of the instants they happen.  *)
(*                                                                         *)
(* Drives per day: an instant of the period is in one span and in one hour *)
(* that the span touches, so a booking has one row; and where no change of *)
(* clocks moves a midnight the windows of the days hold what starts on     *)
(* their dates.                                                            *)
(*                                                                         *)
(* Figures: the rows that are counted are as many as the visits made, and  *)
(* what is counted by a property of its elements adds up to the whole.     *)
(*                                                                         *)
(* Records: reading settles a value, so that what was read, and what is    *)
(* typed, is read the same once it is stored; the rest is that every layer *)
(* carries every field.                                                    *)
(***************************************************************************)
EXTENDS Dashboard, Records, FiniteSetTheorems, FunctionTheorems, TLAPS

-----------------------------------------------------------------------------
(* The order of numbers                                                    *)

\* The library's well-founded order of the numbers, and what it says of sets.
LEMMA LeastNatural ==
    ASSUME NEW S \in SUBSET Nat, S # {}
    PROVE  \E n \in S : \A m \in S : n <= m
  <1>1. PICK n \in S : \A m \in S : ~(<<m, n>> \in OpToRel(<, Nat))
    BY NatLessThanWellFounded, WFMin
  <1>2. \A m \in Nat : <<m, n>> \in OpToRel(<, Nat) <=> m < n
    BY Zenon DEF OpToRel
  <1>3. \A m \in S : ~(m < n)
    BY <1>1, <1>2
  <1> QED
    BY <1>3

\* A set of numbers with a bound below has a least.
LEMMA LeastOf ==
    ASSUME NEW S \in SUBSET Int, S # {}, NEW low \in Int, \A i \in S : low <= i
    PROVE  Least(S) \in S /\ \A i \in S : Least(S) <= i
  <1> DEFINE T == {i - low : i \in S}
  <1>1. T \in SUBSET Nat /\ T # {}
    <2>1. \A i \in S : i - low \in Nat
      OBVIOUS
    <2>2. \A t \in T : t \in Nat
      BY <2>1
    <2>3. PICK i \in S : TRUE
      OBVIOUS
    <2>4. i - low \in T
      OBVIOUS
    <2> QED
      BY <2>2, <2>4
  <1>2. PICK n \in T : \A m \in T : n <= m
    BY <1>1, LeastNatural
  <1>3. PICK i \in S : n = i - low
    BY <1>2
  <1>4. \A j \in S : i <= j
    <2> SUFFICES ASSUME NEW j \in S PROVE i <= j
      OBVIOUS
    <2>1. j - low \in T
      OBVIOUS
    <2> QED
      BY <1>2, <1>3, <2>1
  <1> QED
    BY <1>3, <1>4 DEF Least

\* What holds of a number whenever it holds of all greater ones holds of all.
LEMMA DownFromTheTop ==
    ASSUME NEW n \in Nat, NEW S, \A k \in 0..n : (\A i \in k + 1..n : i \in S) => k \in S
    PROVE  \A k \in 0..n : k \in S
  <1> DEFINE T == {n - k : k \in {j \in 0..n : j \notin S}}
  <1> SUFFICES ASSUME T # {} PROVE FALSE
    OBVIOUS
  <1>1. T \in SUBSET Nat
    OBVIOUS
  <1>2. PICK m \in T : \A t \in T : m <= t
    BY <1>1, LeastNatural
  <1>3. PICK k \in 0..n : k \notin S /\ m = n - k
    BY <1>2
  <1>4. ASSUME NEW i \in k + 1..n, i \notin S PROVE FALSE
    <2>1. n - i \in T
      BY <1>3, <1>4
    <2>2. m <= n - i
      BY <1>2, <2>1
    <2> QED
      BY <1>3, <1>4, <2>2
  <1> QED
    BY <1>3, <1>4

\* A finite set of numbers has a greatest.
LEMMA GreatestOf ==
    ASSUME NEW S \in SUBSET Int, S # {}, IsFiniteSet(S)
    PROVE  \E d \in S : \A e \in S : e <= d
  <1> DEFINE HasTop(T) == \E d \in T : \A e \in T : e <= d
             Topless == {T \in SUBSET S : T # {} /\ ~HasTop(T)}
             Sizes == {Cardinality(T) : T \in Topless}
  <1> SUFFICES ASSUME Topless # {} PROVE FALSE
    OBVIOUS
  <1>1. \A T \in SUBSET S : IsFiniteSet(T) /\ Cardinality(T) \in Nat
    BY FS_Subset, FS_CardinalityType
  <1>2. Sizes \in SUBSET Nat /\ Sizes # {}
    BY <1>1
  <1>3. PICK n \in Sizes : \A m \in Sizes : n <= m
    BY <1>2, LeastNatural
  <1>4. PICK T \in Topless : n = Cardinality(T)
    BY <1>3
  <1>5. PICK x \in T : TRUE
    BY <1>4
  <1> DEFINE U == T \ {x}
  <1>6. Cardinality(U) < Cardinality(T)
    <2>1. Cardinality(U) = Cardinality(T) - 1
      BY <1>1, <1>5, FS_RemoveElement
    <2> QED
      BY <1>1, <2>1
  <1>7. U \notin Topless
    <2>1. ASSUME U \in Topless PROVE FALSE
      <3>1. Cardinality(U) \in Sizes
        BY <2>1
      <3>2. Cardinality(U) \in Nat /\ Cardinality(T) \in Nat
        BY <1>1, <1>4
      <3>3. Cardinality(T) <= Cardinality(U)
        BY <1>3, <1>4, <3>1
      <3> HIDE DEF U
      <3> QED
        BY <1>6, <3>2, <3>3
    <2> QED
      BY <2>1
  <1>8. CASE U = {}
    <2>1. HasTop(T)
      BY <1>4, <1>5, <1>8
    <2> QED
      BY <1>4, <2>1
  <1>9. CASE HasTop(U)
    <2>1. PICK d \in U : \A e \in U : e <= d
      BY <1>9
    <2>2. CASE x <= d
      BY <1>4, <2>1, <2>2
    <2>3. CASE d <= x
      <3>1. \A e \in T : e <= x
        BY <1>4, <2>1, <2>3
      <3> QED
        BY <1>4, <1>5, <3>1
    <2> QED
      BY <1>4, <1>5, <2>1, <2>2, <2>3
  <1> QED
    BY <1>4, <1>7, <1>8, <1>9

\* Division with a remainder
LEMMA Division ==
    ASSUME NEW n \in Nat \ {0}, NEW i \in Int
    PROVE  i \div n \in Int /\ i % n \in 0..n - 1 /\ i = n * (i \div n) + (i % n)
  OBVIOUS

-----------------------------------------------------------------------------
(* The slots of a day                                                      *)

\* The parts of a case
LEMMA PlanParts ==
    ASSUME NEW p \in Plans
    PROVE  /\ p.slot \in Nat \ {0} /\ p.notice \in Nat /\ p.now \in Int /\ p.kind = "day"
           /\ p.zone \in [before : -DayLength..DayLength, after : -DayLength..DayLength, at : Int]
           /\ \A d \in Int : HoursOn(p, d) \in Window
           /\ \A d \in Int : \A b \in BreaksOn(p, d) : b.start \in 0..DayLength /\ b.end \in 0..DayLength
           /\ IsFiniteSet(p.closures) /\ \A c \in p.closures : c.date \in Int
  <1>1. p.slot \in SlotLength /\ p.notice \in Notice /\ p.now \in Now /\ p.zone \in Zone /\ p.kind = "day"
        /\ p.breaks \in BreaksOption /\ p.closures \in ClosuresOption /\ p.hours \in [0..Week - 1 -> HoursOption]
    BY DEF Plans
  <1>2. \A d \in Int : HoursOn(p, d) \in Window
    <2>1. \A d \in Int : d % Week \in 0..Week - 1
      BY ScheduleAssumption
    <2> QED
      BY <1>1, <2>1, ScheduleAssumption DEF HoursOn
  <1>3. p.closures \subseteq [date : Int, allDay : BOOLEAN, start : 0..DayLength, end : 0..DayLength] /\ IsFiniteSet(p.closures)
    BY <1>1, ScheduleAssumption
  <1>4. ASSUME NEW d \in Int, NEW b \in BreaksOn(p, d)
        PROVE  b.start \in 0..DayLength /\ b.end \in 0..DayLength
    <2>1. CASE b \in p.breaks
      BY <1>1, <2>1, ScheduleAssumption DEF Window
    <2>2. CASE \E c \in p.closures : b = [start |-> c.start, end |-> c.end]
      BY <1>3, <2>2
    <2> QED
      BY <1>4, <2>1, <2>2 DEF BreaksOn, ClosuresOn
  <1>5. p.now \in Nat
    BY <1>1, ScheduleAssumption
  <1>6. p.slot \in Nat \ {0} /\ p.notice \in Nat
        /\ p.zone \in [before : -DayLength..DayLength, after : -DayLength..DayLength, at : Int]
    BY <1>1, ScheduleAssumption
  <1>7. \A c \in p.closures : c.date \in Int
    BY <1>3
  <1> QED
    BY <1>1, <1>2, <1>3, <1>4, <1>5, <1>6, <1>7

\* One step of the loop, which looks only at later times
Pass(p, d, g, s) ==
    IF s + p.slot > HoursOn(p, d).end THEN {}
    ELSE IF Clashes(p, d, s) # {} THEN g[(CHOOSE b \in Clashes(p, d, s) : TRUE).end]
    ELSE {SlotAt(p, s)} \cup g[s + p.slot]

\* The break that clashes at s
Clash(p, d, s) == CHOOSE b \in Clashes(p, d, s) : TRUE

\* It ends later, so the loop moves on.
LEMMA ClashLeadsOn ==
    ASSUME NEW p \in Plans, NEW d \in Int, NEW s \in 0..DayLength, Clashes(p, d, s) # {}
    PROVE  /\ Clash(p, d, s) \in BreaksOn(p, d) /\ Clash(p, d, s).end \in s + 1..DayLength
           /\ Clash(p, d, s).start < s + p.slot
  <1>1. Clash(p, d, s) \in Clashes(p, d, s)
    BY DEF Clash
  <1>2. Clash(p, d, s) \in BreaksOn(p, d) /\ s < Clash(p, d, s).end /\ Clash(p, d, s).start < s + p.slot
    BY <1>1 DEF Clashes, Meets, SlotAt
  <1> QED
    BY <1>2, PlanParts, ScheduleAssumption

\* What the loop makes of a time depends on later times only.
LEMMA BodyLooksAhead ==
    ASSUME NEW p \in Plans, NEW d \in Int, NEW s \in 0..DayLength, NEW g, NEW h,
           \A i \in s + 1..DayLength : g[i] = h[i]
    PROVE  Pass(p, d, g, s) = Pass(p, d, h, s)
  <1>1. CASE s + p.slot > HoursOn(p, d).end
    BY <1>1 DEF Pass
  <1>2. CASE ~(s + p.slot > HoursOn(p, d).end)
    <2>1. s + p.slot \in s + 1..DayLength
      BY <1>2, PlanParts, ScheduleAssumption DEF Window
    <2>2. CASE Clashes(p, d, s) # {}
      <3>1. Clash(p, d, s).end \in s + 1..DayLength
        BY <2>2, ClashLeadsOn
      <3> QED
        BY <1>2, <2>2, <3>1 DEF Pass, Clash
    <2>3. CASE Clashes(p, d, s) = {}
      BY <1>2, <2>1, <2>3 DEF Pass
    <2> QED
      BY <2>2, <2>3
  <1> QED
    BY <1>1, <1>2

\* The loop ends: there is a function that it computes.
LEMMA LoopEnds ==
    ASSUME NEW p \in Plans, NEW d \in Int
    PROVE  \A s \in 0..DayLength : SlotsFrom(p, d)[s] = Pass(p, d, SlotsFrom(p, d), s)
  <1> DEFINE Solves(g, k) == \A i \in k..DayLength : g[i] = Pass(p, d, g, i)
             S == {k \in 0..DayLength : \E g : Solves(g, k)}
  <1>0. DayLength \in Nat
    BY ScheduleAssumption
  <1>1. ASSUME NEW k \in 0..DayLength, \A i \in k + 1..DayLength : i \in S
        PROVE  k \in S
    <2>1. \E g : Solves(g, k + 1)
      <3>1. CASE k = DayLength
        BY <1>0, <3>1
      <3>2. CASE k < DayLength
        <4>1. k + 1 \in S
          BY <1>0, <1>1, <3>2
        <4> QED
          BY <4>1
      <3> QED
        BY <1>0, <3>1, <3>2
    <2>2. PICK g : Solves(g, k + 1)
      BY <2>1
    <2> DEFINE h == [i \in 0..DayLength |-> IF i = k THEN Pass(p, d, g, k) ELSE g[i]]
    <2>3. h[k] = Pass(p, d, g, k) /\ \A i \in k + 1..DayLength : h[i] = g[i]
      BY <1>0
    <2> HIDE DEF h
    <2>4. h[k] = Pass(p, d, h, k)
      BY <2>3, BodyLooksAhead
    <2>5. ASSUME NEW i \in k + 1..DayLength PROVE h[i] = Pass(p, d, h, i)
      <3>1. i \in 0..DayLength /\ \A j \in i + 1..DayLength : h[j] = g[j]
        BY <1>0, <2>3
      <3>2. Pass(p, d, g, i) = Pass(p, d, h, i)
        BY <3>1, BodyLooksAhead
      <3> QED
        BY <2>2, <2>3, <3>2
    <2>6. Solves(h, k)
      BY <1>0, <2>4, <2>5
    <2> QED
      BY <2>6
  <1>2. 0 \in S
    <2> HIDE DEF S
    <2>1. \A k \in 0..DayLength : k \in S
      BY <1>0, <1>1, DownFromTheTop
    <2> QED
      BY <1>0, <2>1
  <1>3. PICK g : Solves(g, 0)
    BY <1>2
  <1> DEFINE f == [s \in 0..DayLength |-> g[s]]
  <1>4. f = [s \in 0..DayLength |-> Pass(p, d, f, s)]
    <2>1. \A s \in 0..DayLength : f[s] = Pass(p, d, f, s)
      <3> SUFFICES ASSUME NEW s \in 0..DayLength PROVE f[s] = Pass(p, d, f, s)
        OBVIOUS
      <3>1. \A j \in s + 1..DayLength : f[j] = g[j]
        BY <1>0
      <3>2. f[s] = g[s] /\ g[s] = Pass(p, d, g, s)
        BY <1>3
      <3> HIDE DEF f
      <3>3. Pass(p, d, g, s) = Pass(p, d, f, s)
        BY <3>1, BodyLooksAhead
      <3> QED
        BY <3>2, <3>3
    <2>2. f = [s \in 0..DayLength |-> f[s]]
      OBVIOUS
    <2> HIDE DEF f
    <2> QED
      BY <2>1, <2>2
  <1>5. SlotsFrom(p, d) = CHOOSE from : from = [s \in 0..DayLength |-> Pass(p, d, from, s)]
    BY DEF SlotsFrom, Pass
  <1> HIDE DEF f
  <1>6. SlotsFrom(p, d) = [s \in 0..DayLength |-> Pass(p, d, SlotsFrom(p, d), s)]
    BY <1>4, <1>5
  <1> QED
    BY <1>6

\* What the loop has offered from time s on: slots that fit, none of which meet,
\* and no room for another.
Free(p, d, i) == i + p.slot <= HoursOn(p, d).end /\ Clashes(p, d, i) = {}
Fills(p, d, s, slots) ==
    /\ \A t \in slots : \E i \in s..DayLength : t = SlotAt(p, i) /\ Free(p, d, i)
    /\ \A t, u \in slots : t # u => ~Meets(t, u)
    /\ \A i \in s..DayLength : Free(p, d, i) => \E t \in slots : Meets(SlotAt(p, i), t)

\* From the latest time down, each adds a slot or leaves what there was.
LEMMA LoopFills ==
    ASSUME NEW p \in Plans, NEW d \in Int
    PROVE  \A s \in 0..DayLength : Fills(p, d, s, SlotsFrom(p, d)[s])
  <1> DEFINE F == SlotsFrom(p, d)
             S == {s \in 0..DayLength : Fills(p, d, s, F[s])}
  <1>0. DayLength \in Nat /\ p.slot \in Nat \ {0} /\ HoursOn(p, d).end \in 0..DayLength
    BY PlanParts, ScheduleAssumption DEF Window
  <1>1. ASSUME NEW s \in 0..DayLength, \A i \in s + 1..DayLength : i \in S
        PROVE  s \in S
    <2>1. F[s] = Pass(p, d, F, s)
      BY LoopEnds
    <2> HIDE DEF F
    <2>2. \A i \in s + 1..DayLength : Fills(p, d, i, F[i])
      BY <1>1
    <2>3. CASE s + p.slot > HoursOn(p, d).end
      <3>1. F[s] = {}
        BY <2>1, <2>3 DEF Pass
      <3>2. \A i \in s..DayLength : ~Free(p, d, i)
        BY <1>0, <2>3 DEF Free
      <3> QED
        BY <3>1, <3>2 DEF Fills
    <2>4. CASE ~(s + p.slot > HoursOn(p, d).end) /\ Clashes(p, d, s) # {}
      <3> DEFINE b == Clash(p, d, s)
      <3>1. b \in BreaksOn(p, d) /\ b.end \in s + 1..DayLength /\ b.start < s + p.slot
        BY <2>4, ClashLeadsOn
      <3>2. F[s] = F[b.end]
        BY <2>1, <2>4 DEF Pass, Clash
      <3> HIDE DEF b
      <3>3. Fills(p, d, b.end, F[s])
        BY <2>2, <3>1, <3>2
      <3>4. ASSUME NEW i \in s..DayLength, i < b.end
            PROVE  ~Free(p, d, i)
        <4>1. b.start \in Int /\ b.end \in Int
          BY <3>1, PlanParts
        <4>2. Meets(SlotAt(p, i), b)
          BY <1>0, <3>1, <3>4, <4>1 DEF Meets, SlotAt
        <4> QED
          BY <3>1, <4>2 DEF Free, Clashes
      <3>5. \A i \in b.end..DayLength : i \in s..DayLength
        BY <1>0, <3>1
      <3>6. \A i \in s..DayLength : i < b.end \/ i \in b.end..DayLength
        BY <1>0, <3>1
      <3> QED
        BY <3>3, <3>4, <3>5, <3>6 DEF Fills
    <2>5. CASE ~(s + p.slot > HoursOn(p, d).end) /\ Clashes(p, d, s) = {}
      <3> DEFINE n == s + p.slot
      <3>1. n \in s + 1..DayLength /\ Free(p, d, s)
        BY <1>0, <2>5 DEF Free
      <3>2. F[s] = {SlotAt(p, s)} \cup F[n]
        BY <2>1, <2>5 DEF Pass
      <3>3. Fills(p, d, n, F[n])
        BY <2>2, <3>1
      <3>4. \A t \in F[n] : \E i \in n..DayLength : t = SlotAt(p, i) /\ Free(p, d, i)
        BY <3>3 DEF Fills
      <3>5. \A i \in n..DayLength : ~Meets(SlotAt(p, s), SlotAt(p, i)) /\ ~Meets(SlotAt(p, i), SlotAt(p, s))
        BY <1>0 DEF Meets, SlotAt
      <3>6. \A i \in s..DayLength : i \in n..DayLength \/ Meets(SlotAt(p, i), SlotAt(p, s))
        BY <1>0 DEF Meets, SlotAt
      <3>7. \A i \in n..DayLength : i \in s..DayLength
        BY <1>0
      <3> HIDE DEF n
      <3>8. \A t \in F[s] : \E i \in s..DayLength : t = SlotAt(p, i) /\ Free(p, d, i)
        BY <1>0, <3>1, <3>2, <3>4, <3>7
      <3>9. \A t, u \in F[s] : t # u => ~Meets(t, u)
        <4>1. \A t, u \in F[n] : t # u => ~Meets(t, u)
          BY <3>3 DEF Fills
        <4>2. \A t \in F[n] : ~Meets(SlotAt(p, s), t) /\ ~Meets(t, SlotAt(p, s))
          BY <3>4, <3>5
        <4> QED
          BY <3>2, <4>1, <4>2
      <3>10. \A i \in s..DayLength : Free(p, d, i) => \E t \in F[s] : Meets(SlotAt(p, i), t)
        BY <3>2, <3>3, <3>6 DEF Fills
      <3> QED
        BY <3>8, <3>9, <3>10 DEF Fills
    <2> QED
      BY <2>3, <2>4, <2>5
  <1> HIDE DEF S
  <1>2. \A s \in 0..DayLength : s \in S
    BY <1>0, <1>1, DownFromTheTop
  <1> QED
    BY <1>2 DEF S

\* A closure that takes the whole day
IsShut(p, d) == \E c \in ClosuresOn(p, d) : c.allDay

\* The slots of an open day: every one fits, no two meet, none is missing.
LEMMA SlotTimesFill ==
    ASSUME NEW p \in Plans, NEW d \in Int
    PROVE  /\ \A t \in SlotTimes(p, d) : \E i \in 0..DayLength :
                t = SlotAt(p, i) /\ Free(p, d, i) /\ HoursOn(p, d).start <= i /\ ~IsShut(p, d)
           /\ \A t, u \in SlotTimes(p, d) : t # u => ~Meets(t, u)
           /\ \A i \in 0..DayLength :
                Free(p, d, i) /\ HoursOn(p, d).start <= i /\ ~IsShut(p, d)
                    => \E t \in SlotTimes(p, d) : Meets(SlotAt(p, i), t)
  <1> DEFINE open == HoursOn(p, d)
  <1>0. /\ DayLength \in Nat /\ p.slot \in Nat \ {0}
        /\ open.start \in 0..DayLength /\ open.end \in 0..DayLength
    BY PlanParts, ScheduleAssumption DEF Window
  <1>1. CASE open = Closed \/ IsShut(p, d)
    <2>1. SlotTimes(p, d) = {}
      BY <1>1 DEF SlotTimes, IsShut
    <2>2. open = Closed => \A i \in 0..DayLength : ~Free(p, d, i)
      BY <1>0 DEF Closed, Free
    <2> QED
      BY <1>1, <2>1, <2>2
  <1>2. CASE ~(open = Closed \/ IsShut(p, d))
    <2>1. SlotTimes(p, d) = SlotsFrom(p, d)[open.start]
      BY <1>2 DEF SlotTimes, IsShut
    <2>2. Fills(p, d, open.start, SlotTimes(p, d))
      BY <1>0, <2>1, LoopFills
    <2>3. \A i \in 0..DayLength : open.start <= i <=> i \in open.start..DayLength
      BY <1>0
    <2>4. open.start..DayLength \subseteq 0..DayLength
      BY <1>0
    <2> HIDE DEF open
    <2> QED
      BY <1>2, <2>2, <2>3, <2>4 DEF Fills, open
  <1> QED
    BY <1>1, <1>2

-----------------------------------------------------------------------------
(* Clocks and dates                                                        *)

\* Any zone
Clock == [before : -DayLength..DayLength, after : -DayLength..DayLength, at : Int]

\* The two instants that may read so: before the change, and after it.
LEMMA ReadingsOf ==
    ASSUME NEW zone \in Clock, NEW wall \in Int, NEW i \in Int
    PROVE  /\ i \in Readings(zone, wall) <=> WallAt(zone, i) = wall
           /\ WallAt(zone, i) = wall <=> \/ i = wall - zone.before /\ i < zone.at
                                         \/ i = wall - zone.after /\ zone.at <= i
           /\ WallAt(zone, i) = wall => i \in wall - DayLength..wall + DayLength
           /\ Readings(zone, wall) \subseteq Int
  <1>1. /\ zone.before \in -DayLength..DayLength /\ zone.after \in -DayLength..DayLength /\ zone.at \in Int
        /\ DayLength \in Nat
    BY ScheduleAssumption DEF Clock
  <1>2. WallAt(zone, i) = wall <=> \/ i = wall - zone.before /\ i < zone.at
                                   \/ i = wall - zone.after /\ zone.at <= i
    BY <1>1 DEF WallAt, OffsetAt
  <1>3. WallAt(zone, i) = wall => i \in wall - DayLength..wall + DayLength
    BY <1>1, <1>2
  <1>4. WallAt(zone, i) = wall =>
            i \in {wall - OffsetAt(zone, wall - DayLength), wall - OffsetAt(zone, wall + DayLength)}
    BY <1>1, <1>2 DEF OffsetAt
  <1>5. \A w \in Int : OffsetAt(zone, w) \in Int
    BY <1>1 DEF OffsetAt
  <1> QED
    BY <1>1, <1>2, <1>3, <1>4, <1>5 DEF Readings

\* The instant of a wall-clock time that happens
LEMMA InstantOf ==
    ASSUME NEW zone \in Clock, NEW wall \in Int, Happens(zone, wall)
    PROVE  /\ Instant(zone, wall) \in Int
           /\ WallAt(zone, Instant(zone, wall)) = wall
           /\ Instant(zone, wall) = IF wall - zone.before < zone.at THEN wall - zone.before ELSE wall - zone.after
           /\ zone.at <= Instant(zone, wall) \/ wall - zone.before < zone.at
           /\ wall - zone.before < zone.at \/ zone.at <= wall - zone.after
  <1>0. zone.before \in Int /\ zone.after \in Int /\ zone.at \in Int
    BY ScheduleAssumption DEF Clock
  <1>1. Readings(zone, wall) \in SUBSET Int /\ Readings(zone, wall) # {}
    BY ReadingsOf DEF Happens
  <1>2. \A i \in Readings(zone, wall) : (i = wall - zone.before /\ i < zone.at) \/ (i = wall - zone.after /\ zone.at <= i)
    <2> SUFFICES ASSUME NEW i \in Readings(zone, wall)
                 PROVE  (i = wall - zone.before /\ i < zone.at) \/ (i = wall - zone.after /\ zone.at <= i)
      OBVIOUS
    <2>1. i \in Int
      BY <1>1
    <2>2. WallAt(zone, i) = wall
      BY <2>1, ReadingsOf
    <2> QED
      BY <2>1, <2>2, ReadingsOf
  <1>3. wall - zone.before < zone.at => wall - zone.before \in Readings(zone, wall)
    BY <1>0, ReadingsOf
  <1>4. \E low \in Int : \A i \in Readings(zone, wall) : low <= i
    BY <1>0, <1>1, <1>2
  <1>5. /\ Least(Readings(zone, wall)) \in Readings(zone, wall)
        /\ \A i \in Readings(zone, wall) : Least(Readings(zone, wall)) <= i
    BY <1>1, <1>4, LeastOf
  <1>6. Instant(zone, wall) = Least(Readings(zone, wall))
    BY DEF Instant
  <1>7. WallAt(zone, Instant(zone, wall)) = wall
    BY <1>1, <1>5, <1>6, ReadingsOf
  <1> QED
    BY <1>0, <1>1, <1>2, <1>3, <1>5, <1>6, <1>7

\* The two offsets a day away find every reading there is.
LEMMA ClockIsRight ==
    ASSUME NEW zone \in Clock, NEW wall \in Int
    PROVE  LET readings == {i \in wall - DayLength..wall + DayLength : WallAt(zone, i) = wall}
           IN  Instant(zone, wall) = IF readings # {} THEN Least(readings) ELSE wall - zone.before
  <1> DEFINE readings == {i \in wall - DayLength..wall + DayLength : WallAt(zone, i) = wall}
  <1>0. /\ zone.before \in -DayLength..DayLength /\ zone.after \in -DayLength..DayLength /\ zone.at \in Int
        /\ DayLength \in Nat
    BY ScheduleAssumption DEF Clock
  <1>1. \A i \in Int : i \in Readings(zone, wall) <=> i \in readings
    BY <1>0, ReadingsOf
  <1>2. readings \subseteq Int /\ Readings(zone, wall) \subseteq Int
    BY <1>0, ReadingsOf
  <1>3. readings = Readings(zone, wall)
    <2> HIDE DEF readings
    <2> QED
      BY <1>1, <1>2
  <1>4. Readings(zone, wall) = {} => wall - DayLength < zone.at
    <2>1. ~(wall - zone.after \in Readings(zone, wall)) => ~(zone.at <= wall - zone.after)
      BY <1>0, ReadingsOf
    <2> QED
      BY <1>0, <2>1
  <1>5. Readings(zone, wall) = {} => Instant(zone, wall) = wall - zone.before
    BY <1>4 DEF Instant, Happens, OffsetAt
  <1>6. Readings(zone, wall) # {} => Instant(zone, wall) = Least(Readings(zone, wall))
    BY DEF Instant, Happens
  <1> HIDE DEF readings
  <1> QED
    BY <1>3, <1>5, <1>6 DEF readings

\* The date of an instant is the day that its wall-clock time lies in.
LEMMA DatesOf ==
    ASSUME NEW zone \in Clock, NEW i \in Int
    PROVE  /\ DateAt(zone, i) \in Int
           /\ DateAt(zone, i) * DayLength <= WallAt(zone, i)
           /\ WallAt(zone, i) < DateAt(zone, i) * DayLength + DayLength
           /\ \A d \in Int : d * DayLength <= WallAt(zone, i) /\ WallAt(zone, i) < d * DayLength + DayLength
                => DateAt(zone, i) = d
  <1>1. DayLength \in Nat \ {0} /\ zone.before \in Int /\ zone.after \in Int /\ zone.at \in Int
    BY ScheduleAssumption DEF Clock
  <1>2. WallAt(zone, i) \in Int
    BY <1>1 DEF WallAt, OffsetAt
  <1>3. DateAt(zone, i) = WallAt(zone, i) \div DayLength
    BY DEF DateAt
  <1> DEFINE wall == WallAt(zone, i)
  <1> HIDE DEF wall
  <1>4. wall \in Int
    BY <1>2 DEF wall
  <1>5. wall \div DayLength \in Int /\ (wall \div DayLength) * DayLength <= wall /\ wall < (wall \div DayLength) * DayLength + DayLength
    BY <1>1, <1>4
  <1>6. ASSUME NEW d \in Int, d * DayLength <= wall, wall < d * DayLength + DayLength PROVE wall \div DayLength = d
    BY <1>1, <1>4, <1>6
  <1> QED
    BY <1>3, <1>5, <1>6 DEF wall

\* The slots on a date, as instants
LEMMA SlotsOnADate ==
    ASSUME NEW p \in Plans, NEW d \in Int, NEW s \in SlotsOn(p, p.zone, d)
    PROVE  \E i \in 0..DayLength :
            /\ SlotAt(p, i) \in SlotTimes(p, d) /\ i + p.slot <= DayLength
            /\ Happens(p.zone, d * DayLength + i)
            /\ s = [start |-> Instant(p.zone, d * DayLength + i), end |-> Instant(p.zone, d * DayLength + i) + p.slot]
            /\ s.start \in Int /\ WallAt(p.zone, s.start) = d * DayLength + i /\ DateAt(p.zone, s.start) = d
  <1>0. p.zone \in Clock /\ DayLength \in Nat \ {0} /\ p.slot \in Nat \ {0} /\ HoursOn(p, d).end \in 0..DayLength
    BY PlanParts, ScheduleAssumption DEF Clock, Window
  <1>1. PICK t \in SlotTimes(p, d) :
            /\ Happens(p.zone, d * DayLength + t.start)
            /\ s = [start |-> Instant(p.zone, d * DayLength + t.start), end |-> Instant(p.zone, d * DayLength + t.start) + p.slot]
    BY DEF SlotsOn
  <1>2. PICK i \in 0..DayLength : t = SlotAt(p, i) /\ Free(p, d, i)
    BY SlotTimesFill
  <1>3. t.start = i /\ i + p.slot <= DayLength
    BY <1>0, <1>2 DEF SlotAt, Free
  <1>4. d * DayLength \in Int /\ d * DayLength + i \in Int
    BY <1>0
  <1>5. s.start = Instant(p.zone, d * DayLength + i) /\ s.start \in Int /\ WallAt(p.zone, s.start) = d * DayLength + i
    BY <1>0, <1>1, <1>3, <1>4, InstantOf
  <1>6. d * DayLength <= d * DayLength + i /\ d * DayLength + i < d * DayLength + DayLength
    BY <1>0, <1>3, <1>4
  <1>7. DateAt(p.zone, s.start) = d
    <2>1. \A e \in Int : e * DayLength <= WallAt(p.zone, s.start) /\ WallAt(p.zone, s.start) < e * DayLength + DayLength
            => DateAt(p.zone, s.start) = e
      BY <1>0, <1>5, DatesOf
    <2>2. d * DayLength <= WallAt(p.zone, s.start) /\ WallAt(p.zone, s.start) < d * DayLength + DayLength
      BY <1>5, <1>6
    <2> QED
      BY <2>1, <2>2
  <1> QED
    BY <1>1, <1>2, <1>3, <1>5, <1>7

\* Slots in order on the wall are in order in time, unless clocks are put
\* forward during the first.
LEMMA ClocksKeepApart ==
    ASSUME NEW zone \in Clock, NEW v \in Int, NEW w \in Int, NEW slot \in Nat \ {0},
           Happens(zone, v), Happens(zone, w), v + slot <= w, Instant(zone, w) < Instant(zone, v) + slot
    PROVE  zone.before < zone.after /\ Instant(zone, v) < zone.at /\ zone.at < Instant(zone, v) + slot
  <1>0. zone.before \in Int /\ zone.after \in Int /\ zone.at \in Int
    BY ScheduleAssumption DEF Clock
  <1>1. /\ Instant(zone, v) = IF v - zone.before < zone.at THEN v - zone.before ELSE v - zone.after
        /\ v - zone.before < zone.at \/ zone.at <= v - zone.after
    BY InstantOf
  <1>2. /\ Instant(zone, w) = IF w - zone.before < zone.at THEN w - zone.before ELSE w - zone.after
        /\ w - zone.before < zone.at \/ zone.at <= w - zone.after
    BY InstantOf
  <1> QED
    BY <1>0, <1>1, <1>2

\* On the wall, slots never meet, those of different days included.
LEMMA DaysKeepApart ==
    ASSUME NEW p \in Plans, NEW d \in Int, NEW e \in Int, NEW i \in 0..DayLength, NEW j \in 0..DayLength,
           SlotAt(p, i) \in SlotTimes(p, d), i + p.slot <= DayLength,
           SlotAt(p, j) \in SlotTimes(p, e), d * DayLength + i < e * DayLength + j
    PROVE  d * DayLength + i + p.slot <= e * DayLength + j
  <1>0. DayLength \in Nat \ {0} /\ p.slot \in Nat \ {0}
    BY PlanParts, ScheduleAssumption
  <1>1. CASE d = e
    <2>1. i < j
      BY <1>0, <1>1
    <2>2. SlotAt(p, i) # SlotAt(p, j)
      BY <2>1 DEF SlotAt
    <2>3. ~Meets(SlotAt(p, i), SlotAt(p, j))
      BY <1>1, <2>2, SlotTimesFill
    <2>4. i + p.slot <= j
      BY <1>0, <2>1, <2>3 DEF Meets, SlotAt
    <2> QED
      BY <1>0, <1>1, <2>4
  <1>2. CASE d < e
    <2>1. d * DayLength + DayLength <= e * DayLength
      BY <1>0, <1>2
    <2>2. d * DayLength \in Int /\ e * DayLength \in Int
      BY <1>0
    <2> QED
      BY <1>0, <2>1, <2>2
  <1>3. CASE e < d
    <2>1. e * DayLength + DayLength <= d * DayLength
      BY <1>0, <1>3
    <2>2. d * DayLength \in Int /\ e * DayLength \in Int
      BY <1>0
    <2>3. FALSE
      BY <1>0, <2>1, <2>2
    <2> QED
      BY <2>3
  <1> QED
    BY <1>1, <1>2, <1>3

-----------------------------------------------------------------------------
(* What the schedule computes                                              *)

\* Two that meet are two on the wall, so the clocks went forward in the first.
LEMMA SlotsAreApart ==
    ASSUME plan \in Plans
    PROVE  SlotsStayApart
  <1> DEFINE zone == plan.zone
  <1>0. zone \in Clock /\ zone.before \in Int /\ zone.after \in Int /\ zone.at \in Int
        /\ DayLength \in Nat \ {0} /\ plan.slot \in Nat \ {0} /\ plan.now \in Int
    BY PlanParts, ScheduleAssumption DEF Clock
  <1>1. Today \in Int /\ \A d \in Days : d \in Int
    <2>1. Today \in Int
      BY <1>0, DatesOf DEF Today
    <2> QED
      BY <2>1 DEF Days
  <1> SUFFICES ASSUME NEW d \in Int, NEW e \in Int,
                      NEW s \in SlotsOn(plan, zone, d), NEW t \in SlotsOn(plan, zone, e), s # t, Meets(s, t)
               PROVE  zone.before < zone.after /\ \E x \in {s, t} : x.start < zone.at /\ zone.at < x.end
    BY <1>1 DEF SlotsStayApart
  <1> DEFINE At(x, w) ==
                /\ Happens(zone, w)
                /\ x.start = Instant(zone, w) /\ x.end = Instant(zone, w) + plan.slot
                /\ x = [start |-> Instant(zone, w), end |-> Instant(zone, w) + plan.slot]
  <1>2. PICK i \in 0..DayLength :
            SlotAt(plan, i) \in SlotTimes(plan, d) /\ i + plan.slot <= DayLength /\ At(s, d * DayLength + i)
    <2> HIDE DEF zone
    <2> QED
      BY SlotsOnADate DEF zone
  <1>3. PICK j \in 0..DayLength :
            SlotAt(plan, j) \in SlotTimes(plan, e) /\ j + plan.slot <= DayLength /\ At(t, e * DayLength + j)
    <2> HIDE DEF zone
    <2> QED
      BY SlotsOnADate DEF zone
  <1> DEFINE v == d * DayLength + i
             w == e * DayLength + j
  <1>4. v \in Int /\ w \in Int
    BY <1>0
  <1>5. v # w
    BY <1>2, <1>3
  <1>6. v < w => v + plan.slot <= w
    BY <1>2, <1>3, DaysKeepApart
  <1>7. w < v => w + plan.slot <= v
    BY <1>2, <1>3, DaysKeepApart
  <1> HIDE DEF v, w, zone
  <1>8. t.start < s.end /\ s.start < t.end
    BY DEF Meets
  <1>9. CASE v < w
    <2>1. Instant(zone, w) < Instant(zone, v) + plan.slot
      BY <1>2, <1>3, <1>8 DEF v, w
    <2>2. Happens(zone, v) /\ Happens(zone, w)
      BY <1>2, <1>3 DEF v, w
    <2>3. zone.before < zone.after /\ Instant(zone, v) < zone.at /\ zone.at < Instant(zone, v) + plan.slot
      BY <1>0, <1>4, <1>6, <1>9, <2>1, <2>2, ClocksKeepApart
    <2> QED
      BY <1>2, <2>3 DEF v
  <1>10. CASE w < v
    <2>1. Instant(zone, v) < Instant(zone, w) + plan.slot
      BY <1>2, <1>3, <1>8 DEF v, w
    <2>2. Happens(zone, v) /\ Happens(zone, w)
      BY <1>2, <1>3 DEF v, w
    <2>3. zone.before < zone.after /\ Instant(zone, w) < zone.at /\ zone.at < Instant(zone, w) + plan.slot
      BY <1>0, <1>4, <1>7, <1>10, <2>1, <2>2, ClocksKeepApart
    <2> QED
      BY <1>3, <2>3 DEF w
  <1> QED
    BY <1>4, <1>5, <1>9, <1>10

\* A wall-clock time is the first instant that reads so.
LEMMA ClocksAreRight ==
    ASSUME plan \in Plans
    PROVE  ClocksAgree
  <1>0. plan.zone \in Clock /\ DayLength \in Nat \ {0} /\ plan.now \in Int
    BY PlanParts, ScheduleAssumption DEF Clock
  <1>1. Today \in Int
    BY <1>0, DatesOf DEF Today
  <1>2. \A wall \in (Today - 1) * DayLength..(Today + 2) * DayLength : wall \in Int
    BY <1>0, <1>1
  <1> QED
    BY <1>0, <1>2, ClockIsRight DEF ClocksAgree

\* The slots of a day are what SlotTimesFill says, in the words of the run.
LEMMA TheDayIsFilled ==
    ASSUME plan \in Plans
    PROVE  SlotsFillTheDay
  <1>0. plan.zone \in Clock /\ DayLength \in Nat \ {0} /\ plan.now \in Int /\ plan.slot \in Nat \ {0}
    BY PlanParts, ScheduleAssumption DEF Clock
  <1>1. Today \in Int /\ \A d \in Days : d \in Int
    <2>1. Today \in Int
      BY <1>0, DatesOf DEF Today
    <2> QED
      BY <2>1 DEF Days
  <1> DEFINE Fits(d, w) ==
                /\ HoursOn(plan, d).start <= w.start /\ w.end <= HoursOn(plan, d).end
                /\ ~(\E c \in plan.closures : c.date = d /\ c.allDay)
                /\ \A b \in BreaksOn(plan, d) : ~Meets(w, b)
  <1>2. ASSUME NEW d \in Int, NEW i \in 0..DayLength
        PROVE  Fits(d, SlotAt(plan, i)) <=> Free(plan, d, i) /\ HoursOn(plan, d).start <= i /\ ~IsShut(plan, d)
    BY DEF Free, Clashes, SlotAt, IsShut, ClosuresOn
  <1>3. ASSUME NEW d \in Int
        PROVE  /\ \A s \in SlotTimes(plan, d) : Fits(d, s) /\ s.end = s.start + plan.slot
               /\ \A s, t \in SlotTimes(plan, d) : s # t => ~Meets(s, t)
               /\ \A i \in 0..DayLength : Fits(d, SlotAt(plan, i)) => \E s \in SlotTimes(plan, d) : Meets(SlotAt(plan, i), s)
    <2>1. \A i \in 0..DayLength : SlotAt(plan, i).end = SlotAt(plan, i).start + plan.slot
      BY DEF SlotAt
    <2> HIDE DEF Fits
    <2> QED
      BY <1>2, <2>1, SlotTimesFill
  <1>4. \A i \in 0..DayLength - plan.slot : i \in 0..DayLength
    BY <1>0
  <1>5. \A i \in 0..DayLength : [start |-> i, end |-> i + plan.slot] = SlotAt(plan, i)
    BY DEF SlotAt
  <1>6. \A v, w : Meets(v, w) => Meets(w, v)
    BY DEF Meets
  <1>7. ASSUME NEW d \in Days, NEW i \in 0..DayLength - plan.slot, Fits(d, SlotAt(plan, i))
        PROVE  \E s \in SlotTimes(plan, d) : Meets(s, SlotAt(plan, i))
    <2> HIDE DEF Fits
    <2> QED
      BY <1>1, <1>3, <1>4, <1>6, <1>7
  <1>8. \A d \in Days : \A i \in 0..DayLength - plan.slot :
            LET w == [start |-> i, end |-> i + plan.slot]
            IN  Fits(d, w) => \E s \in SlotTimes(plan, d) : Meets(s, w)
    <2> HIDE DEF Fits
    <2> QED
      BY <1>4, <1>5, <1>7
  <1>9. \A d \in Days : /\ \A s \in SlotTimes(plan, d) : Fits(d, s) /\ s.end = s.start + plan.slot
                       /\ \A s, t \in SlotTimes(plan, d) : s # t => ~Meets(s, t)
    <2> HIDE DEF Fits
    <2> QED
      BY <1>1, <1>3
  <1> QED
    BY <1>8, <1>9 DEF SlotsFillTheDay

\* A slot of date d starts on date d, where the server looks for it.
LEMMA OffersAreTaken ==
    ASSUME plan \in Plans
    PROVE  OfferedIsTaken
  <1> DEFINE zone == plan.zone
             from == BookableFrom(plan, plan.audience, plan.now)
             Offered(d) == Offers(plan, zone, d, plan.audience, plan.now, plan.taken)
  <1>0. zone \in Clock /\ plan.now \in Int /\ plan.notice \in Nat
    BY PlanParts DEF Clock
  <1>1. Today \in Int /\ \A d \in Days : d \in Int
    <2>1. Today \in Int
      BY <1>0, DatesOf DEF Today
    <2> QED
      BY <2>1 DEF Days
  <1>2. from \in Int /\ from >= plan.now
    BY <1>0 DEF BookableFrom
  <1>3. ASSUME NEW d \in Int, NEW s \in FreeSlots(Offered(d))
        PROVE  /\ s \in SlotsOn(plan, zone, d) /\ s.start >= from /\ \A b \in plan.taken : ~Meets(s, b)
    <2>1. PICK o \in Offered(d) : o.available /\ s = o.slot
      BY <1>3 DEF FreeSlots
    <2>2. PICK u \in SlotsOn(plan, zone, d) :
            u.start >= from /\ o = [slot |-> u, available |-> ~\E b \in plan.taken : Meets(u, b)]
      BY <2>1 DEF Offers
    <2>3. s = u /\ ~\E b \in plan.taken : Meets(u, b)
      BY <2>1, <2>2
    <2> QED
      BY <2>2, <2>3
  <1> HIDE DEF Offered
  <1>4. ASSUME NEW d \in Int, NEW s \in FreeSlots(Offered(d))
        PROVE  s.start \in Int /\ Bookable(plan, zone, s, plan.audience, plan.now)
    <2>1. s \in SlotsOn(plan, zone, d) /\ s.start >= from
      BY <1>3
    <2>2. s.start \in Int /\ DateAt(zone, s.start) = d
      BY <2>1, SlotsOnADate
    <2> QED
      BY <1>0, <1>2, <2>1, <2>2 DEF Bookable
  <1>5. ASSUME NEW d \in Int, FreeSlots(Offered(d)) # {}
        PROVE  Picked(Offered(d), Closed) \in FreeSlots(Offered(d))
    <2> DEFINE free == FreeSlots(Offered(d))
               starts == {s.start : s \in free}
    <2>1. starts \in SUBSET Int /\ starts # {} /\ \A i \in starts : from <= i
      BY <1>2, <1>3, <1>4, <1>5
    <2> HIDE DEF from
    <2>2. Least(starts) \in starts /\ \A i \in starts : Least(starts) <= i
      BY <1>2, <2>1, LeastOf
    <2>3. PICK s \in free : s.start = Least(starts)
      BY <2>2
    <2>4. \A u \in free : u.start \in starts
      OBVIOUS
    <2>5. \A u \in free : s.start <= u.start
      BY <2>2, <2>3, <2>4
    <2> HIDE DEF free, starts
    <2>6. (CHOOSE t \in free : \A u \in free : t.start <= u.start) \in free
      BY <2>3, <2>5
    <2> QED
      BY <2>6 DEF Picked, free
  <1>6. \A d \in Int :
            /\ \A s \in FreeSlots(Offered(d)) :
                Bookable(plan, zone, s, plan.audience, plan.now) /\ \A b \in plan.taken : ~Meets(s, b)
            /\ FreeSlots(Offered(d)) # {} => Picked(Offered(d), Closed) \in FreeSlots(Offered(d))
    BY <1>3, <1>4, <1>5
  <1> QED
    BY <1>1, <1>6 DEF OfferedIsTaken, Offered

\* The last date the search looks at
LEMMA LastDateOf ==
    ASSUME NEW p \in Plans, NEW first \in Int
    PROVE  /\ LastDate(p, first) \in Int /\ first + Week <= LastDate(p, first)
           /\ \A c \in p.closures : c.date + Week <= LastDate(p, first)
  <1> DEFINE dates == {c.date : c \in p.closures}
             closed == dates \cup {first}
             top == CHOOSE d \in closed : \A e \in closed : e <= d
  <1>0. Week \in Nat /\ IsFiniteSet(p.closures) /\ \A c \in p.closures : c.date \in Int
    BY PlanParts, ScheduleAssumption
  <1>1. IsFiniteSet(dates)
    <2> DEFINE f == [c \in p.closures |-> c.date]
    <2>1. f \in Surjection(p.closures, dates)
      BY DEF Surjection
    <2> QED
      BY <1>0, <2>1, FS_Surjection
  <1>2. IsFiniteSet(closed) /\ closed \in SUBSET Int /\ closed # {}
    BY <1>0, <1>1, FS_AddElement
  <1>3. \E d \in closed : \A e \in closed : e <= d
    <2> HIDE DEF closed
    <2> QED
      BY <1>2, GreatestOf
  <1>4. top \in closed /\ \A e \in closed : e <= top
    <2> HIDE DEF closed
    <2> QED
      BY <1>3
  <1>5. LastDate(p, first) = top + Week
    BY DEF LastDate
  <1> HIDE DEF top
  <1>6. \A c \in p.closures : c.date \in closed
    OBVIOUS
  <1>7. first \in closed
    OBVIOUS
  <1> HIDE DEF closed
  <1> QED
    BY <1>0, <1>2, <1>4, <1>5, <1>6, <1>7

\* Opening hours repeat every week.
LEMMA HoursRepeat ==
    ASSUME NEW p, NEW d \in Int
    PROVE  HoursOn(p, d - Week) = HoursOn(p, d)
  <1> DEFINE e == d - Week
             q == d \div Week
             r == d % Week
             a == Week * (q - 1)
  <1>0. Week \in Nat \ {0} /\ e \in Int
    BY ScheduleAssumption
  <1>1. q \in Int /\ r \in 0..Week - 1 /\ d = Week * q + r
    BY <1>0, Division
  <1>2. e = a + r
    <2>1. a = Week * q - Week
      BY <1>0, <1>1
    <2>2. Week * q \in Int
      BY <1>0, <1>1
    <2> QED
      BY <1>0, <1>1, <2>1, <2>2
  <1>3. a \in Int
    BY <1>0, <1>1
  <1> HIDE DEF q, r, e
  <1>4. e \div Week = q - 1
    BY <1>0, <1>1, <1>2
  <1>5. e % Week \in 0..Week - 1 /\ e = Week * (e \div Week) + (e % Week)
    BY <1>0, Division
  <1>6. e = a + (e % Week)
    BY <1>4, <1>5
  <1> HIDE DEF a
  <1>7. e % Week = r
    BY <1>0, <1>1, <1>2, <1>3, <1>5, <1>6
  <1> QED
    BY <1>7 DEF HoursOn, e, r

\* Past the last closure every week is like the one before, so that a slot on a
\* later date has one like it on a date that was searched.
LEMMA TheEarliestIsFirst ==
    ASSUME plan \in Plans
    PROVE  EarliestIsFirst
  <1> DEFINE zone == plan.zone
             from == BookableFrom(plan, plan.audience, plan.now)
             first == DateAt(zone, from)
             last == LastDate(plan, first)
             HasSlot(d) == \E s \in SlotsOn(plan, zone, d) : s.start >= from
             dates == {d \in first..last : HasSlot(d)}
             found == EarliestDate(plan, zone, from)
  <1>0. /\ zone \in Clock /\ zone.before \in -DayLength..DayLength /\ zone.after \in -DayLength..DayLength
        /\ plan.now \in Nat /\ plan.now >= DayLength /\ plan.notice \in Nat
        /\ DayLength \in Nat \ {0} /\ Week \in Nat \ {0} /\ plan.slot \in Nat \ {0}
    <2>1. plan.now \in Now
      BY DEF Plans
    <2>2. plan.now \in Nat /\ plan.now >= DayLength
      BY <2>1, ScheduleAssumption
    <2> QED
      BY <2>2, PlanParts, ScheduleAssumption DEF Clock
  <1>1. from \in Nat /\ from >= DayLength
    BY <1>0 DEF BookableFrom
  <1> HIDE DEF from
  <1>2. first \in Nat /\ WallAt(zone, from) < first * DayLength + DayLength
    <2>1. /\ first \in Int
          /\ WallAt(zone, from) < first * DayLength + DayLength
      BY <1>0, <1>1, DatesOf
    <2>2. WallAt(zone, from) >= 0
      BY <1>0, <1>1 DEF WallAt, OffsetAt
    <2> HIDE DEF first
    <2>3. WallAt(zone, from) \in Int
      BY <1>0, <1>1 DEF WallAt, OffsetAt
    <2>4. first * DayLength + DayLength > 0
      BY <1>0, <2>1, <2>2, <2>3
    <2>5. CASE first < 0
      <3>1. first * DayLength + DayLength <= 0
        BY <1>0, <2>1, <2>5
      <3>2. first * DayLength \in Int
        BY <1>0, <2>1
      <3> QED
        BY <1>0, <2>4, <3>1, <3>2
    <2> QED
      BY <2>1, <2>5
  <1> HIDE DEF first
  <1>3. last \in Int /\ first + Week <= last /\ \A c \in plan.closures : c.date + Week <= last
    BY <1>2, LastDateOf
  <1> HIDE DEF last
  <1>4. found = IF dates = {} THEN None ELSE Least(dates)
    BY DEF EarliestDate, first, last
  <1> HIDE DEF found, HasSlot
  <1>5. CASE dates # {}
    <2>1. dates \in SUBSET Int /\ \A d \in dates : first <= d
      BY <1>2, <1>3
    <2>2. found \in dates /\ \A d \in dates : found <= d
      <3>1. found = Least(dates)
        BY <1>4, <1>5
      <3>2. first \in Int /\ dates # {}
        BY <1>2, <1>5
      <3> HIDE DEF dates
      <3> QED
        BY <2>1, <3>1, <3>2, LeastOf
    <2>3. found # None /\ HasSlot(found)
      BY <1>2, <2>1, <2>2 DEF None
    <2>4. ASSUME NEW d \in first..found - 1, HasSlot(d) PROVE FALSE
      <3>1. d \in dates /\ d < found
        BY <1>2, <1>3, <2>1, <2>2, <2>4
      <3> QED
        BY <1>2, <2>1, <2>2, <3>1
    <2> QED
      BY <2>3, <2>4 DEF EarliestIsFirst, found, HasSlot, first, from
  <1>6. CASE dates = {}
    <2>1. found = None
      BY <1>4, <1>6
    <2>2. ASSUME zone.before = zone.after, NEW d \in last + 1..last + Week, HasSlot(d)
          PROVE  FALSE
      <3> DEFINE e == d - Week
      <3>1. d \in Int /\ e \in first + 1..last /\ e \in Int
        BY <1>0, <1>2, <1>3, <2>2
      <3>2. HoursOn(plan, e) = HoursOn(plan, d)
        BY <3>1, HoursRepeat
      <3>3. \A c \in plan.closures : c.date # d /\ c.date # e
        <4>1. \A c \in plan.closures : c.date \in Int
          BY PlanParts
        <4> QED
          BY <1>0, <1>3, <2>2, <4>1
      <3> HIDE DEF e
      <3>4. ClosuresOn(plan, d) = {} /\ ClosuresOn(plan, e) = {}
        BY <3>3 DEF ClosuresOn
      <3>5. \A i : Free(plan, e, i) <=> Free(plan, d, i)
        BY <3>2, <3>4 DEF Free, Clashes, BreaksOn
      <3>6. ~IsShut(plan, e)
        BY <3>4 DEF IsShut
      <3>7. PICK s \in SlotsOn(plan, zone, d) : TRUE
        BY <2>2 DEF HasSlot
      <3>8. PICK t \in SlotTimes(plan, d) : TRUE
        BY <3>7 DEF SlotsOn
      <3>9. PICK i \in 0..DayLength : Free(plan, d, i) /\ HoursOn(plan, d).start <= i
        BY <3>1, <3>8, SlotTimesFill
      <3>10. PICK u \in SlotTimes(plan, e) : TRUE
        BY <3>1, <3>2, <3>5, <3>6, <3>9, SlotTimesFill
      <3>11. PICK j \in 0..DayLength : u = SlotAt(plan, j)
        BY <3>1, SlotTimesFill
      <3> DEFINE wall == e * DayLength + j
                 slot == [start |-> Instant(zone, wall), end |-> Instant(zone, wall) + plan.slot]
      <3>12. wall \in Int /\ wall >= first * DayLength + DayLength
        <4>1. e * DayLength \in Int /\ first * DayLength \in Int
          BY <1>0, <1>2, <3>1
        <4>2. first * DayLength + DayLength <= e * DayLength
          BY <1>0, <1>2, <3>1
        <4> QED
          BY <1>0, <4>1, <4>2
      <3>13. Happens(zone, wall)
        <4> HIDE DEF wall
        <4>0. zone.before \in Int /\ zone.at \in Int /\ zone.after \in Int
          BY <1>0 DEF Clock
        <4>1. wall - zone.before \in Int
          BY <3>12, <4>0
        <4>2. WallAt(zone, wall - zone.before) = wall
          BY <2>2, <3>12, <4>0 DEF WallAt, OffsetAt
        <4> QED
          BY <1>0, <3>12, <4>1, <4>2, ReadingsOf DEF Happens
      <3>14. slot \in SlotsOn(plan, zone, e)
        <4>1. u.start = j
          BY <3>11 DEF SlotAt
        <4>2. u \in {x \in SlotTimes(plan, e) : Happens(zone, e * DayLength + x.start)}
          BY <3>10, <3>13, <4>1
        <4> QED
          BY <4>1, <4>2 DEF SlotsOn
      <3>15. slot.start >= from
        <4> HIDE DEF wall
        <4>1. Instant(zone, wall) \in Int /\ WallAt(zone, Instant(zone, wall)) = wall
          BY <1>0, <3>12, <3>13, InstantOf
        <4>2. first * DayLength \in Int
          BY <1>0, <1>2
        <4>3. zone.before \in Int /\ zone.after \in Int
          BY <1>0 DEF Clock
        <4> QED
          BY <1>0, <1>1, <1>2, <2>2, <3>12, <4>1, <4>2, <4>3 DEF WallAt, OffsetAt
      <3>16. e \in first..last
        BY <1>2, <1>3, <3>1
      <3>17. e \in dates
        BY <3>14, <3>15, <3>16 DEF HasSlot
      <3> QED
        BY <1>6, <3>17
    <2> QED
      BY <2>1, <2>2 DEF EarliestIsFirst, found, HasSlot, first, last, from
  <1> QED
    BY <1>5, <1>6

LayersCase == [kind : {"layers"}, own : Layer, company : Layer, default : Setting, holidays : SUBSET LayerClosure]

\* What a form shows of a field is what the scope uses.
LEMMA LayersAreKept ==
    ASSUME plan \in LayersCase
    PROVE  EditorKeepsLayers
  <1> DEFINE own == plan.own
             company == plan.company
             beneath == Resolve(NoLayer, company, plan.default, plan.holidays)
             form == ToForm(own, beneath)
             effective == Resolve(own, company, plan.default, plan.holidays)
  <1>1. own \in Layer /\ company \in Layer
    BY DEF LayersCase
  <1>2. own.field \in [Field -> Setting \cup {Unset}] /\ own = [field |-> own.field, closures |-> own.closures]
    BY <1>1 DEF Layer
  <1>3. beneath.field = [f \in Field |-> IF company.field[f] # Unset THEN company.field[f] ELSE plan.default]
    BY DEF Resolve, NoLayer
  <1>4. form.on = {f \in Field : own.field[f] # Unset}
        /\ form.shown = [f \in Field |-> IF own.field[f] # Unset THEN own.field[f] ELSE beneath.field[f]]
        /\ form.closures = own.closures
    BY DEF ToForm
  <1>5. ToLayer(form) = own
    <2> HIDE DEF form, own
    <2>1. ToLayer(form).field = own.field
      BY <1>2, <1>4 DEF ToLayer
    <2>2. ToLayer(form) = [field |-> ToLayer(form).field, closures |-> own.closures]
      BY <1>4 DEF ToLayer
    <2> QED
      BY <1>2, <2>1, <2>2
  <1>6. ASSUME NEW f \in Field
        PROVE  Resolve(ToLayer(Switched(form, f)), company, plan.default, plan.holidays) = effective
    <2> DEFINE saved == ToLayer(Switched(form, f))
    <2>1. Switched(form, f).on = form.on \cup {f} /\ Switched(form, f).shown = form.shown
          /\ Switched(form, f).closures = own.closures
      BY DEF Switched, ToForm
    <2> HIDE DEF form, own, company, beneath
    <2>2. saved.closures = own.closures
          /\ saved.field = [g \in Field |-> IF g \in form.on \cup {f} THEN form.shown[g] ELSE Unset]
      BY <2>1 DEF ToLayer
    <2> HIDE DEF saved
    <2>3. plan.default \in Setting
      BY DEF LayersCase
    <2>4. \A g \in Field :
            (IF saved.field[g] # Unset THEN saved.field[g]
             ELSE IF company.field[g] # Unset THEN company.field[g] ELSE plan.default)
            = (IF own.field[g] # Unset THEN own.field[g]
               ELSE IF company.field[g] # Unset THEN company.field[g] ELSE plan.default)
      BY <1>3, <1>4, <2>2, <2>3, UnsetAssumption
    <2> QED
      BY <2>2, <2>4 DEF Resolve, saved
  <1>7. own.closures \cup company.closures \cup plan.holidays \subseteq effective.closures
    BY DEF Resolve
  <1> QED
    BY <1>5, <1>6, <1>7 DEF EditorKeepsLayers

PlanOK == plan \in {NoPlan} \cup Plans \cup LayersCase

\* Every case is computed as it should be.
LEMMA PlanIsRight ==
    ASSUME PlanOK
    PROVE  ScheduleIsSound
  <1>1. CASE plan = NoPlan
    BY <1>1 DEF NoPlan, ScheduleIsSound
  <1>2. CASE plan \in Plans
    BY <1>2, PlanParts, ClocksAreRight, TheDayIsFilled, SlotsAreApart, OffersAreTaken, TheEarliestIsFirst
       DEF ScheduleIsSound
  <1>3. CASE plan \in LayersCase
    <2>1. plan.kind = "layers"
      BY <1>3 DEF LayersCase
    <2> QED
      BY <1>3, <2>1, LayersAreKept DEF ScheduleIsSound
  <1> QED
    BY <1>1, <1>2, <1>3 DEF PlanOK

\* Whatever the opening hours, breaks, closures, lengths, notices, zones,
\* instants and layers, the schedule computes what it should.
THEOREM ScheduleIsSoundTheorem == ScheduleSpec => []ScheduleIsSound
  <1>1. ScheduleInit => PlanOK
    BY DEF ScheduleInit, PlanOK
  <1>2. PlanOK /\ [ScheduleNext]_plan => PlanOK'
    <2> SUFFICES ASSUME PlanOK, [ScheduleNext]_plan PROVE PlanOK'
      OBVIOUS
    <2>1. CASE DrawDay
      BY <2>1 DEF DrawDay, PlanOK
    <2>2. CASE DrawLayers
      BY <2>2 DEF DrawLayers, PlanOK, LayersCase
    <2>3. CASE UNCHANGED plan
      BY <2>3 DEF PlanOK
    <2> QED
      BY <2>1, <2>2, <2>3 DEF ScheduleNext
  <1>3. PlanOK => ScheduleIsSound
    BY PlanIsRight
  <1> QED
    BY <1>1, <1>2, <1>3, PTL DEF ScheduleSpec

-----------------------------------------------------------------------------
(* Counting                                                                *)

\* A multiple below every number, and only one within reach
LEMMA Multiples ==
    ASSUME NEW n \in Nat \ {0}, NEW x \in Int
    PROVE  /\ x - (x % n) \in Int /\ (x - (x % n)) % n = 0
           /\ x - (x % n) <= x /\ x < x - (x % n) + n
           /\ \A y, z \in Int : y % n = 0 /\ z % n = 0 /\ y <= x /\ x < y + n /\ z <= x /\ x < z + n => y = z
  <1> DEFINE q == x \div n
             m == x - (x % n)
  <1>1. q \in Int /\ x % n \in 0..n - 1 /\ x = n * q + (x % n)
    BY Division
  <1>2. m = n * q /\ m \in Int
    BY <1>1
  <1>3. m <= x /\ x < m + n
    BY <1>1
  <1>4. m % n = 0
    <2> HIDE DEF m, q
    <2>1. m \div n = q
      BY <1>1, <1>2
    <2>2. m % n \in 0..n - 1 /\ m = n * (m \div n) + (m % n)
      BY <1>2, Division
    <2> DEFINE p == n * q
    <2>3. p \in Int /\ m = p /\ m = p + (m % n)
      BY <1>1, <1>2, <2>1, <2>2
    <2> HIDE DEF p
    <2> QED
      BY <2>2, <2>3
  <1>5. ASSUME NEW y \in Int, NEW z \in Int, y % n = 0, z % n = 0, y <= x, x < y + n, z <= x, x < z + n
        PROVE  y = z
    <2> DEFINE a == y \div n
               b == z \div n
    <2>1. a \in Int /\ b \in Int /\ y = n * a /\ z = n * b
      <3>1. y = n * a + (y % n) /\ z = n * b + (z % n) /\ a \in Int /\ b \in Int
        BY Division
      <3> HIDE DEF a, b
      <3>2. n * a \in Int /\ n * b \in Int
        BY <3>1
      <3> QED
        BY <1>5, <3>1, <3>2
    <2> HIDE DEF a, b
    <2>2. a < b => n * a + n <= n * b
      BY <2>1
    <2>3. b < a => n * b + n <= n * a
      BY <2>1
    <2>4. a = b
      BY <1>5, <2>1, <2>2, <2>3
    <2> QED
      BY <2>1, <2>4
  <1> QED
    BY <1>2, <1>3, <1>4, <1>5

\* A multiple has no remainder.
LEMMA NoRemainder ==
    ASSUME NEW n \in Nat \ {0}, NEW d \in Int
    PROVE  d * n \in Int /\ (d * n) % n = 0
  <1> DEFINE m == d * n
  <1>1. m \in Int /\ m = n * d
    OBVIOUS
  <1>2. m <= m /\ m < m + n
    OBVIOUS
  <1> HIDE DEF m
  <1>3. m % n \in 0..n - 1 /\ m \div n \in Int /\ m = n * (m \div n) + (m % n)
    BY <1>1, Division
  <1>4. m \div n = d
    <2> DEFINE q == m \div n
    <2> HIDE DEF q
    <2>1. q < d => n * q + n <= n * d
      BY <1>3 DEF q
    <2>2. d < q => n * d + n <= n * q
      BY <1>3 DEF q
    <2>3. n * q \in Int /\ n * d \in Int
      BY <1>3 DEF q
    <2> QED
      BY <1>1, <1>3, <2>1, <2>2, <2>3 DEF q
  <1>5. m % n = 0
    <2> DEFINE k == n * d
    <2>1. m = k /\ m = k + (m % n) /\ k \in Int
      BY <1>1, <1>3, <1>4
    <2> HIDE DEF k
    <2> QED
      BY <1>3, <2>1
  <1> QED
    BY <1>1, <1>5 DEF m

\* Sets of which each element answers to one of the other's are as large.
LEMMA SameNumber ==
    ASSUME NEW S, IsFiniteSet(S), NEW T, NEW f \in [S -> T],
           \A a, b \in S : f[a] = f[b] => a = b, \A t \in T : \E s \in S : f[s] = t
    PROVE  IsFiniteSet(T) /\ Cardinality(T) = Cardinality(S)
  <1>1. f \in Bijection(S, T)
    BY Fun_IsBij
  <1>2. ExistsBijection(S, T)
    BY <1>1 DEF ExistsBijection
  <1> QED
    BY <1>2, FS_Bijection

\* A set in two parts
LEMMA TwoParts ==
    ASSUME NEW S, IsFiniteSet(S), NEW A, NEW B, S = A \cup B, A \cap B = {}
    PROVE  /\ IsFiniteSet(A) /\ IsFiniteSet(B) /\ Cardinality(A) \in Nat /\ Cardinality(B) \in Nat
           /\ Cardinality(S) = Cardinality(A) + Cardinality(B)
  <1>1. IsFiniteSet(A) /\ IsFiniteSet(B)
    <2>1. A \in SUBSET S /\ B \in SUBSET S
      OBVIOUS
    <2> QED
      BY <2>1, FS_Subset
  <1>2. Cardinality(A) \in Nat /\ Cardinality(B) \in Nat
    BY <1>1, FS_CardinalityType
  <1>3. Cardinality(A \cup B) = Cardinality(A) + Cardinality(B) - Cardinality(A \cap B)
    BY <1>1, FS_Union
  <1>4. Cardinality(A \cap B) = 0
    BY FS_EmptySet
  <1> QED
    BY <1>1, <1>2, <1>3, <1>4

\* What is counted by a property of its elements adds up to the whole.
LEMMA TotalOf ==
    ASSUME NEW R, IsFiniteSet(R), NEW D, NEW g \in [R -> D], NEW f, DOMAIN f = D,
           \A x \in D : f[x] = Cardinality({r \in R : g[r] = x})
    PROVE  Total(f) = Cardinality(R)
  <1> DEFINE Fibre(x) == {r \in R : g[r] = x}
             number == [x \in D |-> CHOOSE b : b \in Bijection(1..Cardinality(Fibre(x)), Fibre(x))]
             pairs == UNION {{x} \X (1..f[x]) : x \in D}
             h == [p \in pairs |-> number[p[1]][p[2]]]
  <1>1. ASSUME NEW x \in D
        PROVE  /\ f[x] = Cardinality(Fibre(x)) /\ f[x] \in Nat
               /\ number[x] \in Bijection(1..f[x], Fibre(x))
    <2>1. IsFiniteSet(Fibre(x))
      BY FS_Subset
    <2>2. Cardinality(Fibre(x)) \in Nat /\ ExistsBijection(1..Cardinality(Fibre(x)), Fibre(x))
      BY <2>1, FS_CardinalityType
    <2>3. \E b : b \in Bijection(1..Cardinality(Fibre(x)), Fibre(x))
      BY <2>2 DEF ExistsBijection
    <2> QED
      BY <2>2, <2>3
  <1> HIDE DEF number
  <1>2. ASSUME NEW x \in D
        PROVE  /\ \A i \in 1..f[x] : number[x][i] \in Fibre(x)
               /\ \A i, j \in 1..f[x] : number[x][i] = number[x][j] => i = j
               /\ \A r \in Fibre(x) : \E i \in 1..f[x] : number[x][i] = r
    <2> DEFINE F == Fibre(x)
               n == f[x]
               b == number[x]
    <2>1. b \in Bijection(1..n, F)
      BY <1>1
    <2> HIDE DEF F, n, b
    <2>2. b \in [1..n -> F] /\ IsInjective(b) /\ \A r \in F : \E i \in 1..n : b[i] = r
      BY <2>1, Zenon DEF Bijection, Injection, Surjection
    <2>3. DOMAIN b = 1..n
      BY <2>2
    <2>4. \A i, j \in 1..n : b[i] = b[j] => i = j
      BY <2>2, <2>3, Zenon DEF IsInjective
    <2> QED
      BY <2>2, <2>4 DEF F, n, b
  <1>3. \A p \in pairs : p[1] \in D /\ p[2] \in 1..f[p[1]] /\ p = <<p[1], p[2]>>
    OBVIOUS
  <1>4. \A x \in D : \A i \in 1..f[x] : <<x, i>> \in pairs
    OBVIOUS
  <1> HIDE DEF pairs
  <1>5. h \in [pairs -> R]
    <2> SUFFICES ASSUME NEW p \in pairs PROVE number[p[1]][p[2]] \in R
      OBVIOUS
    <2>1. p[1] \in D /\ p[2] \in 1..f[p[1]]
      BY <1>3
    <2>2. number[p[1]][p[2]] \in Fibre(p[1])
      BY <1>2, <2>1
    <2> QED
      BY <2>2
  <1>6. ASSUME NEW p \in pairs, NEW q \in pairs, h[p] = h[q] PROVE p = q
    <2>1. number[p[1]][p[2]] = number[q[1]][q[2]]
      BY <1>6
    <2>2. number[p[1]][p[2]] \in Fibre(p[1]) /\ number[q[1]][q[2]] \in Fibre(q[1])
      <3>1. p[1] \in D /\ p[2] \in 1..f[p[1]] /\ q[1] \in D /\ q[2] \in 1..f[q[1]]
        BY <1>3
      <3> HIDE DEF Fibre
      <3> QED
        BY <1>2, <3>1
    <2>3. p[1] = q[1]
      BY <2>1, <2>2
    <2>4. p[2] = q[2]
      BY <1>2, <1>3, <2>1, <2>3
    <2> QED
      BY <1>3, <2>3, <2>4
  <1>7. ASSUME NEW r \in R PROVE \E p \in pairs : h[p] = r
    <2>1. g[r] \in D /\ r \in Fibre(g[r])
      OBVIOUS
    <2>2. PICK i \in 1..f[g[r]] : number[g[r]][i] = r
      BY <1>2, <2>1
    <2> QED
      BY <1>4, <2>1, <2>2
  <1>8. h \in Bijection(pairs, R)
    <2> HIDE DEF h
    <2> QED
      BY <1>5, <1>6, <1>7, Fun_IsBij
  <1>9. ExistsBijection(R, pairs)
    <2>1. ExistsBijection(pairs, R)
      BY <1>8 DEF ExistsBijection
    <2> QED
      BY <2>1, Fun_ExistsBijSymmetric
  <1>10. Cardinality(pairs) = Cardinality(R)
    BY <1>9, FS_Bijection
  <1> QED
    BY <1>10 DEF Total, pairs

-----------------------------------------------------------------------------
(* Drives per day                                                          *)

\* The length of a span
Length == (MaxGroups - 1) * Hour

\* A span begins in the period, a whole number of lengths from its start, and ends
\* with it or a length later.
LEMMA SpanParts ==
    ASSUME NEW from \in Int, NEW until \in Int, NEW s \in Spans(from, until)
    PROVE  /\ s.from \in from..until - 1 /\ s.to \in Int /\ s.from < s.to /\ s.to <= until /\ s.to <= s.from + Length
           /\ (s.from - from) % Length = 0
           /\ s.to = IF s.from + Length < until THEN s.from + Length ELSE until
           /\ s = [from |-> s.from, to |-> s.to]
  <1>1. Length \in Nat \ {0}
    BY DashboardAssumption DEF Length
  <1>2. PICK t \in from..until - 1 :
            (t - from) % Length = 0 /\ s = [from |-> t, to |-> IF t + Length < until THEN t + Length ELSE until]
    BY DEF Spans, Length
  <1> QED
    BY <1>1, <1>2

\* Every instant of the period is in one span.
LEMMA OneSpan ==
    ASSUME NEW from \in Int, NEW until \in Int, NEW i \in from..until - 1
    PROVE  /\ \E s \in Spans(from, until) : s.from <= i /\ i < s.to
           /\ \A r, s \in Spans(from, until) : r.from <= i /\ i < r.to /\ s.from <= i /\ i < s.to => r = s
  <1>1. Length \in Nat \ {0}
    BY DashboardAssumption DEF Length
  <1> DEFINE x == i - from
             y == x - (x % Length)
             t == from + y
  <1>2. x \in Nat /\ i = from + x
    OBVIOUS
  <1> HIDE DEF x
  <1>3. y \in Int /\ y % Length = 0 /\ y <= x /\ x < y + Length
    <2>1. x \in Int
      BY <1>2
    <2> QED
      BY <1>1, <2>1, Multiples
  <1>4. y >= 0
    <2> DEFINE q == x \div Length
               p == Length * q
    <2>1. q \in Int /\ x % Length \in 0..Length - 1 /\ x = p + (x % Length)
      BY <1>1, <1>2, Division
    <2> HIDE DEF q
    <2>2. q < 0 => p + Length <= 0
      BY <1>1, <2>1
    <2>3. p \in Int
      BY <1>1, <2>1
    <2>4. q >= 0
      <3> HIDE DEF p
      <3> QED
        BY <1>1, <1>2, <2>1, <2>2, <2>3
    <2>5. p >= 0
      BY <1>1, <2>1, <2>4
    <2> HIDE DEF p
    <2> QED
      BY <1>1, <1>2, <2>1, <2>3, <2>5
  <1> HIDE DEF y
  <1>5. t \in from..until - 1 /\ t <= i /\ i < t + Length /\ t - from = y
    BY <1>1, <1>2, <1>3, <1>4
  <1> HIDE DEF t
  <1>6. (t - from) % Length = 0
    BY <1>3, <1>5
  <1> DEFINE s == [from |-> t, to |-> IF t + Length < until THEN t + Length ELSE until]
  <1>7. s \in Spans(from, until)
    BY <1>5, <1>6 DEF Spans, Length
  <1>8. s.from <= i /\ i < s.to
    BY <1>1, <1>5
  <1>9. ASSUME NEW r \in Spans(from, until), NEW v \in Spans(from, until),
               r.from <= i, i < r.to, v.from <= i, i < v.to
        PROVE  r = v
    <2>1. /\ r.from \in Int /\ r.to <= r.from + Length /\ (r.from - from) % Length = 0
          /\ r.to = IF r.from + Length < until THEN r.from + Length ELSE until
          /\ r = [from |-> r.from, to |-> r.to] /\ r.to \in Int
      BY SpanParts
    <2>2. /\ v.from \in Int /\ v.to <= v.from + Length /\ (v.from - from) % Length = 0
          /\ v.to = IF v.from + Length < until THEN v.from + Length ELSE until
          /\ v = [from |-> v.from, to |-> v.to] /\ v.to \in Int
      BY SpanParts
    <2>3. /\ r.from - from <= x /\ x < r.from - from + Length /\ r.from - from \in Int
          /\ v.from - from <= x /\ x < v.from - from + Length /\ v.from - from \in Int
      BY <1>1, <1>2, <1>9, <2>1, <2>2
    <2>4. \A a, b \in Int : a % Length = 0 /\ b % Length = 0 /\ a <= x /\ x < a + Length /\ b <= x /\ x < b + Length => a = b
      BY <1>1, <1>2, Multiples
    <2>5. r.from - from = v.from - from
      BY <2>1, <2>2, <2>3, <2>4
    <2> QED
      BY <2>1, <2>2, <2>5
  <1> QED
    BY <1>7, <1>8, <1>9

\* Every instant of a span is in one of the hours it touches.
LEMMA OneHour ==
    ASSUME NEW from \in Int, NEW until \in Int, NEW s \in Spans(from, until), NEW i \in Int, s.from <= i, i < s.to
    PROVE  /\ \E h \in HoursTouched(s) : h <= i /\ i < h + Hour
           /\ \A g, h \in HoursTouched(s) : g <= i /\ i < g + Hour /\ h <= i /\ i < h + Hour => g = h
  <1>1. Hour \in Nat \ {0} /\ s.from \in Int /\ s.to \in Int
    BY SpanParts, DashboardAssumption
  <1> DEFINE h == i - (i % Hour)
  <1>2. h \in Int /\ h % Hour = 0 /\ h <= i /\ i < h + Hour
    BY <1>1, Multiples
  <1> HIDE DEF h
  <1>3. h \in HoursTouched(s)
    BY <1>1, <1>2 DEF HoursTouched
  <1>4. \A g \in HoursTouched(s) : g \in Int /\ g % Hour = 0
    BY <1>1 DEF HoursTouched
  <1>5. \A f, g \in Int : f % Hour = 0 /\ g % Hour = 0 /\ f <= i /\ i < f + Hour /\ g <= i /\ i < g + Hour => f = g
    BY <1>1, Multiples
  <1> QED
    BY <1>2, <1>3, <1>4, <1>5

\* No query asks for more groups than it gets.
LEMMA QueryFits ==
    ASSUME NEW from \in Int, NEW until \in Int, NEW s \in Spans(from, until)
    PROVE  IsFiniteSet(HoursTouched(s)) /\ Cardinality(HoursTouched(s)) <= MaxGroups
  <1>1. Hour \in Nat \ {0} /\ MaxGroups \in Nat \ {0} /\ s.from \in Int /\ s.to \in Int /\ s.to <= s.from + Length
    BY SpanParts, DashboardAssumption
  <1>2. Length = MaxGroups * Hour - Hour /\ MaxGroups * Hour \in Int
    BY <1>1 DEF Length
  <1> DEFINE hours == HoursTouched(s)
  <1>3. \A h \in hours : h \in Int /\ h = Hour * (h \div Hour) /\ h \div Hour \in Int /\ h + Hour > s.from /\ h < s.to
    <2> SUFFICES ASSUME NEW h \in hours
                 PROVE  h \in Int /\ h = Hour * (h \div Hour) /\ h \div Hour \in Int /\ h + Hour > s.from /\ h < s.to
      OBVIOUS
    <2>1. h \in Int /\ h % Hour = 0 /\ h + Hour > s.from /\ h < s.to
      BY <1>1 DEF HoursTouched
    <2>2. h \div Hour \in Int /\ h = Hour * (h \div Hour) + (h % Hour)
      BY <1>1, <2>1, Division
    <2>3. Hour * (h \div Hour) \in Int
      BY <1>1, <2>2
    <2> QED
      BY <2>1, <2>2, <2>3
  <1> HIDE DEF hours
  <1>4. CASE hours = {}
    BY <1>1, <1>4, FS_EmptySet DEF hours
  <1>5. CASE hours # {}
    <2>1. hours \in SUBSET Int /\ \A h \in hours : s.from - Hour <= h
      BY <1>1, <1>3
    <2> DEFINE low == Least(hours)
               a == low \div Hour
               b == a + MaxGroups - 1
    <2>2. low \in hours /\ \A h \in hours : low <= h
      <3>1. s.from - Hour \in Int
        BY <1>1
      <3> QED
        BY <1>5, <2>1, <3>1, LeastOf
    <2> HIDE DEF low
    <2>3. a \in Int /\ low = Hour * a /\ low + Hour > s.from /\ low \in Int
      BY <1>3, <2>2
    <2>4. ASSUME NEW h \in hours PROVE h \div Hour \in a..b
      <3> DEFINE q == h \div Hour
      <3>1. q \in Int /\ h = Hour * q /\ h < s.to /\ h \in Int /\ low <= h
        BY <1>3, <2>2
      <3> HIDE DEF q, a
      <3>2. q < a => Hour * q + Hour <= Hour * a
        BY <1>1, <2>3, <3>1
      <3>3. a <= q
        BY <1>1, <2>3, <3>1, <3>2
      <3>4. h < low + MaxGroups * Hour
        BY <1>1, <1>2, <2>3, <3>1
      <3>5. q >= a + MaxGroups => Hour * q >= Hour * (a + MaxGroups)
        BY <1>1, <2>3, <3>1
      <3>6. Hour * (a + MaxGroups) = Hour * a + MaxGroups * Hour
        BY <1>1, <2>3
      <3>7. q < a + MaxGroups
        BY <1>1, <1>2, <2>3, <3>1, <3>4, <3>5, <3>6
      <3> QED
        BY <1>1, <2>3, <3>1, <3>3, <3>7 DEF q
    <2> DEFINE f == [q \in {h \div Hour : h \in hours} |-> Hour * q]
               quotients == {h \div Hour : h \in hours}
    <2>5. f \in Surjection(quotients, hours)
      BY <1>3 DEF Surjection
    <2>6. quotients \subseteq a..b
      BY <2>4
    <2>7. IsFiniteSet(a..b) /\ Cardinality(a..b) = MaxGroups
      <3> HIDE DEF a
      <3>1. b \in Int /\ b - a + 1 = MaxGroups /\ a <= b
        BY <1>1, <2>3
      <3>2. a \in Int
        BY <2>3
      <3> HIDE DEF b
      <3>3. IsFiniteSet(a..b) /\ Cardinality(a..b) = IF a > b THEN 0 ELSE b - a + 1
        BY <3>1, <3>2, FS_Interval
      <3> QED
        BY <3>1, <3>2, <3>3
    <2> HIDE DEF a, b, f, quotients
    <2>8. IsFiniteSet(quotients) /\ Cardinality(quotients) <= MaxGroups
      BY <2>6, <2>7, FS_Subset
    <2>9. IsFiniteSet(hours) /\ Cardinality(hours) <= Cardinality(quotients)
      BY <2>5, <2>8, FS_Surjection
    <2>10. Cardinality(hours) \in Nat /\ Cardinality(quotients) \in Nat
      BY <2>8, <2>9, FS_CardinalityType
    <2> QED
      BY <1>1, <2>8, <2>9, <2>10 DEF hours
  <1> QED
    BY <1>4, <1>5

\* Unless the clocks change across it, a midnight is when its date begins.
LEMMA MidnightIsWhen ==
    ASSUME NEW zone \in Clock, ~MidnightMoves(zone), NEW d \in Int, NEW i \in Int
    PROVE  /\ Instant(zone, d * DayLength) \in Int
           /\ Instant(zone, d * DayLength) <= i <=> d * DayLength <= WallAt(zone, i)
  <1> DEFINE w == d * DayLength
             b == zone.before
             a == zone.after
             t == zone.at
  <1>0. b \in Int /\ a \in Int /\ t \in Int
    BY ScheduleAssumption DEF Clock
  <1>1. w \in Int /\ w % DayLength = 0
    BY ScheduleAssumption, NoRemainder
  <1> HIDE DEF w
  <1>2. ~(t + b < w /\ w < t + a) /\ ~(t + a < w /\ w < t + b)
    <2>1. \A wall \in (t + b + 1..t + a - 1) \cup (t + a + 1..t + b - 1) : wall % DayLength # 0
      BY Zenon DEF MidnightMoves
    <2>2. w \notin t + b + 1..t + a - 1 /\ w \notin t + a + 1..t + b - 1
      BY <1>1, <2>1
    <2> HIDE DEF a, b, t
    <2> QED
      BY <1>0, <1>1, <2>2
  <1>3. WallAt(zone, i) = IF i < t THEN i + b ELSE i + a
    BY <1>0 DEF WallAt, OffsetAt
  <1>4. CASE Happens(zone, w)
    <2>1. /\ Instant(zone, w) = IF w - b < t THEN w - b ELSE w - a
          /\ w - b < t \/ t <= w - a
      BY <1>1, <1>4, InstantOf
    <2> QED
      BY <1>0, <1>1, <1>2, <1>3, <2>1 DEF w
  <1>5. CASE ~Happens(zone, w)
    <2>1. \A j \in Int : WallAt(zone, j) # w
      BY <1>1, <1>5, ReadingsOf DEF Happens
    <2>2. ~(w - b < t) /\ ~(t <= w - a)
      <3>1. w - b \in Int /\ w - a \in Int
        BY <1>0, <1>1
      <3>2. WallAt(zone, w - b) # w /\ WallAt(zone, w - a) # w
        BY <2>1, <3>1
      <3> QED
        BY <1>0, <1>1, <3>2 DEF WallAt, OffsetAt
    <2>3. Instant(zone, w) = w - b
      <3>1. {j \in w - DayLength..w + DayLength : WallAt(zone, j) = w} = {}
        <4>1. \A j \in w - DayLength..w + DayLength : j \in Int
          BY <1>1, ScheduleAssumption
        <4> QED
          BY <2>1, <4>1
      <3> QED
        BY <1>1, <3>1, ClockIsRight
    <2> QED
      BY <1>0, <1>1, <1>2, <1>3, <2>2, <2>3 DEF w
  <1> QED
    BY <1>4, <1>5

\* So the windows of the days hold what starts on their dates.
LEMMA WindowsHoldDates ==
    ASSUME NEW zone \in Clock, ~MidnightMoves(zone), NEW d \in Int, NEW i \in Int
    PROVE  /\ DateAt(zone, i) \in Int
           /\ Instant(zone, d * DayLength) <= i <=> d <= DateAt(zone, i)
           /\ i <= Instant(zone, (d + 1) * DayLength) - 1 <=> DateAt(zone, i) <= d
  <1> DEFINE e == DateAt(zone, i)
             n == DayLength
             wall == WallAt(zone, i)
  <1>0. n \in Nat \ {0} /\ zone.before \in Int /\ zone.after \in Int
    BY ScheduleAssumption DEF Clock
  <1>1. e \in Int /\ e * n <= wall /\ wall < e * n + n
    BY DatesOf
  <1>2. wall \in Int
    BY <1>0 DEF WallAt, OffsetAt
  <1>3. \A c \in Int : Instant(zone, c * n) \in Int /\ (Instant(zone, c * n) <= i <=> c * n <= wall)
    BY MidnightIsWhen
  <1> HIDE DEF e, n, wall
  <1>4. \A c \in Int : c * n <= wall <=> c <= e
    <2> SUFFICES ASSUME NEW c \in Int PROVE c * n <= wall <=> c <= e
      OBVIOUS
    <2>1. e < c => e * n + n <= c * n
      BY <1>0, <1>1
    <2>2. c <= e => c * n <= e * n
      BY <1>0, <1>1
    <2>3. c * n \in Int /\ e * n \in Int
      BY <1>0, <1>1
    <2> QED
      BY <1>0, <1>1, <1>2, <2>1, <2>2, <2>3
  <1>5. d + 1 \in Int
    OBVIOUS
  <1>6. Instant(zone, d * n) <= i <=> d <= e
    BY <1>3, <1>4
  <1>7. Instant(zone, (d + 1) * n) \in Int /\ (Instant(zone, (d + 1) * n) <= i <=> d + 1 <= e)
    BY <1>3, <1>4, <1>5
  <1> QED
    BY <1>1, <1>6, <1>7 DEF e, n

\* The days of a report
DaysFrom(zone, first, last) == {DayWindow(zone, d) : d \in first..last}

\* The period runs from the first midnight to the last instant before the last one,
\* and a day of it is that of its date.
LEMMA PeriodOfDays ==
    ASSUME NEW zone \in Clock, ~MidnightMoves(zone), NEW first \in Int, NEW last \in Int, first <= last
    PROVE  LET days == DaysFrom(zone, first, last)
           IN  /\ PeriodStart(days) = Instant(zone, first * DayLength) /\ PeriodStart(days) \in Int
               /\ PeriodEnd(days) = Instant(zone, (last + 1) * DayLength) - 1 /\ PeriodEnd(days) \in Int
               /\ \A i \in Int : PeriodStart(days) <= i /\ i <= PeriodEnd(days) <=> DateAt(zone, i) \in first..last
               /\ \A i \in Int : DateAt(zone, i) \in first..last => DayOf(days, i) = {DateAt(zone, i)}
  <1> DEFINE days == DaysFrom(zone, first, last)
             At(d) == Instant(zone, d * DayLength)
  <1>1. \A d \in Int : At(d) \in Int
    BY MidnightIsWhen
  <1>2. \A d, i \in Int : (At(d) <= i <=> d <= DateAt(zone, i)) /\ (i <= At(d + 1) - 1 <=> DateAt(zone, i) <= d)
    BY WindowsHoldDates
  <1>3. \A i \in Int : DateAt(zone, i) \in Int
    BY DatesOf
  <1>4. ASSUME NEW d \in Int, NEW e \in Int, d <= e PROVE At(d) <= At(e)
    <2>1. e <= DateAt(zone, At(e))
      BY <1>1, <1>2
    <2>2. d <= DateAt(zone, At(e))
      BY <1>1, <1>3, <1>4, <2>1
    <2> QED
      BY <1>1, <1>2, <2>2
  <1>5. days = {[date |-> d, start |-> At(d), end |-> At(d + 1) - 1] : d \in first..last}
    BY DEF DaysFrom, DayWindow
  <1> HIDE DEF days, At
  <1> DEFINE starts == {d.start : d \in days}
             ends == {d.end : d \in days}
  <1>6. starts = {At(d) : d \in first..last} /\ ends = {At(d + 1) - 1 : d \in first..last}
    <2>1. \A x \in days : \E d \in first..last : x.start = At(d) /\ x.end = At(d + 1) - 1
      BY <1>5
    <2>2. \A d \in first..last : \E x \in days : x.start = At(d) /\ x.end = At(d + 1) - 1
      <3> SUFFICES ASSUME NEW d \in first..last PROVE \E x \in days : x.start = At(d) /\ x.end = At(d + 1) - 1
        OBVIOUS
      <3>1. [date |-> d, start |-> At(d), end |-> At(d + 1) - 1] \in days
        BY <1>5
      <3> QED
        BY <3>1
    <2>3. starts = {At(d) : d \in first..last}
      BY <2>1, <2>2
    <2>4. ends = {At(d + 1) - 1 : d \in first..last}
      BY <2>1, <2>2
    <2> QED
      BY <2>3, <2>4
  <1> HIDE DEF starts, ends
  <1>7. first \in first..last /\ last \in first..last
    OBVIOUS
  <1>8. starts \in SUBSET Int /\ At(first) \in starts /\ \A i \in starts : At(first) <= i
    BY <1>1, <1>4, <1>6, <1>7
  <1>9. Least(starts) = At(first)
    <2>1. Least(starts) \in starts /\ \A i \in starts : Least(starts) <= i
      BY <1>1, <1>8, LeastOf
    <2>2. Least(starts) <= At(first) /\ At(first) <= Least(starts)
      BY <1>8, <2>1
    <2>3. Least(starts) \in Int /\ At(first) \in Int
      BY <1>8, <2>1
    <2> QED
      BY <2>2, <2>3
  <1>10. PeriodStart(days) = At(first)
    BY <1>9 DEF PeriodStart, starts
  <1>11. ends \in SUBSET Int /\ At(last + 1) - 1 \in ends /\ \A i \in ends : i <= At(last + 1) - 1
    <2>1. \A d \in first..last : d + 1 \in Int /\ d + 1 <= last + 1 /\ last + 1 \in Int
      OBVIOUS
    <2> QED
      BY <1>1, <1>4, <1>6, <1>7, <2>1
  <1>12. PeriodEnd(days) = At(last + 1) - 1
    <2> DEFINE top == CHOOSE e \in ends : \A d \in days : d.end <= e
    <2>1. \A e : (\A d \in days : d.end <= e) <=> (\A j \in ends : j <= e)
      BY DEF ends
    <2>2. top \in ends /\ \A d \in days : d.end <= top
      BY <1>11, <2>1
    <2>3. PeriodEnd(days) = top
      BY DEF PeriodEnd, ends
    <2> HIDE DEF top
    <2>4. \A j \in ends : j <= top
      BY <2>1, <2>2
    <2>5. top \in Int /\ At(last + 1) - 1 \in Int /\ top <= At(last + 1) - 1 /\ At(last + 1) - 1 <= top
      BY <1>11, <2>2, <2>4
    <2> QED
      BY <2>3, <2>5
  <1>13. ASSUME NEW i \in Int
         PROVE  At(first) <= i /\ i <= At(last + 1) - 1 <=> DateAt(zone, i) \in first..last
    BY <1>2, <1>3
  <1>14. ASSUME NEW i \in Int, DateAt(zone, i) \in first..last
         PROVE  DayOf(days, i) = {DateAt(zone, i)}
    <2> DEFINE c == DateAt(zone, i)
    <2>1. c \in Int
      BY <1>3
    <2>2. \A d \in Int : (At(d) <= i <=> d <= c) /\ (i <= At(d + 1) - 1 <=> c <= d)
      BY <1>2
    <2> HIDE DEF c
    <2>3. ASSUME NEW x \in days, x.start <= i, i <= x.end PROVE x.date = c
      <3>1. PICK d \in first..last : x = [date |-> d, start |-> At(d), end |-> At(d + 1) - 1]
        BY <1>5
      <3>2. At(d) <= i /\ i <= At(d + 1) - 1 /\ d \in Int /\ x.date = d
        BY <2>3, <3>1
      <3>3. d <= c /\ c <= d
        BY <2>2, <3>2
      <3> QED
        BY <2>1, <3>2, <3>3
    <2> DEFINE x == [date |-> c, start |-> At(c), end |-> At(c + 1) - 1]
    <2>4. x \in days
      <3>1. c \in first..last
        BY <1>14 DEF c
      <3> QED
        BY <1>5, <3>1
    <2>5. x.start <= i /\ i <= x.end /\ x.date = c
      BY <2>1, <2>2
    <2> HIDE DEF x
    <2>6. {e.date : e \in {y \in days : y.start <= i /\ i <= y.end}} = {c}
      BY <2>3, <2>4, <2>5
    <2> QED
      BY <2>6 DEF DayOf, c
  <1>15. At(first) \in Int /\ At(last + 1) \in Int
    BY <1>1
  <1> QED
    BY <1>10, <1>12, <1>13, <1>14, <1>15 DEF At, days

\* Whatever the clocks do, a period begins and ends at some instant.
LEMMA PeriodIsWhole ==
    ASSUME NEW zone \in Clock, NEW first \in Int, NEW last \in Int, first <= last
    PROVE  PeriodStart(DaysFrom(zone, first, last)) \in Int /\ PeriodEnd(DaysFrom(zone, first, last)) \in Int
  <1> DEFINE days == DaysFrom(zone, first, last)
             n == DayLength
             At(d) == Instant(zone, d * n)
  <1>0. n \in Nat \ {0} /\ zone.before \in -n..n /\ zone.after \in -n..n /\ zone.at \in Int
    BY ScheduleAssumption DEF Clock
  <1>1. ASSUME NEW d \in Int PROVE At(d) \in Int /\ d * n - n <= At(d) /\ At(d) <= d * n + n
    <2> DEFINE w == d * n
    <2>1. w \in Int
      BY <1>0
    <2> HIDE DEF w, n
    <2>2. Instant(zone, w) = w - zone.before \/ Instant(zone, w) = w - zone.after
      <3>1. CASE Happens(zone, w)
        BY <1>0, <2>1, <3>1, InstantOf
      <3>2. CASE ~Happens(zone, w)
        <4>1. \A j \in w - n..w + n : j \in Int /\ WallAt(zone, j) # w
          BY <1>0, <2>1, <3>2, ReadingsOf DEF Happens
        <4>2. {j \in w - DayLength..w + DayLength : WallAt(zone, j) = w} = {}
          BY <4>1 DEF n
        <4> QED
          BY <2>1, <4>2, ClockIsRight
      <3> QED
        BY <3>1, <3>2
    <2> QED
      BY <1>0, <2>1, <2>2 DEF w
  <1>2. days = {[date |-> d, start |-> At(d), end |-> At(d + 1) - 1] : d \in first..last}
    BY DEF DaysFrom, DayWindow
  <1> HIDE DEF days, At
  <1> DEFINE starts == {d.start : d \in days}
             ends == {d.end : d \in days}
             low == first * n - n
             x0 == [date |-> first, start |-> At(first), end |-> At(first + 1) - 1]
  <1>3. x0 \in days
    BY <1>2
  <1>4. starts # {} /\ ends # {}
    BY <1>3
  <1>5. ASSUME NEW x \in days
        PROVE  x.start \in Int /\ low <= x.start /\ x.end \in Int
    <2>1. PICK d \in first..last : x = [date |-> d, start |-> At(d), end |-> At(d + 1) - 1]
      BY <1>2
    <2>2. first * n <= d * n
      BY <1>0
    <2>3. d \in Int /\ d + 1 \in Int
      OBVIOUS
    <2>4. At(d) \in Int /\ d * n - n <= At(d) /\ At(d + 1) \in Int
      BY <1>1, <2>3
    <2>5. first * n \in Int /\ d * n \in Int
      BY <1>0
    <2> QED
      BY <1>0, <2>1, <2>2, <2>4, <2>5
  <1>6. PeriodStart(days) \in Int
    <2>1. starts \in SUBSET Int /\ \A i \in starts : low <= i
      BY <1>5
    <2>2. low \in Int
      BY <1>0
    <2> HIDE DEF starts, low
    <2>3. Least(starts) \in Int
      BY <1>4, <2>1, <2>2, LeastOf
    <2> QED
      BY <2>3 DEF PeriodStart, starts
  <1>7. PeriodEnd(days) \in Int
    <2>1. ends \in SUBSET Int
      BY <1>5
    <2>2. IsFiniteSet(ends)
      <3> DEFINE f == [d \in first..last |-> At(d + 1) - 1]
      <3>1. \A d \in first..last : [date |-> d, start |-> At(d), end |-> At(d + 1) - 1] \in days
        BY <1>2
      <3>2. \A d \in first..last : At(d + 1) - 1 \in ends
        <4> SUFFICES ASSUME NEW d \in first..last PROVE At(d + 1) - 1 \in ends
          OBVIOUS
        <4> DEFINE y == [date |-> d, start |-> At(d), end |-> At(d + 1) - 1]
        <4>1. y \in days /\ y.end = At(d + 1) - 1
          BY <3>1
        <4> HIDE DEF y
        <4> QED
          BY <4>1
      <3>3. \A e \in ends : \E d \in first..last : f[d] = e
        BY <1>2
      <3>4. f \in Surjection(first..last, ends)
        BY <3>2, <3>3 DEF Surjection
      <3>5. IsFiniteSet(first..last)
        BY FS_Interval
      <3> HIDE DEF f, ends
      <3> QED
        BY <3>4, <3>5, FS_Surjection
    <2>3. \A e : (\A d \in days : d.end <= e) <=> (\A j \in ends : j <= e)
      OBVIOUS
    <2> DEFINE top == CHOOSE e \in ends : \A d \in days : d.end <= e
    <2>4. \E e \in ends : \A d \in days : d.end <= e
      <3> HIDE DEF ends
      <3> QED
        BY <1>4, <2>1, <2>2, <2>3, GreatestOf
    <2>5. top \in ends
      BY <2>4
    <2>6. PeriodEnd(days) = top
      BY DEF PeriodEnd
    <2> QED
      BY <2>1, <2>5, <2>6
  <1> QED
    BY <1>6, <1>7 DEF days

\* Dates follow one another.
LEMMA DatesInOrder ==
    ASSUME NEW zone \in Clock, ~MidnightMoves(zone), NEW i \in Int, NEW j \in Int, i <= j
    PROVE  DateAt(zone, i) <= DateAt(zone, j)
  <1> DEFINE d == DateAt(zone, i)
  <1>1. d \in Int /\ DateAt(zone, j) \in Int
    BY DatesOf
  <1> HIDE DEF d
  <1>2. Instant(zone, d * DayLength) \in Int
    BY <1>1, MidnightIsWhen
  <1>3. Instant(zone, d * DayLength) <= i
    <2>1. d <= DateAt(zone, i)
      BY <1>1 DEF d
    <2> QED
      BY <1>1, <2>1, WindowsHoldDates
  <1>4. Instant(zone, d * DayLength) <= j
    BY <1>2, <1>3
  <1>5. d <= DateAt(zone, j)
    BY <1>1, <1>4, WindowsHoldDates
  <1> QED
    BY <1>5 DEF d

\* An hour that no midnight cuts has one date, that of whatever starts in it.
LEMMA WholeHour ==
    ASSUME NEW zone \in Clock, ~MidnightMoves(zone), NEW first \in Int, NEW last \in Int, first <= last,
           NEW h \in Int, NEW i \in Int, DateAt(zone, i) \in first..last, h <= i, i < h + Hour,
           ~IsSplit(DaysFrom(zone, first, last), h)
    PROVE  DayOf(DaysFrom(zone, first, last), Counted(DaysFrom(zone, first, last), h).first) = {DateAt(zone, i)}
  <1> DEFINE days == DaysFrom(zone, first, last)
             a == Counted(days, h).first
             b == Counted(days, h).last
  <1>1. /\ PeriodStart(days) \in Int /\ PeriodEnd(days) \in Int
        /\ \A j \in Int : PeriodStart(days) <= j /\ j <= PeriodEnd(days) <=> DateAt(zone, j) \in first..last
        /\ \A j \in Int : DateAt(zone, j) \in first..last => DayOf(days, j) = {DateAt(zone, j)}
    BY PeriodOfDays
  <1>2. DayOf(days, a) = DayOf(days, b)
    BY DEF IsSplit
  <1> HIDE DEF days
  <1>3. PeriodStart(days) <= i /\ i <= PeriodEnd(days)
    BY <1>1
  <1>4. /\ a \in Int /\ PeriodStart(days) <= a /\ a <= i
        /\ b \in Int /\ b <= PeriodEnd(days) /\ i <= b
    BY <1>1, <1>3, DashboardAssumption DEF Counted
  <1> HIDE DEF a, b
  <1>5. PeriodStart(days) <= b /\ a <= PeriodEnd(days)
    BY <1>1, <1>3, <1>4
  <1>6. DayOf(days, a) = {DateAt(zone, a)} /\ DayOf(days, b) = {DateAt(zone, b)}
    BY <1>1, <1>4, <1>5
  <1>7. DateAt(zone, a) = DateAt(zone, b)
    BY <1>2, <1>6
  <1>8. DateAt(zone, a) <= DateAt(zone, i) /\ DateAt(zone, i) <= DateAt(zone, b)
    BY <1>4, DatesInOrder
  <1>9. DateAt(zone, a) \in Int /\ DateAt(zone, i) \in Int
    BY <1>4, DatesOf
  <1> QED
    BY <1>6, <1>7, <1>8, <1>9 DEF a, days

\* Every booking that starts on a date of the period is counted on it, once.
LEMMA EachStartCounted ==
    ASSUME NEW zone \in Clock, ~MidnightMoves(zone), NEW first \in Int, NEW last \in Int, first <= last,
           NEW starts, IsFiniteSet(DOMAIN starts), \A k \in DOMAIN starts : starts[k] \in Int,
           NEW date \in first..last
    PROVE  BookingsPerDay(DaysFrom(zone, first, last), starts)[date]
            = Cardinality({k \in DOMAIN starts : DateAt(zone, starts[k]) = date})
  <1> DEFINE days == DaysFrom(zone, first, last)
             from == PeriodStart(days)
             until == PeriodEnd(days) + 1
             spans == Spans(from, until)
             rows == UNION {[span : {s}, hour : HoursTouched(s), booking : DOMAIN starts] : s \in spans}
             hourly == {r \in rows : /\ r.span.from <= starts[r.booking] /\ starts[r.booking] < r.span.to
                                     /\ r.hour <= starts[r.booking] /\ starts[r.booking] < r.hour + Hour}
             whole == {r \in hourly : ~IsSplit(days, r.hour)}
             single == {r.booking : r \in hourly \ whole}
             A == {r \in whole : DayOf(days, Counted(days, r.hour).first) = {date}}
             B == {k \in single : DayOf(days, starts[k]) = {date}}
             On == {k \in DOMAIN starts : DateAt(zone, starts[k]) = date}
             C == {r.booking : r \in A}
  <1>0. Hour \in Nat \ {0}
    BY DashboardAssumption
  <1>1. /\ from \in Int /\ until \in Int
        /\ \A i \in Int : i \in from..until - 1 <=> DateAt(zone, i) \in first..last
        /\ \A i \in Int : DateAt(zone, i) \in first..last => DayOf(days, i) = {DateAt(zone, i)}
    <2>1. /\ PeriodStart(days) \in Int /\ PeriodEnd(days) \in Int
          /\ \A j \in Int : PeriodStart(days) <= j /\ j <= PeriodEnd(days) <=> DateAt(zone, j) \in first..last
          /\ \A j \in Int : DateAt(zone, j) \in first..last => DayOf(days, j) = {DateAt(zone, j)}
      BY PeriodOfDays
    <2> HIDE DEF days
    <2> QED
      BY <2>1
  <1>2. {d.date : d \in days} = first..last
    <2>1. \A d \in days : d.date \in first..last
      BY DEF DaysFrom, DayWindow
    <2>2. \A d \in first..last : \E x \in days : x.date = d
      <3> SUFFICES ASSUME NEW d \in first..last PROVE \E x \in days : x.date = d
        OBVIOUS
      <3>1. DayWindow(zone, d) \in days /\ DayWindow(zone, d).date = d
        BY DEF DaysFrom, DayWindow
      <3> QED
        BY <3>1
    <2> HIDE DEF days
    <2> QED
      BY <2>1, <2>2
  <1>3. BookingsPerDay(days, starts)[date] = Cardinality(A) + Cardinality(B)
    <2> HIDE DEF A, B, days
    <2> QED
      BY <1>2 DEF BookingsPerDay, A, B
  <1> HIDE DEF days, from, until
  <1>4. ASSUME NEW r \in hourly
        PROVE  /\ r.span \in spans /\ r.hour \in HoursTouched(r.span) /\ r.booking \in DOMAIN starts /\ r.hour \in Int
               /\ r = [span |-> r.span, hour |-> r.hour, booking |-> r.booking]
               /\ r.span.from <= starts[r.booking] /\ starts[r.booking] < r.span.to
               /\ r.hour <= starts[r.booking] /\ starts[r.booking] < r.hour + Hour
               /\ starts[r.booking] \in from..until - 1
    <2>1. PICK s \in spans : r \in [span : {s}, hour : HoursTouched(s), booking : DOMAIN starts]
      OBVIOUS
    <2>2. r.span = s /\ r.hour \in HoursTouched(s) /\ r.booking \in DOMAIN starts
          /\ r = [span |-> r.span, hour |-> r.hour, booking |-> r.booking]
      BY <2>1
    <2>3. /\ r.span.from <= starts[r.booking] /\ starts[r.booking] < r.span.to
          /\ r.hour <= starts[r.booking] /\ starts[r.booking] < r.hour + Hour
      OBVIOUS
    <2>4. s.from \in from..until - 1 /\ s.to \in Int /\ s.to <= until
      BY <1>1, SpanParts
    <2>5. r.hour \in Int
      BY <1>0, <2>2, <2>4 DEF HoursTouched
    <2> HIDE DEF spans, hourly
    <2>6. starts[r.booking] \in Int
      BY <2>2
    <2>7. starts[r.booking] \in from..until - 1
      BY <1>1, <2>2, <2>3, <2>4, <2>6
    <2> QED
      BY <2>1, <2>2, <2>3, <2>5, <2>7
  <1>5. ASSUME NEW k \in DOMAIN starts, starts[k] \in from..until - 1 PROVE \E r \in hourly : r.booking = k
    <2> DEFINE i == starts[k]
    <2>1. i \in Int
      OBVIOUS
    <2>2. PICK s \in spans : s.from <= i /\ i < s.to
      BY <1>1, <1>5, OneSpan
    <2>3. PICK h \in HoursTouched(s) : h <= i /\ i < h + Hour
      BY <1>1, <2>1, <2>2, OneHour
    <2> DEFINE r == [span |-> s, hour |-> h, booking |-> k]
    <2>4. r \in [span : {s}, hour : HoursTouched(s), booking : DOMAIN starts]
      BY <2>3
    <2>5. r \in rows
      <3> HIDE DEF r, spans
      <3> QED
        BY <2>2, <2>4
    <2>6. r \in hourly
      <3> HIDE DEF rows
      <3> QED
        BY <2>2, <2>3, <2>5
    <2> QED
      BY <2>6
  <1>6. ASSUME NEW r \in hourly, NEW t \in hourly, r.booking = t.booking PROVE r = t
    <2> DEFINE i == starts[r.booking]
    <2>1. i \in from..until - 1 /\ i \in Int
      BY <1>1, <1>4
    <2>2. r.span = t.span
      <3>1. /\ r.span \in spans /\ t.span \in spans
            /\ r.span.from <= i /\ i < r.span.to /\ t.span.from <= i /\ i < t.span.to
        BY <1>4, <1>6
      <3>2. \A u, v \in spans : u.from <= i /\ i < u.to /\ v.from <= i /\ i < v.to => u = v
        <4> HIDE DEF i
        <4> QED
          BY <1>1, <2>1, OneSpan
      <3> HIDE DEF spans, hourly, i
      <3> QED
        BY <3>1, <3>2
    <2>3. r.hour = t.hour
      <3>1. /\ r.span \in spans /\ r.span.from <= i /\ i < r.span.to
            /\ r.hour \in HoursTouched(r.span) /\ t.hour \in HoursTouched(r.span)
            /\ r.hour <= i /\ i < r.hour + Hour /\ t.hour <= i /\ i < t.hour + Hour
        BY <1>4, <1>6, <2>2
      <3> DEFINE s == r.span
      <3> HIDE DEF s, i, hourly
      <3>2. \A g, h \in HoursTouched(s) : g <= i /\ i < g + Hour /\ h <= i /\ i < h + Hour => g = h
        BY <1>1, <2>1, <3>1, OneHour DEF s
      <3> QED
        BY <3>1, <3>2 DEF s
    <2> HIDE DEF hourly
    <2> QED
      BY <1>4, <1>6, <2>2, <2>3
  <1> HIDE DEF hourly, spans, rows
  <1>7. ASSUME NEW r \in hourly
        PROVE  /\ DateAt(zone, starts[r.booking]) \in first..last
               /\ DayOf(days, starts[r.booking]) = {DateAt(zone, starts[r.booking])}
               /\ ~IsSplit(days, r.hour) => DayOf(days, Counted(days, r.hour).first) = {DateAt(zone, starts[r.booking])}
    <2> DEFINE i == starts[r.booking]
    <2>1. i \in Int /\ i \in from..until - 1 /\ r.hour \in Int /\ r.hour <= i /\ i < r.hour + Hour
      BY <1>4
    <2> HIDE DEF i
    <2>2. DateAt(zone, i) \in first..last /\ DayOf(days, i) = {DateAt(zone, i)}
      BY <1>1, <2>1
    <2>3. ~IsSplit(days, r.hour) => DayOf(days, Counted(days, r.hour).first) = {DateAt(zone, i)}
      BY <2>1, <2>2, WholeHour DEF days
    <2> QED
      BY <2>2, <2>3 DEF i
  <1>8. On = C \cup B /\ C \cap B = {}
    <2>1. ASSUME NEW k \in On PROVE k \in C \cup B
      <3>1. k \in DOMAIN starts /\ DateAt(zone, starts[k]) = date /\ starts[k] \in Int
        OBVIOUS
      <3>2. PICK r \in hourly : r.booking = k
        BY <1>1, <1>5, <3>1
      <3>3. CASE IsSplit(days, r.hour)
        <4>1. k \in single
          BY <3>2, <3>3
        <4>2. DayOf(days, starts[k]) = {date}
          BY <1>7, <3>1, <3>2
        <4> QED
          BY <4>1, <4>2
      <3>4. CASE ~IsSplit(days, r.hour)
        <4>1. r \in A
          BY <1>7, <3>1, <3>2, <3>4
        <4> HIDE DEF A
        <4> QED
          BY <3>2, <4>1
      <3> QED
        BY <3>3, <3>4
    <2>2. ASSUME NEW k \in C PROVE k \in On
      <3>1. PICK r \in A : k = r.booking
        OBVIOUS
      <3>2. r \in hourly /\ ~IsSplit(days, r.hour) /\ DayOf(days, Counted(days, r.hour).first) = {date}
        BY <3>1
      <3>3. {date} = {DateAt(zone, starts[k])} /\ k \in DOMAIN starts
        BY <1>4, <1>7, <3>1, <3>2
      <3> QED
        BY <3>3
    <2>3. ASSUME NEW k \in B PROVE k \in On
      <3>1. PICK r \in hourly : k = r.booking
        OBVIOUS
      <3>2. DayOf(days, starts[k]) = {date}
        OBVIOUS
      <3>3. {date} = {DateAt(zone, starts[k])} /\ k \in DOMAIN starts
        BY <1>4, <1>7, <3>1, <3>2
      <3> QED
        BY <3>3
    <2>4. ASSUME NEW k \in C, k \in B PROVE FALSE
      <3>1. PICK r \in A : k = r.booking
        OBVIOUS
      <3>2. PICK t \in hourly \ whole : k = t.booking
        BY <2>4
      <3>3. r \in hourly /\ r \in whole /\ t \in hourly /\ t \notin whole
        BY <3>1, <3>2
      <3> HIDE DEF whole
      <3> QED
        BY <1>6, <3>1, <3>2, <3>3
    <2> QED
      BY <2>1, <2>2, <2>3, <2>4
  <1>9. IsFiniteSet(On)
    BY FS_Subset
  <1>10. A \subseteq hourly
    OBVIOUS
  <1> HIDE DEF A, B, On, C
  <1>11. IsFiniteSet(C) /\ Cardinality(On) = Cardinality(C) + Cardinality(B)
    BY <1>8, <1>9, TwoParts
  <1>12. Cardinality(C) = Cardinality(A)
    <2> DEFINE f == [k \in C |-> CHOOSE r \in A : r.booking = k]
    <2>1. \A k \in C : f[k] \in A /\ f[k].booking = k
      <3>1. \A k \in C : \E r \in A : r.booking = k
        BY DEF C
      <3> QED
        BY <3>1
    <2>2. f \in [C -> A]
      <3>1. \A k \in C : (CHOOSE r \in A : r.booking = k) \in A
        BY <2>1
      <3> QED
        BY <3>1
    <2> HIDE DEF f
    <2>3. \A j, k \in C : f[j] = f[k] => j = k
      BY <2>1
    <2>4. \A r \in A : \E k \in C : f[k] = r
      <3> SUFFICES ASSUME NEW r \in A PROVE \E k \in C : f[k] = r
        OBVIOUS
      <3>1. r.booking \in C
        BY DEF C
      <3>2. f[r.booking] = r
        BY <1>6, <1>10, <2>1, <3>1
      <3> QED
        BY <3>1, <3>2
    <2> QED
      BY <1>11, <2>2, <2>3, <2>4, SameNumber
  <1> QED
    BY <1>3, <1>11, <1>12 DEF days, On

\* Where the clocks never change, a date is a division.
LEMMA DatesInUTC ==
    ASSUME NEW zone \in Clock, zone.before = 0, zone.after = 0, NEW i \in Int
    PROVE  ~MidnightMoves(zone) /\ DateAt(zone, i) = i \div DayLength
  <1>1. zone.at \in Int
    BY DEF Clock
  <1>2. WallAt(zone, i) = i
    BY DEF WallAt, OffsetAt
  <1>3. zone.at + zone.before + 1..zone.at + zone.after - 1 = {} /\ zone.at + zone.after + 1..zone.at + zone.before - 1 = {}
    BY <1>1
  <1> QED
    BY <1>2, <1>3 DEF MidnightMoves, DateAt

\* The figures per day of any report are right.
LEMMA TrendIsRight ==
    ASSUME NEW zone \in Clock, NEW now \in Int, NEW length \in Nat \ {0},
           NEW starts, IsFiniteSet(DOMAIN starts), \A k \in DOMAIN starts : starts[k] \in Int
    PROVE  DaysAreCounted(zone, now, ReportDays(zone, now, length), starts)
  <1> DEFINE last == DateAt(zone, now)
             first == last - length + 1
             days == DaysFrom(zone, first, last)
  <1>1. last \in Int /\ first \in Int /\ first <= last /\ last \in first..last
    <2>1. last \in Int
      BY DatesOf
    <2> HIDE DEF last
    <2> QED
      BY <2>1
  <1>2. ReportDays(zone, now, length) = days
    BY DEF ReportDays, DaysFrom
  <1> HIDE DEF last, first
  <1>3. \A s \in Spans(PeriodStart(days), PeriodEnd(days) + 1) : Cardinality(HoursTouched(s)) <= MaxGroups
    <2>1. PeriodStart(days) \in Int /\ PeriodEnd(days) \in Int
      BY <1>1, PeriodIsWhole
    <2>2. PeriodEnd(days) + 1 \in Int
      BY <2>1
    <2> QED
      BY <2>1, <2>2, QueryFits
  <1>4. {d.date : d \in days} \subseteq first..last
    BY DEF DaysFrom, DayWindow
  <1>5. ASSUME ~MidnightMoves(zone), NEW date \in first..last
        PROVE  BookingsPerDay(days, starts)[date] = Cardinality({k \in DOMAIN starts : DateAt(zone, starts[k]) = date})
    BY <1>1, <1>5, EachStartCounted
  <1>6. ASSUME zone.before = 0, zone.after = 0
        PROVE  Cardinality(OrgDrivesToday(zone, now, starts)) = BookingsPerDay(days, starts)[DateAt(zone, now)]
    <2>1. ~MidnightMoves(zone)
      BY <1>6, DatesInUTC
    <2>2. \A k \in DOMAIN starts : DateAt(zone, starts[k]) = starts[k] \div DayLength
      BY <1>6, DatesInUTC
    <2>3. OrgDrivesToday(zone, now, starts) = {k \in DOMAIN starts : DateAt(zone, starts[k]) = last}
      BY <2>2 DEF OrgDrivesToday, last
    <2> HIDE DEF days
    <2> QED
      BY <1>1, <1>5, <2>1, <2>3 DEF last
  <1> HIDE DEF days
  <1> QED
    BY <1>2, <1>3, <1>4, <1>5, <1>6 DEF DaysAreCounted

-----------------------------------------------------------------------------
(* Pages of groups                                                         *)

\* What a page holds, and what is left after it
LEMMA PageParts ==
    ASSUME NEW keys \in SUBSET (1..Shopper), NEW after \in 0..Shopper
    PROVE  LET page == PageAfter(keys, after)
               rest == {k \in keys : k > after}
               top == CHOOSE k \in page : \A j \in page : j <= k
           IN  /\ IsFiniteSet(page) /\ page \subseteq rest /\ Cardinality(page) \in Nat
               /\ Cardinality(page) < MaxGroups => page = rest
               /\ Cardinality(page) >= MaxGroups =>
                    /\ top \in after + 1..Shopper
                    /\ rest = page \cup {k \in keys : k > top}
  <1> DEFINE page == PageAfter(keys, after)
             rest == {k \in keys : k > after}
             Below2(k) == {j \in keys : after < j /\ j <= k}
             top == CHOOSE k \in page : \A j \in page : j <= k
  <1>0. Shopper \in Nat \ {0} /\ MaxGroups \in Nat \ {0, 1} /\ after \in Nat /\ \A k \in keys : k \in Nat /\ k <= Shopper
    BY DashboardAssumption
  <1>1. IsFiniteSet(1..Shopper)
    BY <1>0, FS_Interval
  <1>2. ASSUME NEW S \in SUBSET keys PROVE IsFiniteSet(S) /\ Cardinality(S) \in Nat
    BY <1>1, FS_Subset, FS_CardinalityType
  <1>3. page \in SUBSET rest /\ rest \in SUBSET keys /\ page \in SUBSET keys
    BY DEF PageAfter
  <1>4. page = {k \in rest : Cardinality(Below2(k)) <= MaxGroups}
    BY DEF PageAfter
  <1> HIDE DEF page
  \* whatever comes before a group of the page is on it
  <1>5. ASSUME NEW k \in page, NEW j \in rest, j <= k PROVE j \in page
    <2>1. Below2(j) \in SUBSET Below2(k) /\ Below2(k) \in SUBSET keys
      <3>1. k \in rest /\ k \in Nat /\ j \in Nat
        BY <1>0, <1>3
      <3>2. \A i \in Below2(j) : i \in keys /\ after < i /\ i <= j /\ i \in Nat
        BY <1>0
      <3>3. \A i \in Below2(j) : i <= k
        <4> HIDE DEF Below2
        <4> QED
          BY <1>5, <3>1, <3>2
      <3>4. Below2(j) \in SUBSET Below2(k)
        BY <3>2, <3>3
      <3> QED
        BY <3>4
    <2>2. IsFiniteSet(Below2(k)) /\ Cardinality(Below2(k)) \in Nat
      BY <1>2, <2>1
    <2>3. Cardinality(Below2(j)) <= Cardinality(Below2(k)) /\ Cardinality(Below2(j)) \in Nat
      BY <1>2, <2>1, <2>2, FS_Subset
    <2> HIDE DEF Below2, rest
    <2> QED
      BY <1>0, <1>4, <1>5, <2>2, <2>3
  \* the first group that is not on the page has a page before it
  <1>6. ASSUME page # rest PROVE Cardinality(page) >= MaxGroups
    <2> DEFINE out == rest \ page
    <2>1. out \in SUBSET Nat /\ out # {}
      BY <1>0, <1>3, <1>6
    <2>2. PICK m \in out : \A j \in out : m <= j
      <3> HIDE DEF out
      <3> QED
        BY <2>1, LeastNatural
    <2>3. m \in rest /\ m \notin page /\ m \in Nat /\ after < m
      BY <1>0, <2>2
    <2>4. Below2(m) \ {m} \subseteq page
      <3> SUFFICES ASSUME NEW j \in Below2(m), j # m, j \notin page PROVE FALSE
        OBVIOUS
      <3>1. j \in keys /\ after < j /\ j <= m /\ j \in Nat
        BY <1>0
      <3>2. j \in out
        BY <1>0, <3>1
      <3>3. m <= j
        BY <2>2, <3>2
      <3> QED
        BY <2>3, <3>1, <3>3
    <2>5. Below2(m) \in SUBSET keys /\ m \in Below2(m)
      BY <2>3
    <2> HIDE DEF out, Below2, rest
    <2>6. IsFiniteSet(Below2(m)) /\ Cardinality(Below2(m)) \in Nat
      BY <1>2, <2>5
    <2>7. ~(Cardinality(Below2(m)) <= MaxGroups)
      BY <1>4, <2>3
    <2>8. Cardinality(Below2(m) \ {m}) = Cardinality(Below2(m)) - 1
      BY <2>5, <2>6, FS_RemoveElement
    <2>9. IsFiniteSet(page) /\ Cardinality(page) \in Nat
      BY <1>2, <1>3
    <2>10. Cardinality(Below2(m) \ {m}) <= Cardinality(page)
      BY <2>4, <2>9, FS_Subset
    <2> QED
      BY <1>0, <2>6, <2>7, <2>8, <2>9, <2>10
  <1>7. ASSUME Cardinality(page) >= MaxGroups
        PROVE  top \in after + 1..Shopper /\ rest = page \cup {k \in keys : k > top}
    <2>1. IsFiniteSet(page) /\ page \in SUBSET Int
      BY <1>0, <1>2, <1>3
    <2>2. page # {}
      BY <1>0, <1>7, FS_EmptySet
    <2>3. top \in page /\ \A j \in page : j <= top
      BY <2>1, <2>2, GreatestOf
    <2> HIDE DEF top
    <2>4. top \in rest /\ top \in Nat /\ top <= Shopper /\ after < top
      BY <1>0, <1>3, <2>3
    <2>5. \A k \in rest : k \notin page => k > top
      <3> SUFFICES ASSUME NEW k \in rest, k \notin page, ~(k > top) PROVE FALSE
        OBVIOUS
      <3>1. k <= top
        BY <1>0, <2>4
      <3> QED
        BY <1>5, <2>3, <3>1
    <2>6. \A k \in keys : k > top => k \in rest
      BY <1>0, <2>4
    <2> QED
      <3>1. rest \subseteq page \cup {k \in keys : k > top}
        BY <2>5
      <3>2. {k \in keys : k > top} \subseteq rest
        BY <2>6
      <3> HIDE DEF rest
      <3>3. rest = page \cup {k \in keys : k > top}
        BY <1>3, <3>1, <3>2
      <3> QED
        BY <1>0, <2>4, <3>3
  <1>8. IsFiniteSet(page) /\ Cardinality(page) \in Nat
    BY <1>2, <1>3
  <1>9. Cardinality(page) < MaxGroups => page = rest
    BY <1>0, <1>6, <1>8
  <1> QED
    BY <1>3, <1>7, <1>8, <1>9 DEF page

\* Page by page, every group is read.
LEMMA PagesAreComplete ==
    ASSUME NEW keys \in SUBSET (1..Shopper)
    PROVE  GroupedKeys(keys) = keys
  <1> DEFINE Rest(after) == {k \in keys : k > after}
             Last(page) == CHOOSE k \in page : \A j \in page : j <= k
             Step(g, after) == IF Cardinality(PageAfter(keys, after)) < MaxGroups THEN PageAfter(keys, after)
                               ELSE PageAfter(keys, after) \cup g[Last(PageAfter(keys, after))]
             f == [after \in 0..Shopper |-> Rest(after)]
             read == PagesAfter(keys)
             S == {after \in 0..Shopper : read[after] = Rest(after)}
  <1>0. Shopper \in Nat \ {0} /\ MaxGroups \in Nat
    BY DashboardAssumption
  <1>1. read = CHOOSE pages : pages = [after \in 0..Shopper |-> Step(pages, after)]
    BY DEF PagesAfter
  <1> HIDE DEF read
  <1>2. ASSUME NEW after \in 0..Shopper, NEW g,
               \A k \in after + 1..Shopper : g[k] = Rest(k)
        PROVE  Step(g, after) = Rest(after)
    <2> DEFINE page == PageAfter(keys, after)
               top == Last(page)
    <2>1. /\ Cardinality(page) \in Nat
          /\ Cardinality(page) < MaxGroups => page = Rest(after)
          /\ Cardinality(page) >= MaxGroups => top \in after + 1..Shopper /\ Rest(after) = page \cup Rest(top)
      BY PageParts
    <2> HIDE DEF page, Last
    <2>2. CASE Cardinality(page) < MaxGroups
      BY <2>1, <2>2 DEF page
    <2>3. CASE ~(Cardinality(page) < MaxGroups)
      <3>1. top \in after + 1..Shopper /\ Rest(after) = page \cup Rest(top)
        BY <1>0, <2>1, <2>3
      <3>2. g[top] = Rest(top)
        BY <1>2, <3>1
      <3>3. Step(g, after) = page \cup g[top]
        BY <2>3 DEF page
      <3> QED
        BY <3>1, <3>2, <3>3
    <2> QED
      BY <2>2, <2>3
  <1>3. f = [after \in 0..Shopper |-> Step(f, after)]
    <2>1. ASSUME NEW after \in 0..Shopper PROVE f[after] = Step(f, after)
      <3>1. \A k \in after + 1..Shopper : f[k] = Rest(k)
        BY <1>0
      <3> HIDE DEF f, Step, Rest
      <3>2. Step(f, after) = Rest(after)
        BY <1>2, <3>1
      <3> QED
        BY <3>2 DEF f
    <2>2. f = [after \in 0..Shopper |-> f[after]]
      OBVIOUS
    <2> HIDE DEF f, Step
    <2> QED
      BY <2>1, <2>2
  <1> HIDE DEF f
  <1>4. read = [after \in 0..Shopper |-> Step(read, after)]
    <2>1. \E g : g = [after \in 0..Shopper |-> Step(g, after)]
      <3> HIDE DEF Step
      <3> QED
        BY <1>3
    <2> HIDE DEF Step
    <2> QED
      BY <1>1, <2>1
  <1>5. ASSUME NEW after \in 0..Shopper, \A k \in after + 1..Shopper : k \in S PROVE after \in S
    <2>1. \A k \in after + 1..Shopper : read[k] = Rest(k)
      BY <1>5
    <2> HIDE DEF Step, Rest
    <2>2. Step(read, after) = Rest(after)
      BY <1>2, <2>1
    <2>3. read[after] = Step(read, after)
      BY <1>4
    <2> QED
      BY <2>2, <2>3
  <1>6. 0 \in S
    <2> HIDE DEF S
    <2>1. \A k \in 0..Shopper : k \in S
      BY <1>0, <1>5, DownFromTheTop
    <2> QED
      BY <1>0, <2>1
  <1>7. Rest(0) = keys
    <2>1. \A k \in keys : k > 0
      BY <1>0
    <2> QED
      BY <2>1
  <1> QED
    BY <1>6, <1>7 DEF GroupedKeys, read

-----------------------------------------------------------------------------
(* The funnel's diagnosis                                                  *)

\* Shares of counts, compared crosswise: what is below is below.
LEMMA BelowIsOrder ==
    ASSUME NEW a \in Nat, NEW b \in Nat \ {0}, NEW c \in Nat, NEW d \in Nat \ {0}, NEW e \in Nat, NEW f \in Nat \ {0},
           ~(c * b < d * a), ~(e * d < f * c)
    PROVE  ~(e * b < f * a)
  <1> DEFINE bc == b * c
             ad == a * d
             ed == d * e
             fc == c * f
             eb == b * e
             fa == a * f
  <1>1. bc = c * b /\ ad = d * a /\ ed = e * d /\ fc = f * c /\ eb = e * b /\ fa = f * a
    OBVIOUS
  <1>2. bc \in Nat /\ ad \in Nat /\ ed \in Nat /\ fc \in Nat /\ eb \in Nat /\ fa \in Nat
    OBVIOUS
  <1>3. ad <= bc /\ fc <= ed
    <2> HIDE DEF bc, ad, ed, fc
    <2> QED
      BY <1>1, <1>2
  <1>4. ad * f <= bc * f /\ fc * b <= ed * b
    <2> HIDE DEF bc, ad, ed, fc
    <2>1. ad * f <= bc * f
      BY <1>2, <1>3
    <2>2. fc * b <= ed * b
      BY <1>2, <1>3
    <2> QED
      BY <2>1, <2>2
  <1>5. bc * f = fc * b
    OBVIOUS
  <1>6. ad * f = fa * d /\ ed * b = eb * d
    OBVIOUS
  <1>7. fa * d <= eb * d
    <2> DEFINE p == ad * f
               q == bc * f
               r == ed * b
    <2>1. p \in Int /\ q \in Int /\ r \in Int
      BY <1>2
    <2>2. p <= q /\ q <= r
      BY <1>4, <1>5
    <2>3. p = fa * d /\ r = eb * d
      BY <1>6
    <2> HIDE DEF p, q, r
    <2>4. p <= r
      BY <2>1, <2>2
    <2> QED
      BY <2>3, <2>4
  <1>8. fa <= eb
    <2> HIDE DEF fa, eb
    <2>1. eb < fa => eb * d + d <= fa * d
      BY <1>2
    <2>2. eb * d \in Int /\ fa * d \in Int
      BY <1>2
    <2> QED
      BY <1>2, <1>7, <2>1, <2>2
  <1> HIDE DEF fa, eb
  <1> QED
    BY <1>1, <1>2, <1>8

Fraction == Nat \X (Nat \ {0})

\* A share that is not below one that is not below a third is not below the third.
LEMMA SharesAreOrdered ==
    ASSUME NEW p \in Fraction, NEW q \in Fraction, NEW r \in Fraction, ~Below(q, p), ~Below(r, q)
    PROVE  ~Below(r, p)
  <1>1. p[1] \in Nat /\ p[2] \in Nat \ {0} /\ q[1] \in Nat /\ q[2] \in Nat \ {0} /\ r[1] \in Nat /\ r[2] \in Nat \ {0}
    BY DEF Fraction
  <1>2. ~(q[1] * p[2] < p[1] * q[2]) /\ ~(r[1] * q[2] < q[1] * r[2])
    BY DEF Below
  <1>3. p[1] * q[2] = q[2] * p[1] /\ q[1] * r[2] = r[2] * q[1] /\ p[1] * r[2] = r[2] * p[1]
    BY <1>1
  <1>4. ~(q[1] * p[2] < q[2] * p[1]) /\ ~(r[1] * q[2] < r[2] * q[1])
    BY <1>2, <1>3, Zenon
  <1>5. ~(r[1] * p[2] < r[2] * p[1])
    BY <1>1, <1>4, BelowIsOrder
  <1>6. ~(r[1] * p[2] < p[1] * r[2])
    BY <1>3, <1>5, Zenon
  <1> QED
    BY <1>6 DEF Below

\* One of three shares is the smallest.
LEMMA OneIsSmallest ==
    ASSUME NEW share \in [1..3 -> Fraction]
    PROVE  \E s \in 1..3 : \A t \in 1..3 : ~Below(share[t], share[s])
  <1> DEFINE L(s, t) == ~Below(share[t], share[s])
  <1>1. ASSUME NEW s \in 1..3, NEW t \in 1..3 PROVE L(s, t) \/ L(t, s)
    <2> DEFINE x == share[t][1] * share[s][2]
               y == share[s][1] * share[t][2]
    <2>1. share[s] \in Fraction /\ share[t] \in Fraction
      OBVIOUS
    <2>2. x \in Nat /\ y \in Nat
      <3>1. share[s][1] \in Nat /\ share[s][2] \in Nat /\ share[t][1] \in Nat /\ share[t][2] \in Nat
        BY <2>1 DEF Fraction
      <3> QED
        BY <3>1
    <2>3. (Below(share[t], share[s]) <=> x < y) /\ (Below(share[s], share[t]) <=> y < x)
      BY DEF Below
    <2> HIDE DEF x, y
    <2> QED
      BY <2>2, <2>3
  <1>2. ASSUME NEW s \in 1..3, NEW t \in 1..3, NEW u \in 1..3, L(s, t), L(t, u) PROVE L(s, u)
    <2>1. share[s] \in Fraction /\ share[t] \in Fraction /\ share[u] \in Fraction
      OBVIOUS
    <2> QED
      BY <1>2, <2>1, SharesAreOrdered
  <1> HIDE DEF L
  <1>3. 1 \in 1..3 /\ 2 \in 1..3 /\ 3 \in 1..3
    OBVIOUS
  <1>4. \E s \in 1..3 : L(s, 1) /\ L(s, 2) /\ L(s, 3)
    BY <1>1, <1>2, <1>3
  <1>5. \A t \in 1..3 : t = 1 \/ t = 2 \/ t = 3
    OBVIOUS
  <1>6. \E s \in 1..3 : \A t \in 1..3 : L(s, t)
    BY <1>4, <1>5
  <1> QED
    BY <1>6 DEF L

Funnel == [requested : Nat, confirmed : Nat, completed : Nat, opportunities : Nat]

\* The diagnosis of any counts is right.
LEMMA DiagnosisIsRight ==
    ASSUME NEW counts \in Funnel
    PROVE  DiagnosisIsWorst(counts)
  <1> DEFINE stage == Stages(counts)
             share == [s \in 1..3 |-> Share(Stages(counts)[s])]
             W == {s \in 1..3 : \A t \in 1..3 : ~Below(share[t], share[s])}
             worst == Least(W)
             bar == <<7, 10>>
  <1>1. \A s \in 1..3 : stage[s].in \in Nat /\ stage[s].out \in Nat
    <2>1. stage[1].in \in Nat /\ stage[1].out \in Nat /\ stage[2].in \in Nat /\ stage[2].out \in Nat
          /\ stage[3].in \in Nat /\ stage[3].out \in Nat
      BY DEF Stages, Funnel
    <2> HIDE DEF stage
    <2> QED
      BY <2>1
  <1>2. \A s \in 1..3 : share[s] = IF stage[s].in > 0 THEN <<stage[s].out, stage[s].in>> ELSE <<1, 1>>
    BY DEF Share
  <1> HIDE DEF stage, share
  <1>3. \A s \in 1..3 : share[s] \in Fraction
    BY <1>1, <1>2 DEF Fraction
  <1>4. share \in [1..3 -> Fraction]
    BY <1>3 DEF share
  <1>5. worst \in 1..3 /\ \A t \in 1..3 : ~Below(share[t], share[worst])
    <2>1. W # {}
      BY <1>4, OneIsSmallest
    <2>2. W \in SUBSET Int /\ \A i \in W : 1 <= i
      OBVIOUS
    <2>3. worst \in W
      <3> HIDE DEF W
      <3> QED
        BY <2>1, <2>2, LeastOf
    <2> HIDE DEF worst
    <2> QED
      BY <2>3
  <1>6. DropOff(counts) = IF Below(share[worst], bar) THEN worst ELSE Never
    BY DEF DropOff, share
  <1> HIDE DEF W, worst
  <1>7. bar \in Fraction
    BY DEF Fraction
  <1>8. CASE ~Below(share[worst], bar)
    <2>1. DropOff(counts) = Never
      BY <1>6, <1>8
    <2>2. ASSUME NEW s \in 1..3 PROVE ~(10 * stage[s].out < (10 - 3) * stage[s].in)
      <3>1. ~Below(share[s], bar)
        <4> HIDE DEF bar
        <4> QED
          BY <1>3, <1>5, <1>7, <1>8, SharesAreOrdered
      <3>2. ~(share[s][1] * 10 < 7 * share[s][2])
        BY <3>1 DEF Below
      <3>3. CASE stage[s].in > 0
        BY <1>1, <1>2, <3>2, <3>3
      <3>4. CASE ~(stage[s].in > 0)
        BY <1>1, <3>4
      <3> QED
        BY <3>3, <3>4
    <2> QED
      BY <2>1, <2>2 DEF DiagnosisIsWorst, stage
  <1>9. CASE Below(share[worst], bar)
    <2>1. DropOff(counts) = worst /\ worst # Never
      BY <1>5, <1>6, <1>9 DEF Never
    <2>2. share[worst][1] * 10 < 7 * share[worst][2]
      BY <1>9 DEF Below
    <2>3. stage[worst].in > 0 /\ share[worst] = <<stage[worst].out, stage[worst].in>>
      BY <1>2, <1>5, <2>2
    <2>4. 10 * stage[worst].out < (10 - 3) * stage[worst].in
      BY <1>1, <1>5, <2>2, <2>3
    <2>5. ASSUME NEW s \in 1..3 PROVE stage[s].in * stage[worst].out <= stage[s].out * stage[worst].in
      <3>1. ~(share[s][1] * stage[worst].in < stage[worst].out * share[s][2])
        BY <1>5, <2>3 DEF Below
      <3>2. /\ stage[worst].out \in Nat /\ stage[worst].in \in Nat /\ stage[s].in \in Nat /\ stage[s].out \in Nat
        BY <1>1, <1>5
      <3>3. CASE stage[s].in > 0
        <4>1. share[s] = <<stage[s].out, stage[s].in>>
          BY <1>2, <3>3
        <4> DEFINE a == stage[s].out
                   b == stage[s].in
                   c == stage[worst].out
                   e == stage[worst].in
        <4>2. ~(a * e < c * b)
          BY <3>1, <4>1
        <4> HIDE DEF a, b, c, e
        <4>3. a \in Nat /\ b \in Nat /\ c \in Nat /\ e \in Nat
          BY <3>2 DEF a, b, c, e
        <4>4. b * c <= a * e
          BY <4>2, <4>3
        <4> QED
          BY <4>4 DEF a, b, c, e
      <3>4. CASE ~(stage[s].in > 0)
        <4>1. stage[s].in = 0
          BY <3>2, <3>4
        <4>2. stage[s].in * stage[worst].out = 0 /\ stage[s].out * stage[worst].in \in Nat
          BY <3>2, <4>1
        <4> QED
          BY <4>2
      <3> QED
        BY <3>3, <3>4
    <2> QED
      BY <2>1, <2>4, <2>5 DEF DiagnosisIsWorst, stage
  <1> QED
    BY <1>8, <1>9

-----------------------------------------------------------------------------
(* The rows that visits leave                                              *)

\* What the console knows of a visit: only a cancellation has the reason of a
\* reschedule, and only a completed drive sells.
Coherent(v) ==
    /\ v.status \in Statuses /\ v.created \in Nat /\ v.first \in Nat \cup {Never} /\ v.sold \in Nat \cup {Never}
    /\ v.reason = "Rescheduled" => v.status = "Cancelled"
    /\ v.sold # Never => v.status = "Completed" /\ v.created <= v.sold
    /\ v.first <= v.created /\ v.owner \in Agent \cup {Integration}
AreVisits(visits) == IsFiniteSet(DOMAIN visits) /\ \A k \in DOMAIN visits : Coherent(visits[k])

LastRow(visits, k) ==
    [visit |-> k, half |-> "last", status |-> visits[k].status, reason |-> visits[k].reason, created |-> visits[k].created]
LastRows(visits, K) == {LastRow(visits, k) : k \in K}
Made(visits, from) == {k \in DOMAIN visits : visits[k].created >= from /\ ~Mislabelled(visits[k])}

\* A row is the last one of its visit, or one that a reschedule left.
LEMMA RowParts ==
    ASSUME NEW visits, AreVisits(visits), NEW r \in Rows(visits)
    PROVE  /\ r.visit \in DOMAIN visits
           /\ \/ r = LastRow(visits, r.visit) /\ r.half = "last" /\ r.status = visits[r.visit].status
                 /\ r.reason = visits[r.visit].reason /\ r.created = visits[r.visit].created
              \/ r.half = "replaced" /\ r.status = "Cancelled" /\ r.reason = "Rescheduled" /\ r.created \in Nat
  <1>1. CASE \E k \in DOMAIN visits : r = LastRow(visits, k)
    <2>1. PICK k \in DOMAIN visits : r = LastRow(visits, k)
      BY <1>1
    <2>2. r.visit = k
      BY <2>1 DEF LastRow
    <2>3. r = LastRow(visits, r.visit)
      BY <2>1, <2>2
    <2> QED
      BY <2>1, <2>2, <2>3 DEF LastRow
  <1>2. CASE ~(\E k \in DOMAIN visits : r = LastRow(visits, k))
    <2>1. PICK k \in {j \in DOMAIN visits : visits[j].first # Never} :
            r = [visit |-> k, half |-> "replaced", status |-> "Cancelled", reason |-> "Rescheduled", created |-> visits[k].first]
      BY <1>2 DEF Rows, LastRow
    <2>2. visits[k].first \in Nat
      BY DEF AreVisits, Coherent
    <2> QED
      BY <2>1, <2>2
  <1> QED
    BY <1>1, <1>2

\* Every visit has its last row.
LEMMA LastRowIsRow ==
    ASSUME NEW visits, NEW k \in DOMAIN visits
    PROVE  /\ LastRow(visits, k) \in Rows(visits) /\ LastRow(visits, k).visit = k /\ LastRow(visits, k).half = "last"
           /\ LastRow(visits, k).status = visits[k].status /\ LastRow(visits, k).reason = visits[k].reason
           /\ LastRow(visits, k).created = visits[k].created
  BY DEF Rows, LastRow

\* There are as many last rows as visits.
LEMMA AsManyRows ==
    ASSUME NEW visits, AreVisits(visits), NEW K \in SUBSET (DOMAIN visits)
    PROVE  /\ IsFiniteSet(LastRows(visits, K)) /\ IsFiniteSet(K)
           /\ Cardinality(LastRows(visits, K)) = Cardinality(K) /\ Cardinality(K) \in Nat
  <1> DEFINE f == [k \in K |-> LastRow(visits, k)]
  <1>1. IsFiniteSet(K) /\ Cardinality(K) \in Nat
    BY FS_Subset, FS_CardinalityType DEF AreVisits
  <1>2. f \in [K -> LastRows(visits, K)] /\ \A r \in LastRows(visits, K) : \E k \in K : f[k] = r
    BY DEF LastRows
  <1>3. \A j, k \in K : f[j] = f[k] => j = k
    <2>1. \A k \in K : LastRow(visits, k).visit = k
      BY DEF LastRow
    <2> QED
      BY <2>1
  <1> HIDE DEF f
  <1> QED
    BY <1>1, <1>2, <1>3, SameNumber

\* The rows that are counted are the last ones of the visits made.
LEMMA CountedRows ==
    ASSUME NEW visits, AreVisits(visits), NEW from
    PROVE  /\ NotRescheduled(InPeriod(Rows(visits), from)) = LastRows(visits, Made(visits, from))
           /\ OfStatus(InPeriod(Rows(visits), from), {"Completed"})
                = LastRows(visits, {k \in Made(visits, from) : visits[k].status \in {"Completed"}})
           /\ Made(visits, from) \subseteq DOMAIN visits
  <1> DEFINE rows == NotRescheduled(InPeriod(Rows(visits), from))
             done == OfStatus(InPeriod(Rows(visits), from), {"Completed"})
             made == Made(visits, from)
  <1>1. ASSUME NEW r \in Rows(visits), r.reason # "Rescheduled", r.created >= from
        PROVE  r.visit \in made /\ r = LastRow(visits, r.visit)
    <2>1. /\ r.visit \in DOMAIN visits /\ r = LastRow(visits, r.visit)
          /\ r.reason = visits[r.visit].reason /\ r.created = visits[r.visit].created
      BY <1>1, RowParts
    <2> QED
      BY <1>1, <2>1 DEF Made, Mislabelled
  <1>2. ASSUME NEW k \in made
        PROVE  /\ LastRow(visits, k) \in Rows(visits) /\ LastRow(visits, k).reason # "Rescheduled"
               /\ LastRow(visits, k).created >= from
               /\ LastRow(visits, k).status = visits[k].status
    <2>1. k \in DOMAIN visits /\ visits[k].created >= from /\ ~Mislabelled(visits[k])
      BY DEF Made
    <2>2. visits[k].reason # "Rescheduled"
      BY <2>1 DEF Mislabelled, AreVisits, Coherent
    <2> QED
      BY <2>1, <2>2, LastRowIsRow
  <1>3. rows = LastRows(visits, made)
    <2>1. \A r \in rows : r \in LastRows(visits, made)
      BY <1>1 DEF NotRescheduled, InPeriod, LastRows
    <2>2. \A r \in LastRows(visits, made) : r \in rows
      BY <1>2 DEF NotRescheduled, InPeriod, LastRows
    <2> QED
      BY <2>1, <2>2
  <1>4. done = LastRows(visits, {k \in made : visits[k].status \in {"Completed"}})
    <2>1. ASSUME NEW r \in done PROVE \E k \in made : visits[k].status \in {"Completed"} /\ r = LastRow(visits, k)
      <3>1. r \in Rows(visits) /\ r.created >= from /\ r.status = "Completed"
        BY DEF OfStatus, InPeriod
      <3>2. r.visit \in DOMAIN visits /\ r.status = visits[r.visit].status /\ r.reason = visits[r.visit].reason
        BY <3>1, RowParts
      <3>3. r.reason # "Rescheduled"
        BY <3>1, <3>2 DEF AreVisits, Coherent
      <3>4. r.visit \in made /\ r = LastRow(visits, r.visit)
        BY <1>1, <3>1, <3>3
      <3> QED
        BY <3>1, <3>2, <3>4
    <2>2. ASSUME NEW k \in made, visits[k].status \in {"Completed"} PROVE LastRow(visits, k) \in done
      BY <1>2, <2>2 DEF OfStatus, InPeriod
    <2> HIDE DEF done
    <2> QED
      BY <2>1, <2>2 DEF LastRows
  <1> QED
    BY <1>3, <1>4 DEF Made

\* Some of the last rows are those of some of the visits.
LEMMA SomeRows ==
    ASSUME NEW visits, NEW K \in SUBSET (DOMAIN visits)
    PROVE  /\ \A S : OfStatus(LastRows(visits, K), S) = LastRows(visits, {k \in K : visits[k].status \in S})
           /\ {visits[r.visit].place : r \in LastRows(visits, K)} = {visits[k].place : k \in K}
           /\ {visits[r.visit].owner : r \in LastRows(visits, K)} = {visits[k].owner : k \in K}
  <1>1. \A k \in K : LastRow(visits, k).visit = k /\ LastRow(visits, k).status = visits[k].status
    BY DEF LastRow
  <1>2. \A r \in LastRows(visits, K) : \E k \in K : r = LastRow(visits, k)
    BY DEF LastRows
  <1>3. \A k \in K : LastRow(visits, k) \in LastRows(visits, K)
    BY DEF LastRows
  <1>4. ASSUME NEW S PROVE OfStatus(LastRows(visits, K), S) = LastRows(visits, {k \in K : visits[k].status \in S})
    <2>1. OfStatus(LastRows(visits, K), S) = {r \in LastRows(visits, K) : r.status \in S}
      BY DEF OfStatus
    <2> QED
      BY <1>1, <2>1 DEF LastRows
  <1>7. {visits[r.visit].place : r \in LastRows(visits, K)} = {visits[k].place : k \in K}
    BY <1>1, <1>2, <1>3
  <1>8. {visits[r.visit].owner : r \in LastRows(visits, K)} = {visits[k].owner : k \in K}
    BY <1>1, <1>2, <1>3
  <1> QED
    BY <1>4, <1>7, <1>8

-----------------------------------------------------------------------------
(* The figures                                                             *)

\* How many visits there are of a kind
LEMMA Figures ==
    ASSUME NEW visits, AreVisits(visits), NEW from
    PROVE  LET made == Made(visits, from)
               rows == NotRescheduled(InPeriod(Rows(visits), from))
               done == OfStatus(InPeriod(Rows(visits), from), {"Completed"})
           IN  /\ made \in SUBSET (DOMAIN visits) /\ IsFiniteSet(made)
               /\ Cardinality(rows) = Cardinality(made)
               /\ \A S : Cardinality(OfStatus(rows, S)) = Cardinality({k \in made : visits[k].status \in S})
               /\ \A p : Cardinality({r \in rows : visits[r.visit].place = p}) = Cardinality({k \in made : visits[k].place = p})
               /\ \A a : Cardinality({r \in rows : visits[r.visit].owner = a}) = Cardinality({k \in made : visits[k].owner = a})
               /\ \A a : Cardinality({r \in done : visits[r.visit].owner = a})
                            = Cardinality({k \in made : visits[k].status \in {"Completed"} /\ visits[k].owner = a})
               /\ {visits[r.visit].place : r \in rows} = {visits[k].place : k \in made}
               /\ {visits[r.visit].owner : r \in rows} = {visits[k].owner : k \in made}
  <1> DEFINE made == Made(visits, from)
             rows == NotRescheduled(InPeriod(Rows(visits), from))
             done == OfStatus(InPeriod(Rows(visits), from), {"Completed"})
             completed == {k \in made : visits[k].status \in {"Completed"}}
  <1>1. rows = LastRows(visits, made) /\ done = LastRows(visits, completed) /\ made \in SUBSET (DOMAIN visits)
    BY CountedRows
  <1>2. completed \in SUBSET made
    OBVIOUS
  <1> HIDE DEF made, rows, done
  <1>3. completed \in SUBSET (DOMAIN visits)
    BY <1>1, <1>2
  <1>4. \A K \in SUBSET made : Cardinality(LastRows(visits, K)) = Cardinality(K)
    BY <1>1, AsManyRows
  <1>5. Cardinality(rows) = Cardinality(made)
    BY <1>1, <1>4
  <1>6. ASSUME NEW S PROVE Cardinality(OfStatus(rows, S)) = Cardinality({k \in made : visits[k].status \in S})
    <2>1. OfStatus(rows, S) = LastRows(visits, {k \in made : visits[k].status \in S})
      BY <1>1, SomeRows
    <2> QED
      BY <1>4, <2>1
  <1>7. ASSUME NEW p
        PROVE  Cardinality({r \in rows : visits[r.visit].place = p}) = Cardinality({k \in made : visits[k].place = p})
    <2>1. \A k \in made : LastRow(visits, k).visit = k
      BY DEF LastRow
    <2>2. {r \in rows : visits[r.visit].place = p} = LastRows(visits, {k \in made : visits[k].place = p})
      BY <1>1, <2>1 DEF LastRows
    <2> QED
      BY <1>4, <2>2
  <1>8. ASSUME NEW a
        PROVE  Cardinality({r \in rows : visits[r.visit].owner = a}) = Cardinality({k \in made : visits[k].owner = a})
    <2>1. \A k \in made : LastRow(visits, k).visit = k
      BY DEF LastRow
    <2>2. {r \in rows : visits[r.visit].owner = a} = LastRows(visits, {k \in made : visits[k].owner = a})
      BY <1>1, <2>1 DEF LastRows
    <2> QED
      BY <1>4, <2>2
  <1>9. ASSUME NEW a
        PROVE  Cardinality({r \in done : visits[r.visit].owner = a})
                = Cardinality({k \in made : visits[k].status \in {"Completed"} /\ visits[k].owner = a})
    <2> DEFINE K == {k \in made : visits[k].status \in {"Completed"} /\ visits[k].owner = a}
    <2>1. {r \in done : visits[r.visit].owner = a} = LastRows(visits, {k \in completed : visits[k].owner = a})
      <3>1. \A k \in completed : LastRow(visits, k).visit = k
        BY DEF LastRow
      <3> HIDE DEF completed
      <3> QED
        BY <1>1, <3>1 DEF LastRows
    <2>2. {k \in completed : visits[k].owner = a} = K /\ K \in SUBSET made
      OBVIOUS
    <2> HIDE DEF K, completed
    <2> QED
      BY <1>4, <2>1, <2>2 DEF K
  <1>10. /\ {visits[r.visit].place : r \in rows} = {visits[k].place : k \in made}
         /\ {visits[r.visit].owner : r \in rows} = {visits[k].owner : k \in made}
    BY ZenonT(60), <1>1, SomeRows
  <1>11. IsFiniteSet(made)
    BY <1>1, FS_Subset DEF AreVisits
  <1> QED
    BY <1>1, <1>5, <1>6, <1>7, <1>8, <1>9, <1>10, <1>11 DEF made, rows, done

\* The figures of any period are right.
LEMMA PeriodIsRight ==
    ASSUME NEW visits, AreVisits(visits), NEW from \in Int
    PROVE  VisitsCountOnce(visits, from)
  <1> DEFINE made == Made(visits, from)
             rows == NotRescheduled(InPeriod(Rows(visits), from))
             done == OfStatus(InPeriod(Rows(visits), from), {"Completed"})
             Are(S) == Cardinality({k \in made : visits[k].status \in S})
             places == {visits[r.visit].place : r \in rows}
             reps == {visits[r.visit].owner : r \in rows} \ {Integration}
             sales == Opportunities(visits, from)
             funnel == FunnelCounts(visits, from)
             summary == Summary(visits, from)
             All == \A k \in DOMAIN visits : visits[k].created >= from
             AtPlace(p) == {k \in made : visits[k].place = p}
             OfRep(a) == {k \in made : visits[k].owner = a}
  <1>1. /\ made \in SUBSET (DOMAIN visits) /\ IsFiniteSet(made)
        /\ Cardinality(rows) = Cardinality(made)
        /\ \A S : Cardinality(OfStatus(rows, S)) = Are(S)
        /\ \A p : Cardinality({r \in rows : visits[r.visit].place = p}) = Cardinality(AtPlace(p))
        /\ \A a : Cardinality({r \in rows : visits[r.visit].owner = a}) = Cardinality(OfRep(a))
        /\ \A a : Cardinality({r \in done : visits[r.visit].owner = a})
                    = Cardinality({k \in made : visits[k].status \in {"Completed"} /\ visits[k].owner = a})
        /\ places = {visits[k].place : k \in made}
        /\ {visits[r.visit].owner : r \in rows} = {visits[k].owner : k \in made}
    BY Figures
  <1>2. /\ funnel.requested = Cardinality(rows)
        /\ funnel.confirmed = Cardinality(OfStatus(rows, {"Confirmed", "InProgress", "Completed", "NoShow"}))
        /\ funnel.completed = Cardinality(OfStatus(rows, {"Completed"}))
        /\ funnel.opportunities = Cardinality(sales)
    BY DEF FunnelCounts
  <1>3. /\ summary.bookings = Cardinality(rows) /\ summary.cancelled = Cardinality(OfStatus(rows, {"Cancelled"}))
        /\ summary.completed = Cardinality(OfStatus(rows, {"Completed"}))
        /\ DOMAIN summary.branch = places /\ DOMAIN summary.rep = reps
        /\ \A p \in places :
            /\ summary.branch[p].bookings = Cardinality({r \in rows : visits[r.visit].place = p})
            /\ summary.branch[p].conversions = Cardinality({k \in sales : visits[k].place = p})
        /\ \A a \in reps :
            /\ summary.rep[a].bookings = Cardinality({r \in rows : visits[r.visit].owner = a})
            /\ summary.rep[a].completed = Cardinality({r \in done : visits[r.visit].owner = a})
    BY DEF Summary
  <1>4. made = {k \in DOMAIN visits : visits[k].created >= from /\ ~Mislabelled(visits[k])}
    BY DEF Made
  <1>5. \A k \in made : visits[k].status \in Statuses
    BY <1>1 DEF AreVisits, Coherent
  <1> HIDE DEF made, rows, done, sales, funnel, summary
  <1>6. \A K \in SUBSET made : IsFiniteSet(K) /\ Cardinality(K) \in Nat
    BY <1>1, FS_Subset, FS_CardinalityType
  <1>7. funnel.confirmed + Are({"Requested", "Waitlisted", "Cancelled"}) = funnel.requested
    <2> DEFINE A == {k \in made : visits[k].status \in {"Confirmed", "InProgress", "Completed", "NoShow"}}
               B == {k \in made : visits[k].status \in {"Requested", "Waitlisted", "Cancelled"}}
    <2>1. made = A \cup B /\ A \cap B = {}
      BY <1>5 DEF Statuses
    <2>2. funnel.confirmed = Cardinality(A) /\ Are({"Requested", "Waitlisted", "Cancelled"}) = Cardinality(B)
      BY <1>1, <1>2
    <2> HIDE DEF A, B
    <2>3. Cardinality(made) = Cardinality(A) + Cardinality(B)
      BY <1>1, <2>1, TwoParts
    <2> HIDE DEF Are
    <2> QED
      BY <1>1, <1>2, <2>2, <2>3
  \* what was sold of visits that were made in the period
  <1>8. ASSUME All, NEW k \in sales
        PROVE  k \in made /\ visits[k].status = "Completed"
    <2>1. k \in DOMAIN visits /\ visits[k].sold # Never
      BY DEF sales, Opportunities
    <2>2. visits[k].status = "Completed" /\ visits[k].created >= from
      BY <1>8, <2>1 DEF AreVisits, Coherent
    <2> QED
      BY <1>4, <2>1, <2>2 DEF Mislabelled
  <1>9. ASSUME All PROVE funnel.opportunities <= funnel.completed
    <2> DEFINE C == {k \in made : visits[k].status \in {"Completed"}}
    <2>1. sales \in SUBSET C
      BY <1>8, <1>9
    <2>2. C \in SUBSET made
      OBVIOUS
    <2>3. funnel.completed = Cardinality(C) /\ funnel.opportunities = Cardinality(sales)
      BY <1>1, <1>2
    <2> HIDE DEF C
    <2>4. IsFiniteSet(C)
      BY <1>6, <2>2
    <2> QED
      BY <2>1, <2>3, <2>4, FS_Subset
  <1>10. Total([p \in DOMAIN summary.branch |-> summary.branch[p].bookings]) = summary.bookings
    <2> DEFINE f == [p \in DOMAIN summary.branch |-> summary.branch[p].bookings]
               g == [k \in made |-> visits[k].place]
    <2>1. g \in [made -> places]
      BY <1>1
    <2>2. DOMAIN f = places /\ \A p \in places : f[p] = Cardinality(AtPlace(p))
      BY <1>1, <1>3
    <2>3. \A p \in places : f[p] = Cardinality({k \in made : g[k] = p})
      <3>1. \A p \in places : AtPlace(p) = {k \in made : g[k] = p}
        OBVIOUS
      <3> HIDE DEF f, g, AtPlace
      <3> QED
        BY <2>2, <3>1
    <2> HIDE DEF f, g, places, AtPlace
    <2>4. IsFiniteSet(made) /\ DOMAIN f = places
      BY <1>1, <2>2
    <2>5. Total(f) = Cardinality(made)
      BY <2>1, <2>3, <2>4, TotalOf
    <2> QED
      BY <1>1, <1>3, <2>5 DEF f
  <1>11. ASSUME All
         PROVE  Total([p \in DOMAIN summary.branch |-> summary.branch[p].conversions]) = funnel.opportunities
    <2> DEFINE f == [p \in DOMAIN summary.branch |-> summary.branch[p].conversions]
               g == [k \in sales |-> visits[k].place]
    <2>1. sales \in SUBSET made
      BY <1>8, <1>11
    <2>2. g \in [sales -> places]
      BY <1>1, <2>1
    <2>3. DOMAIN f = places /\ \A p \in places : f[p] = Cardinality({k \in sales : g[k] = p})
      BY <1>3
    <2>4. IsFiniteSet(sales)
      BY <1>6, <2>1
    <2> HIDE DEF f, g, places
    <2>5. Total(f) = Cardinality(sales)
      BY <2>2, <2>3, <2>4, TotalOf
    <2> QED
      BY <1>2, <2>5 DEF f
  <1>12. Total([a \in DOMAIN summary.rep |-> summary.rep[a].bookings])
            + Cardinality({k \in made : visits[k].owner = Integration}) = summary.bookings
    <2> DEFINE f == [a \in DOMAIN summary.rep |-> summary.rep[a].bookings]
               A == {k \in made : visits[k].owner # Integration}
               B == {k \in made : visits[k].owner = Integration}
               g == [k \in A |-> visits[k].owner]
    <2>1. g \in [A -> reps]
      BY <1>1
    <2>2. DOMAIN f = reps /\ \A a \in reps : f[a] = Cardinality(OfRep(a))
      BY ZenonT(60), <1>1, <1>3
    <2>3. \A a \in reps : f[a] = Cardinality({k \in A : g[k] = a})
      <3>1. \A a \in reps : OfRep(a) = {k \in A : g[k] = a}
        OBVIOUS
      <3> HIDE DEF f, g, OfRep
      <3> QED
        BY <2>2, <3>1
    <2>4. made = A \cup B /\ A \cap B = {}
      OBVIOUS
    <2> HIDE DEF f, g, A, reps, OfRep
    <2>5. IsFiniteSet(A) /\ Cardinality(made) = Cardinality(A) + Cardinality(B)
      <3> HIDE DEF B
      <3> QED
        BY <1>1, <2>4, TwoParts
    <2>6. Total(f) = Cardinality(A)
      BY SMTT(60), <2>1, <2>2, <2>3, <2>5, TotalOf
    <2> HIDE DEF B
    <2> QED
      BY <1>1, <1>3, <2>5, <2>6 DEF f, B
  <1>13. ASSUME NEW a \in reps PROVE summary.rep[a].completed <= summary.rep[a].bookings
    <2> DEFINE A == {k \in made : visits[k].status \in {"Completed"} /\ visits[k].owner = a}
               B == OfRep(a)
    <2>1. summary.rep[a].completed = Cardinality(A) /\ summary.rep[a].bookings = Cardinality(B)
      BY ZenonT(60), <1>1, <1>3
    <2>2. A \in SUBSET B /\ B \in SUBSET made
      OBVIOUS
    <2> HIDE DEF A, B
    <2>3. IsFiniteSet(B)
      BY <1>6, <2>2
    <2> QED
      BY <2>1, <2>2, <2>3, FS_Subset
  <1>14. /\ funnel.requested = Cardinality(made) /\ summary.bookings = funnel.requested
         /\ summary.cancelled = Are({"Cancelled"}) /\ summary.completed = funnel.completed
         /\ funnel.completed = Are({"Completed"})
    <2> HIDE DEF Are
    <2> QED
      BY <1>1, <1>2, <1>3
  <1>15. /\ made = {k \in DOMAIN visits : visits[k].created >= from /\ ~Mislabelled(visits[k])}
         /\ funnel = FunnelCounts(visits, from) /\ summary = Summary(visits, from)
    BY <1>4 DEF funnel, summary
  <1>16. \A a \in DOMAIN summary.rep : summary.rep[a].completed <= summary.rep[a].bookings
    BY <1>3, <1>13
  <1> HIDE DEF reps, places
  <1> QED
    BY <1>7, <1>9, <1>10, <1>11, <1>12, <1>14, <1>15, <1>16, Zenon DEF VisitsCountOnce

\* Without a period every row counts.
LEMMA NoPeriod ==
    ASSUME NEW visits, AreVisits(visits)
    PROVE  InPeriod(Rows(visits), 0) = Rows(visits)
  <1>1. ASSUME NEW r \in Rows(visits) PROVE r.created >= 0
    <2>1. visits[r.visit].created \in Nat
      BY RowParts DEF AreVisits, Coherent
    <2> QED
      BY <2>1, RowParts
  <1> QED
    BY <1>1 DEF InPeriod

\* The org's figures are the console's.
LEMMA OrgIsRight ==
    ASSUME NEW visits, AreVisits(visits)
    PROVE  OrgAgrees(visits)
  <1> DEFINE from == 0
  <1>0. InPeriod(Rows(visits), from) = Rows(visits) /\ from = 0
    BY NoPeriod
  <1> HIDE DEF from
  <1> DEFINE made == Made(visits, from)
             rows == NotRescheduled(Rows(visits))
             done == OfStatus(Rows(visits), {"Completed"})
             Are(S) == Cardinality({k \in made : visits[k].status \in S})
             owners == {visits[r.visit].owner : r \in rows}
             OfRep(a) == {k \in made : visits[k].owner = a}
             org == OrgKpis(visits, "manager")
             funnel == FunnelCounts(visits, from)
             board == Leaderboard(visits)
             summary == Summary(visits, from)
             status == StatusBreakdown(visits, "manager")
  <1>1. /\ made \in SUBSET (DOMAIN visits) /\ IsFiniteSet(made)
        /\ Cardinality(rows) = Cardinality(made)
        /\ \A S : Cardinality(OfStatus(rows, S)) = Are(S)
        /\ \A a : Cardinality({r \in rows : visits[r.visit].owner = a}) = Cardinality(OfRep(a))
        /\ owners = {visits[k].owner : k \in made}
    <2> DEFINE counted == NotRescheduled(InPeriod(Rows(visits), from))
               drove == OfStatus(InPeriod(Rows(visits), from), {"Completed"})
    <2>1. /\ made \in SUBSET (DOMAIN visits) /\ IsFiniteSet(made)
          /\ Cardinality(counted) = Cardinality(made)
          /\ \A S : Cardinality(OfStatus(counted, S)) = Are(S)
          /\ \A p : Cardinality({r \in counted : visits[r.visit].place = p}) = Cardinality({k \in made : visits[k].place = p})
          /\ \A a : Cardinality({r \in counted : visits[r.visit].owner = a}) = Cardinality(OfRep(a))
          /\ \A a : Cardinality({r \in drove : visits[r.visit].owner = a})
                      = Cardinality({k \in made : visits[k].status \in {"Completed"} /\ visits[k].owner = a})
          /\ {visits[r.visit].place : r \in counted} = {visits[k].place : k \in made}
          /\ {visits[r.visit].owner : r \in counted} = {visits[k].owner : k \in made}
      BY Figures
    <2>2. counted = rows
      BY <1>0
    <2> HIDE DEF made, Are, OfRep, counted, drove, rows
    <2> QED
      BY <2>1, <2>2
  <1>2. /\ funnel.requested = Cardinality(rows) /\ funnel.completed = Cardinality(OfStatus(rows, {"Completed"}))
    BY <1>0 DEF FunnelCounts
  <1>3. /\ DOMAIN summary.rep = owners \ {Integration}
        /\ \A a \in owners \ {Integration} : summary.rep[a] =
            [bookings |-> Cardinality({r \in rows : visits[r.visit].owner = a}),
             completed |-> Cardinality({r \in done : visits[r.visit].owner = a})]
        /\ \A a \in owners \ {Integration} : summary.rep[a].bookings = Cardinality({r \in rows : visits[r.visit].owner = a})
    <2>1. summary.rep = [a \in owners \ {Integration} |->
            [bookings |-> Cardinality({r \in rows : visits[r.visit].owner = a}),
             completed |-> Cardinality({r \in done : visits[r.visit].owner = a})]]
      BY <1>0 DEF Summary
    <2> HIDE DEF summary, rows, done, owners
    <2> QED
      BY <2>1
  <1>4. /\ DOMAIN board = owners
        /\ \A a \in owners : board[a] =
            [bookings |-> Cardinality({r \in rows : visits[r.visit].owner = a}),
             completed |-> Cardinality({r \in done : visits[r.visit].owner = a})]
        /\ \A a \in owners : board[a].bookings = Cardinality({r \in rows : visits[r.visit].owner = a})
    <2>1. board = [a \in owners |->
            [bookings |-> Cardinality({r \in rows : visits[r.visit].owner = a}),
             completed |-> Cardinality({r \in done : visits[r.visit].owner = a})]]
      BY DEF Leaderboard
    <2> HIDE DEF board, rows, done, owners
    <2> QED
      BY <2>1
  <1>5. /\ org.total = Cardinality(rows) /\ org.completed = Cardinality(done)
        /\ org.activeReps = Cardinality({visits[r.visit].owner : r \in Rows(visits)})
    BY DEF OrgKpis, VisibleTo
  <1>6. DOMAIN status = Statuses /\ \A s \in Statuses : status[s] = Cardinality(OfStatus(rows, {s}))
    BY DEF StatusBreakdown, VisibleTo
  <1>7. \A k \in DOMAIN visits : visits[k].status \in Statuses /\ visits[k].owner \in Agent \cup {Integration}
    BY DEF AreVisits, Coherent
  <1>8. Cardinality(done) = Cardinality(OfStatus(rows, {"Completed"}))
    <2>1. /\ rows = LastRows(visits, made) /\ done = LastRows(visits, {k \in made : visits[k].status \in {"Completed"}})
      BY <1>0, CountedRows
    <2>2. OfStatus(LastRows(visits, made), {"Completed"}) = LastRows(visits, {k \in made : visits[k].status \in {"Completed"}})
      BY <1>1, SomeRows
    <2> QED
      BY <2>1, <2>2
  \* a viewer who is a rep
  <1>9. ASSUME NEW a \in owners \ {Integration}
        PROVE  OrgKpis(visits, a).total = Cardinality({r \in rows : visits[r.visit].owner = a})
    <2>1. a # "manager"
      <3>1. a \in Agent
        BY <1>1, <1>7
      <3> QED
        BY <3>1, DashboardAssumption
    <2>2. OrgKpis(visits, a).total = Cardinality(NotRescheduled({r \in Rows(visits) : visits[r.visit].owner = a}))
      BY <2>1 DEF OrgKpis, VisibleTo
    <2>3. NotRescheduled({r \in Rows(visits) : visits[r.visit].owner = a}) = {r \in rows : visits[r.visit].owner = a}
      BY DEF NotRescheduled
    <2> QED
      BY <2>2, <2>3
  <1>10. {visits[r.visit].owner : r \in Rows(visits)} = {visits[k].owner : k \in DOMAIN visits}
    <2>1. \A r \in Rows(visits) : r.visit \in DOMAIN visits
      BY RowParts
    <2>2. \A k \in DOMAIN visits : LastRow(visits, k) \in Rows(visits) /\ LastRow(visits, k).visit = k
      BY LastRowIsRow
    <2>3. \A k \in DOMAIN visits : visits[k].owner \in {visits[r.visit].owner : r \in Rows(visits)}
      <3> SUFFICES ASSUME NEW k \in DOMAIN visits PROVE \E r \in Rows(visits) : visits[k].owner = visits[r.visit].owner
        OBVIOUS
      <3> QED
        BY <2>2
    <2> QED
      BY <2>1, <2>3
  <1>11. /\ org = OrgKpis(visits, "manager") /\ funnel = FunnelCounts(visits, 0) /\ board = Leaderboard(visits)
         /\ summary = Summary(visits, 0) /\ status = StatusBreakdown(visits, "manager")
    BY <1>0
  <1> HIDE DEF org, funnel, board, summary, status, rows, done, made, owners
  <1>12. Total(status) = org.total
    <2> DEFINE g == [k \in made |-> visits[k].status]
    <2>1. g \in [made -> Statuses]
      BY <1>1, <1>7
    <2>2. \A s \in Statuses : status[s] = Cardinality({k \in made : g[k] = s})
      <3>1. \A s \in Statuses : {k \in made : visits[k].status \in {s}} = {k \in made : g[k] = s}
        OBVIOUS
      <3> HIDE DEF g
      <3> QED
        BY <1>1, <1>6, <3>1
    <2> HIDE DEF g
    <2>3. IsFiniteSet(made) /\ DOMAIN status = Statuses
      BY <1>1, <1>6
    <2>4. Total(status) = Cardinality(made)
      BY <2>1, <2>2, <2>3, TotalOf
    <2> QED
      BY <1>1, <1>5, <2>4
  <1>13. Total([a \in DOMAIN board |-> board[a].bookings]) = org.total
    <2> DEFINE f == [a \in DOMAIN board |-> board[a].bookings]
               g == [k \in made |-> visits[k].owner]
    <2>1. g \in [made -> owners]
      BY <1>1
    <2>2. DOMAIN f = owners /\ \A a \in owners : f[a] = Cardinality(OfRep(a))
      BY <1>1, <1>4
    <2>3. \A a \in owners : f[a] = Cardinality({k \in made : g[k] = a})
      <3>1. \A a \in owners : OfRep(a) = {k \in made : g[k] = a}
        OBVIOUS
      <3> HIDE DEF f, g, OfRep
      <3> QED
        BY <2>2, <3>1
    <2> HIDE DEF f, g
    <2>4. IsFiniteSet(made) /\ DOMAIN f = owners
      BY <1>1, <2>2
    <2>5. Total(f) = Cardinality(made)
      BY <2>1, <2>3, <2>4, TotalOf
    <2> QED
      BY <1>1, <1>5, <2>5 DEF f
  <1>14. /\ org.total = funnel.requested /\ org.completed = funnel.completed
         /\ org.activeReps = Cardinality({visits[k].owner : k \in DOMAIN visits})
    BY <1>2, <1>5, <1>8, <1>10
  <1>15. /\ DOMAIN board \ {Integration} = DOMAIN summary.rep
         /\ \A a \in DOMAIN summary.rep : board[a] = summary.rep[a]
    BY <1>3, <1>4
  <1>16. \A a \in DOMAIN summary.rep : OrgKpis(visits, a).total = summary.rep[a].bookings
    BY <1>3, <1>9
  <1> QED
    BY <1>11, <1>12, <1>13, <1>14, <1>15, <1>16, Zenon DEF OrgAgrees

\* Today's figures are right.
LEMMA TodayIsRight ==
    ASSUME NEW visits, AreVisits(visits)
    PROVE  TodayIsConsistent(visits)
  <1> DEFINE Waiting == {k \in DOMAIN visits : visits[k].day \in Ahead /\ visits[k].status = "Waitlisted"}
             Coming == {k \in DOMAIN visits : visits[k].day \in Ahead
                                              /\ visits[k].status \in {"Requested", "Confirmed", "Waitlisted"}}
             rows == {r \in Rows(visits) : r.half = "last" /\ visits[r.visit].day \in Ahead
                                           /\ r.status \in {"Requested", "Confirmed", "Waitlisted"}}
  <1>1. DrivenToday(visits) \subseteq {visits[k].car : k \in TodaysDrives(visits)}
    BY DEF DrivenToday, TodaysDrives, LiveStatuses
  <1>2. rows = LastRows(visits, Coming)
    <2>1. ASSUME NEW r \in rows PROVE r.visit \in Coming /\ r = LastRow(visits, r.visit)
      <3>1. r \in Rows(visits) /\ r.half = "last"
        OBVIOUS
      <3>2. r.visit \in DOMAIN visits /\ r = LastRow(visits, r.visit) /\ r.status = visits[r.visit].status
        BY <3>1, RowParts
      <3> QED
        BY <3>2
    <2>2. ASSUME NEW k \in Coming PROVE LastRow(visits, k) \in rows
      BY LastRowIsRow
    <2> HIDE DEF rows, Coming
    <2> QED
      BY <2>1, <2>2 DEF LastRows
  <1>3. OrgKpis(visits, "manager").upcoming = Cardinality(rows)
    BY DEF OrgKpis, VisibleTo
  <1>4. Coming \in SUBSET (DOMAIN visits) /\ Coming = Upcoming(visits) \cup Waiting /\ Upcoming(visits) \cap Waiting = {}
    BY DEF Upcoming
  <1> HIDE DEF Coming, Waiting, rows
  <1>5. IsFiniteSet(Coming) /\ Cardinality(rows) = Cardinality(Coming)
    BY <1>2, <1>4, AsManyRows
  <1>6. Cardinality(Coming) = Cardinality(Upcoming(visits)) + Cardinality(Waiting)
    BY <1>4, <1>5, TwoParts
  <1> QED
    BY <1>1, <1>3, <1>5, <1>6 DEF TodayIsConsistent, Waiting

\* Everybody with a live booking is in one segment.
LEMMA SegmentsAreRight ==
    ASSUME NEW visits, AreVisits(visits), \A k \in DOMAIN visits : visits[k].shopper \in 1..Shopper, NEW before
    PROVE  SegmentsArePartition(visits, before)
  <1> DEFINE keys == ActiveShoppers(visits)
             f == Segments(visits, before)
             g == [c \in keys |-> SegmentOf(visits, before, c)]
             live == {visits[k].shopper : k \in {j \in DOMAIN visits : visits[j].status # "Cancelled"}}
  <1>1. keys \in SUBSET (1..Shopper)
    BY DEF ActiveShoppers
  <1>2. keys = live
    <2>1. ASSUME NEW c \in keys PROVE c \in live
      <3>1. PICK r \in Rows(visits) : visits[r.visit].shopper = c /\ r.status # "Cancelled"
        BY DEF ActiveShoppers, RowsOfShopper
      <3>2. r.visit \in DOMAIN visits /\ r.status = visits[r.visit].status
        BY <3>1, RowParts
      <3> QED
        BY <3>1, <3>2
    <2>2. ASSUME NEW c \in live PROVE c \in keys
      <3>1. PICK k \in DOMAIN visits : visits[k].status # "Cancelled" /\ visits[k].shopper = c
        OBVIOUS
      <3>2. /\ LastRow(visits, k) \in Rows(visits) /\ LastRow(visits, k).visit = k
            /\ LastRow(visits, k).status = visits[k].status
        BY LastRowIsRow
      <3> QED
        BY <3>1, <3>2 DEF ActiveShoppers, RowsOfShopper
    <2> QED
      BY <2>1, <2>2
  <1>3. GroupedKeys(keys) = keys
    BY <1>1, PagesAreComplete
  <1>4. \A c : SegmentOf(visits, before, c) \in SegmentNames
    BY DEF SegmentOf, SegmentNames
  <1>5. DOMAIN f = SegmentNames /\ \A s \in SegmentNames : f[s] = Cardinality({c \in keys : SegmentOf(visits, before, c) = s})
    <2>1. f = [s \in SegmentNames |-> Cardinality({c \in GroupedKeys(keys) : SegmentOf(visits, before, c) = s})]
      BY DEF Segments
    <2> HIDE DEF f, keys
    <2> QED
      BY <1>3, <2>1
  <1> HIDE DEF f, keys
  <1>6. g \in [keys -> SegmentNames]
    BY <1>4
  <1>7. \A s \in SegmentNames : f[s] = Cardinality({c \in keys : g[c] = s})
    <2>1. \A s \in SegmentNames : {c \in keys : SegmentOf(visits, before, c) = s} = {c \in keys : g[c] = s}
      OBVIOUS
    <2> HIDE DEF g
    <2> QED
      BY <1>5, <2>1
  <1> HIDE DEF g
  <1>8. IsFiniteSet(keys)
    <2>1. Shopper \in Int
      BY DashboardAssumption
    <2>2. IsFiniteSet(1..Shopper)
      BY <2>1, FS_Interval
    <2> QED
      BY <1>1, <2>2, FS_Subset
  <1>9. Total(f) = Cardinality(keys)
    BY <1>5, <1>6, <1>7, <1>8, TotalOf
  <1> QED
    BY <1>2, <1>3, <1>9 DEF SegmentsArePartition, f, keys

-----------------------------------------------------------------------------
(* What is drawn                                                           *)

\* The visits that are drawn
PeriodVisit(o, c, f, p, a, s) ==
    [AVisit EXCEPT !.status = o.status, !.reason = o.reason, !.created = c, !.first = f, !.place = p, !.owner = a, !.sold = s]
TodayVisit(s, d, c) == [AVisit EXCEPT !.status = s, !.day = d, !.car = c]
ShopperVisit(o, c, p) == [AVisit EXCEPT !.status = o[1], !.won = o[2], !.created = c, !.shopper = p]
PeriodVisitSet ==
    {PeriodVisit(o, c, f, p, a, s) :
        o \in Outcomes, c \in 0..1, f, s \in {Never, 0, 1}, p \in Place, a \in Agent \cup {Integration}}
TodayVisitSet == {TodayVisit(s, d, c) : s \in Statuses, d \in {"past"} \cup OnToday \cup Ahead, c \in 1..2}
ShopperKinds == {<<"Confirmed", FALSE>>, <<"Cancelled", FALSE>>, <<"Completed", FALSE>>, <<"Completed", TRUE>>}

\* The visits of a period, by name
LEMMA PeriodVisitsOf ==
    PeriodVisits = {v \in PeriodVisitSet :
        v.first <= v.created /\ (v.sold # Never => v.status = "Completed" /\ v.sold >= v.created)}
  BY DEF PeriodVisits, PeriodVisitSet, PeriodVisit

\* Today's visits, by name
LEMMA TodayVisitsOf ==
    TodayVisits = {v \in TodayVisitSet : v.status \in {"InProgress", "Completed"} => v.day # "later"}
  BY DEF TodayVisits, TodayVisitSet, TodayVisit

\* The customers' visits, by name
LEMMA ShopperVisitsOf == ShopperVisits = {ShopperVisit(o, c, p) : o \in ShopperKinds, c \in 0..1, p \in 1..Shopper}
  BY DEF ShopperVisits, ShopperKinds, ShopperVisit

\* They are visits.
LEMMA DrawnVisits ==
    ASSUME NEW v
    PROVE  /\ v \in PeriodVisits => Coherent(v)
           /\ v \in TodayVisits => Coherent(v)
           /\ v \in ShopperVisits => Coherent(v) /\ v.shopper \in 1..Shopper
  <1>1. ASSUME v \in PeriodVisits PROVE Coherent(v)
    <2>1. v \in PeriodVisitSet /\ v.first <= v.created /\ (v.sold # Never => v.status = "Completed" /\ v.sold >= v.created)
      BY <1>1, PeriodVisitsOf
    <2>2. PICK o \in Outcomes, c \in 0..1, f \in {Never, 0, 1}, s \in {Never, 0, 1}, p \in Place, a \in Agent \cup {Integration} :
            v = PeriodVisit(o, c, f, p, a, s)
      BY <2>1 DEF PeriodVisitSet
    <2>3. /\ v.status = o.status /\ v.reason = o.reason /\ v.created = c /\ v.first = f /\ v.owner = a /\ v.sold = s
      BY <2>2 DEF PeriodVisit, AVisit
    <2>4. o.status \in Statuses /\ (o.reason = "Rescheduled" => o.status = "Cancelled")
      BY DEF Outcomes, Statuses
    <2>5. c \in Nat /\ f \in Nat \cup {Never} /\ s \in Nat \cup {Never} /\ a \in Agent \cup {Integration}
      BY DEF Never
    <2>6. v.sold # Never => v.created <= v.sold
      BY <2>1, <2>3, <2>5 DEF Never
    <2> QED
      BY <2>1, <2>3, <2>4, <2>5, <2>6 DEF Coherent
  <1>2. ASSUME v \in TodayVisits PROVE Coherent(v)
    <2>1. v \in TodayVisitSet
      BY <1>2, TodayVisitsOf
    <2>2. PICK s \in Statuses, d \in {"past"} \cup OnToday \cup Ahead, c \in 1..2 : v = TodayVisit(s, d, c)
      BY <2>1 DEF TodayVisitSet
    <2>3. /\ v.status = s /\ v.reason = "none" /\ v.created = 1 /\ v.first = Never /\ v.owner = Integration /\ v.sold = Never
      BY <2>2 DEF TodayVisit, AVisit
    <2> QED
      BY <2>3 DEF Coherent, Never
  <1>3. ASSUME v \in ShopperVisits PROVE Coherent(v) /\ v.shopper \in 1..Shopper
    <2>1. PICK o \in ShopperKinds, c \in 0..1, p \in 1..Shopper : v = ShopperVisit(o, c, p)
      BY <1>3, ShopperVisitsOf
    <2>2. /\ v.status = o[1] /\ v.reason = "none" /\ v.created = c /\ v.first = Never /\ v.owner = Integration
          /\ v.sold = Never /\ v.shopper = p
      BY <2>1 DEF ShopperVisit, AVisit
    <2>3. o[1] \in Statuses
      <3>1. o = <<"Confirmed", FALSE>> => o[1] = "Confirmed"
        OBVIOUS
      <3>2. o = <<"Cancelled", FALSE>> => o[1] = "Cancelled"
        OBVIOUS
      <3>3. o = <<"Completed", FALSE>> => o[1] = "Completed"
        OBVIOUS
      <3>4. o = <<"Completed", TRUE>> => o[1] = "Completed"
        OBVIOUS
      <3>5. \/ o = <<"Confirmed", FALSE>> \/ o = <<"Cancelled", FALSE>> \/ o = <<"Completed", FALSE>>
            \/ o = <<"Completed", TRUE>>
        BY DEF ShopperKinds
      <3>6. o[1] = "Confirmed" \/ o[1] = "Cancelled" \/ o[1] = "Completed"
        BY <3>1, <3>2, <3>3, <3>4, <3>5, Zenon
      <3> QED
        BY <3>6 DEF Statuses
    <2>4. c \in Nat
      OBVIOUS
    <2> QED
      BY <2>2, <2>3, <2>4 DEF Coherent, Never
  <1> QED
    BY <1>1, <1>2, <1>3

\* The first few numbers
LEMMA FirstFew ==
    ASSUME NEW n \in Nat
    PROVE  IsFiniteSet(1..n)
  BY FS_Interval

\* The numbers of two or three visits
LEMMA FewAreFinite == IsFiniteSet(1..2) /\ IsFiniteSet(1..3)
  <1> DEFINE two == 2
             three == 3
  <1>1. two \in Nat /\ three \in Nat
    OBVIOUS
  <1> HIDE DEF two, three
  <1>2. IsFiniteSet(1..two) /\ IsFiniteSet(1..three)
    BY <1>1, FirstFew
  <1> QED
    BY <1>2 DEF two, three

\* Two visits are visits.
LEMMA TwoVisits ==
    ASSUME NEW v, NEW w, Coherent(v), Coherent(w)
    PROVE  AreVisits(<<v, w>>)
  <1>0. IsFiniteSet(1..2)
    BY FewAreFinite
  <1>1. DOMAIN <<v, w>> = 1..2
    OBVIOUS
  <1>2. \A k \in 1..2 : <<v, w>>[k] = v \/ <<v, w>>[k] = w
    OBVIOUS
  <1>3. \A k \in 1..2 : Coherent(<<v, w>>[k])
    BY <1>2
  <1> QED
    BY <1>0, <1>1, <1>3 DEF AreVisits

\* A funnel counts.
LEMMA FunnelIsFunnel ==
    ASSUME NEW visits, AreVisits(visits), NEW from
    PROVE  FunnelCounts(visits, from) \in Funnel
  <1> DEFINE made == Made(visits, from)
             rows == NotRescheduled(InPeriod(Rows(visits), from))
             sales == Opportunities(visits, from)
  <1>1. rows = LastRows(visits, made) /\ made \in SUBSET (DOMAIN visits)
    BY CountedRows
  <1>2. sales \in SUBSET (DOMAIN visits)
    BY DEF Opportunities
  <1>3. FunnelCounts(visits, from) =
            [requested |-> Cardinality(rows),
             confirmed |-> Cardinality(OfStatus(rows, {"Confirmed", "InProgress", "Completed", "NoShow"})),
             completed |-> Cardinality(OfStatus(rows, {"Completed"})), opportunities |-> Cardinality(sales)]
    BY DEF FunnelCounts
  <1> HIDE DEF made, rows, sales
  <1>4. IsFiniteSet(rows)
    BY <1>1, AsManyRows
  <1>5. \A S : OfStatus(rows, S) \in SUBSET rows
    BY DEF OfStatus
  <1>6. \A T \in SUBSET rows : Cardinality(T) \in Nat
    BY <1>4, FS_Subset, FS_CardinalityType
  <1>7. Cardinality(sales) \in Nat
    BY <1>2, FS_Subset, FS_CardinalityType DEF AreVisits
  <1> QED
    BY <1>3, <1>5, <1>6, <1>7 DEF Funnel

\* Each of the cases
LEMMA DrawnIsRight ==
    ASSUME DashboardNext
    PROVE  DashboardIsRight'
  <1>1. CASE DrawTrend
    <2>1. PICK zone \in Zone, now \in Now, length \in Period :
            LET days == ReportDays(zone, now, length)
            IN  \E early, late \in PeriodStart(days) - 1..PeriodEnd(days) + 1 :
                    /\ early <= late
                    /\ report' = [kind |-> "trend", zone |-> zone, now |-> now, days |-> days, starts |-> <<early, late>>]
      BY <1>1 DEF DrawTrend
    <2> DEFINE days == ReportDays(zone, now, length)
    <2>2. zone \in Clock /\ now \in Int /\ length \in Nat \ {0}
      BY ScheduleAssumption, DashboardAssumption DEF Clock
    <2>3. PeriodStart(days) \in Int /\ PeriodEnd(days) \in Int
      <3> DEFINE last == DateAt(zone, now)
                 first == last - length + 1
      <3>1. last \in Int
        BY <2>2, DatesOf
      <3>2. days = DaysFrom(zone, first, last)
        BY DEF ReportDays, DaysFrom
      <3> HIDE DEF last, days
      <3>3. first \in Int /\ first <= last
        BY <2>2, <3>1
      <3> HIDE DEF first
      <3> QED
        BY <2>2, <3>1, <3>2, <3>3, PeriodIsWhole
    <2>4. PICK early \in Int, late \in Int :
            report' = [kind |-> "trend", zone |-> zone, now |-> now, days |-> days, starts |-> <<early, late>>]
      <3> HIDE DEF days
      <3>1. PICK early, late \in PeriodStart(days) - 1..PeriodEnd(days) + 1 :
                report' = [kind |-> "trend", zone |-> zone, now |-> now, days |-> days, starts |-> <<early, late>>]
        BY <2>1 DEF days
      <3>2. early \in Int /\ late \in Int
        BY <2>3
      <3> QED
        BY <3>1, <3>2
    <2> DEFINE starts == <<early, late>>
    <2>5. IsFiniteSet(DOMAIN starts) /\ \A k \in DOMAIN starts : starts[k] \in Int
      <3>0. IsFiniteSet(1..2)
        BY FewAreFinite
      <3>1. DOMAIN starts = 1..2
        OBVIOUS
      <3>2. \A k \in 1..2 : starts[k] = early \/ starts[k] = late
        OBVIOUS
      <3> QED
        BY <3>0, <3>1, <3>2
    <2>6. report'.kind = "trend" /\ report'.zone = zone /\ report'.now = now /\ report'.days = days /\ report'.starts = starts
      BY <2>4
    <2> HIDE DEF starts
    <2>7. DaysAreCounted(zone, now, days, starts)
      BY <2>2, <2>5, TrendIsRight
    <2> HIDE DEF days
    <2> QED
      BY <2>6, <2>7 DEF DashboardIsRight
  <1>2. CASE DrawPeriod
    <2>1. PICK v \in PeriodVisits, w \in OtherVisits, from \in 0..1 :
            report' = [kind |-> "period", visits |-> <<v, w>>, from |-> from]
      BY <1>2 DEF DrawPeriod
    <2> DEFINE visits == <<v, w>>
    <2>2. AreVisits(visits)
      <3>1. w \in PeriodVisits
        BY DEF OtherVisits
      <3> QED
        BY <3>1, DrawnVisits, TwoVisits
    <2>3. report'.kind = "period" /\ report'.visits = visits /\ report'.from = from /\ from \in Int
      BY <2>1
    <2> HIDE DEF visits
    <2>4. VisitsCountOnce(visits, from) /\ OrgAgrees(visits)
      BY <2>2, <2>3, PeriodIsRight, OrgIsRight
    <2>5. DiagnosisIsWorst(FunnelCounts(visits, from))
      <3>1. FunnelCounts(visits, from) \in Funnel
        BY <2>2, FunnelIsFunnel
      <3> QED
        BY <3>1, DiagnosisIsRight
    <2> QED
      BY <2>3, <2>4, <2>5 DEF DashboardIsRight
  <1>3. CASE DrawToday
    <2>1. PICK v \in TodayVisits, w \in TodayVisits : report' = [kind |-> "today", visits |-> <<v, w>>]
      BY <1>3 DEF DrawToday
    <2> DEFINE visits == <<v, w>>
    <2>2. AreVisits(visits)
      BY DrawnVisits, TwoVisits
    <2>3. report'.kind = "today" /\ report'.visits = visits
      BY <2>1
    <2> HIDE DEF visits
    <2>4. TodayIsConsistent(visits)
      BY <2>2, TodayIsRight
    <2> QED
      BY <2>3, <2>4 DEF DashboardIsRight
  <1>4. CASE DrawShoppers
    <2>1. PICK visits \in [1..3 -> ShopperVisits] : report' = [kind |-> "shoppers", visits |-> visits]
      BY <1>4 DEF DrawShoppers
    <2>2. DOMAIN visits = 1..3 /\ \A k \in 1..3 : visits[k] \in ShopperVisits
      OBVIOUS
    <2>6. IsFiniteSet(1..3)
      BY FewAreFinite
    <2>3. AreVisits(visits) /\ \A k \in DOMAIN visits : visits[k].shopper \in 1..Shopper
      BY <2>2, <2>6, DrawnVisits DEF AreVisits
    <2>4. SegmentsArePartition(visits, 1)
      BY <2>3, SegmentsAreRight
    <2>5. report'.kind = "shoppers" /\ report'.visits = visits
      BY <2>1
    <2> QED
      BY <2>4, <2>5 DEF DashboardIsRight
  <1> QED
    BY <1>1, <1>2, <1>3, <1>4 DEF DashboardNext

\* Whatever the zone, the period, the visits and their order, the dashboard tells
\* the truth about the drives, and the org's own agrees with it
\* (analytics.repository.ts:285, analytics.repository.ts:37).
THEOREM DashboardIsRightTheorem == DashboardSpec => []DashboardIsRight
  <1>1. DashboardInit => DashboardIsRight
    BY DEF DashboardInit, DashboardIsRight, NoReport
  <1>2. DashboardIsRight /\ [DashboardNext]_report => DashboardIsRight'
    <2> SUFFICES ASSUME DashboardIsRight, [DashboardNext]_report PROVE DashboardIsRight'
      OBVIOUS
    <2>1. CASE DashboardNext
      BY <2>1, DrawnIsRight
    <2>2. CASE UNCHANGED report
      BY <2>2 DEF DashboardIsRight
    <2> QED
      BY <2>1, <2>2
  <1> QED
    BY <1>1, <1>2, PTL DEF DashboardSpec

\* And so it does about any number of visits and any number of bookings, where
\* the cases of the model are of two or three.
THEOREM AnyVisitsTheorem ==
    ASSUME NEW visits, AreVisits(visits), NEW from \in Int
    PROVE  /\ VisitsCountOnce(visits, from) /\ DiagnosisIsWorst(FunnelCounts(visits, from))
           /\ OrgAgrees(visits) /\ TodayIsConsistent(visits)
           /\ (\A k \in DOMAIN visits : visits[k].shopper \in 1..Shopper) => SegmentsArePartition(visits, from)
  <1>1. DiagnosisIsWorst(FunnelCounts(visits, from))
    BY FunnelIsFunnel, DiagnosisIsRight
  <1>2. (\A k \in DOMAIN visits : visits[k].shopper \in 1..Shopper) => SegmentsArePartition(visits, from)
    BY SegmentsAreRight
  <1> QED
    BY <1>1, <1>2, PeriodIsRight, OrgIsRight, TodayIsRight

\* In any zone, for a period of any length that ends today, every booking is
\* counted once and on its day, and no query is too long.
THEOREM AnyBookingsTheorem ==
    ASSUME NEW zone \in Clock, NEW now \in Int, NEW length \in Nat \ {0},
           NEW starts, IsFiniteSet(DOMAIN starts), \A k \in DOMAIN starts : starts[k] \in Int
    PROVE  DaysAreCounted(zone, now, ReportDays(zone, now, length), starts)
  BY TrendIsRight

-----------------------------------------------------------------------------
(* What is read of a record                                                *)

Codec == {"as is", "flag", "list", "filled", "phone", "owner"}

\* Every field of a kind of record is read, in one of the ways there are.
LEMMA ReadersOf ==
    ASSUME NEW kind \in Kinds
    PROVE  /\ Reader(kind) \in [DOMAIN Reader(kind) -> Codec]
           /\ DOMAIN Reader(kind) \subseteq Selected(kind) \cap Stored(kind)
           /\ kind # "contact" => Stored(kind) = DOMAIN Reader(kind)
           /\ kind # "booking" => \A f \in DOMAIN Reader(kind) : Reader(kind)[f] # "owner"
  <1>1. CASE kind = "vehicle"
    <2>1. Reader(kind) = VehicleReader /\ DOMAIN VehicleReader = Vehicle /\ Selected(kind) = Vehicle
      BY <1>1 DEF Reader, VehicleReader, Selected
    <2>2. \A f \in Vehicle : VehicleReader[f] \in Codec \ {"owner"}
      BY DEF VehicleReader, Codec
    <2> QED
      BY <1>1, <2>1, <2>2 DEF Stored, VehicleReader
  <1>2. CASE kind = "branch"
    <2>1. Reader(kind) = BranchReader /\ DOMAIN BranchReader = Branch /\ Selected(kind) = Branch
      BY <1>2 DEF Reader, BranchReader, Selected
    <2>2. \A f \in Branch : BranchReader[f] \in Codec \ {"owner"}
      BY DEF BranchReader, Codec
    <2> QED
      BY <1>2, <2>1, <2>2 DEF Stored, BranchReader
  <1>3. CASE kind = "contact"
    <2>1. Reader(kind) = ContactReader /\ DOMAIN ContactReader = Contact /\ Selected(kind) = Contact \cup Licence
      BY <1>3 DEF Reader, ContactReader, Selected
    <2>2. \A f \in Contact : ContactReader[f] \in Codec \ {"owner"}
      BY DEF ContactReader, Codec
    <2> QED
      BY <1>3, <2>1, <2>2 DEF Stored, ContactReader
  <1>4. CASE kind = "booking"
    <2>1. Reader(kind) = BookingReader /\ DOMAIN BookingReader = Booking /\ Selected(kind) = Booking
      BY <1>4 DEF Reader, BookingReader, Selected
    <2>2. \A f \in Booking : BookingReader[f] \in Codec
      BY DEF BookingReader, Codec
    <2> QED
      BY <1>4, <2>1, <2>2 DEF Stored, BookingReader
  <1>5. CASE kind = "assignment"
    <2>1. Reader(kind) = AssignmentReader /\ DOMAIN AssignmentReader = Assignment /\ Selected(kind) = Assignment
      BY <1>5 DEF Reader, AssignmentReader, Selected
    <2>2. \A f \in Assignment : AssignmentReader[f] \in Codec \ {"owner"}
      BY DEF AssignmentReader, Codec
    <2> QED
      BY <1>5, <2>1, <2>2 DEF Stored, AssignmentReader
  <1>6. CASE kind = "allocation"
    <2>1. Reader(kind) = AllocationReader /\ DOMAIN AllocationReader = Allocation /\ Selected(kind) = Allocation
      BY <1>6 DEF Reader, AllocationReader, Selected
    <2>2. \A f \in Allocation : AllocationReader[f] \in Codec \ {"owner"}
      BY DEF AllocationReader, Codec
    <2> QED
      BY <1>6, <2>1, <2>2 DEF Stored, AllocationReader
  <1>7. CASE kind = "feedback"
    <2>1. Reader(kind) = FeedbackReader /\ DOMAIN FeedbackReader = Feedback /\ Selected(kind) = Feedback
      BY <1>7 DEF Reader, FeedbackReader, Selected
    <2>2. \A f \in Feedback : FeedbackReader[f] \in Codec \ {"owner"}
      BY DEF FeedbackReader, Codec
    <2> QED
      BY <1>7, <2>1, <2>2 DEF Stored, FeedbackReader
  <1> QED
    BY <1>1, <1>2, <1>3, <1>4, <1>5, <1>6, <1>7 DEF Kinds

\* What was read is read the same again, and so is what is typed.
LEMMA ReadingSettles ==
    ASSUME NEW codec \in Codec, NEW v
    PROVE  Decoded(codec, Decoded(codec, v)) = Decoded(codec, v)
  BY DEF Codec, Decoded, ParseList, WithCallingCode, Null, Garbled, Local

LEMMA TypedIsRead ==
    ASSUME NEW kind \in Kinds, NEW f \in DOMAIN Reader(kind), NEW value \in Typed(kind, f)
    PROVE  /\ Decoded(Reader(kind)[f], value) = value
           /\ value = Null => Reader(kind)[f] = "as is"
  <1>1. Reader(kind)[f] \in Codec
    BY ReadersOf
  <1>2. /\ value \in {"new", "off", Null}
        /\ Reader(kind)[f] = "flag" => value # Null
        /\ Reader(kind)[f] \notin {"flag", "as is"} => value = "new"
    BY DEF Typed, Null
  <1> QED
    BY <1>1, <1>2 DEF Codec, Decoded, ParseList, WithCallingCode, Null, Garbled, Local

\* What a record reads as
LEMMA ReadIs ==
    ASSUME NEW kind \in Kinds, NEW record
    PROVE  /\ DOMAIN Read(kind, record) = DOMAIN Reader(kind)
           /\ Read(kind, record) = [f \in DOMAIN Reader(kind) |-> Read(kind, record)[f]]
           /\ \A f \in DOMAIN Reader(kind) :
                Read(kind, record)[f] =
                    IF kind = "branch" /\ f \in {"latitude", "longitude"} /\ Null \in {record.latitude, record.longitude}
                    THEN Null ELSE Decoded(Reader(kind)[f], record[f])
  <1> DEFINE got(f) == IF f \in Selected(kind) THEN record[f] ELSE Null
             entity == [f \in DOMAIN Reader(kind) |-> Decoded(Reader(kind)[f], got(f))]
  <1>1. \A f \in DOMAIN Reader(kind) : got(f) = record[f]
    BY ReadersOf
  <1>2. entity = [f \in DOMAIN Reader(kind) |-> Decoded(Reader(kind)[f], record[f])]
    BY <1>1
  <1>3. kind = "branch" => {"latitude", "longitude"} \subseteq Selected(kind)
    BY DEF Selected, Branch
  <1>4. Read(kind, record) = IF kind = "branch" /\ Null \in {got("latitude"), got("longitude")}
                             THEN [entity EXCEPT !.latitude = Null, !.longitude = Null] ELSE entity
    BY DEF Read
  <1>5. kind = "branch" => got("latitude") = record.latitude /\ got("longitude") = record.longitude
    BY <1>3
  <1> HIDE DEF got, entity
  <1> QED
    BY <1>2, <1>4, <1>5

-----------------------------------------------------------------------------
(* What an edit makes of it                                                *)

\* What the entity holds in f after the edit: what was typed there, but a number
\* that was blanked stays; the dealership of the vehicle's new branch; or what it
\* held.
Blanked(kind, field, value) == kind \in HasForm /\ field \in NotSentBlank(kind) /\ value = Null
Moved(kind, f, field) == kind = "vehicle" /\ f = "dealershipId" /\ field = "branchId"
EditOf(kind, record, field, value, f) ==
    IF f = field /\ ~Blanked(kind, field, value) THEN value
    ELSE IF Moved(kind, f, field) /\ value # Read(kind, record).branchId THEN "new"
    ELSE Read(kind, record)[f]

\* The inputs of a form are fields of the entity.
LEMMA FormsOf ==
    ASSUME NEW kind \in HasForm
    PROVE  /\ kind \in Kinds /\ FormOf(kind) \subseteq DOMAIN Reader(kind)
           /\ NotSentBlank(kind) \subseteq FormOf(kind)
           /\ Required(kind) \subseteq FormOf(kind) \ NotSentBlank(kind)
           /\ kind # "vehicle" => NotSentBlank(kind) = {}
           /\ kind # "branch" => FormOf(kind) \cap BranchAddress = {}
           /\ kind = "vehicle" => "branchId" \in Required(kind) /\ "dealershipId" \in DOMAIN Reader(kind) \ FormOf(kind)
           /\ kind = "branch" => BranchAddress \subseteq Required(kind)
  <1>1. CASE kind = "vehicle"
    <2>1. VehicleForm \subseteq Vehicle /\ "dealershipId" \in Vehicle \ VehicleForm
      BY DEF VehicleForm, Vehicle, VehicleFixed, VehicleClearable, VehicleFlags
    <2>2. /\ NotSentBlank(kind) = {"priceMax", "seatingCapacity", "mileageKmpl"}
          /\ Required(kind) = {"make", "model", "year", "vin", "branchId", "price"}
      BY <1>1 DEF NotSentBlank, Required
    <2>3. NotSentBlank(kind) \subseteq VehicleForm
      BY <2>2 DEF VehicleForm, VehicleFixed, VehicleClearable, VehicleFlags
    <2>4. Required(kind) \subseteq VehicleForm \ NotSentBlank(kind)
      BY <2>2 DEF VehicleForm, VehicleFixed, VehicleClearable, VehicleFlags
    <2>5. VehicleForm \cap BranchAddress = {}
      BY DEF VehicleForm, VehicleFixed, VehicleClearable, VehicleFlags, BranchAddress
    <2>6. FormOf(kind) = VehicleForm /\ DOMAIN Reader(kind) = Vehicle /\ kind \in Kinds
      BY <1>1 DEF FormOf, Reader, VehicleReader, Kinds
    <2> QED
      BY <1>1, <2>1, <2>2, <2>3, <2>4, <2>5, <2>6
  <1>2. CASE kind = "branch"
    <2>1. FormOf(kind) = BranchForm /\ DOMAIN Reader(kind) = Branch /\ kind \in Kinds
          /\ NotSentBlank(kind) = {} /\ Required(kind) = BranchAddress \cup {"name"}
      BY <1>2 DEF FormOf, Reader, BranchReader, NotSentBlank, Required, Kinds
    <2>2. BranchForm \subseteq Branch /\ BranchAddress \cup {"name"} \subseteq BranchForm
      BY DEF BranchForm, Branch, BranchAddress
    <2> QED
      BY <1>2, <2>1, <2>2
  <1>3. CASE kind = "contact"
    <2>1. FormOf(kind) = ProfileForm /\ DOMAIN Reader(kind) = Contact /\ kind \in Kinds
          /\ NotSentBlank(kind) = {} /\ Required(kind) = {"firstName", "lastName"}
      BY <1>3 DEF FormOf, Reader, ContactReader, NotSentBlank, Required, Kinds
    <2>2. ProfileForm \subseteq Contact /\ {"firstName", "lastName"} \subseteq ProfileForm /\ ProfileForm \cap BranchAddress = {}
      BY DEF ProfileForm, Contact, BranchAddress
    <2> QED
      BY <1>3, <2>1, <2>2
  <1> QED
    BY <1>1, <1>2, <1>3 DEF HasForm

\* The edit of an entity with a form
LEMMA FormEdits ==
    ASSUME NEW kind \in HasForm, NEW record, NEW field \in FormOf(kind), NEW value,
           MaySubmit(kind, Form(kind, Read(kind, record), field, value))
    PROVE  Edited(kind, record, field, value) = [f \in DOMAIN Reader(kind) |-> EditOf(kind, record, field, value, f)]
  <1> DEFINE entity == Read(kind, record)
             form == Form(kind, entity, field, value)
             body == Body(kind, form)
             patched == Over(body, entity)
  <1>1. /\ DOMAIN entity = DOMAIN Reader(kind) /\ FormOf(kind) \subseteq DOMAIN Reader(kind)
        /\ entity = [f \in DOMAIN Reader(kind) |-> entity[f]]
    BY FormsOf, ReadIs
  <1>2. DOMAIN form = FormOf(kind) /\ form[field] = value
    BY DEF Form
  <1>3. ASSUME NEW f \in FormOf(kind), f # field PROVE form[f] = entity[f]
    <2>1. form[f] = IF f \in BranchAddress /\ entity[f] = "default" THEN Null ELSE entity[f]
      BY <1>3 DEF Form
    <2>2. f \in BranchAddress => f \in Required(kind)
      BY FormsOf
    <2>3. f \in Required(kind) => form[f] # Null
      BY DEF MaySubmit
    <2> QED
      BY <2>1, <2>2, <2>3
  <1>4. /\ DOMAIN body = {f \in FormOf(kind) : ~(f \in NotSentBlank(kind) /\ form[f] = Null)}
        /\ \A f \in DOMAIN body : body[f] = form[f]
    BY <1>2 DEF Body
  <1> HIDE DEF entity, form, body
  <1>5. /\ patched = [f \in DOMAIN Reader(kind) |-> IF f = field /\ ~Blanked(kind, field, value) THEN value ELSE entity[f]]
    <2>1. DOMAIN body \cup DOMAIN entity = DOMAIN Reader(kind)
      BY <1>1, <1>4
    <2>2. ASSUME NEW f \in DOMAIN Reader(kind)
          PROVE  (IF f \in DOMAIN body THEN body[f] ELSE entity[f])
                    = IF f = field /\ ~Blanked(kind, field, value) THEN value ELSE entity[f]
      BY <1>2, <1>3, <1>4 DEF Blanked
    <2> QED
      BY <2>1, <2>2 DEF Over
  <1>6. CASE kind # "vehicle"
    <2>1. Edited(kind, record, field, value) = patched
      BY <1>6 DEF Edited, Patched, HasForm, BranchPatched, ProfilePatched, entity, form, body
    <2> QED
      BY <1>5, <1>6, <2>1 DEF EditOf, Moved, entity
  <1>7. CASE kind = "vehicle"
    <2>1. Edited(kind, record, field, value) = VehiclePatched(entity, body)
      BY <1>7 DEF Edited, Patched, entity, form, body
    <2>2. /\ "branchId" \in FormOf(kind) \ NotSentBlank(kind)
          /\ "dealershipId" \in DOMAIN Reader(kind) /\ field # "dealershipId"
      BY <1>7, FormsOf
    <2>3. body["branchId"] = IF field = "branchId" THEN value ELSE entity["branchId"]
      BY <1>2, <1>3, <1>4, <2>2
    <2>4. VehiclePatched(entity, body) =
            [patched EXCEPT !["dealershipId"] = IF body["branchId"] # entity["branchId"] THEN "new" ELSE patched["dealershipId"]]
      BY DEF VehiclePatched
    <2>5. \A f \in DOMAIN Reader(kind) :
            VehiclePatched(entity, body)[f] = EditOf(kind, record, field, value, f)
      BY <1>5, <1>7, <2>2, <2>3, <2>4 DEF EditOf, Moved, entity
    <2>6. VehiclePatched(entity, body) = [f \in DOMAIN Reader(kind) |-> VehiclePatched(entity, body)[f]]
      BY <1>5, <2>4
    <2> QED
      BY <2>1, <2>5, <2>6
  <1> QED
    BY <1>6, <1>7

\* The edit of any entity
LEMMA EditIs ==
    ASSUME NEW kind \in Kinds, NEW record, NEW field \in EditableFields(kind), NEW value, MayEdit(kind, record, field, value)
    PROVE  /\ field \in DOMAIN Reader(kind)
           /\ Edited(kind, record, field, value) = [f \in DOMAIN Reader(kind) |-> EditOf(kind, record, field, value, f)]
  <1>1. CASE kind \in HasForm
    <2>1. field \in FormOf(kind) /\ MaySubmit(kind, Form(kind, Read(kind, record), field, value))
      BY <1>1 DEF EditableFields, MayEdit
    <2> QED
      BY <1>1, <2>1, FormEdits, FormsOf
  <1>2. CASE kind \notin HasForm
    <2>1. field \in DOMAIN Reader(kind)
      BY <1>2 DEF EditableFields
    <2>2. Edited(kind, record, field, value) = [Read(kind, record) EXCEPT ![field] = value]
      BY <1>2 DEF Edited
    <2>3. Read(kind, record) = [f \in DOMAIN Reader(kind) |-> Read(kind, record)[f]]
      BY ReadIs
    <2>4. kind # "vehicle"
      BY <1>2 DEF HasForm
    <2>5. \A f : EditOf(kind, record, field, value, f) = IF f = field THEN value ELSE Read(kind, record)[f]
      BY <1>2, <2>4 DEF EditOf, Blanked, Moved
    <2>6. \A f \in DOMAIN Reader(kind) : Edited(kind, record, field, value)[f] = EditOf(kind, record, field, value, f)
      BY <2>1, <2>2, <2>3, <2>5
    <2>7. Edited(kind, record, field, value) = [f \in DOMAIN Reader(kind) |-> Edited(kind, record, field, value)[f]]
      BY <2>1, <2>2, <2>3
    <2> QED
      BY <2>1, <2>6, <2>7
  <1> QED
    BY <1>1, <1>2

\* Fields that are not read as they are stored, or of which some writer or form
\* makes an exception
LEMMA Exceptions ==
    /\ \A kind \in Kinds : \A f \in DOMAIN Reader(kind) :
            Reader(kind)[f] = "owner" => kind = "booking" /\ f = "salesRepId"
    /\ {"latitude", "longitude"} \subseteq DOMAIN Reader("branch")
    /\ {"latitude", "longitude"} \subseteq FormOf("branch") \ BranchAddress
    /\ \A f \in {"latitude", "longitude"} : Reader("branch")[f] = "as is"
    /\ \A f \in NotSentBlank("vehicle") : Reader("vehicle")[f] = "as is"
    /\ DOMAIN Reader("contact") \cap {"licenseNumber", "licenseVerified", "mobilePhone"} = {}
  <1>1. ASSUME NEW kind \in Kinds, NEW f \in DOMAIN Reader(kind), Reader(kind)[f] = "owner"
        PROVE  kind = "booking" /\ f = "salesRepId"
    <2>1. kind = "booking"
      BY <1>1, ReadersOf
    <2>2. Reader(kind) = BookingReader /\ f \in Booking
      BY <2>1 DEF Reader, BookingReader
    <2> QED
      BY <1>1, <2>1, <2>2 DEF BookingReader
  <1>2. Reader("branch") = BranchReader /\ FormOf("branch") = BranchForm
    BY DEF Reader, FormOf
  <1>3. {"latitude", "longitude"} \subseteq Branch \ (BranchAddress \cup {"isActive", "dealershipId"})
    BY DEF Branch, BranchAddress
  <1>4. \A f \in {"latitude", "longitude"} : BranchReader[f] = "as is"
    BY <1>3 DEF BranchReader
  <1>5. \A f \in NotSentBlank("vehicle") : Reader("vehicle")[f] = "as is"
    <2>1. Reader("vehicle") = VehicleReader /\ NotSentBlank("vehicle") = {"priceMax", "seatingCapacity", "mileageKmpl"}
      BY DEF Reader, NotSentBlank
    <2>2. NotSentBlank("vehicle") \subseteq Vehicle \ (VehicleFlags \cup VehicleLists \cup {"price", "odometer", "availabilityStatus"})
      BY <2>1 DEF Vehicle, VehicleClearable, VehicleFlags, VehicleLists
    <2> QED
      BY <2>1, <2>2 DEF VehicleReader
  <1>6. DOMAIN Reader("contact") = Contact
    BY DEF Reader, ContactReader
  <1> QED
    BY <1>1, <1>2, <1>3, <1>4, <1>5, <1>6 DEF BranchReader, BranchForm, Contact

\* What is stored after the edit
LEMMA AfterIs ==
    ASSUME NEW kind \in Kinds, NEW record, DOMAIN record = Stored(kind),
           NEW field \in EditableFields(kind), NEW value, MayEdit(kind, record, field, value)
    PROVE  /\ \A f \in DOMAIN Reader(kind) :
                AfterEdit(kind, record, field, value)[f] =
                    IF kind = "booking" /\ f = "salesRepId" /\ EditOf(kind, record, field, value, f) = Null
                    THEN record[f] ELSE EditOf(kind, record, field, value, f)
           /\ \A f \in Stored(kind) \ (DOMAIN Reader(kind) \cup {"licenseVerified"}) :
                AfterEdit(kind, record, field, value)[f] = record[f]
  <1> DEFINE entity == Edited(kind, record, field, value)
             written == Written(kind, entity)
  <1>1. /\ DOMAIN entity = DOMAIN Reader(kind)
        /\ \A f \in DOMAIN Reader(kind) : entity[f] = EditOf(kind, record, field, value, f)
    BY EditIs
  <1>2. AfterEdit(kind, record, field, value) = Over(written, record)
    BY DEF AfterEdit, Saved
  <1> HIDE DEF entity
  <1>3. CASE kind \notin {"booking", "contact"}
    <2>1. written = entity
      BY <1>3 DEF Kinds, Written, VehicleRecord, BranchRecord, AssignmentRecord, AllocationRecord, FeedbackRecord
    <2> QED
      BY <1>1, <1>2, <1>3, <2>1 DEF Over
  <1>4. CASE kind = "booking"
    <2>1. written = [f \in {g \in DOMAIN entity : g # "salesRepId" \/ entity[g] # Null} |-> entity[f]]
      BY <1>4 DEF Written, BookingRecord
    <2>2. DOMAIN Reader(kind) = Stored(kind)
      BY <1>4, ReadersOf
    <2> QED
      BY <1>1, <1>2, <1>4, <2>1, <2>2 DEF Over
  <1>5. CASE kind = "contact"
    <2>1. written = Over([licenseVerified |-> "off"], entity)
      BY <1>5 DEF Written, ContactRecord
    <2>2. "licenseVerified" \notin DOMAIN Reader(kind)
      BY <1>5, Exceptions
    <2>3. /\ DOMAIN written = {"licenseVerified"} \cup DOMAIN Reader(kind)
          /\ \A f \in DOMAIN Reader(kind) : written[f] = entity[f]
      BY <1>1, <2>1, <2>2 DEF Over
    <2>4. DOMAIN Reader(kind) \subseteq Stored(kind)
      BY ReadersOf
    <2> QED
      BY <1>1, <1>2, <1>5, <2>3, <2>4 DEF Over
  <1> QED
    BY <1>3, <1>4, <1>5

\* A branch keeps both coordinates or none.
LEMMA CoordinatesTogether ==
    ASSUME NEW record, NEW field \in EditableFields("branch"), NEW value, MayEdit("branch", record, field, value)
    PROVE  EditOf("branch", record, field, value, "latitude") = Null
              <=> EditOf("branch", record, field, value, "longitude") = Null
  <1> DEFINE form == Form("branch", Read("branch", record), field, value)
  <1>1. form["latitude"] = Null <=> form["longitude"] = Null
    BY DEF MayEdit, MaySubmit, HasForm
  <1>2. ASSUME NEW f \in {"latitude", "longitude"} PROVE form[f] = EditOf("branch", record, field, value, f)
    <2>1. f \in FormOf("branch") \ BranchAddress
      BY Exceptions
    <2>2. NotSentBlank("branch") = {}
      BY DEF NotSentBlank
    <2> QED
      BY <2>1, <2>2 DEF Form, EditOf, Blanked, Moved
  <1> QED
    BY <1>1, <1>2

-----------------------------------------------------------------------------
(* What an edit keeps                                                      *)

\* What was not edited is kept, but for what is known to be lost.
LEMMA RestIsKept ==
    ASSUME NEW kind \in Kinds, NEW record, DOMAIN record = Stored(kind),
           NEW field \in EditableFields(kind), NEW value, MayEdit(kind, record, field, value)
    PROVE  TheRestIsKept(kind, record, field, value)
  <1> SUFFICES ASSUME NEW f \in Stored(kind) \ {field}, ~KnownLoss(kind, record, f), ~Moved(kind, f, field)
               PROVE  Means(record[f], AfterEdit(kind, record, field, value)[f])
    BY DEF TheRestIsKept, Moved
  <1>1. CASE f \notin DOMAIN Reader(kind)
    <2>1. f # "licenseVerified"
      BY DEF KnownLoss
    <2> QED
      BY <1>1, <2>1, AfterIs DEF Means
  <1>2. CASE f \in DOMAIN Reader(kind)
    <2>1. EditOf(kind, record, field, value, f) = Read(kind, record)[f]
      BY DEF EditOf
    <2>2. CASE kind = "branch" /\ f \in {"latitude", "longitude"} /\ Null \in {record.latitude, record.longitude}
      <3>1. Read(kind, record)[f] = Null
        BY <1>2, <2>2, ReadIs
      <3>2. record[f] = Null
        BY <2>2 DEF KnownLoss
      <3> QED
        BY <1>2, <2>1, <2>2, <3>1, <3>2, AfterIs DEF Means
    <2>3. CASE ~(kind = "branch" /\ f \in {"latitude", "longitude"} /\ Null \in {record.latitude, record.longitude})
      <3>1. Read(kind, record)[f] = Decoded(Reader(kind)[f], record[f])
        BY <1>2, <2>3, ReadIs
      <3>2. Reader(kind)[f] \in Codec /\ (Reader(kind)[f] = "owner" => kind = "booking" /\ f = "salesRepId")
        BY <1>2, ReadersOf, Exceptions
      <3>3. record[f] \notin {Garbled, Local}
        BY DEF KnownLoss
      <3>4. CASE Reader(kind)[f] = "owner"
        <4>1. Read(kind, record)[f] \in {Null, record[f]}
          BY <3>1, <3>4 DEF Decoded
        <4> QED
          BY <1>2, <2>1, <3>2, <3>4, <4>1, AfterIs DEF Means
      <3>5. CASE Reader(kind)[f] # "owner"
        <4>1. Means(record[f], Read(kind, record)[f])
          BY <3>1, <3>2, <3>3, <3>5 DEF Codec, Decoded, ParseList, WithCallingCode, Means
        <4>2. AfterEdit(kind, record, field, value)[f] \in {record[f], Read(kind, record)[f]}
          BY <1>2, <2>1, AfterIs
        <4> QED
          BY <4>1, <4>2 DEF Means
      <3> QED
        BY <3>4, <3>5
    <2> QED
      BY <2>2, <2>3
  <1> QED
    BY <1>1, <1>2

\* What was edited is stored.
LEMMA EditIsMade ==
    ASSUME NEW kind \in Kinds, NEW record, DOMAIN record = Stored(kind),
           NEW field \in EditableFields(kind), NEW value \in Typed(kind, field), MayEdit(kind, record, field, value)
    PROVE  TheEditIsMade(kind, record, field, value)
  <1>1. field \in DOMAIN Reader(kind)
    BY EditIs
  <1>2. CASE ~Blanked(kind, field, value)
    <2>1. EditOf(kind, record, field, value, field) = value
      BY <1>2 DEF EditOf
    <2>2. kind = "booking" /\ field = "salesRepId" => value # Null
      <3>1. ASSUME kind = "booking", field = "salesRepId" PROVE Reader(kind)[field] # "as is"
        BY <1>1, <3>1 DEF Reader, BookingReader
      <3> QED
        BY <1>1, <3>1, TypedIsRead
    <2> QED
      BY <1>1, <1>2, <2>1, <2>2, AfterIs DEF TheEditIsMade, Blanked
  <1>3. CASE Blanked(kind, field, value)
    <2>1. kind = "vehicle" /\ field \in NotSentBlank("vehicle")
      BY <1>3 DEF Blanked, NotSentBlank
    <2>2. EditOf(kind, record, field, value, field) = Read(kind, record)[field]
      BY <1>3 DEF EditOf, Moved
    <2>3. Read(kind, record)[field] = Decoded("as is", record[field])
      <3>1. Reader(kind)[field] = "as is"
        BY <2>1, Exceptions
      <3>2. kind # "branch"
        BY <2>1
      <3>3. Read(kind, record)[field] = Decoded(Reader(kind)[field], record[field])
        BY <1>1, <3>2, ReadIs
      <3> QED
        BY <3>1, <3>3
    <2>4. Decoded("as is", record[field]) = record[field]
      BY DEF Decoded
    <2>5. AfterEdit(kind, record, field, value)[field] = record[field]
      <3>1. kind # "booking"
        BY <2>1
      <3> QED
        BY ZenonT(60), <1>1, <2>2, <2>3, <2>4, <3>1, AfterIs
    <2> QED
      BY <1>3, <2>5 DEF TheEditIsMade, Blanked
  <1> QED
    BY <1>2, <1>3

\* What is read afterwards is the entity that was saved.
LEMMA SavedIsRead ==
    ASSUME NEW kind \in Kinds, NEW record, DOMAIN record = Stored(kind),
           NEW field \in EditableFields(kind), NEW value \in Typed(kind, field), MayEdit(kind, record, field, value)
    PROVE  ReadsBack(kind, record, field, value)
  <1> DEFINE after == AfterEdit(kind, record, field, value)
             edited(f) == EditOf(kind, record, field, value, f)
  <1>1. /\ field \in DOMAIN Reader(kind)
        /\ Edited(kind, record, field, value) = [f \in DOMAIN Reader(kind) |-> edited(f)]
    BY EditIs
  <1>2. \A f \in DOMAIN Reader(kind) :
            after[f] = IF kind = "booking" /\ f = "salesRepId" /\ edited(f) = Null THEN record[f] ELSE edited(f)
    BY AfterIs
  <1>3. ASSUME NEW f \in DOMAIN Reader(kind) PROVE Decoded(Reader(kind)[f], edited(f)) = edited(f)
    <2>1. CASE edited(f) = value /\ f = field
      BY <2>1, TypedIsRead
    <2>2. CASE edited(f) = "new"
      <3>1. Reader(kind)[f] \in Codec
        BY ReadersOf
      <3> QED
        BY <2>2, <3>1 DEF Codec, Decoded, ParseList, WithCallingCode, Null, Garbled, Local
    <2>3. CASE edited(f) = Read(kind, record)[f]
      <3>1. Reader(kind)[f] \in Codec
        BY ReadersOf
      <3>2. CASE kind = "branch" /\ f \in {"latitude", "longitude"}
        BY <3>2, Exceptions DEF Decoded
      <3>3. CASE ~(kind = "branch" /\ f \in {"latitude", "longitude"})
        BY <2>3, <3>1, <3>3, ReadIs, ReadingSettles
      <3> QED
        BY <3>2, <3>3
    <2> QED
      BY <2>1, <2>2, <2>3 DEF EditOf
  <1>4. ASSUME NEW f \in DOMAIN Reader(kind) PROVE Decoded(Reader(kind)[f], after[f]) = edited(f)
    <2>1. CASE kind = "booking" /\ f = "salesRepId" /\ edited(f) = Null
      <3>1. after[f] = record[f] /\ Reader(kind)[f] # "as is"
        BY <1>2, <2>1 DEF Reader, BookingReader
      <3>2. edited(f) = Read(kind, record)[f]
        <4>1. f = field => value # Null
          BY <3>1, TypedIsRead
        <4> QED
          BY <2>1, <4>1 DEF EditOf, Moved
      <3>3. Read(kind, record)[f] = Decoded(Reader(kind)[f], record[f])
        BY <2>1, ReadIs
      <3> QED
        BY <3>1, <3>2, <3>3
    <2>2. CASE ~(kind = "booking" /\ f = "salesRepId" /\ edited(f) = Null)
      BY <1>2, <1>3, <2>2
    <2> QED
      BY <2>1, <2>2
  <1> HIDE DEF after, edited
  <1>5. ASSUME NEW f \in DOMAIN Reader(kind) PROVE Read(kind, after)[f] = edited(f)
    <2>1. CASE kind = "branch" /\ f \in {"latitude", "longitude"} /\ Null \in {after.latitude, after.longitude}
      <3>1. {"latitude", "longitude"} \subseteq DOMAIN Reader(kind)
        BY <2>1, Exceptions
      <3>2. after["latitude"] = edited("latitude") /\ after["longitude"] = edited("longitude")
        BY <1>2, <2>1, <3>1
      <3>3. edited("latitude") = Null <=> edited("longitude") = Null
        BY <2>1, CoordinatesTogether DEF edited
      <3>4. edited(f) = Null
        BY <2>1, <3>2, <3>3
      <3> QED
        BY <2>1, <3>4, ReadIs
    <2>2. CASE ~(kind = "branch" /\ f \in {"latitude", "longitude"} /\ Null \in {after.latitude, after.longitude})
      BY <1>4, <2>2, ReadIs
    <2> QED
      BY <2>1, <2>2
  <1>6. Read(kind, after) = [f \in DOMAIN Reader(kind) |-> Read(kind, after)[f]]
    BY ReadIs
  <1>7. Read(kind, after) = [f \in DOMAIN Reader(kind) |-> edited(f)]
    BY <1>5, <1>6
  <1> QED
    BY <1>1, <1>7 DEF ReadsBack, after

-----------------------------------------------------------------------------
(* Regional settings                                                       *)

\* Of a stored value is read what it is canonically, or nothing.
LEMMA LayerReads ==
    ASSUME NEW layer, NEW k \in RegionalKey
    PROVE  /\ RegionalFromRecord(layer)[k] = IF Parses(k, layer[k]) THEN Parsed(layer[k]) ELSE NoValue
           /\ DOMAIN RegionalFromRecord(layer) = RegionalKey
  BY DEF RegionalFromRecord

\* A canonical value parses to itself.
LEMMA ParsingSettles ==
    ASSUME NEW k, NEW v
    PROVE  /\ Parses(k, Parsed(v)) /\ Parsed(Parsed(v)) = Parsed(v)
           /\ Parsed(v) = NoValue <=> v = NoValue
           /\ Parsed(v).form \in {"canonical", "blank"}
  BY DEF Parses, Parsed, NoValue, Canonical

\* The first layer with a value decides.
LEMMA FirstLayer ==
    ASSUME NEW own, NEW company, NEW k
    PROVE  Pick(<<own, company>>, k) =
                IF own[k] # NoValue THEN own[k] ELSE IF company[k] # NoValue THEN company[k] ELSE OrgDefault(k)
  <1> DEFINE layers == <<own, company>>
             set == {i \in DOMAIN layers : layers[i][k] # NoValue}
  <1>1. DOMAIN layers = {1, 2} /\ layers[1] = own /\ layers[2] = company
    OBVIOUS
  <1>2. Pick(layers, k) = IF set = {} THEN OrgDefault(k) ELSE layers[CHOOSE i \in set : \A j \in set : i <= j][k]
    BY DEF Pick
  <1>3. set \subseteq {1, 2} /\ (1 \in set <=> own[k] # NoValue) /\ (2 \in set <=> company[k] # NoValue)
    BY <1>1
  <1> HIDE DEF layers, set
  <1>4. CASE 1 \in set
    <2>1. (CHOOSE i \in set : \A j \in set : i <= j) = 1
      <3>1. \A i \in set : i \in {1, 2}
        BY <1>3
      <3>2. \A i \in set : (\A j \in set : i <= j) <=> i = 1
        BY <1>4, <3>1
      <3> QED
        BY <1>4, <3>2
    <2> QED
      BY <1>1, <1>2, <1>3, <1>4, <2>1 DEF layers
  <1>5. CASE set = {2}
    <2>1. (CHOOSE i \in set : \A j \in set : i <= j) = 2
      BY <1>5
    <2> QED
      BY <1>1, <1>2, <1>3, <1>5, <2>1 DEF layers
  <1>6. CASE set = {}
    BY <1>2, <1>3, <1>6 DEF layers
  <1> QED
    BY <1>3, <1>4, <1>5, <1>6

Forms == {"blank", "canonical", "loose", "no region", "bad"}

\* The card tells the truth.
LEMMA CardIsTrue ==
    ASSUME NEW own, NEW company, NEW key \in RegionalKey, NEW value, value.form \in Forms \ {"bad"}
    PROVE  RegionalIsTrue(own, company, key, value)
  <1> DEFINE opened == RegionalFromRecord(own)
             form == [RegionalForm(own) EXCEPT ![key] = value]
             saved == RegionalSaved(form)
             below == RegionalFromRecord(company)
             effective == ResolveRegional(saved, company)
  <1>1. /\ DOMAIN form = RegionalKey
        /\ \A k \in RegionalKey : form[k] = IF k = key THEN value ELSE opened[k]
    BY LayerReads DEF RegionalForm
  <1>2. \A k \in RegionalKey : opened[k].form \in {"canonical", "blank"}
    BY LayerReads, ParsingSettles DEF NoValue
  <1>3. \A k \in RegionalKey : form[k].form \in Forms \ {"bad"}
    BY <1>1, <1>2 DEF Forms
  <1>4. RegionalFromRecord(saved) = [k \in RegionalKey |-> Parsed(form[k])]
    <2>1. saved = [k \in RegionalKey |-> Parsed(form[k])]
      BY DEF RegionalSaved, RegionalToRecord
    <2>2. \A k \in RegionalKey : Parses(k, saved[k]) /\ Parsed(saved[k]) = Parsed(form[k])
      BY <2>1, ParsingSettles
    <2> QED
      BY <2>2 DEF RegionalFromRecord
  <1> HIDE DEF form, saved
  <1>5. ASSUME NEW k \in RegionalKey
        PROVE  effective[k] = IF form[k] = NoValue THEN Fallback(company)[k] ELSE Parsed(form[k])
    <2>1. effective[k] = Pick(<<RegionalFromRecord(saved), below>>, k)
      BY DEF ResolveRegional
    <2>2. Fallback(company)[k] = IF below[k] # NoValue THEN below[k] ELSE OrgDefault(k)
      BY DEF Fallback
    <2>3. RegionalFromRecord(saved)[k] = Parsed(form[k])
      BY <1>4
    <2> QED
      BY <2>1, <2>2, <2>3, FirstLayer, ParsingSettles
  <1>6. ASSUME NEW k \in RegionalKey \ {key}
        PROVE  effective[k] = ResolveRegional(own, company)[k]
    <2>1. ResolveRegional(own, company)[k] = Pick(<<opened, below>>, k)
      BY DEF ResolveRegional
    <2>2. Fallback(company)[k] = IF below[k] # NoValue THEN below[k] ELSE OrgDefault(k)
      BY DEF Fallback
    <2>3. form[k] = opened[k]
      BY <1>1
    <2>4. Parsed(opened[k]) = opened[k]
      <3>1. opened[k] = NoValue \/ opened[k] = Parsed(own[k])
        BY LayerReads
      <3>2. Parsed(NoValue) = NoValue
        BY DEF Parsed
      <3> QED
        BY <3>1, <3>2, ParsingSettles
    <2> QED
      BY <1>5, <2>1, <2>2, <2>3, <2>4, FirstLayer
  <1>7. RegionalValid(form)
    BY <1>3 DEF RegionalValid
  <1>8. RegionalAccepted(form) \/ form.locale.form = "no region"
    <2>1. \A k \in RegionalKey : ~Parses(k, form[k]) => k = "locale" /\ form[k].form = "no region"
      BY <1>3 DEF Parses, Forms
    <2> QED
      BY <2>1 DEF RegionalAccepted
  <1>9. RegionalIsTrue(own, company, key, value) <=>
            /\ RegionalAccepted(form) => RegionalValid(form)
            /\ RegionalValid(form) => RegionalAccepted(form) \/ form.locale.form = "no region"
            /\ RegionalAccepted(form) =>
                \A k \in RegionalKey :
                    /\ effective[k] = IF form[k] = NoValue THEN Fallback(company)[k] ELSE Parsed(form[k])
                    /\ k # key => effective[k] = ResolveRegional(own, company)[k]
    BY DEF RegionalIsTrue, form, saved
  <1> QED
    BY <1>5, <1>6, <1>7, <1>8, <1>9

-----------------------------------------------------------------------------
(* Edits that are drawn                                                    *)

\* Whatever the org holds in the fields of a record, of any kind, an edit is stored,
\* the rest of the record is kept, and the record then reads as it was saved, where
\* the cases of the model have one or all fields out of the ordinary.
THEOREM AnyRecordTheorem ==
    ASSUME NEW kind \in Kinds, NEW record, DOMAIN record = Stored(kind),
           NEW field \in EditableFields(kind), NEW value \in Typed(kind, field), MayEdit(kind, record, field, value)
    PROVE  /\ TheRestIsKept(kind, record, field, value)
           /\ TheEditIsMade(kind, record, field, value)
           /\ ReadsBack(kind, record, field, value)
  BY RestIsKept, EditIsMade, SavedIsRead

\* A save stores the edit and leaves the rest of the record as it was, and what a
\* card of regional settings announces applies (admin-vehicles.controller.ts:251).
THEOREM RecordsKeepDataTheorem == RecordsSpec => []RecordsKeepData
  <1>1. RecordsInit => RecordsKeepData
    BY DEF RecordsInit, NoEdit, RecordsKeepData, Kinds
  <1>2. RecordsKeepData /\ [RecordsNext]_edit => RecordsKeepData'
    <2> SUFFICES ASSUME RecordsKeepData, [RecordsNext]_edit PROVE RecordsKeepData'
      OBVIOUS
    <2>1. CASE EditRecord
      <3>1. PICK kind \in Kinds :
                \E record \in RecordsOf(kind), field \in EditableFields(kind) : \E value \in Typed(kind, field) :
                    /\ MayEdit(kind, record, field, value)
                    /\ edit' = [kind |-> kind, record |-> record, field |-> field, value |-> value]
        BY <2>1 DEF EditRecord
      <3>2. PICK record \in RecordsOf(kind), field \in EditableFields(kind) :
                \E value \in Typed(kind, field) :
                    /\ MayEdit(kind, record, field, value)
                    /\ edit' = [kind |-> kind, record |-> record, field |-> field, value |-> value]
        BY <3>1
      <3>3. PICK value \in Typed(kind, field) :
                    /\ MayEdit(kind, record, field, value)
                    /\ edit' = [kind |-> kind, record |-> record, field |-> field, value |-> value]
        BY <3>2
      <3>4. DOMAIN record = Stored(kind)
        BY DEF RecordsOf, Full, Sparse
      <3>5. /\ TheRestIsKept(kind, record, field, value)
            /\ TheEditIsMade(kind, record, field, value)
            /\ ReadsBack(kind, record, field, value)
        BY <3>3, <3>4, AnyRecordTheorem
      <3>6. kind # "regional"
        BY DEF Kinds
      <3> QED
        BY <3>3, <3>5, <3>6 DEF RecordsKeepData
    <2>2. CASE EditRegional
      <3>1. PICK own \in RegionalRecords("dealership"), company \in RegionalRecords("company"), key \in RegionalKey :
                \E v \in RegionalWritten("editor", key) :
                    edit' = [kind |-> "regional", own |-> own, company |-> company, key |-> key, value |-> v]
        BY <2>2 DEF EditRegional
      <3>2. PICK v \in RegionalWritten("editor", key) :
                    edit' = [kind |-> "regional", own |-> own, company |-> company, key |-> key, value |-> v]
        BY <3>1
      <3>3. v.form \in Forms \ {"bad"}
        <4>1. v \in {Canonical("editor"), Loose("editor"), NoValue, Regionless("editor")}
          BY DEF RegionalWritten
        <4>2. /\ Canonical("editor").form = "canonical" /\ Loose("editor").form = "loose"
              /\ Regionless("editor").form = "no region" /\ NoValue.form = "blank"
          BY DEF Canonical, Loose, Regionless, NoValue
        <4> QED
          BY <4>1, <4>2 DEF Forms
      <3>4. RegionalIsTrue(own, company, key, v)
        BY <3>3, CardIsTrue
      <3>5. edit'.kind = "regional" /\ edit'.kind \notin Kinds
        BY <3>2 DEF Kinds
      <3> QED
        BY <3>2, <3>4, <3>5 DEF RecordsKeepData
    <2>3. CASE UNCHANGED edit
      BY <2>3 DEF RecordsKeepData
    <2> QED
      BY <2>1, <2>2, <2>3 DEF RecordsNext
  <1> QED
    BY <1>1, <1>2, PTL DEF RecordsSpec
=============================================================================
