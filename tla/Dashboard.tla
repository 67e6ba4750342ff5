------------------------------- MODULE Dashboard -------------------------------
(***************************************************************************)
(* What the console's dashboard counts, and what the org's own dashboard   *)
(* counts of the same records: drives per day in a dealership's zone from  *)
(* counts per UTC hour, the figures of a period, the conversion funnel     *)
(* with its diagnosis, and the customers' segments, read a page of groups  *)
(* at a time.                                                              *)
(*                                                                         *)
(* Functions without state, as in Schedule: a case is drawn, and what is   *)
(* counted of the stored rows is compared with the visits that customers   *)
(* made.  A visit that was rescheduled has left two rows behind.  Rounding *)
(* and averages are left out.                                              *)
(*                                                                         *)
(* Sources: the Salesforce analytics.repository, apps/api/src/analytics,   *)
(* packages/domain (analytics-window, recommendation-engine),              *)
(* AdminDashboardPage and TDMDashboardController.cls.                      *)
(***************************************************************************)
EXTENDS Schedule

CONSTANTS
    Hour,           \* units in an hour
    MaxGroups,      \* groups that one aggregate query returns
    Place,          \* branches
    Agent,          \* sales reps
    Integration,    \* the user that owns what nobody was assigned to
    Shopper,        \* customers, numbered as their ids are ordered
    Period          \* lengths of a reporting period, in days

ASSUME DashboardAssumption ==
    /\ Hour \in Nat \ {0} /\ MaxGroups \in Nat \ {0, 1}
    /\ Integration \notin Agent /\ "manager" \notin Agent
    /\ Shopper \in Nat \ {0} /\ Period \subseteq Nat \ {0}

VARIABLE report     \* the case under consideration

-----------------------------------------------------------------------------
(* Drives per day                                                          *)

\* AnalyticsService.window: the last days of the zone, today among them
DayWindow(zone, date) ==
    [date |-> date, start |-> Instant(zone, date * DayLength), end |-> Instant(zone, (date + 1) * DayLength) - 1]
ReportDays(zone, now, length) == {DayWindow(zone, d) : d \in DateAt(zone, now) - length + 1..DateAt(zone, now)}
PeriodStart(days) == Least({d.start : d \in days})
PeriodEnd(days) == CHOOSE e \in {d.end : d \in days} : \A d \in days : d.end <= e

DayOf(days, i) == {d.date : d \in {e \in days : e.start <= i /\ i <= e.end}}

\* Spans short enough that the hours they touch fit one query; hours that a
\* midnight cuts, which are read booking by booking.
Spans(from, until) ==
    LET length == (MaxGroups - 1) * Hour
    IN  {[from |-> s, to |-> IF s + length < until THEN s + length ELSE until] :
            s \in {t \in from..until - 1 : (t - from) % length = 0}}
HoursTouched(span) == {h \in span.from - Hour..span.to : h % Hour = 0 /\ h + Hour > span.from /\ h < span.to}
Counted(days, h) ==
    [first |-> IF h < PeriodStart(days) THEN PeriodStart(days) ELSE h,
     last |-> IF h + Hour > PeriodEnd(days) + 1 THEN PeriodEnd(days) ELSE h + Hour - 1]
NeverSplit(days, h) == FALSE
IsSplit(days, h) == DayOf(days, Counted(days, h).first) # DayOf(days, Counted(days, h).last)

\* bookingsPerDay: starts[k] is when booking k starts.
BookingsPerDay(days, starts) ==
    LET spans == Spans(PeriodStart(days), PeriodEnd(days) + 1)
        rows == UNION {[span : {s}, hour : HoursTouched(s), booking : DOMAIN starts] : s \in spans}
        hourly == {r \in rows : /\ r.span.from <= starts[r.booking] /\ starts[r.booking] < r.span.to
                                /\ r.hour <= starts[r.booking] /\ starts[r.booking] < r.hour + Hour}
        whole == {r \in hourly : ~IsSplit(days, r.hour)}
        single == {r.booking : r \in hourly \ whole}
    IN  [date \in {d.date : d \in days} |->
            Cardinality({r \in whole : DayOf(days, Counted(days, r.hour).first) = {date}})
            + Cardinality({k \in single : DayOf(days, starts[k]) = {date}})]

-----------------------------------------------------------------------------
(* The rows that visits leave                                              *)

Statuses == {"Requested", "Confirmed", "Waitlisted", "InProgress", "Completed", "Cancelled", "NoShow"}
Never == -1

\* A visit is the last booking of a chain of reschedules; `first' is when the
\* booking it replaces was created.
Rows(visits) ==
    {[visit |-> k, half |-> "last", status |-> visits[k].status, reason |-> visits[k].reason, created |-> visits[k].created]
        : k \in DOMAIN visits}
    \cup {[visit |-> k, half |-> "replaced", status |-> "Cancelled", reason |-> "Rescheduled", created |-> visits[k].first]
        : k \in {j \in DOMAIN visits : visits[j].first # Never}}

InPeriod(rows, from) == {r \in rows : r.created >= from}
EveryRow(rows) == rows
NotRescheduled(rows) == {r \in rows : r.reason # "Rescheduled"}
OfStatus(rows, statuses) == {r \in rows : r.status \in statuses}
\* Opportunities belong to a booking; `sold' is when one was created.
Opportunities(visits, from) == {k \in DOMAIN visits : visits[k].sold # Never /\ visits[k].sold >= from}

-----------------------------------------------------------------------------
(* The figures of a period                                                 *)

LiveStatuses == {"Requested", "Confirmed", "InProgress", "Completed"}

\* getFunnelCounts
FunnelCounts(visits, from) ==
    LET rows == NotRescheduled(InPeriod(Rows(visits), from))
    IN  [requested |-> Cardinality(rows),
         confirmed |-> Cardinality(OfStatus(rows, {"Confirmed", "InProgress", "Completed", "NoShow"})),
         completed |-> Cardinality(OfStatus(rows, {"Completed"})),
         opportunities |-> Cardinality(Opportunities(visits, from))]

\* getDashboardSummary: what it groups by status, by branch and by rep; only
\* those with a booking of the period are listed.
Summary(visits, from) ==
    LET rows == NotRescheduled(InPeriod(Rows(visits), from))
        done == OfStatus(InPeriod(Rows(visits), from), {"Completed"})
    IN  [bookings |-> Cardinality(rows),
         cancelled |-> Cardinality(OfStatus(rows, {"Cancelled"})),
         completed |-> Cardinality(OfStatus(rows, {"Completed"})),
         branch |-> [p \in {visits[r.visit].place : r \in rows} |->
            [bookings |-> Cardinality({r \in rows : visits[r.visit].place = p}),
             conversions |-> Cardinality({k \in Opportunities(visits, from) : visits[k].place = p})]],
         rep |-> [a \in {visits[r.visit].owner : r \in rows} \ {Integration} |->
            [bookings |-> Cardinality({r \in rows : visits[r.visit].owner = a}),
             completed |-> Cardinality({r \in done : visits[r.visit].owner = a})]]]

\* What starts today and what is still to come; the replaced half of a visit
\* is cancelled, so never counted.
OnToday == {"begun", "to come"}
Ahead == {"to come", "later"}
TodaysDrives(visits) == {k \in DOMAIN visits : visits[k].day \in OnToday /\ visits[k].status \in LiveStatuses}
DrivenToday(visits) ==
    {visits[k].car : k \in {j \in DOMAIN visits : visits[j].day \in OnToday /\ visits[j].status \in {"Confirmed", "InProgress", "Completed"}}}
Upcoming(visits) == {k \in DOMAIN visits : visits[k].day \in Ahead /\ visits[k].status \in {"Requested", "Confirmed"}}

\* analyzeFunnel: the first of the stages that the smallest share passes, if
\* less than 70 percent do.  Shares are compared as fractions.
Stages(counts) ==
    <<[in |-> counts.requested, out |-> counts.confirmed],
      [in |-> counts.confirmed, out |-> counts.completed],
      [in |-> counts.completed, out |-> counts.opportunities]>>
Share(stage) == IF stage.in > 0 THEN <<stage.out, stage.in>> ELSE <<1, 1>>
Below(p, q) == p[1] * q[2] < q[1] * p[2]
DropOff(counts) ==
    LET share == [s \in 1..3 |-> Share(Stages(counts)[s])]
        worst == Least({s \in 1..3 : \A t \in 1..3 : ~Below(share[t], share[s])})
    IN  IF Below(share[worst], <<7, 10>>) THEN worst ELSE Never

-----------------------------------------------------------------------------
(* The org's own dashboard                                                 *)

\* A rep sees the bookings they own, a manager all of them.
VisibleTo(visits, viewer) == IF viewer = "manager" THEN Rows(visits) ELSE {r \in Rows(visits) : visits[r.visit].owner = viewer}

\* getKpis and getStatusBreakdown; there is no period
OrgKpis(visits, viewer) ==
    LET rows == VisibleTo(visits, viewer)
    IN  [total |-> Cardinality(NotRescheduled(rows)),
         upcoming |-> Cardinality({r \in rows : r.half = "last" /\ visits[r.visit].day \in Ahead
                                                /\ r.status \in {"Requested", "Confirmed", "Waitlisted"}}),
         completed |-> Cardinality(OfStatus(rows, {"Completed"})),
         activeReps |-> IF viewer = "manager" THEN Cardinality({visits[r.visit].owner : r \in rows}) ELSE Never]
\* drivesToday compares a date in UTC with the viewer's own.
OrgDrivesToday(zone, now, starts) == {k \in DOMAIN starts : starts[k] \div DayLength = DateAt(zone, now)}
StatusBreakdown(visits, viewer) ==
    [s \in Statuses |-> Cardinality(OfStatus(NotRescheduled(VisibleTo(visits, viewer)), {s}))]
\* getRepLeaderboard lists every owner, the integration user too.
Leaderboard(visits) ==
    [a \in {visits[r.visit].owner : r \in NotRescheduled(Rows(visits))} |->
        [bookings |-> Cardinality({r \in NotRescheduled(Rows(visits)) : visits[r.visit].owner = a}),
         completed |-> Cardinality({r \in OfStatus(Rows(visits), {"Completed"}) : visits[r.visit].owner = a})]]

-----------------------------------------------------------------------------
(* Segments                                                                *)

\* groupedByKey: pages of groups in order of their key, each page after the
\* last key of the one before.
PageAfter(keys, after) ==
    {k \in keys : k > after /\ Cardinality({j \in keys : after < j /\ j <= k}) <= MaxGroups}
PagesAfter(keys) ==
    LET pages[after \in 0..Shopper] ==
            LET page == PageAfter(keys, after)
            IN  IF Cardinality(page) < MaxGroups THEN page
                ELSE page \cup pages[CHOOSE k \in page : \A j \in page : j <= k]
    IN  pages
GroupedKeys(keys) == PagesAfter(keys)[0]

\* getCustomerSegments
RowsOfShopper(visits, c) == {r \in Rows(visits) : visits[r.visit].shopper = c}
ActiveShoppers(visits) == {c \in 1..Shopper : \E r \in RowsOfShopper(visits, c) : r.status # "Cancelled"}
SegmentOf(visits, dormantBefore, c) ==
    LET live == {r \in RowsOfShopper(visits, c) : r.status # "Cancelled"}
        done == Cardinality(OfStatus(live, {"Completed"}))
    IN  IF \E k \in DOMAIN visits : visits[k].shopper = c /\ visits[k].won THEN "converted"
        ELSE IF \A r \in live : r.created < dormantBefore THEN "dormant"
        ELSE IF done >= 2 THEN "repeatVisitors" ELSE IF done = 1 THEN "activeShoppers" ELSE "newProspects"
SegmentNames == {"converted", "dormant", "repeatVisitors", "activeShoppers", "newProspects"}
Segments(visits, dormantBefore) ==
    [s \in SegmentNames |->
        Cardinality({c \in GroupedKeys(ActiveShoppers(visits)) : SegmentOf(visits, dormantBefore, c) = s})]

-----------------------------------------------------------------------------
(* The cases                                                               *)

NoReport == [kind |-> "none"]

AVisit ==
    [status |-> "Requested", reason |-> "none", created |-> 1, first |-> Never, place |-> CHOOSE p \in Place : TRUE,
     owner |-> Integration, car |-> 1, day |-> "later", sold |-> Never, won |-> FALSE, shopper |-> 1]

\* A customer may type any reason for a cancellation, this one too.
Mislabelled(v) == v.status = "Cancelled" /\ v.reason = "Rescheduled"
Outcomes == {[status |-> s, reason |-> "none"] : s \in Statuses} \cup {[status |-> "Cancelled", reason |-> "Rescheduled"]}
PeriodVisits ==
    {v \in {[AVisit EXCEPT !.status = o.status, !.reason = o.reason, !.created = c, !.first = f, !.place = p, !.owner = a, !.sold = s] :
                o \in Outcomes, c \in 0..1, f, s \in {Never, 0, 1}, p \in Place, a \in Agent \cup {Integration}} :
        v.first <= v.created /\ (v.sold # Never => v.status = "Completed" /\ v.sold >= v.created)}
OtherVisits == {v \in PeriodVisits : v.first = Never /\ v.created = 1 /\ v.status \in {"Confirmed", "Completed"}}
TodayVisits ==
    {v \in {[AVisit EXCEPT !.status = s, !.day = d, !.car = c] :
                s \in Statuses, d \in {"past"} \cup OnToday \cup Ahead, c \in 1..2} :
        v.status \in {"InProgress", "Completed"} => v.day # "later"}
ShopperVisits ==
    {[AVisit EXCEPT !.status = o[1], !.won = o[2], !.created = c, !.shopper = p] :
        o \in {<<"Confirmed", FALSE>>, <<"Cancelled", FALSE>>, <<"Completed", FALSE>>, <<"Completed", TRUE>>},
        c \in 0..1, p \in 1..Shopper}

DashboardInit == report = NoReport
DrawTrend ==
    /\ report = NoReport
    /\ \E zone \in Zone, now \in Now, length \in Period :
        LET days == ReportDays(zone, now, length)
        IN  \E early, late \in PeriodStart(days) - 1..PeriodEnd(days) + 1 :
                /\ early <= late
                /\ report' = [kind |-> "trend", zone |-> zone, now |-> now, days |-> days, starts |-> <<early, late>>]
DrawPeriod ==
    /\ report = NoReport
    /\ \E v \in PeriodVisits, w \in OtherVisits, from \in 0..1 :
            report' = [kind |-> "period", visits |-> <<v, w>>, from |-> from]
DrawToday ==
    /\ report = NoReport
    /\ \E v, w \in TodayVisits : report' = [kind |-> "today", visits |-> <<v, w>>]
DrawShoppers ==
    /\ report = NoReport
    /\ \E visits \in [1..3 -> ShopperVisits] : report' = [kind |-> "shoppers", visits |-> visits]
DashboardNext == DrawTrend \/ DrawPeriod \/ DrawToday \/ DrawShoppers

DashboardSpec == DashboardInit /\ [][DashboardNext]_report

-----------------------------------------------------------------------------
(* What the figures should be                                              *)

\* A midnight that happens twice, or never, and so is not where one date ends
\* and the next begins
MidnightMoves(zone) ==
    \E wall \in (zone.at + zone.before + 1..zone.at + zone.after - 1) \cup (zone.at + zone.after + 1..zone.at + zone.before - 1) :
        wall % DayLength = 0

\* No query asks for more groups than it is given, and every booking that
\* starts on a day of the period is counted on that day of the dealership's
\* clock, once, unless the clocks change across a midnight; the org's own
\* figure is that of UTC.
DaysAreCounted(zone, now, days, starts) ==
    /\ \A s \in Spans(PeriodStart(days), PeriodEnd(days) + 1) : Cardinality(HoursTouched(s)) <= MaxGroups
    /\ ~MidnightMoves(zone) => \A date \in {d.date : d \in days} :
            BookingsPerDay(days, starts)[date] = Cardinality({k \in DOMAIN starts : DateAt(zone, starts[k]) = date})
    /\ zone.before = 0 /\ zone.after = 0
            => Cardinality(OrgDrivesToday(zone, now, starts)) = BookingsPerDay(days, starts)[DateAt(zone, now)]

\* A visit counts once however often it was moved, in the period in which its
\* last booking was made; the figures of branches and reps add up to those of
\* the funnel, and each stage of it to no more than the one before.
Total(f) == Cardinality(UNION {{x} \X (1..f[x]) : x \in DOMAIN f})
VisitsCountOnce(visits, from) ==
    LET made == {k \in DOMAIN visits : visits[k].created >= from /\ ~Mislabelled(visits[k])}
        Are(statuses) == Cardinality({k \in made : visits[k].status \in statuses})
        funnel == FunnelCounts(visits, from)
        summary == Summary(visits, from)
    IN  /\ funnel.requested = Cardinality(made) /\ funnel.confirmed + Are({"Requested", "Waitlisted", "Cancelled"}) = funnel.requested
        /\ summary.bookings = funnel.requested /\ summary.cancelled = Are({"Cancelled"})
        /\ summary.completed = funnel.completed /\ funnel.completed = Are({"Completed"})
        /\ (\A k \in DOMAIN visits : visits[k].created >= from) => funnel.opportunities <= funnel.completed
        /\ Total([p \in DOMAIN summary.branch |-> summary.branch[p].bookings]) = summary.bookings
        /\ (\A k \in DOMAIN visits : visits[k].created >= from)
              => Total([p \in DOMAIN summary.branch |-> summary.branch[p].conversions]) = funnel.opportunities
        /\ Total([a \in DOMAIN summary.rep |-> summary.rep[a].bookings])
              + Cardinality({k \in made : visits[k].owner = Integration}) = summary.bookings
        /\ \A a \in DOMAIN summary.rep : summary.rep[a].completed <= summary.rep[a].bookings

\* The diagnosis names a stage only if it loses three in ten or more, and no
\* stage loses a larger share.
DiagnosisIsWorst(counts) ==
    LET stage == Stages(counts)
        Loses(s, tenths) == 10 * stage[s].out < (10 - tenths) * stage[s].in
    IN  IF DropOff(counts) = Never THEN \A s \in 1..3 : ~Loses(s, 3)
        ELSE /\ Loses(DropOff(counts), 3)
             /\ \A s \in 1..3 : stage[s].in * stage[DropOff(counts)].out <= stage[s].out * stage[DropOff(counts)].in

\* The org's dashboard counts as the console's does for all time, but for what
\* it says of the integration user, whom it takes for a rep.
OrgAgrees(visits) ==
    LET org == OrgKpis(visits, "manager")
        funnel == FunnelCounts(visits, 0)
        board == Leaderboard(visits)
        summary == Summary(visits, 0)
    IN  /\ org.total = funnel.requested /\ org.completed = funnel.completed
        /\ Total(StatusBreakdown(visits, "manager")) = org.total
        /\ DOMAIN board \ {Integration} = DOMAIN summary.rep /\ \A a \in DOMAIN summary.rep : board[a] = summary.rep[a]
        /\ Total([a \in DOMAIN board |-> board[a].bookings]) = org.total
        /\ org.activeReps = Cardinality({visits[k].owner : k \in DOMAIN visits})
        /\ \A a \in DOMAIN summary.rep : OrgKpis(visits, a).total = summary.rep[a].bookings

\* Today's figures: a car that is driven today is one of today's drives, and
\* the org counts as upcoming what the console does and the waitlisted besides.
TodayIsConsistent(visits) ==
    /\ DrivenToday(visits) \subseteq {visits[k].car : k \in TodaysDrives(visits)}
    /\ OrgKpis(visits, "manager").upcoming =
        Cardinality(Upcoming(visits)) + Cardinality({k \in DOMAIN visits : visits[k].day \in Ahead /\ visits[k].status = "Waitlisted"})

\* Every customer with a booking that was not cancelled is in one segment,
\* whatever page their group came on, and nobody else is.
SegmentsArePartition(visits, dormantBefore) ==
    LET keys == ActiveShoppers(visits)
    IN  /\ GroupedKeys(keys) = keys
        /\ Total(Segments(visits, dormantBefore)) = Cardinality({visits[k].shopper : k \in {j \in DOMAIN visits : visits[j].status # "Cancelled"}})

\* The dashboard tells the truth about the drives: days are those of the
\* dealership's clock (analytics.repository.ts:285), a rescheduled visit is not
\* counted twice (analytics.repository.ts:37), figures that should add up do,
\* and the org's own dashboard agrees.
DashboardIsRight ==
    /\ report.kind = "trend" => DaysAreCounted(report.zone, report.now, report.days, report.starts)
    /\ report.kind = "period" =>
        /\ VisitsCountOnce(report.visits, report.from)
        /\ DiagnosisIsWorst(FunnelCounts(report.visits, report.from))
        /\ OrgAgrees(report.visits)
    /\ report.kind = "today" => TodayIsConsistent(report.visits)
    /\ report.kind = "shoppers" => SegmentsArePartition(report.visits, 1)
=============================================================================
