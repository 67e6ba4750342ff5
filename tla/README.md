# TDM: verification

TLA+ models of the test-drive management platform in `src/`: a multi-tenant
API (`apps/api`) whose bookings, vehicles and staff live in each tenant's
Salesforce org (`integrations/salesforce`) and whose tenants, accounts,
sessions, locks and audit log live in one Postgres database
(`integrations/postgres`). The API runs on serverless instances: any two
requests may run at the same time, on one instance or on two, and share nothing
but these two stores. Salesforce gives no transaction that spans two calls.
`packages/domain` holds the entities and rules; `apps/web` is the interface.

The contents of this directory:

| file | what it is |
| --- | --- |
| `Booking.tla` | the Booking entity: statuses, guards and transitions |
| `BookingDesk.tla`, `BookingDeskProofs.tla`, `WaitlistProofs.tla` | concurrent requests that create, cancel, move, promote and serve bookings; theorems |
| `TenantConnection.tla`, `TenantConnectionProofs.tla` | the instances of the API sharing one tenant's rotating Salesforce connection; theorems |
| `FreshRegister.tla` | what a cache of settings promises: the abstract specification |
| `SettingsCache.tla`, `SettingsCacheProofs.tla` | one instance's cache of a dealership's settings; theorems, the refinement of `FreshRegister` among them |
| `Onboarding.tla`, `OnboardingProofs.tla` | how a company connects its org, is deployed to and gets its first administrator; theorems |
| `StaffAccess.tla` | assignments, the access derived from them, its cache, and edits of assignments |
| `Sharing.tla` | the Apex automation: groups, members and shares |
| `Fleet.tla` | a vehicle, its edits, bookings and transfers |
| `Reminders.tla` | the reminder and follow-up jobs |
| `Accounts.tla` | the accounts behind one email address, codes, links and passwords |
| `OperationsProofs.tla` | theorems about the five before |
| `Sessions.tla` | sessions of a customer and of a member of staff, in tabs |
| `Paperwork.tla` | the compliance record of a drive and its files |
| `Survey.tla` | the survey after a drive, its Lead and Opportunity |
| `Branding.tla` | brands, their images and the editors |
| `Access.tla`, `Console.tla` | what pages offer against what the server grants, as functions |
| `PortalProofs.tla` | theorems about the six before, from `Sessions` on |
| `Schedule.tla` | the slots of a day, as functions |
| `Dashboard.tla` | what the dashboards count, as functions |
| `Records.tla` | what an edit does to a stored record, as functions |
| `DashboardProofs.tla` | theorems about the three before |
| `Portal.tla` | those from `Sessions` on, side by side; `PortalProofs.tla` has its theorems too |
| `MC*.tla`, `*.cfg` | instances for TLC |
| `PROJECT.json` | components, runs, mutants, the map from definitions to source lines, findings, hazards, theorems |

## 1. Inventory

### Components, their state and operations

| component | state it keeps | operations | talks to |
| --- | --- | --- | --- |
| Booking entity (`entities/booking.ts`) | one record: status, slot, rep, waitlist position, check-in, link to the booking it replaces | `request`, `confirm`, `waitlist`, `assignRep`, `cancel`, `reschedule`, `checkIn`, `start`, `complete`, `markNoShow` | nothing (pure) |
| Booking desk (`bookings.service.ts`, `booking-mutation.service.ts`, `admin-bookings.service.ts`) | `Booking__c` records in Salesforce | create, cancel, reschedule, promote, assign, hand off, notes, check in, start, complete, no-show | exclusive lock, repositories, audit log, e-mail |
| Conflict and waitlist rules (`booking-domain-service.ts`) | none | `assertNoConflict`, `promoteNextFor` | repositories |
| Exclusive lock (`exclusive-lock.ts`) | a Postgres advisory lock per key, held for one transaction of at most 30 s | `runExclusive` | - |
| Reminders and follow-ups (`reminder.scheduler.ts`, `followup.scheduler.ts`) | one claim row per booking and kind of mail | scan, claim, send, release | booking repository, e-mail; started by cron requests (`jobs.controller.ts`) |
| Survey and sales opportunity (`submitSurvey`, `opportunity.repository.ts`) | survey fields, a Lead, an Opportunity | submit, record | booking desk |
| Compliance (`compliance.service.ts`, `admin-compliance.service.ts`) | licence, declaration and documents of a booking | submit, verify, confirm | start of the drive |
| Customer accounts and sessions (`auth.service.ts`) | accounts, one-time codes with an attempt count, refresh tokens, magic links, password tokens | register, verify, login, refresh, logout, reset | e-mail |
| Staff sign-in and access (`admin-auth.service.ts`, `staff-access.service.ts`) | OAuth states, staff refresh tokens, a 30 s cache of assignments per instance | start, callback, refresh, logout; resolve, invalidate | Salesforce OAuth, staff assignments |
| Tenant connection (`tenant-connection-provider.ts`, `soql.ts`) | stored refresh token, connection status and shared session in the organization's row; per instance a cached session, the connect in flight and the access token last rejected | get, invalidate, connect, retry once | Salesforce token endpoint, exclusive lock, organization repository |
| Onboarding and platform (`onboarding.service.ts`, `platform.service.ts`) | the organization's row: status, error, setup token, deployment time | create, save credentials, callback, denied, deploy in the background, grant the first admin, reconnect, delete | tenant connection, metadata deployment |
| Dealership settings cache (`dealership-settings-cache.ts`) | entries, loads in flight and an epoch per instance | `getOrLoad`, `invalidate` | settings record in Salesforce |
| Booking schedule (`booking-schedule.service.ts`, `entities/booking-schedule.ts`) | none (settings of three layers) | resolve, slots of a day, bookable, cutoff | settings cache, active bookings |
| Staff assignments (`admin-users.service.ts`) | `Staff_Assignment__c` records | create, update, revoke | access cache |
| Vehicle allocation (`admin-vehicle-allocations.controller.ts`) | a transfer and the vehicle's branch | create, in transit, complete, cancel | vehicles |
| Salesforce automation (`mdapi/classes`) | groups, group members and shares | triggers, queueables, a recalculation batch | assignments, bookings |
| Notifications, analytics, audit, catalogue, customers, branches, branding, feature flags, mappers, tenancy wiring, web application | - | reads, I/O, formatting, single-record updates | - |

### How they interact

A request resolves its tenant, takes a Salesforce connection from the tenant
connection provider, reads a record, changes the entity in memory and writes the
WHOLE record back. Nothing detects that the record has changed in between.
Three critical sections are protected by the exclusive lock: the conflict check
and the insert when a booking is created; the same when it is moved; a waitlist
promotion. Another (key `salesforce-refresh`) protects the refresh of a
tenant's token. Everything else is a plain read followed by a plain write.

### What is hard

* **Interleavings** of requests on the same booking, vehicle, token or
  assignment, most of which hold no lock.
* **Two writes without a transaction**: a reschedule (replacement, then
  original), a survey (Lead, then Opportunity), a transfer (allocation, then
  vehicle), a refresh (token at Salesforce, then our row).
* **Locks that expire** while their holder goes on working.
* **Stale reads**: caches of settings and of staff access, decisions taken from
  a status read before an await.
* **Retries and duplicates**: jobs that overlap, a refresh whose answer is
  lost, a callback delivered twice.

`PROJECT.json` lists each under "hazards" at its line with the property that
covers it, or why none does.

### What makes each component correct

| component | properties |
| --- | --- |
| booking desk | no double booking; no customer left with a booking and its replacement; waitlist positions distinct, promotion first come first served; a freed slot is offered; every request ends |
| tenant connection | a live connection is not given up; the stored token is the live one; a newer session is reused; requests end |
| settings cache | no value older than what this instance acknowledged before the read began |
| onboarding | one org per tenant; setup finished only with an administrator; setup can always be run again until then |
| staff access and assignments | a change takes effect at once on its instance; a company keeps an administrator |
| Salesforce automation | members follow assignments, shares follow the drive, in whatever order jobs run |
| allocation | a vehicle stands where it was last sent |
| reminders | at most one mail per booking and kind; one run that does not fail the booking is enough, unless a claim was left behind |
| accounts | whoever gets in has shown that the mailbox is theirs, and can come back; guesses of a code are bounded |
| sessions | nothing opened before a password reset survives it; a page that shows a customer holds tokens |
| compliance | a drive starts only on files that staff confirmed, and these are stored |
| survey | one survey, one Lead, one Opportunity per drive |
| branding | a site shows an image that was uploaded for it and still exists |
| schedule | slots lie in opening hours, on the dealership's clock, and are the ones the server accepts |
| pages | what is offered is granted and the other way round |
| dashboards | a visit is counted once, on its day; figures agree |
| records | an edit changes what was edited and nothing else |

## 2. Plan

All modules of the plan exist:

1. the core, with theorems: `BookingDesk` (section 3), `TenantConnection` (4),
   `SettingsCache` (5), `Onboarding` (6);
2. concurrent components with a run in common: `StaffAccess`, `Sharing`, `Fleet`,
   `Reminders`, `Accounts` (section 7);
3. what customers and staff meet: `Sessions`, `Paperwork`, `Survey`, `Branding`
   with state, `Schedule`, `Access`, `Console`, `Dashboard`, `Records` as
   functions (section 8).

Every safety property that a passing run checks is a theorem too (section 9). What a
next step would add: the slot picker of the booking page; the deletion of an organization
against everything that is under way for it.

## 3. The booking desk

### From code to model

`Booking` gives each method of the entity two operators: `CanX` (it does not
throw) and `X` (the entity afterwards). Names, notes, addresses and odometer
readings are left out; a slot is a half-open interval of abstract time.

`BookingDesk` has a set of `Request`s, each idle or serving one API call. Its
`job` is the call's local state: the point it has reached, the booking it will
write (`id`), the record as it was read (`seen`), the entity as mutated
(`draft`). Each point stands for an await after which others may have run:

| code | actions |
| --- | --- |
| `createBookingInternal`, `reserveBooking` | `Create`, `Reserve` (lock, conflict check, rep or position), `InsertBooking` (save, unlock) |
| `cancelBooking` | `CancelBooking` (read, guards), `SaveCancel`, then `Promote` |
| `rescheduleBooking` | `RescheduleBooking` (read, guards), `Move` (lock, check), `InsertReplacement` (save, unlock), `RetireOriginal` (save), on failure `Withdraw`, then `Promote` |
| `promoteNextWaitlisted` | `Promote` (lock, choose), `ConfirmPromotion` (save, unlock) |
| staff operations | `ReassignRep`, `SetNotes`, `CheckInBooking`, `StartDrive`, `CompleteDrive`, `RecordNoShow` (read, guard), then `SaveBooking` |
| a save that throws | `SaveFails` |
| `MAX_HOLD_MS` passes | `LockExpires`: the lock is free, its holder goes on and does not know |
| a killed process, `MAX_WAIT_MS`, a failing audit append | `Abandon` |

The history variable `clobbered` collects the bookings that were written by a
request whose view of the record was out of date; `overrun` those written after
the writer's lock had expired. They let the properties say exactly which
disorder the code's design accepts, and promise the rest.

Abstractions, each of which keeps the order of what others can see:

* Getting the lock and the queries made under it are one step, `Reserve` and
  `Promote` too. Between these queries only a write that takes no lock could
  come; the model has it before or after them.
* The guards of a transition are evaluated where the record is read. The code
  evaluates some of them (notice, cutoff) a moment later, without having read
  the record again.
* A lock that expires between the save and the commit is the same as one that
  expires before the save, as far as others can tell.
* A save either takes effect or fails; one whose answer is lost is not modelled.
* Whether the compliance record is complete is an input of `StartDrive`. A
  dealership has one branch and one day.
* `LockExpires` in the unprotected part of a request does nothing, so it is
  enabled only while the lock is held.

### Runs

All have two requests, three booking ids, one vehicle and one rep, times 0 to 2,
and notice, cutoff and check-in window of one unit, so that customers and staff
differ. Two requests are enough: every hazard listed is between a read and a
write of one request with another's calls in between, and the second request
may make any number of them. Three bookings are enough for one that holds a slot
and two that wait, or an original, its replacement and a competitor. The two
slots overlap in part, so that a conflict is not equality.

| run | what it shows |
| --- | --- |
| `desk` | up to five calls, no faults: `NoDoubleBooking`, `FreedSlotIsOffered`, `NoOvertaking` |
| `desk_faults` | up to four calls and two faults of any kind: `IInv`, the inductive invariant (which includes `NoDoubleBooking`), and `DistinctPositions` |
| `desk_live` | up to three calls and one refused save or expired lock, with fairness: every request ends (`EveryCallEnds`), and a reschedule whose original could not be saved leaves no twins (`NoTwinBookings`), because it withdraws the replacement |
| `desk_lost_update` | *violation*: a stale save revives a cancelled booking, and the vehicle is double-booked |
| `desk_two_reschedules` | *violation*: two reschedules of one booking leave two active replacements |
| `desk_split_slot` | *violation*: a cancelled booking makes room for two that wait, and one is promoted |

Symmetry in ids and requests is used for the invariants and the action property,
never with fairness. In `desk_live` at most three bookings can be created, so a
request never waits for an id. `CHECK_DEADLOCK FALSE`: the calls are bounded,
and a desk with all calls answered has nothing to do.

Bounds: `MaxTime` on the clock, `MaxCalls` on API calls, `MaxFaults` on faults,
`BookingId` on records. `calls`, `faults` and `now` guard only the actions that
begin something; a request under way can always go on.

### Fairness

`WF(Proceed(r))`: a request that can take its next step takes it; the
JavaScript event loop and Salesforce's answers are the reason, and a request
that dies instead is `Abandon`, which is not in `desk_live`. `SF` for the steps
that take the lock: Postgres grants an advisory lock in the order of the wait
queue, so a waiting request is not passed over for ever. Nothing is assumed of
callers, time or faults.

### What the runs say about the code

* **`NeverDoubleBooked` fails.** Every staff operation reads a booking and later
  writes the whole record, status included, with no lock and no version. When a
  cancel (or a no-show) comes in between and its slot is given to somebody
  else, the save brings the cancelled booking back to life. The conflict check
  and the lock are sound: `NoDoubleBooking` says that a lost update or an
  expired lock is the ONLY way to a double booking, besides a reschedule
  that is under way or failed half-way.
* **`OneReplacement` fails.** `rescheduleBooking` reads the original before it
  takes the lock and never again.
* **`FreedSlotIsOffered` fails when slots differ in length**, because one
  cancelled booking promotes one of the waitlist. With slots that do not overlap
  it holds, and is proved. A drive that is completed or a no-show recorded before
  its slot is over promotes nobody, although the comment at
  `booking-domain-service.ts:43` speaks of a slot that frees up. The property
  leaves the vehicles of such bookings out, and has to leave out the whole
  vehicle: when another slot of it is cancelled later, the promotion goes to
  whoever is first of those that can be confirmed, perhaps for the slot of the
  no-show, and who waits for the cancelled slot is not offered it. The attempt to
  prove a narrower form brought this up; it takes two slots that do not overlap,
  four bookings and six calls, more than the run has. (TLC finds no error in the
  property as it is on that instance either; it is not kept as a run.)
* `NoTwinBookings` does not hold when a process dies between the two saves of a
  reschedule: nothing in the code resumes it. It is claimed for refused saves
  and expired locks.

### Theorems

`BookingDeskProofs.tla` proves, for every choice of the constants:

* `DeskInvariant`: `Spec => []IInv`
* `DeskTypes`: `Spec => []TypeOK`
* `NoDoubleBookingTheorem`: `Spec => []NoDoubleBooking`

from the named assumptions of `Booking` and `BookingDesk` only (slots are pairs
of integers, the null values differ from real ones, bounds are naturals).
Faults are included: whichever saves fail, locks expire and requests die.

`NoDoubleBooking` is not inductive: it says nothing of a request that has passed
its check and not yet written. `IInv` adds three facts. `JobOK`: a job carries
what its point needs, and in particular a plain save never moves a booking and
never makes it occupy a slot it did not occupy when read. `LockOK`: a request in
its critical section whose lock has not expired holds the lock of its vehicle,
so two of them are never in the critical section of one vehicle. `StillClear`:
what the check saw remains true until the write; only the holder of the lock can
put a booking into an occupied slot, and a save without a lock that does so is a
lost update and is in `clobbered`. The proof has one lemma for each kind of
step.

`WaitlistProofs.tla` builds on `IInv`:

* `QueueInvariant`: `Spec => [](DeskInv /\ QueueInv)`
* `DistinctPositionsTheorem`: `Spec => []DistinctPositions`
* `NoOvertakingTheorem`: `Spec => NoOvertaking`
* `NoTwinBookingsTheorem`: `Spec => []NoTwinBookings`, if `MaxFaults <= 1` and
  no process dies
* `FreedSlotTheorem`: `Spec => []FreedSlotIsOffered`, if slots do not overlap
  (`SlotsLineUp`) and there are finitely many bookings and requests

`KnowInv` (with `IInv`: `DeskInv`) says what a request may rely on of the booking it
read several awaits ago: its vehicle, slot and origin never change, and what the
entity's guards said of the copy goes for the draft. From this `StoreStep` follows,
what any step of anybody does to a booking, on which the rest is built:

* `QueueInv`: whoever holds a vehicle's lock inserts at a position above all, or
  promotes who is first of those that fit, until the lock is released.
* `TwinInv`: a replacement that holds its slot is in flight (its request is yet to
  retire the original, or to withdraw it), or the original is over. The hypotheses
  are those of the run: a second failure in a row, or a process that dies between
  the two saves, leaves twins, and nothing in the code resumes.
* `OfferInv`: on a vehicle none of whose drives ended early, the clear slots that
  somebody waits for are no more than the promotions under way. Each step
  balances (`Balanced`): what frees a slot brings a promotion. It is a count, hence
  the finiteness; and with slots that overlap one booking may free two, which is
  what `desk_split_slot` shows. A schedule has such slots only if its interval is
  shorter than its slots, or after a change.

### Model-checked only

Liveness (`EveryCallEnds`).

## 4. The tenant connection

### From code to model

A tenant's row in Postgres holds the refresh token, the connection's status and
the access token that is in use. Each instance of the API keeps in memory a
cached access token, the connect in flight and the access token last rejected.
Under a rotation policy a refresh kills the refresh token it used and logs every
other session out, so a wrong step may lock the whole tenant out of its org.

| code | model |
| --- | --- |
| `sfRefreshTokenEnc`, `connectionStatus`, `sfSessionEnc` | `row` |
| `cache`, `rejectedAccessTokens`, `inFlight` | `cache`, `rejected`, `link`, for each instance |
| `withConnection`, `current` | a `Request`: `Begin`, `Look`, `Take`, `Use`, on a refusal `Invalidate` and once more |
| `connectLocked` | `Enter` (lock, read the session), `Check`, `Load`, `Refresh`, `Recheck`, `Reject` or `Persist`, `Publish` |
| `inFlight`, `remember` | requests of one instance `join` its connect, and `Settle` answers them all |
| `saveRotatedRefreshToken`, `recordRefreshTokenRejected`, `saveSalesforceSession` | `Rotated`, `Rejected`, `Published`: the condition and the write are one step |
| Salesforce | `minted`, `grants`, `sessions`; `Mint` is one refresh |
| everything from outside | the events: expiring and ending sessions, revocation, the operator's reset, the wizard's callbacks, throwing steps, lost answers, an expired lock, a crash |

The history variable `severed` says that the stored token's grant was revoked,
or that its successor was lost before anybody could store it: after this no
program could do better.

Abstractions:

* A token is the number of its mint; one number stands for the refresh token and
  for the access token that came with it. Without rotation a refresh brings a
  new access token only.
* The compare-and-set on the row is one step although the code first reads the
  ciphertext: AES-GCM ciphertexts are unique, so an unchanged ciphertext means an
  unchanged token.
* Getting the lock and the first read under it are one step.
* Time is the event `age`: an aged session is not offered by the row, and one in
  a cache may still be used or not (its last minute).
* An instance whose lock has expired goes on and cannot know; `runExclusive`
  rejects when it ends, so its requests fail, but its writes stand.
* `MAX_ROTATION_RETRIES` and the number of rereads are constants of the module.
* The wizard and the operator are events: `Authorize`, `FailHandshake` and
  `Reset` are their writes. Saving another Connected App's credentials writes
  the same as `Reset`. One tenant; deleting it is left out.

### Runs

Two requests on one instance (they share a cache and a connect) and one on
another: the smallest system in which connects race within an instance and
across two.

| run | what it shows |
| --- | --- |
| `tenant` | two calls, two events of any kind, with fairness: all properties below |
| `tenant_reuse` | *violation*: a late refusal makes an instance throw away the session that replaced the refused one |

* `StoredTokenWorks`: the tenant is never locked out by the program. The stored
  token works or is about to be replaced, unless `severed`.
* `OnlyDeadTokensAreRejected`, `NoHastyRejection`: a tenant is told to reconnect
  only when nothing else helps. The lock is needed for the second: an instance
  refused because another has just rotated the token must not mark the tenant
  before the other one stores it.
* `DisconnectedIsClean`: connects in flight during a reset bring nothing back.
* `EveryRequestEnds`: a connect that fails, wherever it does, lets go of the
  lock and of the requests that wait for it.
* `IInv`, the inductive invariant.

Bounds: two calls suffice for a connect that races another one or a request that
joins it; two events allow a fault upon a fault, such as an expired lock and
then a rotation by the next holder. With three calls and two events, and without
rotation, the safety properties hold as well; these larger instances are not
kept as runs because of their size. One retry and one reread (three in the code)
exercise both outcomes of each loop. No symmetry: liveness is checked.
`CHECK_DEADLOCK FALSE`: when all calls are answered and the events are used up
there is nothing to do.

Fairness: `WF(Serve(r))` and `WF(Step(i))`, the event loop and the answers of
Postgres and Salesforce (an answer that does not come is an event); `SF(Enter(i))`
because Postgres queues those who wait for an advisory lock. Nobody must call,
and no event must happen.

### What the runs say about the code

* **`NewerSessionIsReused` fails.** `invalidate()` marks the token that is cached
  at that moment, not the one the failing request used. Two requests on one
  session that ended: the first reconnects; the second, refused a moment later,
  marks the new session and mints a third. Under rotation this logs out the first,
  which may be on its only retry.
* An instance whose lock expired may mark a tenant whose replacement is about to be
  stored. The compare-and-set that follows stores the live token and leaves the
  status at "error": the tenant must be reconnected although its token works.
  `NoHastyRejection` leaves out instances that overran the lock.
* A failing second run of the wizard sets a connected tenant to "error"
  (`FailHandshake`). No property forbids that; see section 6.
* A cached connection survives a reset until its TTL, on every instance.
  Nothing in the code says otherwise, so no property does.

### Theorems

`TenantConnectionProofs.tla` proves for any number of instances and requests,
with or without rotation, and for all events: `ConnectionInvariant`
(`Spec => []IInv`), `StoredTokenWorksTheorem`, `DisconnectedIsCleanTheorem`,
`OnlyDeadTokensAreRejectedTheorem` and `NoHastyRejectionTheorem`. The only
assumption is `ConnectionAssumption` on the constants.

`StoredTokenWorks` is not inductive. `IInv` adds, for each instance: `LinkOK`, a
token that a connect saw refused or has replaced is dead (and stays so: grants
are only added with new numbers); `LockOK`, who is inside the lock and not late
holds it; `Secret`, what a refresh brought is stored nowhere and known to nobody
else until `Persist`, and no two instances hold successors of one token. `Secret`
makes the compare-and-set safe: it can only replace the dead predecessor. Only
`NoHastyRejection` uses the lock; the others hold even when every lock expires.
Liveness is model-checked only.

## 5. The settings cache

### From code to model

Booking schedules, regional settings, branding and feature flags each have a
`DealershipSettingsCache` per instance. A dealership inherits what it does not
set from the company, so its resolved settings are composed of two layers, read
by two queries at the same time.

| code | model |
| --- | --- |
| `entries`, `loading`, `epoch` | the variables of these names |
| a call of `getOrLoad` | a `Reader`: `Ask` (entry, load in flight, or a new load), then `Return` or `Throw` |
| the promise `pending` | `load`: `Fetch` one layer, `Store` (`then`), `Settle` or `LoadFails` (`finally`) |
| `expiresAt`, `MAX_CACHE_ENTRIES` | `Expire`: any entry may go at any time |
| `save()` of the admin services | an `Editor`: `Save` (the record is stored), `Invalidate` (the answer is there) |
| edits by others, or whose answer is lost | `EditElsewhere` |
| an edit of another organization | `InvalidateAnother`: the epoch and `loading` belong to the whole instance |

A layer is the number of its last edit; settings are the numbers they were
composed of, 0 where nothing was read. `acked` is a history variable: the newest
edit of each layer that this instance has acknowledged. A read's `floor` is
`acked` at its beginning.

A load is named after the reader that began it. That reader awaits it to the end
(`LoadOK`, proved), so a name is never used for two loads at a time.

Left out: what the settings say and how layers merge; what does not belong to a
layer (the provider's business hours and defaults, the organization's name and
slug), which nothing on this instance invalidates; branches as a third scope of
feature flags, where every edit drops everything, as an edit of the company's
does here. Resolving a feature flag is one query and not two, which is a special
case. When the cache is full all entries go at once; the model lets them go one
by one before the store.

`FreshRegister` is the promise without the mechanism: a read may be answered with
any versions that are stored and not older than what was acknowledged when it
began. It has no cache, loads or epoch.

### Run

| run | what it shows |
| --- | --- |
| `settings` | two readers, an editor, a dealership and its company, three reads and two edits of any origin, with fairness: all properties below |

* `FreshReads`: the cache implements `FreshRegister`. An edit can be acknowledged
  between the two queries of a load, while others wait for that load, while a
  load that replaced it runs, and between the two layers.
* `OneLoadPerKey`: a load that was dropped by an invalidation and ends late does
  not make the cache forget its successor.
* `EveryReadEnds`: also those who wait for a load that was dropped.
* `IInv`, the inductive invariant.

What is not promised: another instance sees an edit when its entries expire, and
a read that is under way when an edit is acknowledged may return the older
settings, and share them with nobody who came later.

Bounds: a dropped load, its successor and a third read, which joins or reads the
entry, need three reads by two readers; two edits are one before and one during
a load, or one here and one elsewhere. `reads` and `edits` guard only what begins
something. No symmetry: liveness is checked. `CHECK_DEADLOCK FALSE`: after the
last read and edit nothing is left to do.

Fairness: `WF(Progress(x))`, the queries of a load are answered or throw and its
continuations run; `WF(Return(r) \/ Throw(r))`, the event loop. Nobody must ask or
edit, and no entry must expire.

### Theorems

`SettingsCacheProofs.tla` proves, from `CacheAssumption` only, `CacheInvariant`
(`Spec => []IInv`), `FreshReadsTheorem` (`Spec => FreshReads`) and
`OneLoadPerKeyTheorem` (`Spec => []OneLoadPerKey`), for any number of dealerships,
readers and editors.

The refinement mapping hides the cache: a reader is idle or reading, and its floor
is the register's. That a `Return` is an `Answer` needs the whole of `IInv`, which
follows a value on its way. `LoadOK`: what a load of the current epoch has read is
not older than what has been acknowledged, since an acknowledgement would have
ended the epoch. `EntriesFresh`: the same of entries, since only a load of the
current epoch is stored and an invalidation drops what inherits from its layer.
`LoadingOK`: only a load of the current epoch can be joined, so the joiner's floor
is below what it has read. `JobOK`: what a reader waits for or has been given is
not older than its floor, whatever was acknowledged since. `Save` and
`Invalidate` map to `Edit` and `Acknowledge`; an acknowledgement that comes after
that of a newer edit is a stutter.

`OneLoadPerKey` needs `Registered` besides: a load of the current epoch is the one
in flight for its key, so one that asks finds it. An invalidation starts an epoch
that no load is of, and what a late load forgets is registered under its own name
only.

Liveness is model-checked only.

## 6. Onboarding

### From code to model

A company is created with a setup token. Its wizard saves the credentials of a
Connected App, sends the browser to Salesforce and gets it back with a code; the
callback exchanges the code, stores the connection, and deploys the package in
the background; the connecting user then becomes the first administrator. The
platform's operator may disconnect the company at any time and issue a new link.

| code | model |
| --- | --- |
| the organization's row | `org`: app, token (the app it was issued to), status, error, bound org, deployed, number of the setup token |
| `buildAuthorizationUrl` .. the end of the deployment | a `Handshake`, whose `trip` carries what it has read: `Authorize`, `Arrive`, `Exchange`, `SaveConnection`, `Welcome`, `Deploy`, `GrantAdmin`, `MarkDeployed` |
| `recordConnectionError`, a denial | `Refuse`, in `Deny` and `ExchangeRefused` |
| `recordMetadataDeployError`; a process that is gone | `DeployFails`; `Vanish` |
| `saveSalesforceCredentials` | `SubmitCredentials` (read, check), `WriteCredentials` |
| `completeOnboarding` | `Complete` |
| an admin or manager who signs in | `SignIn` |
| `PlatformService.reconnect`, the console's dialog | `Reconnect` (the reset), then `ShowLink` or `LoseAnswer`; `OpenLink` |
| `Company_Admin` assignments in the orgs | `grants`, one for each user in the user's own org; `Admins(o)` is what `findAll` of org `o` finds |
| the access token an instance has cached | `joined`, `Reached`: a call reaches the org the company is connected to, or one it was connected to before |
| `OnboardingCallbackPage` | `View`, and `Stall` for `DEPLOY_STALLED_AFTER_MS` |

Which org a call of the background deployment reaches is decided when it is made,
not when the handshake began: `findAll` (`onboarding.service.ts:252` and `:291`)
and `save` go to the org of that moment, and the callback of somebody else may have
rebound the company since. An org may have been used before: `grants` begins with
any of the assignments in `Earlier`, active or switched off, of users this company
does not know. The reset and its answer are two steps, and the answer may be lost.

Left out: the deletion of an organization, the expiry of a setup token after seven
days, a refresh token that Salesforce rejects (section 4), the operator's login,
names and slugs. One credentials form is open at a time.

### Run

`onboarding`: two handshakes by two users, each of an org of their own, a third
user who never runs the wizard, one Connected App, two reconnects. Two handshakes
are the least that overlap; the two users disagree about the org. In one of the two
beginnings the second user's assignment is there and switched off, in the other the
third user is an active administrator of the first org whom nobody knows. Two
reconnects are the least in which an answer is lost, or overtaken by the next, while
an older link is shown. (A second app adds the token of the wrong one, which no
property speaks of, and takes the run past its time.) All
four properties hold. Fairness: `WF(Stall)`, the clock of a browser that is
open; nothing is assumed of the deployment, whose process may be gone.
`CHECK_DEADLOCK FALSE`: an operator's link and all handshakes may be used up.

### What the run says about the code

* `BoundOnce` has an exception, and needs it: two first callbacks with users of
  two orgs, each having read the row before the other saved, leave the tenant
  bound to the second, although `onboarding.service.ts:154` says that this would
  mix two orgs' ids.
* After such a move the company may count as deployed while the org it is bound to
  has no administrator: the first deployment found or made one in the first org.
  `FinishedMeansAdmin` therefore speaks of the orgs the company was connected to.
* A refused grant counts as a success (`onboarding.service.ts:297`), and the org
  refuses a second assignment of a user even when the one that is there is switched
  off. The deployment is then marked and nobody can sign in; the property asks only
  for an assignment there, and for an active one when the wizard says that it is
  done. The advice of `:255`, to reconnect, does not help where the org has an
  active administrator whom the company does not know: no other is granted, and the
  setup is finished only after that user has signed in.
* The answer to a reconnect carries the only copy of the new setup token, and the
  old one is dead by then. When it is lost nobody can go on with the setup until the
  operator asks again; `SetupNotLost` says that nothing else leads there.
* An OAuth state that was issued before the operator's reset is still accepted
  after it, and connects the company again.
* A credentials form that was read while the company was not connected is written
  after a callback connected it, in spite of the comment at
  `onboarding.service.ts:86`; and a callback that read the row before the app
  was changed stores the old app's token afterwards.
* A callback that fails late marks a company that another one has connected as
  failed; the wizard can then be run again (`SetupNotLost`).
* `PlatformConsolePage` says that a link works until the setup is finished; the
  server does not clear the setup token then, only the wizard forgets it.

### Theorems

`OnboardingProofs.tla` proves, from `OnboardingAssumption` and for any number of
handshakes, users, orgs, apps and reconnects: `OnboardingInvariant`
(`OnboardingSpec => []OnboardingIInv`), `FinishedMeansAdminTheorem`,
`SetupNotLostTheorem` and `BoundOnceTheorem`.

A handshake acts on what it read several awaits ago, so `FinishedMeansAdmin` is
not inductive. `TripKeepsPromises` says what a trip may still rely on: who
authorized it, that their org fits the binding it SAW, that they are known to the
platform once the deployment begins, and that somebody of an org the company was
connected to holds an assignment once it has only to mark the deployment. Orgs
joined, users known and assignments do not go away here (`Grows`), so these facts are
stable under everybody else's steps. For `SetupNotLost` the invariant follows the
newest setup token: before the first reset the wizard has it, afterwards it is in
the console's link, in the answer under way, or it is the one that was lost last.
`DeploymentIsSettled` is model-checked only.

## 7. How an organization is run

Five components that share no state with each other. `MCOperations` runs them
side by side: `part` is drawn at the start and says which of them moves, so the
states of the parts add up where a product would multiply them, and one run
answers for all. A part that does not run stays in one initial state.

`OperationsProofs.tla` proves every property of this section for any number of
requests, jobs, runs, instances, vehicles and so on, each component under its own
specification (`StaffSpec`, `SharingSpec`, `FleetSpec`, `RemindersSpec`,
`AccountsSpec`) and from its own assumption on the constants; how is said below. The
inductive invariants were first checked on the run.

### Staff access and assignments (`StaffAccess`)

A request resolves its member's access from the instance's cache or by a load
(`Arrives`, `LoadAccess`, `StoreAccess`), and may then grant or change an
assignment: read and check (`Grant`, `Change`, `CheckOthers`), save of the whole
record (`SaveAssignment`), invalidation and answer (`Acknowledge`). Entries go at
any time (`Forget`), and assignments are edited in Salesforce as well.

* `InvalidationHolds`: the cache has no epoch, unlike `SettingsCache`. A load that
  was under way while an edit was acknowledged is stored after it, and lives for
  the 30 s of `CACHE_TTL_MS`; `late` marks these, and the property says that
  nothing else is old.
* `LastAdminStays`: `assertAnotherCompanyAdmin` checks before it saves, without a
  lock. Two administrators who remove each other at once leave none; the
  property names what must have changed between read and save.

`InvalidationTheorem` and `LastAdminTheorem` prove both. `AccessIInv`: the version a load
brings back is not older than what its instance had acknowledged when it began,
and if that has moved on the request is `late`; an instance never acknowledges
more than there is. `LastAdminIInv`: a save that takes an administrator away has
counted on another one (`CountsOnAnother`), so that if none is left afterwards
the other has gone, or the record that is overwritten is not the one that was
read.

One administrator more than the check needs, two requests and one edit per
member are the least in which the checks race.

### Salesforce automation (`Sharing`)

Triggers run in the transaction of the change; groups and members are written by
queued jobs, which read and write in two steps and overlap. A drive and its
compliance record stand for every shared object, because `apply` treats them
by the same `RULES`. A trigger holds the row of its drive to the end of the
transaction, so its call of `apply` is one step. A batch holds nothing: it picks
the records of the dealership (`PickRecords`), reads where they belong by now and
which groups there are (`ReadRecords`), compares that with their shares
(`CompareShares`) and writes the difference (`WriteShares`), while triggers and
other batches run. A share that is gone already makes the delete fail, and the batch
goes on to the next object all the same.

* `MembersFollowAssignments`: after the last sync of a user, in whatever order
  syncs and set-ups ran. `raced` marks users of whom two syncs overlapped: the one
  that read first may write last, and nothing repeats it.
* `SharesFollowDrive`: at no time is a drive shared outside its dealership, and
  once recalculations are done it is shared to all that it should be, except an
  object that was last written by a batch whose reading had been overtaken
  (`misshared`). That happens: a drive that moves between the batch's read and its
  write gets the shares of the dealership it has left, and loses the new ones it
  does not have yet, and stays so until it moves again or its dealership is
  recalculated. `TdmRecordSharing.cls:7` says that triggers, batches and re-runs "all
  converge on the same state", which is true of what `apply` reads and not of when it
  writes. Without the exception TLC finds the race. `outdated` marks the batches in
  question, from the change that overtakes them to their write; a write of theirs
  outdates the batches that compared before it.

`MembersTheorem` rests on `InSync`: of a user whose syncs have not overlapped one
runs at most; the others have yet to read, so the one that runs last writes what
the posts of that moment want. `SharesTheorem` rests on two facts. `BatchIs`: a batch
that is not outdated has read whom the object is due to be shared to, and its write
would leave exactly these, unless they are there already. `Shared`: an object
that is not misshared is shared to nobody else, and what it lacks some batch still
brings (`Brings`), one that has yet to pick it, or has picked it and was not
overtaken since it read it.

### Fleet (`Fleet`)

Each request reads, and later writes a whole record: `Update`, `Delete`,
`RequestTransfer`, `AdvanceTransfer`, `Book`, `EditLot`. A completed transfer is
three steps: `WriteCompleted`, `ReadToMove`, `WriteMoved`. The org's own rules are
those of the object definitions: a booking keeps its vehicle, a deleted vehicle
takes its transfers along.

* `VehicleIsWhereSent` holds unless two saves of the vehicle overlapped or a
  completion failed between its writes (`disturbed`).
* A transfer has no status guards: a page that is out of date completes or
  cancels it again. An edit form that was opened before a transfer sends the old
  branch along and takes the vehicle back; the model counts this as being sent.
  Nobody looks at the bookings ahead when a vehicle leaves.

`VehicleTheorem` proves it. `FleetIInv` adds that, undisturbed, one request at most
has a write of the vehicle before it (`OneWriter`), and that until it writes the
vehicle stands where it was sent, or the request takes it there (`InPlace`).

### Reminders and follow-ups (`Reminders`)

A run scans a window (`Scan`), claims (`Claim`), sends (`Send`: accepted, accepted
unheard, refused) and releases (`Release`); it may die at any time (`Dies`). Runs
overlap. Bookings are cancelled, rescheduled and made meanwhile (`Rebook`); what a
rescheduled one is replaced by is a booking with an id, and reminders, of its own.
Each call of the log may fail: a claim that was not made, or was made unheard,
and a release that was refused, which `processWindow` catches and goes on
(`reminder.scheduler.ts:69`, `:94`). The follow-up job
is the same loop with other windows (`followup.scheduler.ts:119`).

* `OneReminder`: no overlap sends twice; only a provider that accepted a mail and
  whose answer was lost can.
* `CleanRunReminds`: one run in the window that does not fail the booking is
  enough, whatever other runs did, unless the claim was left to nobody (`stuck`): a
  run died with it, was not told that it had made it, or could not release it. That
  reminder is lost, since nothing else ever deletes a row of the log, in spite of
  `automation-tracking.repository.ts:17` ("a failed send must `release` so the next
  run retries instead of skipping it forever").
* Not promised: a booking that was cancelled after the scan is reminded of. A
  booking whose start was edited in Salesforce after its reminder is not reminded of
  the new time, since the log has one row per booking and kind; one that was
  rescheduled through the program is, since it is another booking.

Two bookings, two kinds, two runs, starts and ticks such that both kinds are due
at some tick and neither at another.

`OneReminderTheorem` and `CleanRunTheorem` prove both. `OneReminder` says nothing of
who may send next, so `ClaimIInv` adds it: who is about to send or to give back a
reminder has its row (`Claimed`) and is alone in that, and a reminder that
somebody holds, or whose row is gone, has not been sent unless the provider took
it unheard (`SentOnce`). `CleanRunReminds` speaks of runs that have ended, so
`CleanIInv` says what one that is under way has done: for every booking it is past
in its loops, and that nobody failed since it began, the reminder is accounted
for (`Serves`), sent, held by a run or claimed for nobody; and so is whatever
has a row (`ClaimsServe`), which is why a run may pass over it. A booking that moves
or is made wants nothing of the runs that began before (`since`).

### Accounts (`Accounts`)

A visit is a request on its way: `Register` (`SaveContact`, `SaveCredentials`,
`IssueOtp`), a code entered (`ClaimCode`, `CountGuess`), a public booking
(`SaveContact` of an automatic account, `Booked`, `Decide`, `MailLinkTo`), a link
followed, a password reset (`SaveChosen`, `Verify`). Any await may be the last
(`Abandon`).

`AccountsAreProved` relates the password, the verification and the links of an
account. A magic link is mailed only for an account that is verified and has a
real password; a registrant's password opens an account only once the code has
come back from the mailbox; whoever guesses a code is refused no more often than
`MAX_OTP_ATTEMPTS` and the guesses that had begun by then allow. `refused` counts the
refusals, apart from the counter in the row that stops them, so a refusal that did
not count, or counted only what it had read, would show.

* `overtaken`: a registration that is slow between the contact and the password
  overwrites one that the owner chose meanwhile through a link.
* Two first bookings or registrations at once make two accounts of one address,
  although "An account with this email already exists" is checked; `findByEmail`
  may then return either.
* A slot conflict leaves the automatic account without any mail.

`AccountsTheorem` proves `AccountsAreProved`, for finitely many visitors. `ProofIInv`
adds what a visit may still rely on of the account it read (`Relied`): one visit
at most gives an account its first password and code, who mails a magic link has
read a verified account, and its password is its owner's unless it was
`overtaken`. `GuessIInv` is a count: the wrong guesses counted and the visits about
to count one stay below the limit and the number of visitors taken together; every
refusal was counted (`Contact`).

### Symmetry and bounds of the run

The configuration gives `Run`, `ConsoleRequest`, `FleetRequest`, `Visitor` and
`SfStaff` the same two values, and `Ride`, `Transfer` and `Job` the same other two. In
each part the
members of these sets are interchangeable, so permuting a value permutes the
same role in every part at once, and the reduction is sound. Requests, bookings
and visitors come in twos because every hazard listed is a race of two. Five
changes of the sharing are what it takes until a batch finds that a share which it
wants to delete is gone.
`CHECK_DEADLOCK FALSE`: changes and runs are bounded. There is no liveness.

## 8. What customers and staff see

`Portal` runs these side by side in the same way, and `MCPortal` gives it values. Four have state; the others
are functions: one step draws a case, and what the code computes of it is
compared with what it should be. In `customer` and `staff` the two halves of
`Sessions` run apart, since they share nothing.

### Sessions (`Sessions`)

A call is a request on its way, with what its handler has read or consumed.
`Consume` is one conditional update; `Issue`, `Answer` and `Fails` follow.
A customer's tokens lie in local storage, which pages write and tabs share
(`Clears`, `Hears`, `Loads`); staff tokens lie in cookies, which responses write.

* `ResetEndsSessions`: `resetPassword` saves the password and then revokes
  everything. What was being issued meanwhile survives (`late`), and a reset that
  dies in between revokes nothing (`died`).
* `SignedInTabsHoldTokens`: a tab that shows a customer has tokens, or an event
  on its way which says that they are gone.
* Two tabs that refresh with one token: one is refused, clears the storage that
  the other has just written, and both are signed out. A refresh that was under
  way during a logout brings tokens back. A network error on a refresh ends the
  session in the browser. A reset that dies has used up its link.

`PortalProofs.tla` proves both properties (`ResetEndsSessionsTheorem`,
`SignedInTabsHoldTokensTheorem`) for any number of tabs, requests, tokens and
passwords. They are inductive once it is known of every call that the token it
carries was issued, that it does not answer without one, and that a call which
signs somebody in belongs to a tab (`CallsOK`). From the new password to the end
of the open sessions a reset is not through; `RevokeAll` leaves no customer's
token, and `Issue` marks a late one.

### Papers (`Paperwork`)

Two submissions, two reviewers, and a drive that starts. `saveCompliance` writes
all that was read, so a confirmation may overwrite a submission and the other
way round.

* `DriveStartsOnSignedPapers`: no order of these makes a record verified with
  files nobody confirmed.
* `NamedFilesAreStored`: the record never names deleted files, unless a
  confirmation was under way while a submission was saved (`crossed`).
* A second first submission overwrites the final record with its pending one; if
  it is then confirmed, the record is verified and incomplete, and every later
  submission is refused. A resubmission that read the record before the
  sign-off resets it, in spite of the comment at `compliance.service.ts:56`. The
  panel shows one record and the confirmation reads another.

`PortalProofs.tla` proves both for any number of submissions and panels.
`DriveStartsOnSignedPapersTheorem` rests on `Sound`: a record, wherever it has been
read, is signed for a submission and verified of files that were read.
`NamedFilesAreStoredTheorem` rests on `KnownOnceSaved`: nobody has read a record of
a submission that is yet to be saved, so a save makes no file the old one of
somebody who is about to delete; and, while no submission was saved under a
confirmation, what the record or a pending confirmation names is stored and is
not about to be deleted (`Safe`).

### Survey (`Survey`)

`OneSurveyPerDrive` holds while the lock does, through failures, a rejected
session that repeats the whole of `save`, and double submits. An Opportunity that
fails after the answers are stored is not retried: the next attempt is refused as
a duplicate. Two surveys of two drives of one customer may each create the
personal account; the model is of one drive.

`PortalProofs.tla` proves it (`OneSurveyPerDriveTheorem`) for any number of
submissions. The invariant says what each handler may rely on (`Relies`): as long
as no lock has expired, whoever is past the lock holds it, so what it found
missing is missing until it adds it, and `FindLead` looks again when a rejected
session repeats `save`.

### Branding (`Branding`)

Two editors with a page each, a company and a dealership, two images. `Check`,
`ReadBefore`, `WriteLayer`, `DeleteReplaced` are the awaits of a save; the page
fetches again at any time (`Refetch`) and uploads across a change of scope.

`SitesShowTheirImages`: what a site shows was uploaded for it, and still exists
unless two saves of the layer overlapped: a layer may then name an image that the
other save deleted. An unsaved edit is lost when the page fetches again; a save of
a stale form overwrites the other editor's fields. The comment at
`branding.service.ts:109` wants an image in an email that was sent to keep
loading, and a replaced logo is deleted.

`PortalProofs.tla` proves it (`SitesShowTheirImagesTheorem`) for any number of
editors, scopes and images. `BrandingIInv`: what a layer names, and what a save
names past its check or has read of the layer, was uploaded for that scope
(`Owned`), so a clean-up never deletes an image of another; and in a scope whose
saves have not overlapped the layer names what its one save wrote until that has
cleaned up (`Undisturbed`), so it does not delete what is shown.

### Schedule (`Schedule`)

`ScheduleIsSound` compares `slotTimesFor`, the conversion between wall clock and
instants, `assertBookable` and the earliest date with a definition by instants.
Days have four units, a week two days, and the clocks change by one unit or not
at all in the middle of a day, forward or back. Known and left out by the
property: a slot that runs while the clocks go forward ends later on the wall than
its length says and may overlap the next one (`SlotsStayApart`), however short
it is: a break that ends with the skipped hour makes the next slot start there. No
earliest date is found when the only slot of the last week looked at falls into
the jump.

`DashboardProofs.tla` proves it (`ScheduleIsSoundTheorem`) for any opening hours,
breaks, closures, lengths, zones that change their clocks once, and instants after
the first day of time. There is no invariant to find, every case being drawn at
once; the work is the functions:

* `SlotsFrom` is a loop. Every pass looks only at later times (`BodyLooksAhead`),
  so there is a function it computes (`LoopEnds`), and what it has offered from a
  time on fits, does not meet and leaves no room (`LoopFills`). Both go down from
  the last time of the day by the least counterexample (`DownFromTheTop`), which
  needs the library's well-founded order of the numbers and no induction theorem
  with an operator as its parameter.
* `resolveWallTime` asks the offsets a day before and after, and they find every
  reading there is (`ReadingsOf`, `ClockIsRight`) as no zone is a day ahead.
* A slot of date d starts on date d (`SlotsOnADate`), where `assertBookable` looks
  for it; on the wall no two meet (`DaysKeepApart`), so two that meet in time are
  two between which the clocks went forward (`ClocksKeepApart`).
* Past the last closure the opening hours repeat (`HoursRepeat`), so a slot on a
  date not looked at has one like it on a date that was. The search ends as there
  is a last closure (`GreatestOf`): closures are finite.

### Access and console (`Access`, `Console`)

`OffersAreGranted` draws the roles a member has at two dealerships and a company
and compares menu, lists, forms, scope pickers and buttons with guards, policies
and services; and the layers of flags and templates with their precedence. The
page's side and the server's side are translated from different files. Where they are
known to differ the definitions name it:

* a manager of one dealership who is a rep at another never sees the drives they
  own there; the scope picker and the staff form offer such a member places the
  server refuses (`MixedRoles`), against `ConfigScopePicker.tsx:22`;
* no-show is offered for drives that cannot have one yet; cancelling,
  rescheduling and check-in are offered outside their time windows; a waitlisted
  booking cannot be cancelled from the page although the server would;
* the button for a QR check-in looks at the dealership's flag, the server at the branch's;
* reverting a template says "Reverted to the default" when the company's applies;
* an address with a trailing slash goes round the page check of
  `AdminLayout.tsx:41`, and the calls are refused one by one;
* editing a rep without a daily cap shows and stores 8, while the server means no
  limit by none.

`PortalProofs.tla` proves it (`OffersAreGrantedTheorem`) for any dealerships and
branches: what a page looks at and what the server demands are followed to the
same permission for every page, row, scope and button, and an assignment that a form
sends is the one that is stored. The run draws one assignment or two;
`AnyAssignmentsTheorem` states the same of any number of them.

### Dashboard (`Dashboard`)

`DashboardIsRight`: drives per day from counts per UTC hour in a zone whose days
begin inside an hour and may be longer or shorter; a rescheduled visit counted
once; funnel, branches and reps adding up; the diagnosis; segments read in pages;
and the org's own Apex dashboard. Differences that are known: Apex takes the UTC
day for today, counts the integration user as a rep and the waitlisted as upcoming;
a customer who types "Rescheduled" as a reason is left out; drives of an earlier period
may become opportunities of this one, so a bar of the funnel can exceed 100%.

The proof found a condition that the zones of the run always meet. `bookingsPerDay`
asks for the time between two midnights of the dealership's clock, and takes what
lies there for the bookings of one date. That is so unless the clocks are put across a
midnight (from 00:30 back to 23:30, or from 23:30 on to 00:30): a midnight then
happens twice or never, and a booking of the repeated half hour is counted on the
next day. A change that begins or ends at midnight is harmless, and current zones
have no other near it. `DaysAreCounted` says so (`MidnightMoves`).

`DashboardProofs.tla` proves the property (`DashboardIsRightTheorem`); for any number
of visits it is `AnyVisitsTheorem`, for any zone, period and number of bookings
`AnyBookingsTheorem`, where the run draws two or three. The argument:

* Spans cover the period without overlap and hours cover a span, so a booking is in
  one group of one query (`OneSpan`, `OneHour`), and no query has more groups than a
  page (`QueryFits`). The bookings of an hour within one day are counted together, those
  of an hour that a midnight cuts one by one; either way each is counted on the day
  whose window holds it (`EachStartCounted`). What is left is that a window holds what
  starts on its date (`WindowsHoldDates`).
* The pages of the segments' groups go on until all are read (`PagesAreComplete`).
* Of the rows that a visit leaves, those of a reschedule are not counted, and one is
  left that is: counting rows is counting visits.
* `TotalOf`: figures by branch or by rep add up to the number of rows when every row
  has one branch or rep. It is an induction over a number of rows, which the library
  cannot be asked for; the sum is the size of a set of pairs instead, and follows
  from a bijection.
* Rates are compared by cross multiplication (`SharesAreOrdered`), so that the
  diagnosis is right for all counts and no division is involved.

### Records (`Records`)

`RecordsKeepData`: from the org through mapper, DTO, form, patch and mapper back,
for every field of seven kinds of record, each holding a value, nothing, or
something only the org's users can have entered. `KnownLoss` names what is lost: a
list that is not valid JSON, a coordinate without its partner, and a contact's
verified licence, which is selected and never read. Regional settings: what the
card announces is what applies; a locale without a region is accepted by the page
and refused by the server; invalid stored values go with any save.

`DashboardProofs.tla` proves it (`RecordsKeepDataTheorem`), and for every record of a
kind, whatever its fields hold (`AnyRecordTheorem`; the run varies one field of a full
record and one of a sparse record). The argument is that reading settles a value: what
was read is read the same again (`ReadingSettles`), and so is what can be typed
(`TypedIsRead`). With what each form sends (`FormEdits`) and each mapper writes
(`AfterIs`), what is left are the fields that a reader, a form or a writer treats apart
(`Exceptions`), and each of them is either put back or a `KnownLoss`. For regional
settings, what a layer is parsed to parses to itself (`ParsingSettles`), and any two
layers will do.

### Symmetry and bounds of the run

`Tab`, `Editor` and `Reviewer` have the same two values; so have `Call`,
`Submission`, `Survey` and `Picture`: see section 7. Two tokens are one before and
one after a refresh or a reset; one reset; three saves of a brand are two that
overlap and one that follows. `CHECK_DEADLOCK FALSE`: a case that has been drawn
is the end of its behaviour. `PortalTypeOK` is the conjunction of the types of the
components with state; those of section 7 were checked in the same way and are
not repeated in its run.

Nothing is lost by running the components side by side: `PortalRunsItsParts` proves
that each of them behaves as it does by itself, so that every theorem about one of
them is one about the portal. `PortalTypesTheorem` is the first, for any bounds. The
types need one fact the other invariants do not: a reset that is about to replace the
password found it below its bound, and no other reset is (`SessionLimits`).

## 9. What is proved and what is checked

Theorems hold for all values of the constants under the assumptions named with
them; TLC evaluates these on the runs. Every invariant and every action property of a
passing run is stated by a theorem. Model-checked only are the four liveness
properties, `EveryCallEnds`, `EveryRequestEnds`, `EveryReadEnds` and
`DeploymentIsSettled`: TLAPS does not reason about fairness and ENABLED. The runs
that find a property violated show what the code does, and have nothing to prove.

Where a theorem is about functions, the run and the theorem differ in what they
cover: the run draws the cases that its configuration bounds, the theorem takes any
(`AnyAssignmentsTheorem`, `AnyVisitsTheorem`, `AnyBookingsTheorem`,
`AnyRecordTheorem`). What a theorem takes from the library of facts about finite
sets, functions and well-founded orders is used as it is there, without an induction
theorem; sums are sizes of sets for that reason (`Total` of `Dashboard`).

## 10. Not modelled

See "components" in `PROJECT.json`. Reads with filters (the catalogue, customers,
wishlist, branches), the wording and layout of mails and pages, and the wiring of
modules and tenants are outside every model. So are numbers of rows above
Salesforce's query limits, clock skew between instances, the expiry of codes,
links and refresh tokens (an expired one is refused like one that was used), the
search of the org's directory, image conversion and what the AI reads of a
licence. A rep's daily maximum is enforced only at creation (`LeastLoaded`);
`repositories.ts:106` reads as if it were a promise, but assignment by staff
ignores it and two creates on two vehicles can exceed it, so no property claims it.
