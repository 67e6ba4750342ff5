-------------------------------- MODULE Records --------------------------------
(***************************************************************************)
(* What an edit does to a stored record.  A record is read field by field, *)
(* shown in a form, sent back, patched into the entity, and written back   *)
(* whole: so that what was not edited stays what it was, every layer has   *)
(* to carry every field.                                                   *)
(*                                                                         *)
(* Functions without state, as in Schedule: a stored record and an edit of *)
(* it are drawn.  A field holds Null, what was stored ("old"), what is     *)
(* typed ("new"), or something that only the org's own users can have put  *)
(* there.  An empty text is stored as Null, as the org does.  Fields have  *)
(* the names of the entities' properties.                                  *)
(*                                                                         *)
(* Sources: the Salesforce mappers, soql and repositories, packages/domain *)
(* entities, the admin controllers of vehicles, branches and regional      *)
(* settings, auth.service, and the forms of apps/web.                      *)
(***************************************************************************)
EXTENDS Integers

VARIABLE edit       \* the case under consideration

Null == "null"
Garbled == "malformed JSON"
Local == "a number without its calling code"

Kinds == {"vehicle", "branch", "contact", "booking", "assignment", "allocation", "feedback"}

-----------------------------------------------------------------------------
(* Fields, and how each is read                                            *)

VehicleFixed == {"make", "model", "year", "vin", "bodyType", "fuelType", "transmission", "status", "dealershipId", "branchId"}
VehicleClearable ==
    {"trim", "color", "priceMax", "seatingCapacity", "mileageKmpl", "safetyRatingStars", "primaryImageUrl", "videoUrl", "description"}
VehicleFlags == {"isFeatured", "isBestSeller", "isNewLaunch"}
VehicleLists ==
    {"galleryUrls", "specSheet", "accessories", "engineOptions", "safetyFeatures", "infotainmentFeatures",
     "exteriorHighlights", "interiorHighlights", "colors", "faqs"}
Vehicle == VehicleFixed \cup VehicleClearable \cup VehicleFlags \cup VehicleLists \cup {"price", "odometer", "availabilityStatus"}

BranchAddress == {"line1", "city", "state", "postalCode", "country"}
Branch == BranchAddress \cup {"dealershipId", "name", "latitude", "longitude", "phone", "email", "operatingHours", "managerName", "isActive"}

Contact ==
    {"firstName", "lastName", "email", "phone", "id", "preferredLanguage", "marketingOptIn", "emailVerified", "phoneVerified"}

Booking ==
    {"customerId", "vehicleId", "dealershipId", "branchId", "salesRepId", "driveType", "slot", "status", "homeAddress",
     "checkInMethod", "checkInTimestamp", "actualStart", "actualEnd", "odometerStart", "odometerEnd", "cancellationReason",
     "rescheduledFromBookingId", "waitlistPosition", "city", "state", "preferredVariantId", "isExistingCustomer",
     "currentVehicleOwned", "purchaseTimeline", "pickupRequired", "additionalNotes", "staffNotes"}

Assignment == {"userId", "role", "dealershipId", "branchId", "isActive", "maxDailyBookings", "phone"}
Allocation == {"vehicleId", "fromBranchId", "toBranchId", "transferDate", "status"}
Feedback ==
    {"bookingId", "customerRating", "customerComments", "repNotes", "interestLevel", "objectionsRaised", "submittedBy",
     "purchaseInterest", "vehiclePerformanceRating", "comfortRating", "featuresRating", "staffExperienceRating",
     "dealershipExperienceRating", "npsScore", "isSurveyResponse"}

\* A codec is how a field is read: as it is; a checkbox, of which no value is
\* "off"; a list, empty if it cannot be parsed; with a default.
VehicleReader ==
    [f \in Vehicle |->
        CASE f \in VehicleFlags -> "flag" [] f \in VehicleLists -> "list"
          [] f \in {"price", "odometer", "availabilityStatus"} -> "filled" [] OTHER -> "as is"]
BranchReader == [f \in Branch |-> CASE f = "isActive" -> "flag" [] f \in BranchAddress -> "filled" [] OTHER -> "as is"]
ContactReader ==
    [f \in Contact |->
        CASE f = "phone" -> "phone" [] f = "preferredLanguage" -> "filled"
          [] f \in {"marketingOptIn", "emailVerified", "phoneVerified"} -> "flag" [] OTHER -> "as is"]
BookingReader ==
    [f \in Booking |->
        CASE f = "salesRepId" -> "owner" [] f = "purchaseTimeline" -> "filled"
          [] f \in {"isExistingCustomer", "pickupRequired"} -> "flag" [] OTHER -> "as is"]
AssignmentReader == [f \in Assignment |-> IF f = "isActive" THEN "flag" ELSE "as is"]
AllocationReader == [f \in Allocation |-> "as is"]
FeedbackReader ==
    [f \in Feedback |->
        CASE f \in {"interestLevel", "submittedBy"} -> "filled"
          [] f \in {"purchaseInterest", "isSurveyResponse"} -> "flag" [] OTHER -> "as is"]
Reader(kind) ==
    CASE kind = "vehicle" -> VehicleReader [] kind = "branch" -> BranchReader [] kind = "contact" -> ContactReader
      [] kind = "booking" -> BookingReader [] kind = "assignment" -> AssignmentReader
      [] kind = "allocation" -> AllocationReader [] kind = "feedback" -> FeedbackReader

\* What a query selects, and what a record has: of a contact also a mobile
\* number, which is never selected, and the driving licence.
Licence == {"licenseNumber", "licenseVerified"}
Selected(kind) ==
    CASE kind = "vehicle" -> Vehicle [] kind = "branch" -> Branch [] kind = "contact" -> Contact \cup Licence
      [] kind = "booking" -> Booking [] kind = "assignment" -> Assignment
      [] kind = "allocation" -> Allocation [] kind = "feedback" -> Feedback
Stored(kind) == DOMAIN Reader(kind) \cup (IF kind = "contact" THEN Licence \cup {"mobilePhone"} ELSE {})

ParseList(v) == IF v \in {Null, Garbled} THEN "empty" ELSE v
WithCallingCode(v) == IF v = Local THEN "old" ELSE v
Decoded(codec, v) ==
    CASE codec = "as is" -> v
      [] codec = "flag" -> IF v = Null THEN "off" ELSE v
      [] codec = "list" -> ParseList(v)
      [] codec = "filled" -> IF v = Null THEN "default" ELSE v
      [] codec = "phone" -> WithCallingCode(v)
      [] codec = "owner" -> IF v = "integration" THEN Null ELSE v

Read(kind, record) ==
    LET got(f) == IF f \in Selected(kind) THEN record[f] ELSE Null
        entity == [f \in DOMAIN Reader(kind) |-> Decoded(Reader(kind)[f], got(f))]
    IN  IF kind = "branch" /\ Null \in {got("latitude"), got("longitude")}
        THEN [entity EXCEPT !.latitude = Null, !.longitude = Null] ELSE entity

\* A customer needs a name, an email and a phone to be read at all.
Readable(kind, record) ==
    kind = "contact" => \A f \in {"firstName", "lastName", "email", "phone"} : Read(kind, record)[f] # Null

-----------------------------------------------------------------------------
(* Writing                                                                 *)

\* What f says, and where it says nothing what g says
Over(f, g) == [x \in DOMAIN f \cup DOMAIN g |-> IF x \in DOMAIN f THEN f[x] ELSE g[x]]

\* What each mapper writes of an entity
VehicleRecord(entity) == entity
BranchRecord(entity) == entity
\* No licence is ever read, so none is written; whether it is verified, is.
ContactRecord(entity) == Over([licenseVerified |-> "off"], entity)
\* A booking without a rep keeps its owner.
BookingRecord(entity) == [f \in {g \in DOMAIN entity : g # "salesRepId" \/ entity[g] # Null} |-> entity[f]]
AssignmentRecord(entity) == entity
AllocationRecord(entity) == entity
FeedbackRecord(entity) == entity
Written(kind, entity) ==
    CASE kind = "vehicle" -> VehicleRecord(entity) [] kind = "branch" -> BranchRecord(entity)
      [] kind = "contact" -> ContactRecord(entity) [] kind = "booking" -> BookingRecord(entity)
      [] kind = "assignment" -> AssignmentRecord(entity) [] kind = "allocation" -> AllocationRecord(entity)
      [] kind = "feedback" -> FeedbackRecord(entity)

Saved(kind, record, entity) == Over(Written(kind, entity), record)

-----------------------------------------------------------------------------
(* Forms                                                                   *)

HasForm == {"vehicle", "branch", "contact"}

VehicleForm == (VehicleFixed \ {"dealershipId"}) \cup VehicleFlags \cup (VehicleClearable \ {"color", "safetyRatingStars", "videoUrl"})
               \cup {"price", "odometer", "availabilityStatus"}
BranchForm == Branch \ {"dealershipId", "isActive"}
ProfileForm == {"firstName", "lastName", "preferredLanguage", "marketingOptIn"}
FormOf(kind) == CASE kind = "vehicle" -> VehicleForm [] kind = "branch" -> BranchForm [] kind = "contact" -> ProfileForm

\* Inputs that may not be left blank; a blank number of the vehicle form is
\* sent as no number at all.
Required(kind) ==
    CASE kind = "vehicle" -> {"make", "model", "year", "vin", "branchId", "price"}
      [] kind = "branch" -> BranchAddress \cup {"name"}
      [] kind = "contact" -> {"firstName", "lastName"}
NotSentBlank(kind) == IF kind = "vehicle" THEN {"priceMax", "seatingCapacity", "mileageKmpl"} ELSE {}

\* The form as it is opened and edited: an address that is not stored is blank.
Form(kind, entity, field, value) ==
    [f \in FormOf(kind) |->
        IF f = field THEN value ELSE IF f \in BranchAddress /\ entity[f] = "default" THEN Null ELSE entity[f]]
MaySubmit(kind, form) ==
    /\ \A f \in Required(kind) : form[f] # Null
    /\ kind = "branch" => (form.latitude = Null <=> form.longitude = Null)
Body(kind, form) == [f \in {g \in DOMAIN form : ~(g \in NotSentBlank(kind) /\ form[g] = Null)} |-> form[f]]

\* What the body changes of the entity: toVehiclePatch leaves out what is null
\* unless it may be cleared, and a vehicle moves to the dealership of its branch.
ResetLists(entity, body) == Over(body, [f \in DOMAIN entity |-> IF f \in VehicleLists THEN "empty" ELSE entity[f]])
VehiclePatched(entity, body) ==
    [Over(body, entity) EXCEPT !.dealershipId = IF body.branchId # entity.branchId THEN "new" ELSE @]
BranchPatched(entity, body) == Over(body, entity)
ProfilePatched(entity, body) == Over(body, entity)
Patched(kind, entity, body) ==
    CASE kind = "vehicle" -> VehiclePatched(entity, body) [] kind = "branch" -> BranchPatched(entity, body)
      [] kind = "contact" -> ProfilePatched(entity, body)

\* The entity after an edit, by a form or by one of its own operations
Edited(kind, record, field, value) ==
    LET entity == Read(kind, record)
    IN  IF kind \in HasForm THEN Patched(kind, entity, Body(kind, Form(kind, entity, field, value)))
        ELSE [entity EXCEPT ![field] = value]
MayEdit(kind, record, field, value) ==
    /\ Readable(kind, record)
    /\ kind \in HasForm => MaySubmit(kind, Form(kind, Read(kind, record), field, value))
AfterEdit(kind, record, field, value) == Saved(kind, record, Edited(kind, record, field, value))

-----------------------------------------------------------------------------
(* Regional settings: a layer of the dealership over one of the company     *)

RegionalKey == {"locale", "timeZone", "phoneCountryCode"}

\* A value and how it is written; what the org's users write may be bad.
Canonical(who) == [by |-> who, form |-> "canonical"]
Loose(who) == [by |-> who, form |-> "loose"]
Regionless(who) == [by |-> who, form |-> "no region"]
Bad(who) == [by |-> who, form |-> "bad"]
NoValue == [by |-> "nobody", form |-> "blank"]

\* parseRegionalSettings: a locale needs a region.
Parses(key, v) == v.form \in {"blank", "canonical", "loose"} \/ (key # "locale" /\ v.form = "no region")
Parsed(v) == IF v = NoValue THEN NoValue ELSE Canonical(v.by)
RegionalFromRecord(record) == [k \in RegionalKey |-> IF Parses(k, record[k]) THEN Parsed(record[k]) ELSE NoValue]
RegionalToRecord(settings) == settings

OrgDefault(key) == IF key = "phoneCountryCode" THEN NoValue ELSE Canonical("org")
Pick(layers, key) ==
    LET set == {i \in DOMAIN layers : layers[i][key] # NoValue}
    IN  IF set = {} THEN OrgDefault(key) ELSE layers[CHOOSE i \in set : \A j \in set : i <= j][key]
ResolveRegional(own, company) == [k \in RegionalKey |-> Pick(<<RegionalFromRecord(own), RegionalFromRecord(company)>>, k)]

\* RegionalSettingsCard: what it is opened with, what it shows for a blank
\* field, what it accepts, and what the server then stores.
RegionalForm(own) == RegionalFromRecord(own)
Fallback(company) == [k \in RegionalKey |-> IF RegionalFromRecord(company)[k] # NoValue THEN RegionalFromRecord(company)[k] ELSE OrgDefault(k)]
RegionalValid(form) == \A k \in RegionalKey : form[k].form # "bad"
RegionalAccepted(form) == \A k \in RegionalKey : Parses(k, form[k])
RegionalSaved(form) == RegionalToRecord([k \in RegionalKey |-> Parsed(form[k])])

-----------------------------------------------------------------------------
(* The cases                                                               *)

NoEdit == [kind |-> "none"]

\* What the org may hold in a field: an id or a status is never null.
NeverNull(kind) ==
    CASE kind = "vehicle" -> VehicleFixed [] kind = "branch" -> {"name", "dealershipId"} [] kind = "contact" -> {"id"}
      [] kind = "booking" -> {"customerId", "vehicleId", "dealershipId", "branchId", "driveType", "slot", "status"}
      [] kind = "assignment" -> {"userId", "role"} [] kind = "allocation" -> {"vehicleId", "toBranchId", "status"}
      [] kind = "feedback" -> {"bookingId"}
OtherThanOld(kind, f) ==
    IF f \notin DOMAIN Reader(kind) THEN {Null}
    ELSE LET codec == Reader(kind)[f]
         IN  CASE codec = "list" -> {Null, Garbled} [] codec = "phone" -> {Null, Local} [] codec = "owner" -> {"integration"}
               [] codec = "flag" -> {"off"} [] OTHER -> IF f \in NeverNull(kind) THEN {} ELSE {Null}
Full(kind) == [f \in Stored(kind) |-> "old"]
Sparse(kind) == [f \in Stored(kind) |-> IF OtherThanOld(kind, f) = {} THEN "old" ELSE CHOOSE v \in OtherThanOld(kind, f) : TRUE]
RecordsOf(kind) ==
    UNION {{[base EXCEPT ![f] = v] : base \in {Full(kind), Sparse(kind)}, v \in {"old"} \cup OtherThanOld(kind, f)} : f \in Stored(kind)}

\* What may be typed; a rep is never taken off a booking, only replaced.
Typed(kind, f) ==
    CASE Reader(kind)[f] = "flag" -> {"new", "off"}
      [] Reader(kind)[f] = "as is" -> {"new"} \cup (IF f \in NeverNull(kind) THEN {} ELSE {Null})
      [] OTHER -> {"new"}
EditableFields(kind) == IF kind \in HasForm THEN FormOf(kind) ELSE DOMAIN Reader(kind)

RegionalWritten(who, key) == {Canonical(who), Loose(who), NoValue} \cup (IF key = "locale" THEN {Regionless(who)} ELSE {})
RegionalRecords(who) ==
    {[k \in RegionalKey |-> IF k = key THEN v ELSE w] : key \in RegionalKey, v, w \in {Canonical(who), Bad(who), Loose(who), NoValue}}

RecordsInit == edit = NoEdit
EditRecord ==
    /\ edit = NoEdit
    /\ \E kind \in Kinds : \E record \in RecordsOf(kind), field \in EditableFields(kind) : \E value \in Typed(kind, field) :
        /\ MayEdit(kind, record, field, value)
        /\ edit' = [kind |-> kind, record |-> record, field |-> field, value |-> value]
EditRegional ==
    /\ edit = NoEdit
    /\ \E own \in RegionalRecords("dealership"), company \in RegionalRecords("company"), key \in RegionalKey :
        \E v \in RegionalWritten("editor", key) :
            edit' = [kind |-> "regional", own |-> own, company |-> company, key |-> key, value |-> v]
RecordsNext == EditRecord \/ EditRegional

RecordsSpec == RecordsInit /\ [][RecordsNext]_edit

-----------------------------------------------------------------------------
(* What an edit may do                                                     *)

\* Known to be lost in a save: a list that cannot be parsed, a coordinate
\* without the other, and that a contact's licence was verified.  A number
\* without its calling code is given one.
KnownLoss(kind, record, f) ==
    \/ record[f] \in {Garbled, Local}
    \/ kind = "branch" /\ f \in {"latitude", "longitude"} /\ (record.latitude = Null) # (record.longitude = Null)
    \/ f = "licenseVerified"
Means(before, after) == after = before \/ (before = Null /\ after \in {"default", "empty", "off"})

TheRestIsKept(kind, record, field, value) ==
    \A f \in Stored(kind) \ {field} :
        \/ Means(record[f], AfterEdit(kind, record, field, value)[f])
        \/ KnownLoss(kind, record, f)
        \/ kind = "vehicle" /\ f = "dealershipId" /\ field = "branchId"
\* The numbers that the vehicle form cannot clear stay as they were.
TheEditIsMade(kind, record, field, value) ==
    AfterEdit(kind, record, field, value)[field] =
        IF kind \in HasForm /\ field \in NotSentBlank(kind) /\ value = Null THEN record[field] ELSE value
ReadsBack(kind, record, field, value) ==
    Read(kind, AfterEdit(kind, record, field, value)) = Edited(kind, record, field, value)

\* What the card shows is what customers get; it refuses nothing that the
\* server takes, and takes nothing that the server refuses but a locale
\* without a region.
RegionalIsTrue(own, company, key, value) ==
    LET form == [RegionalForm(own) EXCEPT ![key] = value]
        effective == ResolveRegional(RegionalSaved(form), company)
    IN  /\ RegionalAccepted(form) => RegionalValid(form)
        /\ RegionalValid(form) => RegionalAccepted(form) \/ form.locale.form = "no region"
        /\ RegionalAccepted(form) =>
            \A k \in RegionalKey :
                /\ effective[k] = IF form[k] = NoValue THEN Fallback(company)[k] ELSE Parsed(form[k])
                /\ k # key => effective[k] = ResolveRegional(own, company)[k]

\* A save stores the edit and leaves the rest of the record as it was ("a PATCH
\* only touches the fields the client actually sent",
\* admin-vehicles.controller.ts:251), and the record then reads as it was saved;
\* a layer of regional settings has the effect that its card announced.
RecordsKeepData ==
    /\ edit.kind \in Kinds =>
        /\ TheRestIsKept(edit.kind, edit.record, edit.field, edit.value)
        /\ TheEditIsMade(edit.kind, edit.record, edit.field, edit.value)
        /\ ReadsBack(edit.kind, edit.record, edit.field, edit.value)
    /\ edit.kind = "regional" => RegionalIsTrue(edit.own, edit.company, edit.key, edit.value)
=============================================================================
