----------------------------- MODULE Reconcile -----------------------------
(***************************************************************************)
(* The reconciliation pipeline (reconcile.py): a register of devices, meter *)
(* readings and billing lines are read row by row, made canonical, cleared  *)
(* of duplicates, compared with each other and counted, and every change    *)
(* and every drop is entered in a report.                                   *)
(*                                                                         *)
(* A text is a record of what its parser tells apart: the words of a name   *)
(* or a number are left out, the fields of a date are kept.  Time counts in *)
(* minutes.  The report is a bag, because the program sorts it at the end.  *)
(***************************************************************************)
EXTENDS Integers, Sequences, FiniteSets, FiniteSetsExt, Functions, Bags

CONSTANTS DeviceRows, TelemetryRows, BillingRows,  \* the rows of the extracts
          Headings,     \* spellings of the device columns, one for each extract
          Window,       \* [first, last]: the days reported on, inclusive
          MaxRows       \* bound on the rows of the three extracts together

VARIABLES stage, heading, input, registry, readings, lines, report, summary

reconcileVars == <<stage, heading, input, registry, readings, lines, report, summary>>

Sources == {"devices", "telemetry", "billing"}

----------------------------------------------------------------------------
(* Headings.                                                               *)

\* How extracts spell the heading of their device column, in lower case.
Lowered == [h \in {"device_id", "Device_ID", "Asset_ID", "serial"} |->
    CASE h = "Device_ID" -> "device_id" [] h = "Asset_ID" -> "asset_id" [] OTHER -> h]

KeyTexts == [id : STRING, exact : BOOLEAN]   \* the id a text comes to, "" if to none
Numbers  == [form : {"missing", "malformed", "negative", "plain", "dressed"},
             n : Nat, unit : STRING]
Dates    == [shape : {"missing", "epoch", "slash", "iso", "dash", "other"},
             y : Nat, a : Nat, b : Nat, at : Int, sep : {" ", "T"}, pad : 0..2]
Periods  == [shape : {"missing", "canonical", "day", "slash"}, y : Nat, m : Nat, d : Nat]

ASSUME ReconcileAssumption ==
    /\ MaxRows \in Nat
    /\ Headings \subseteq [Sources -> DOMAIN Lowered]
    /\ DeviceRows \subseteq
         [key : KeyTexts, site : [name : STRING, exact : BOOLEAN], capacity : Numbers,
          commissioned : Dates, status : STRING]
    /\ TelemetryRows \subseteq [key : KeyTexts, timestamp : Dates, energy : Numbers]
    /\ BillingRows \subseteq
         [key : KeyTexts, period : Periods, kwh : Numbers, credit : STRING]
    /\ Window \in [first : Nat \X Nat \X Nat, last : Nat \X Nat \X Nat]

resolve_headers(h) ==
    IF Lowered[h] \notin {"device_id"} /\ Lowered[h] \in {"asset_id"}
    THEN "device_id" ELSE h

Key(source, row) ==
    IF resolve_headers(heading[source]) = "device_id" THEN row.key.id ELSE ""

----------------------------------------------------------------------------
(* Parsers.                                                                *)

Good(v, how) == [ok |-> TRUE, value |-> v, how |-> how]
Bad(how)     == [ok |-> FALSE, value |-> 0, how |-> how]

Scale == [unit \in {"", "kw", "mw"} |-> IF unit = "mw" THEN 1000 ELSE 1]

parse_number(t) ==
    CASE t.form = "missing" -> Bad("missing")
      [] t.form \in {"malformed", "negative"} -> Bad("invalid")
      [] t.unit \notin DOMAIN Scale -> Bad("invalid")
      [] OTHER -> Good(t.n * Scale[t.unit],
                       IF t.form = "plain" /\ t.unit = "" THEN "canonical" ELSE "normalised")

Leap(y) == y % 4 = 0 /\ (y % 100 # 0 \/ y % 400 = 0)
MonthLength(y, m) ==
    IF m = 2 THEN IF Leap(y) THEN 29 ELSE 28 ELSE IF m \in {4, 6, 9, 11} THEN 30 ELSE 31

ValidDate(y, m, d) == m \in 1..12 /\ d \in 1..MonthLength(y, m)

DaysBefore(y) == 365 * y + (y - 1) \div 4 - (y - 1) \div 100 + (y - 1) \div 400
Midnight(y, m, d) ==
    1440 * (DaysBefore(y) + SumFunction([k \in 1..(m - 1) |-> MonthLength(y, k)]) + d)
Day(date) == Midnight(date[1], date[2], date[3])

NoTime == 0 - 1
BadTime == 0 - 2

\* The minute of the day the parser takes from a text.  After a slash date
\* only a blank introduces a time; the time of an ISO date is what follows its
\* tenth character, so two missing zeros cost the first digit of the hour.
Clock(t) ==
    CASE t.shape = "slash" /\ t.sep = "T" -> 0
      [] t.at = NoTime -> 0
      [] t.shape = "iso" /\ t.pad = 2 /\ t.at # BadTime ->
            60 * ((t.at \div 60) % 10) + (t.at % 60)
      [] OTHER -> t.at

DateTime(y, m, d, t, how) ==
    IF ValidDate(y, m, d) /\ Clock(t) # BadTime
    THEN Good(Midnight(y, m, d) + Clock(t), how) ELSE Bad("invalid")

SlashDate(t) ==
    LET dayFirst == t.a > 12 /\ t.b <= 12
        monthFirst == t.b > 12 /\ t.a <= 12
    IN  CASE dayFirst = monthFirst ->
                Bad(IF ValidDate(t.y, t.b, t.a) /\ ValidDate(t.y, t.a, t.b)
                    THEN "ambiguous" ELSE "invalid")
          [] dayFirst   -> DateTime(t.y, t.b, t.a, t, "slash")
          [] monthFirst -> DateTime(t.y, t.a, t.b, t, "slash")

parse_datetime(t) ==
    CASE t.shape = "missing" -> Bad("missing")
      [] t.shape = "epoch" -> Good(t.at, "epoch")
      [] t.shape = "slash" -> SlashDate(t)
      [] t.shape = "iso"   -> DateTime(t.y, t.a, t.b, t, "iso")
      [] t.shape = "dash" /\ t.at = NoTime -> DateTime(t.y, t.b, t.a, t, "dash")
      [] OTHER -> Bad("invalid")

\* Already written as the report writes dates.
CanonicalDate(t) == t.shape = "iso" /\ t.pad = 0 /\ t.at = NoTime

\* A period is a number of months; d is the day of a text that names one.
Month(y, m) == 12 * y + m
parse_period(t) ==
    CASE t.shape = "missing" -> Bad("missing")
      [] ~ValidDate(t.y, t.m, IF t.shape = "day" THEN t.d ELSE 1) -> Bad("invalid")
      [] OTHER -> Good(Month(t.y, t.m),
                       IF t.shape = "canonical" THEN "canonical" ELSE "normalised")

\* An empty flag is false.
FlagMap == [t \in {"true", "yes", "false", ""} |-> t \in {"true", "yes"}]
parse_flag(t) ==
    IF t \in DOMAIN FlagMap
    THEN Good(FlagMap[t], IF t \in {"true", "false"} THEN "canonical" ELSE "normalised")
    ELSE Bad("unknown")

StatusMap == [t \in {"active", "online", "inactive", "retired"} |->
    IF t \in {"active", "online"} THEN "active" ELSE "inactive"]
canonical_status(t) == IF t \in DOMAIN StatusMap THEN StatusMap[t] ELSE ""

----------------------------------------------------------------------------
(* The report.                                                             *)

\* value is the canonical_value of an entry, where a property reads it.
Entry(rule, category, source, key, value) ==
    [rule |-> rule, category |-> category, source |-> source, key |-> key, value |-> value]

\* A dictionary with one item set.
Set(map, key, value) == [k \in DOMAIN map \cup {key} |-> IF k = key THEN value ELSE map[k]]

Add(entries) == report (+) SetToBag(entries)

\* The checks a row passes in order.  The first that fails drops the row with
\* an entry; one that passes enters the rewriting it made, if any.
Check(fails, rule, category, rewrote, as) ==
    [fails |-> fails, rule |-> rule, category |-> category, rewrote |-> rewrote, as |-> as]

Failing(checks) == {i \in DOMAIN checks : checks[i].fails}

Entries(checks, source, key) ==
    LET end == IF Failing(checks) = {} THEN Len(checks) + 1 ELSE Min(Failing(checks))
    IN  {Entry(checks[i].as, "normalised", source, <<key>>, <<>>) :
            i \in {j \in 1..(end - 1) : checks[j].rewrote}}
        \cup {Entry(checks[i].rule, checks[i].category, source, <<key>>, <<>>) :
            i \in Failing(checks) \cap {end}}

----------------------------------------------------------------------------
(* The register of devices.                                                *)

RowsRead == Len(input.devices) + Len(input.telemetry) + Len(input.billing)
Read(source, row) ==
    /\ RowsRead < MaxRows
    /\ input' = [input EXCEPT ![source] = Append(@, row)]

\* normalize_devices, the loop over the rows.
DeviceRow(row) ==
    LET key == Key("devices", row) IN
    /\ stage = "devices"
    /\ Read("devices", row)
    /\ report' = Add(IF key = ""
                     THEN {Entry("DEVICE.KEY_MISSING", "excluded", "devices", <<>>, <<>>)}
                     ELSE {Entry("DEVICE.KEY_CANONICALISED", "normalised", "devices", <<key>>, <<>>) :
                             z \in IF row.key.exact THEN {} ELSE {1}})
    /\ UNCHANGED <<stage, heading, registry, readings, lines, summary>>

DeviceKeys == {Key("devices", input.devices[i]) : i \in DOMAIN input.devices} \ {""}

\* The rows of a device, by their place in the extract; the first survives.
RecordsOf(key) == {i \in DOMAIN input.devices : Key("devices", input.devices[i]) = key}
Survivor(key) == input.devices[Min(RecordsOf(key))]

Fingerprint(row) ==
    LET cap == parse_number(row.capacity)
        date == parse_datetime(row.commissioned)
    IN  <<row.site.name, cap.ok, cap.value, date.ok, date.value, canonical_status(row.status)>>

Identical(key) ==
    \A i \in RecordsOf(key) : Fingerprint(input.devices[i]) = Fingerprint(Survivor(key))

Disqualifying == {"DEVICE.DUP_CONFLICT", "DEVICE.STATUS_UNKNOWN", "DEVICE.DATE_AMBIGUOUS",
                  "DEVICE.DATE_INVALID", "DEVICE.DATE_OUT_OF_RANGE"}

\* The rules _finalize_device finds broken or applied, with their categories.
Rules(row) ==
    LET cap == parse_number(row.capacity)
        date == parse_datetime(row.commissioned)
        status == canonical_status(row.status)
        late == date.ok /\ date.value >= Day(Window.last) + 1440
    IN  {r \in {
           <<"DEVICE.SITE_CANONICALISED", "normalised", row.site.name # "" /\ ~row.site.exact>>,
           <<"DEVICE.STATUS_UNKNOWN", "excluded", status = "">>,
           <<"DEVICE.STATUS_CANONICALISED", "normalised", status \notin {"", row.status}>>,
           <<"DEVICE.CAPACITY_MISSING", "reported", cap.how = "missing">>,
           <<"DEVICE.CAPACITY_INVALID", "reported", cap.how = "invalid">>,
           <<"DEVICE.CAPACITY_CANONICALISED", "normalised", cap.how = "normalised">>,
           <<"DEVICE.DATE_AMBIGUOUS", "excluded", date.how = "ambiguous">>,
           <<"DEVICE.DATE_INVALID", "excluded", date.how \in {"missing", "invalid"}>>,
           <<"DEVICE.DATE_OUT_OF_RANGE", "excluded", late>>,
           <<"DEVICE.DATE_CANONICALISED", "normalised",
             date.ok /\ ~CanonicalDate(row.commissioned)>>} : r[3]}

Finalized(row) ==
    LET cap == parse_number(row.capacity)
    IN  [status |-> canonical_status(row.status), capacity |-> cap.value,
         capacity_valid |-> cap.ok,
         excluded |-> \E r \in Rules(row) : r[1] \in Disqualifying]

Excluded == [status |-> "", capacity |-> 0, capacity_valid |-> FALSE, excluded |-> TRUE]

\* Mutant: the first of several rows wins, whatever the others say.
PicksFirst(key) == Finalized(Survivor(key))

Registered(key) ==
    IF Identical(key) THEN Finalized(Survivor(key)) ELSE Excluded

DeviceEntries(key) ==
    IF ~Identical(key)
    THEN {Entry("DEVICE.DUP_CONFLICT", "excluded", "devices", <<key>>, <<>>)}
    ELSE {Entry(r[1], r[2], "devices", <<key>>, <<>>) : r \in Rules(Survivor(key))}
         \cup {Entry("DEVICE.DUP_IDENTICAL", "deduped", "devices", <<key>>, <<>>) :
                 z \in IF Cardinality(RecordsOf(key)) > 1 THEN {1} ELSE {}}

\* normalize_devices, the loop over the groups of rows.
Register ==
    /\ stage = "devices"
    /\ stage' = "telemetry"
    /\ registry' = [key \in DeviceKeys |-> Registered(key)]
    /\ report' = Add(UNION {DeviceEntries(key) : key \in DeviceKeys})
    /\ UNCHANGED <<heading, input, readings, lines, summary>>

----------------------------------------------------------------------------
(* Readings.                                                               *)

ReadingChecks(row) ==
    LET key == Key("telemetry", row)
        stamp == parse_datetime(row.timestamp)
        value == parse_number(row.energy)
        inside == stamp.value >= Day(Window.first) /\ stamp.value < Day(Window.last) + 1440
    IN  <<Check(key = "", "KEY_MISSING", "excluded", ~row.key.exact,
                "TELEMETRY.KEY_CANONICALISED"),
          Check(~stamp.ok, IF stamp.how = "ambiguous" THEN "TELEMETRY.TIMESTAMP_AMBIGUOUS"
                           ELSE "TELEMETRY.TIMESTAMP_INVALID", "excluded", FALSE, ""),
          Check(~inside, "TELEMETRY.TIMESTAMP_OUT_OF_RANGE", "excluded_window",
                ~CanonicalDate(row.timestamp), "TELEMETRY.TIMESTAMP_CANONICALISED"),
          Check(~value.ok, "TELEMETRY.VALUE_INVALID", "excluded",
                value.how # "canonical", "TELEMETRY.VALUE_CANONICALISED")>>

\* normalize_telemetry, the loop over the rows.
TelemetryRow(row) ==
    LET checks == ReadingChecks(row)
        at == <<Key("telemetry", row), parse_datetime(row.timestamp).value>>
        before == IF at \in DOMAIN readings THEN readings[at] ELSE <<>>
    IN  /\ stage = "telemetry"
        /\ Read("telemetry", row)
        /\ report' = Add(Entries(checks, "telemetry", at[1]))
        /\ readings' = IF Failing(checks) = {}
                       THEN Set(readings, at,
                                Append(before, parse_number(row.energy).value))
                       ELSE readings
        /\ UNCHANGED <<stage, heading, registry, lines, summary>>

Conflict(values) == \E i \in DOMAIN values : values[i] # values[1]

\* A reading off the grid of ten minutes, or off that of the one before it.
OffCadence(at) ==
    LET earlier == {other[2] : other \in {r \in DOMAIN readings : r[1] = at[1] /\ r[2] < at[2]}}
    IN  at[2] % 10 # 0 \/ (earlier # {} /\ (at[2] - Max(earlier)) % 10 # 0)

\* normalize_telemetry, duplicates and cadence; the first value is kept.
Dedupe ==
    /\ stage = "telemetry"
    /\ stage' = "billing"
    /\ report' = Add(
         {Entry(IF Conflict(readings[at]) THEN "TELEMETRY.DUP_CONFLICT"
                ELSE "TELEMETRY.DUP_IDENTICAL", "deduped", "telemetry", at, <<readings[at][1]>>) :
            at \in {r \in DOMAIN readings : Len(readings[r]) > 1}}
         \cup {Entry("TELEMETRY.CADENCE_VIOLATION", "reported", "telemetry", at, <<>>) :
            at \in {r \in DOMAIN readings : OffCadence(r)}})
    /\ UNCHANGED <<heading, input, registry, readings, lines, summary>>

----------------------------------------------------------------------------
(* Billing lines.                                                          *)

LineChecks(row) ==
    LET period == parse_period(row.period)
        kwh == parse_number(row.kwh)
        flag == parse_flag(row.credit)
        inside == /\ period.value >= Month(Window.first[1], Window.first[2])
                  /\ period.value <= Month(Window.last[1], Window.last[2])
    IN  <<Check(Key("billing", row) = "", "KEY_MISSING", "excluded", ~row.key.exact,
                "BILLING.KEY_CANONICALISED"),
          Check(~period.ok, "BILLING.PERIOD_INVALID", "excluded",
                period.how = "normalised", "BILLING.PERIOD_CANONICALISED"),
          Check(~inside, "BILLING.PERIOD_OUT_OF_RANGE", "excluded_window", FALSE, ""),
          Check(~kwh.ok, "BILLING.KWH_INVALID", "excluded",
                kwh.how # "canonical", "BILLING.KWH_CANONICALISED"),
          Check(~flag.ok, "BILLING.FLAG_UNKNOWN", "excluded",
                flag.how = "normalised", "BILLING.FLAG_CANONICALISED")>>

\* normalize_billing.  The first line stays; the entry of a later one names
\* the value of the later one.
BillingRow(row) ==
    LET checks == LineChecks(row)
        line == <<Key("billing", row), parse_period(row.period).value>>
        payload == <<parse_number(row.kwh).value, parse_flag(row.credit).value>>
        entries == Entries(checks, "billing", line[1])
    IN  /\ stage = "billing"
        /\ Read("billing", row)
        /\ IF Failing(checks) = {}
           THEN IF line \in DOMAIN lines
                THEN /\ report' = Add(entries \cup
                          {Entry(IF lines[line] # payload THEN "BILLING.DUP_CONFLICT"
                                 ELSE "BILLING.DUP_IDENTICAL", "deduped", "billing", line, payload)})
                     /\ UNCHANGED lines
                ELSE /\ report' = Add(entries)
                     /\ lines' = Set(lines, line, payload)
           ELSE report' = Add(entries) /\ UNCHANGED lines
        /\ UNCHANGED <<stage, heading, registry, readings, summary>>

----------------------------------------------------------------------------
(* The populations and the counts.                                         *)

InTelemetry == {at[1] : at \in DOMAIN readings}
InBilling == {line[1] : line \in DOMAIN lines}
TelemetryOnly == InTelemetry \ DOMAIN registry
BillingOnly == InBilling \ DOMAIN registry
DevicesOnly == DOMAIN registry \ (InTelemetry \cup InBilling)

Presence ==
    /\ stage = "billing"
    /\ stage' = "count"
    /\ report' = Add(
         {Entry("CROSS.TELEMETRY_ONLY", "unknown_entity", "cross", <<k>>, <<>>) : k \in TelemetryOnly}
         \cup {Entry("CROSS.BILLING_ONLY", "unknown_entity", "cross", <<k>>, <<>>) : k \in BillingOnly}
         \cup {Entry("CROSS.DEVICE_ONLY", "unknown_entity", "cross", <<k>>, <<>>) : k \in DevicesOnly})
    /\ UNCHANGED <<heading, input, registry, readings, lines, summary>>

Counted == {k \in DOMAIN registry : registry[k].status = "active" /\ ~registry[k].excluded}

\* The rows of the register that look active, by key; "" gathers the keyless.
ActiveRows(key) ==
    Cardinality({i \in DOMAIN input.devices :
        /\ Key("devices", input.devices[i]) = key
        /\ canonical_status(input.devices[i].status) = "active"})

\* Mutant: the rows of a disqualified device are counted twice.
CollapsesAll ==
    SumFunction([k \in {j \in DeviceKeys : ActiveRows(j) > 1} |-> ActiveRows(k) - 1])

Collapsed ==
    SumFunction([k \in {j \in Counted : ActiveRows(j) > 1} |-> ActiveRows(k) - 1])

Count ==
    /\ stage = "count"
    /\ stage' = "done"
    /\ summary' =
         [appearing |-> Cardinality({i \in DOMAIN input.devices :
                                       canonical_status(input.devices[i].status) = "active"}),
          counted |-> Counted,
          collapsed |-> Collapsed,
          disqualified |-> SumFunction([k \in DeviceKeys \ Counted |-> ActiveRows(k)]),
          keyless |-> ActiveRows(""),
          energy |-> SumFunction([at \in {r \in DOMAIN readings : r[1] \in Counted} |->
                                 readings[at][1]]),
          billed |-> SumFunction([line \in {l \in DOMAIN lines : l[1] \in Counted} |->
                                 lines[line][1]]),
          capacity |-> SumFunction([k \in {j \in Counted : registry[j].capacity_valid} |->
                                   registry[k].capacity])]
    /\ UNCHANGED <<heading, input, registry, readings, lines, report>>

NoSummary == [appearing |-> 0, counted |-> {}, collapsed |-> 0, disqualified |-> 0,
              keyless |-> 0, energy |-> 0, billed |-> 0, capacity |-> 0]

\* _read_csv: the columns of an extract are named by its own headings.
ReconcileInit ==
    /\ stage = "devices"
    /\ heading \in Headings
    /\ input = [source \in Sources |-> <<>>]
    /\ registry = <<>> /\ readings = <<>> /\ lines = <<>>
    /\ report = EmptyBag
    /\ summary = NoSummary

ReconcileNext ==
    \/ \E row \in DeviceRows : DeviceRow(row)
    \/ Register
    \/ \E row \in TelemetryRows : TelemetryRow(row)
    \/ Dedupe
    \/ \E row \in BillingRows : BillingRow(row)
    \/ Presence
    \/ Count

ReconcileSpec == ReconcileInit /\ [][ReconcileNext]_reconcileVars
----------------------------------------------------------------------------
(* Properties.                                                             *)

\* The ways to read a date, by what comes first in it.
LegalReadings(t) ==
    {order \in {"instant", "day", "month"} :
        \/ order = "instant" /\ t.shape = "epoch"
        \/ /\ order = "day" /\ (t.shape = "slash" \/ (t.shape = "dash" /\ t.at = NoTime))
           /\ ValidDate(t.y, t.b, t.a) /\ Clock(t) # BadTime
        \/ /\ order = "month" /\ t.shape \in {"slash", "iso"}
           /\ ValidDate(t.y, t.a, t.b) /\ Clock(t) # BadTime}

Meant(t) ==
    CASE LegalReadings(t) = {"instant"} -> t.at
      [] LegalReadings(t) = {"day"} -> Midnight(t.y, t.b, t.a) + Clock(t)
      [] OTHER -> Midnight(t.y, t.a, t.b) + Clock(t)

\* What a row of the register says, when it says something definite: an active
\* device, commissioned at the one moment its date can mean, not after the window.
Definite(row) ==
    /\ canonical_status(row.status) = "active"
    /\ Cardinality(LegalReadings(row.commissioned)) = 1
    /\ Meant(row.commissioned) < Day(Window.last) + 1440

Says(row) == <<row.site.name, parse_number(row.capacity).ok, parse_number(row.capacity).value,
               Meant(row.commissioned)>>

\* A device is counted exactly when every row about it is definite and they all
\* say the same, in whatever order they come: duplicates, spellings and the row
\* that survives a collapse of normalize_devices make no difference, and a date
\* with two readings is never guessed (DECISIONS, Reconciliation 10.2 to 10.5).
CountedByContent ==
    stage = "done" =>
        summary.counted =
            {k \in DeviceKeys :
                /\ \A i \in RecordsOf(k) : Definite(input.devices[i])
                /\ Cardinality({Says(input.devices[i]) : i \in RecordsOf(k)}) = 1}

Reported(categories, source) ==
    SumFunctionOnSet(report,
                     {e \in DOMAIN report : e.category \in categories /\ e.source = source})

Dropped == {"excluded", "excluded_window"}

\* The counts add up.  The gap between the rows that look active and the
\* devices counted is the sum of its three causes, whatever duplicates, keyless
\* rows and disqualified devices meet (reconcile, "so the gap always adds up").
\* And no row is lost without a trace (Anomalies, "nothing is silently
\* dropped"): each reading and each billing line is in the result or has an
\* entry of its own, readings that were collapsed are named by one, and a device
\* excluded for its quality has an entry that says why.
Accounted ==
    stage = "done" =>
        /\ summary.appearing - Cardinality(summary.counted)
               = summary.collapsed + summary.disqualified + summary.keyless
        /\ Len(input.telemetry) = Reported(Dropped, "telemetry")
               + SumFunction([at \in DOMAIN readings |-> Len(readings[at])])
        /\ \A at \in DOMAIN readings : Len(readings[at]) > 1 =>
               \E e \in DOMAIN report : e.category = "deduped" /\ e.key = at
        /\ Len(input.billing) = Cardinality(DOMAIN lines)
               + Reported(Dropped \cup {"deduped"}, "billing")
        /\ \A k \in DOMAIN registry : registry[k].excluded =>
               \E e \in DOMAIN report : e.rule \in Disqualifying /\ e.key = <<k>>

\* The canonical_value of an entry about a duplicate is the value in use
\* (ANOMALY_COLUMNS; "kept %s/%s" of normalize_billing).
ReportTellsKept ==
    \A e \in DOMAIN report :
        e.category = "deduped" /\ e.source = "billing" => e.value = lines[e.key]

\* The three populations of reconcile_entity_presence have no device in common.
PopulationsDisjoint ==
    stage = "done" => /\ TelemetryOnly \cap BillingOnly = {}
                      /\ DevicesOnly \cap (TelemetryOnly \cup BillingOnly) = {}

\* A row is reported to have no device only when its text names none, or when
\* its column is under a heading that no spelling of the column accounts for.
KeysFound ==
    \A source \in Sources \ {"devices"} :
        Reported({"excluded"}, source) > 0 /\ heading[source] # "serial" =>
            \/ \E e \in DOMAIN report : e.source = source /\ e.rule # "KEY_MISSING"
            \/ \E i \in DOMAIN input[source] : input[source][i].key.id = ""
=============================================================================
