---------------------------- MODULE MCReconcile ----------------------------
(* Reconcile for TLC: the rows of the extracts.                             *)
EXTENDS Reconcile

January == [first |-> <<2024, 1, 13>>, last |-> <<2024, 2, 29>>]

Plain == [s \in Sources |-> "device_id"]
SomeHeadings == {Plain, [Plain EXCEPT !["devices"] = "Asset_ID"],
                 [Plain EXCEPT !["telemetry"] = "serial"]}
CasedHeadings == {[Plain EXCEPT !["telemetry"] = "Device_ID"]}

Exact(k) == [id |-> k, exact |-> TRUE]
Messy(k) == [id |-> k, exact |-> FALSE]
Number(n) == [n |-> n, form |-> "plain", unit |-> ""]
Unusable(form) == [n |-> 0, form |-> form, unit |-> ""]
Date(shape, a, b, at) ==
    [shape |-> shape, a |-> a, b |-> b, at |-> at, y |-> 2024, sep |-> " ", pad |-> 0]
Iso(m, d) == Date("iso", m, d, NoTime)
Slash(a, b) == Date("slash", a, b, NoTime)

Device(key, exact, capacity, date, status) ==
    [key |-> key, capacity |-> capacity, status |-> status,
     site |-> [exact |-> exact, name |-> "S"], commissioned |-> date]

SomeDevices ==
    {Device(Exact("d1"), TRUE, Number(2000), Iso(1, 13), "active"),
     Device(Messy("d1"), FALSE, [n |-> 2, form |-> "dressed", unit |-> "mw"], Slash(13, 1), "online"),
     Device(Exact("d1"), TRUE, Number(2000), Slash(1, 13), "retired"),
     Device(Exact("d2"), TRUE, Unusable("missing"), Slash(5, 6), "active"),
     Device(Exact("d2"), TRUE, [n |-> 0, form |-> "plain", unit |-> "hp"], Slash(31, 4), "active"),
     Device(Exact("d2"), TRUE, Unusable("missing"), Iso(3, 1), "active"),
     Device(Exact("d2"), TRUE, Unusable("missing"), Date("dash", 29, 2, NoTime), "active"),
     Device(Messy(""), TRUE, Number(1), Date("missing", 1, 1, NoTime), "active"),
     Device(Exact("d2"), TRUE, Number(1), Iso(1, 13), "?"),
     Device(Exact("d1"), TRUE, Number(2000), Date("iso", 1, 13, 600), "active"),
     Device(Exact("d1"), TRUE, Number(2000), Date("epoch", 1, 1, Midnight(2024, 1, 13)), "active")}

Reading(key, date, energy) == [key |-> key, energy |-> energy, timestamp |-> date]

SomeReadings ==
    {Reading(Exact("d1"), Date("iso", 1, 13, 600), Number(3)),
     Reading(Messy("d1"), Date("slash", 13, 1, 600), Number(4)),
     Reading(Exact("d1"), [Date("slash", 13, 1, 600) EXCEPT !.sep = "T"], Number(3)),
     Reading(Exact("d1"), [Date("iso", 2, 1, 605) EXCEPT !.pad = 2], Number(3)),
     Reading(Exact("d3"), Date("epoch", 1, 1, Midnight(2024, 1, 14)), Number(3)),
     Reading(Exact("d2"), Slash(5, 6), Number(3)),
     Reading(Exact("d2"), Iso(3, 1), Number(3)),
     Reading(Exact("d2"), Date("iso", 2, 1, BadTime), Number(3)),
     Reading(Exact("d2"), Iso(2, 1), Unusable("negative")),
     Reading(Exact(""), Iso(2, 1), Number(3))}

Line(key, m, kwh, credit) ==
    [key |-> key, kwh |-> kwh, credit |-> credit,
     period |-> [shape |-> "canonical", y |-> 2024, m |-> m, d |-> 0]]

SomeLines ==
    {Line(Exact("d1"), 1, Number(3), "true"),
     [Line(Messy("d1"), 1, Number(4), "yes") EXCEPT !.period.shape = "slash"],
     Line(Exact("d3"), 2, Number(3), ""),
     Line(Exact("d1"), 3, Number(3), "true"),
     Line(Exact("d1"), 13, Number(3), "true"),
     Line(Exact("d1"), 1, Unusable("malformed"), "true"),
     Line(Exact("d1"), 1, Number(3), "maybe"),
     Line(Exact(""), 1, Number(3), "true")}
=============================================================================
