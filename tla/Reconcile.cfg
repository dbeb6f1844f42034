SPECIFICATION ReconcileSpec
CONSTANTS
  DeviceRows <- SomeDevices
  TelemetryRows <- SomeReadings
  BillingRows <- SomeLines
  Headings <- SomeHeadings
  Window <- January
  MaxRows = 4
INVARIANTS
  CountedByContent
  Accounted
\* The pipeline ends.
CHECK_DEADLOCK FALSE
