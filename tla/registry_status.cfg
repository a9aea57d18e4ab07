SPECIFICATION Spec
CONSTANTS
  m1 = m1  m2 = m2  h1 = h1  h2 = h2  v1 = v1  v2 = v2  v3 = v3  c1 = c1  c2 = c2
  NoTag = NoTag  NoMeasurement = NoMeasurement
  MeasurementOf <- MCMeasurementOf
  Measurements = {c1, c2}
  Settings <- MCSettings
  PolledSettings <- MCPolled
  InitialSettings <- MCInitial
  Models = {m1}
  Hosts = {h1}
  Tags = {v1}
  Configs <- AllListed
  Statuses = {"up"}
  Requests = {}
  StatusServed = TRUE
  MaxChanges = 0
INVARIANT NeverCrashes
CHECK_DEADLOCK FALSE
