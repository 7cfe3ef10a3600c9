\* Three models, two presets, four acts of the user and a failed preview.
SPECIFICATION Spec
CONSTANTS
  m1 = m1
  m2 = m2
  p1 = p1
  p2 = p2
  None = None
  Unset = Unset
  Typed = Typed
  m3 = m3
  Models = {m1, m2, m3}
  Presets = {p1, p2}
  First = m1
  Cached = {m1, m2}
  ModelOf <- MCModelOf
  Caching = {p1, p2}
  Gives = {p2}
  MaxActs = 4
  MaxFlights = 2
  MaxFaults = 1
INVARIANTS PreviewIsOfTheModel CacheIsOfTheModel SampleIsOfTheModel PickIsApplied
PROPERTY SyncSettles
CHECK_DEADLOCK FALSE
