SPECIFICATION Spec
CONSTANTS
  Tenants = {t1, t2}
  Troubled = {t2}
  Sources = {"loop", "cli"}
  Isolating = {"loop"}
  t1 = t1
  Edited = {t1}
  Enabled <- MCEnabled
  Route <- MCRoute
  Cadences = {1, 2}
  Turn = 1
  Zones <- MCZones
  ZoneOf <- MCZoneOf
  Forms <- MCForms
  MaxNow = 2
  MaxFaults = 1
  MaxEdits = 1
INVARIANTS TypeOK ClaimsAreExclusive
PROPERTIES SkipsOnlyDuplicates OncePerSlot HealthyServed RequestsAnswered
CHECK_DEADLOCK FALSE
