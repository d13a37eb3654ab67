\* Two zones, one with "-1." in its own name, with and without a proxy that
\* one of them bypasses, and every outcome of every dial.
SPECIFICATION Spec
CONSTANTS
  Zones <- TwoZones
  Dashed = {"b-1.example"}
  Proxies = {"none", "some"}
  NoProxy = {"b-1.example"}
INVARIANTS TypeOK AttemptsPerRecord ZoneByZone FlagsTellHow TimedOutNotForced
CHECK_DEADLOCK FALSE
