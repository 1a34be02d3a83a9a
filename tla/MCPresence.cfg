\* Two tabs of one user, on two gateways, and two mishaps.
CONSTANTS
  Tab = {t1, t2}
  Gateway = {g1, g2}
  Offline = Offline
  Stuck = Stuck
  Closed = Closed
  TTL = 2
  MaxTrouble = 2
SPECIFICATION PresenceSpec
INVARIANTS
  SettledIsRight
  NoMissedPush
PROPERTIES
  SelfHeals
