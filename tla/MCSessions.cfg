\* Two tabs of one browser, three refresh tokens, four seconds, three requests.
CONSTANTS
  Tab = {c1, c2}
  Browser = {b1}
  home <- OneBrowser
  AccessTTL = 2
  RefreshTTL = 3
  Grace = 1
  Slow = 0
  MaxTime = 4
  MaxTokens = 3
  MaxPassword = 3
  MaxCalls = 3
SPECIFICATION Spec
SYMMETRY Symmetry
INVARIANTS
  EndedStaysEnded
  NewTokensWork
  OldPasswordEnds
  NoFalseAlarm
PROPERTIES
  SpentStaysSpent
CHECK_DEADLOCK FALSE
