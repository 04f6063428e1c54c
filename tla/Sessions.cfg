\* Two requests in flight, two logins, a rotating provider.
SPECIFICATION Spec
CONSTANTS
  Requests = {t1, t2}
  Ids = {a, b}
  None = none
  TTL = 1
  MaxClock = 2
  MaxTokens = 3
INVARIANTS TypeOK TokenCurrent LogoutIsFinal
PROPERTY Answered
CHECK_DEADLOCK FALSE
