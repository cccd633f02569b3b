\* Two addresses, two requests in hand; the first account alone is an administrator.
SPECIFICATION Spec
CONSTANTS
  Emails = {e1, e2}
  Handlers = {h1, h2}
  MaxFailed = 3
  LockTime = 2
  MaxTime = 1
INVARIANT OneAdmin
CHECK_DEADLOCK FALSE
