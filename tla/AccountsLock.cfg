\* One address, two requests in hand; the lock at the third failure.
SPECIFICATION Spec
CONSTANTS
  Emails = {e1}
  Handlers = {h1, h2}
  MaxFailed = 3
  LockTime = 2
  MaxTime = 1
INVARIANT LockedInTime
CHECK_DEADLOCK FALSE
