\* One query with one result, one sub-question with one claim, refs up to 3.
SPECIFICATION Spec
CONSTANTS
  a1 = a1
  a2 = a2
  a3 = a3
  b1 = b1
  x1 = x1
  host = host
  other = other
  long = long
  Queries = 1
  Subquestions = 1
  Urls <- MCUrls
  Blocked <- MCBlocked
  Domain <- MCDomain
  Column <- MCColumn
  DomainCap = 2
  MaxResults = 1
  Texts = {t1, t2}
  Blank = Blank
  MaxItems = 1
  MaxRef = 3
INVARIANT MarkersResolve
CHECK_DEADLOCK FALSE
