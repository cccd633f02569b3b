\* Two queries with up to two results, two sub-questions with up to one claim.
SPECIFICATION Spec
CONSTANTS
  a1 = a1
  a2 = a2
  a3 = a3
  b1 = b1
  x1 = x1
  host = host
  other = other
  long = long
  Queries = 2
  Subquestions = 2
  Urls <- MCUrls
  Blocked <- MCBlocked
  Domain <- MCDomain
  Column <- MCColumn
  DomainCap = 2
  MaxResults = 2
  Texts = {t1, t2}
  Blank = Blank
  MaxItems = 1
  MaxRef = 3
INVARIANTS
  TypeOK
  RefsResolve
  StoredWhole
PROPERTIES
  MergeFirstWins
  CitedStatementsSurvive
CHECK_DEADLOCK FALSE
