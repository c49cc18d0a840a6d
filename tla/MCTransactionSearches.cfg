INIT SearchesInit
NEXT SearchesNext
CONSTANTS
  q1 = q1
  q2 = q2
  Query = {q1, q2}
  Searches = 4
  NoQuery = NoQuery
INVARIANTS
  SearchesInOwnTransaction
CHECK_DEADLOCK FALSE
