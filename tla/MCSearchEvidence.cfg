INIT SearchInit
NEXT SearchNext
CONSTANTS
  Corpora <- MCCorpora
  Registers <- MCRegisters
  DocumentOf <- MCDocumentOf
  Requests <- MCRequests
INVARIANTS
  NoVersionWins
CHECK_DEADLOCK FALSE
