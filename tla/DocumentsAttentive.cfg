\* A client that opens and closes settled files and edits at any time.
SPECIFICATION DocumentsSpec
CONSTANTS
  Workers = {w1}
  f1 = f1
  f2 = f2
  pkg = pkg
  dir = dir
  Files <- MCFiles
  WorkSpaces <- MCWorkSpaces
  Members <- MCDisjoint
  Lookup <- MCLookup
  InitWorkSpaces = {pkg}
  BadVersions = {1}
  MayFail = {}
  MayPanic = {}
  Client = "attentive"
  Closable = {f1, f2}
  Discards = FALSE
  MaxVersion = 3
  MaxOpens = 3
  MaxTasks = 3
  MaxPool = 2
INVARIANTS SettledFresh SettledDiagnostics AttachedExists
\* The server may stop: the client has nothing more to send, or it exits.
CHECK_DEADLOCK FALSE
