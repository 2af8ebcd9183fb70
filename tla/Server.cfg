\* A query about a file that is edited and closed while two workers compile it.
SPECIFICATION FairServerSpec
CONSTANTS
  Workers = {w1, w2}
  f1 = f1
  dir = dir
  q = q
  c = c
  Files <- MCFiles
  WorkSpaces <- MCWorkSpaces
  Members <- MCMembers
  Lookup <- MCLookup
  InitWorkSpaces = {dir}
  BadVersions = {1}
  MayFail = {}
  MayPanic = {}
  Client = "any"
  Closable = {f1}
  Discards = FALSE
  MaxVersion = 1
  MaxOpens = 1
  MaxTasks = 2
  MaxPool = 2
  Requests = {q}
  Kind <- MCKind
  Outcomes = {"done", "retry", "panic"}
  Target <- MCTarget
  Contended = TRUE
INVARIANT SettledAttached
PROPERTY ServiceSpec EventuallyServed Settles
\* The server may stop: the client has nothing more to send, or it exits.
CHECK_DEADLOCK FALSE
