\* Any client; the package may make the compiler panic, the directory may fail.
SPECIFICATION DocumentsSpec
CONSTANTS
  Workers = {w1, w2}
  f1 = f1
  f2 = f2
  pkg = pkg
  dir = dir
  Files <- MCFiles
  WorkSpaces <- MCWorkSpaces
  Members <- MCOverlap
  Lookup <- MCLookupSome
  InitWorkSpaces = {pkg}
  BadVersions = {1}
  MayFail = {dir}
  MayPanic = {pkg}
  Client = "any"
  Closable = {f1, f2}
  Discards = TRUE
  MaxVersion = 1
  MaxOpens = 2
  MaxTasks = 2
  MaxPool = 2
INVARIANTS TemporaryInFlight MarkedInFlight
PROPERTY PanicOnlyIfClosed
\* The server may stop: the client has nothing more to send, or it exits.
CHECK_DEADLOCK FALSE
