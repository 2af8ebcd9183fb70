\* Two roots, one pool thread, every file imported.
SPECIFICATION CachesSpec
CONSTANTS
  Workers = {w1}
  m1 = m1
  m2 = m2
  a = a
  b = b
  pm = pm
  pa = pa
  pb = pb
  r1 = r1
  r2 = r2
  Files = {m1, m2, a, b}
  Pkgs = {pm, pa, pb}
  MainPkg = pm
  Roots = {r1, r2}
  PkgFiles <- MCPkgFiles
  Imports <- MCImports
  Client = "orderly"
  MaxEdits = 3
  MaxQueue = 2
INVARIANTS ScopesFresh SymbolsFreshAlone CachedScopesInvalidated
\* The server is idle when the client edits nothing more.
CHECK_DEADLOCK FALSE
