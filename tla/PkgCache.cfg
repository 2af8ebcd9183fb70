\* Two processes share an orderly package and one anybody may save, edit or
\* fail to save at any time.
SPECIFICATION FairSpec
CONSTANTS
  Procs = {q1, q2}
  Pkgs = {a, b}
  Orderly = {a}
  MaxVersion = 1
  None = None
INVARIANTS OrderlyLoadFresh
PROPERTIES OnlyOwnEntry SaveEnds
