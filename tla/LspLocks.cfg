\* Every handler of the main thread against every two jobs.
SPECIFICATION LocksSpec
CONSTANTS
  Main = main
  Workers = {w1, w2}
  MainHandlers = {"open_recorded", "open_temporary", "change", "close"}
  Jobs = {"compile", "compile_fails", "request"}
INVARIANTS OnlyOneInversion
\* The inversion does stop every thread.
CHECK_DEADLOCK FALSE
