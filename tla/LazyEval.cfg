\* Every order of the statements of modules with inheritance, a mixin, nested
\* instances, configurations, conditions, reassigned names, and names that ask
\* for themselves.
SPECIFICATION Spec
CONSTANTS
    Names = {"g", "h", "s", "w", "x", "y", "z"}
    Classes <- MCClasses
    Programs <- MCPrograms
INVARIANTS NeverStuck Balanced CachedIsFinal OrderIrrelevant
\* A module ends.
CHECK_DEADLOCK FALSE
