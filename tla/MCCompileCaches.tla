-------------------------- MODULE MCCompileCaches ---------------------------
(***************************************************************************)
(* Small instances of CompileCaches: a root with two packages, and a       *)
(* second root that imports one of them.                                   *)
(***************************************************************************)
EXTENDS CompileCaches, TLC

CONSTANTS m1, m2, a, b, pm, pa, pb, r1, r2

MCPkgFiles ==
    [r \in Roots |-> IF r = r1 THEN pm :> {m1} @@ pa :> {a} @@ pb :> {b}
                     ELSE pm :> {m2} @@ pa :> {} @@ pb :> {b}]

\* pa imports pb or not, and the first program imports both or only pa.
MCImports ==
    m1 :> {{pa}, {pa, pb}} @@ m2 :> {{pb}} @@ a :> {{}, {pb}} @@ b :> {{}}

\* The first program imports pa or nothing; pb is never imported.
MCImportsAny ==
    m1 :> {{}, {pa}} @@ m2 :> {{pb}} @@ a :> {{}} @@ b :> {{}}
=============================================================================
