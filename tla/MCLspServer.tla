---------------------------- MODULE MCLspServer -----------------------------
EXTENDS LspServer, TLC

CONSTANTS f1, dir, q, c

\* One file of one workspace, and a query and a completion about it.
MCFiles == {f1}
MCWorkSpaces == {dir}
MCMembers == (dir :> {f1})
MCLookup == (f1 :> {dir})
MCKind == [r \in Requests |-> IF r = q THEN "query" ELSE "completion"]
MCTarget == [r \in Requests |-> f1]
=============================================================================
