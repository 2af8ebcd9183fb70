--------------------------- MODULE MCLspRequests ----------------------------
EXTENDS LspRequests, TLC

CONSTANTS r1, r2, r3, r4

\* A completion and a query that go through the pool, and the two ways a
\* request is answered on the main thread (r4 also ends the service).
MCRequests == {r1, r2, r3, r4}
MCKind == (r1 :> "completion") @@ (r2 :> "query")
              @@ (r3 :> "invalid") @@ (r4 :> "shutdown")
=============================================================================
