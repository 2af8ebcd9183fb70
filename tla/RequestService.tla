--------------------------- MODULE RequestService ---------------------------
(***************************************************************************)
(* What the language server promises a client about its requests, with     *)
(* nothing of how: a request is new, then open, then answered once or      *)
(* cancelled, and once it is answered or cancelled nothing happens to it.  *)
(***************************************************************************)
CONSTANT Requests

VARIABLE status         \* status[r]: where request r is in its life

Statuses == {"new", "open", "answered", "cancelled"}

TypeOK == status \in [Requests -> Statuses]

Init == status = [r \in Requests |-> "new"]

Move(r, from, to) ==
    /\ status[r] = from
    /\ status' = [status EXCEPT ![r] = to]

\* The server takes the request and works on it.
Accept(r) == Move(r, "new", "open")

\* The server answers as soon as it reads the request.
AnswerAtOnce(r) == Move(r, "new", "answered")

\* The server answers a request it has been working on.
Answer(r) == Move(r, "open", "answered")

\* The client withdraws a request the server has not answered.
Withdraw(r) == Move(r, "open", "cancelled")

Next ==
    \E r \in Requests :
        Accept(r) \/ AnswerAtOnce(r) \/ Answer(r) \/ Withdraw(r)

Spec == Init /\ [][Next]_status
=============================================================================
