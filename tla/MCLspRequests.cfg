\* Four requests, two workers, handlers that may do anything.
SPECIFICATION RequestsSpec
CONSTANTS
  Workers = {w1, w2}
  r1 = r1
  r2 = r2
  r3 = r3
  r4 = r4
  Requests <- MCRequests
  Kind <- MCKind
  Outcomes = {"done", "retry", "panic"}
INVARIANTS AtMostOneReply OneCarrier NeverForgotten
PROPERTY ServiceSpec
\* The server may stop: the client has nothing more to send, or it exits.
CHECK_DEADLOCK FALSE
