---------------------------- MODULE LspRequests -----------------------------
(***************************************************************************)
(* The life of a client request in the KCL language server: registration   *)
(* in request_queue, dispatch to the main thread or to the pool, the retry *)
(* loop through the task channel, cancellation, shutdown, and the reply.   *)
(* What a handler computes is left open here: it returns a result or an    *)
(* error ("done"), asks to be retried ("retry"), or panics ("panic").      *)
(***************************************************************************)
EXTENDS LspRuntime

CONSTANTS
    Requests,           \* the requests the client sends, each with its own id
    Kind,               \* Kind[r]: how RequestDispatcher treats request r
    Outcomes            \* what a handler run by a worker may do

\* Shutdown is answered on the main thread, "invalid" stands for parameters
\* from_json rejects and "unknown" for a method no dispatcher entry has; a
\* completion is dispatched by on_maybe_retry, a "query" by on. A "newline"
\* is a completion triggered by the end of a line.
SyncKinds == {"shutdown", "invalid", "unknown"}
CompletionKinds == {"completion", "newline"}
Kinds == SyncKinds \cup CompletionKinds \cup {"query"}

ASSUME RequestsAssumption ==
    /\ Kind \in [Requests -> Kinds]
    /\ Outcomes \subseteq {"done", "retry", "panic"}

VARIABLES
    received,           \* requests the client has sent
    pending,            \* request_queue.incoming: registered, not completed
    replies,            \* replies[r]: responses to r handed to the client
    shutdown_requested, \* LanguageServerState::shutdown_requested
    request_retry,      \* LanguageServerState::request_retry: its keys
    crashed             \* history: requests whose handler panicked

requestVars ==
    <<received, pending, replies, shutdown_requested, request_retry, crashed>>

RequestJob(r) == [kind |-> "request", req |-> r]
ResponseTask(r) == [kind |-> "response", req |-> r]
RetryTask(r) == [kind |-> "retry", req |-> r]

RequestJobs == {RequestJob(r) : r \in Requests}
RequestTasks == {ResponseTask(r) : r \in Requests}
                    \cup {RetryTask(r) : r \in Requests}

RequestsInit ==
    /\ received = {}
    /\ pending = {}
    /\ replies = [r \in Requests |-> 0]
    /\ shutdown_requested = FALSE
    /\ request_retry = {}
    /\ crashed = {}

-----------------------------------------------------------------------------
\* on_request answers r before it returns, without the pool.
AnsweredAtOnce(r) == shutdown_requested \/ Kind[r] \in SyncKinds

\* respond: only a request that is still registered is completed and answered.
Respond(r) ==
    /\ pending' = pending \ {r}
    /\ replies' = IF r \in pending
                  THEN [replies EXCEPT ![r] = @ + 1] ELSE replies

\* Faulty on_request: it goes on to dispatch a request it has answered.
OnRequestFallsThrough(r) ==
    /\ pending' = pending \cup {r}
    /\ pool' = Append(pool, RequestJob(r))
    /\ replies' = [replies EXCEPT ![r] = IF AnsweredAtOnce(r) THEN 1 ELSE @]
    /\ shutdown_requested' = (shutdown_requested \/ Kind[r] = "shutdown")

\* on_request, for a new request and for one that is retried.
OnRequest(r) ==
    \/ /\ AnsweredAtOnce(r)
       /\ pending' = pending \ {r}
       /\ replies' = [replies EXCEPT ![r] = @ + 1]
       /\ shutdown_requested' = (shutdown_requested \/ Kind[r] = "shutdown")
       /\ UNCHANGED pool
    \/ /\ ~AnsweredAtOnce(r)
       /\ pending' = pending \cup {r}
       /\ pool' = Append(pool, RequestJob(r))
       /\ UNCHANGED <<replies, shutdown_requested>>

\* The client sends request r.
Request(r) ==
    /\ Listening
    /\ r \notin received
    /\ received' = received \cup {r}
    /\ OnRequest(r)
    /\ UNCHANGED <<tasks, running, main, request_retry, crashed>>

\* $/cancelRequest: the request is completed and will not be answered.
Cancel(r) ==
    /\ Listening
    /\ r \in received
    /\ pending' = pending \ {r}
    /\ UNCHANGED <<runtimeVars, received, replies, shutdown_requested,
                   request_retry, crashed>>

\* Task::Response
HandleResponse(r) ==
    /\ Receive(ResponseTask(r))
    /\ tasks' = Tail(tasks)
    /\ Respond(r)
    /\ UNCHANGED <<pool, running, main, received, shutdown_requested,
                   request_retry, crashed>>

\* Faulty is_completed: it never says so.
NeverCompleted(r) == FALSE

Completed(r) == r \notin pending

\* Task::Retry: a request completed in the meantime is dropped.
HandleRetry(r) ==
    /\ Receive(RetryTask(r))
    /\ tasks' = Tail(tasks)
    /\ \/ ~Completed(r) /\ OnRequest(r)
       \/ /\ Completed(r)
          /\ UNCHANGED <<pool, pending, replies, shutdown_requested>>
    /\ UNCHANGED <<running, main, received, request_retry, crashed>>

\* Faulty closures: a request to be retried is dropped, or answered as well.
SentWithoutRetry(r, outcome) ==
    IF outcome = "done" THEN <<ResponseTask(r)>> ELSE <<>>
SentTwice(r, outcome) ==
    CASE outcome = "done"  -> <<ResponseTask(r)>>
      [] outcome = "retry" -> <<RetryTask(r), ResponseTask(r)>>
      [] outcome = "panic" -> <<>>

\* The task a worker sends for what the handler did.
Sent(r, outcome) ==
    CASE outcome = "done"  -> <<ResponseTask(r)>>
      [] outcome = "retry" -> <<RetryTask(r)>>
      [] outcome = "panic" -> <<>>

\* The closures of `on` and `on_maybe_retry` once the handler has returned or
\* panicked. A counter of request_retry is created or incremented after
\* Task::Retry is sent; nothing reads it, so the two are one step, and which
\* requests have one is all that is kept.
FinishRequest(w, outcome) ==
    /\ Alive
    /\ running[w].kind = "request"
    /\ LET r == running[w].req IN
       /\ tasks' = tasks \o Sent(r, outcome)
       /\ request_retry' =
            IF outcome = "retry" /\ Kind[r] \in CompletionKinds
            THEN request_retry \cup {r} ELSE request_retry
       /\ crashed' = IF outcome = "panic" THEN crashed \cup {r} ELSE crashed
    /\ EndJob(w)
    /\ UNCHANGED <<pool, main, received, pending, replies,
                   shutdown_requested>>

-----------------------------------------------------------------------------
\* Steps of the main thread on behalf of request r.
RequestStep(r) == HandleResponse(r) \/ HandleRetry(r)

RequestsNext ==
    \/ \E r \in Requests : Request(r) \/ Cancel(r) \/ RequestStep(r)
    \/ \E w \in Workers : StartJob(w) /\ UNCHANGED requestVars
    \/ \E w \in Workers, o \in Outcomes : FinishRequest(w, o)
    \/ Exit /\ UNCHANGED requestVars

RequestsStart == RuntimeInit /\ pool = <<>> /\ RequestsInit

RequestsSpec == RequestsStart /\ [][RequestsNext]_<<runtimeVars, requestVars>>

-----------------------------------------------------------------------------
QueuesTypeOK ==
    /\ tasks \in Seq(RequestTasks)
    /\ pool \in Seq(RequestJobs)
    /\ running \in [Workers -> {Idle} \cup RequestJobs]
    /\ main \in MainStates

RegistryTypeOK ==
    /\ received \in SUBSET Requests
    /\ pending \in SUBSET Requests
    /\ replies \in [Requests -> Nat]
    /\ shutdown_requested \in BOOLEAN
    /\ request_retry \in SUBSET Requests
    /\ crashed \in SUBSET Requests

\* The variables hold what the Rust types hold, and the queues only jobs and
\* tasks of requests.
RequestsTypeOK == QueuesTypeOK /\ RegistryTypeOK

\* The client never receives two responses to one request, although a request
\* may be dispatched many times, answered on two paths (respond in on_request
\* and Task::Response) and cancelled in between.
AtMostOneReply == \A r \in Requests : replies[r] <= 1

InTasks(r) ==
    {i \in 1..Len(tasks) : tasks[i] \in {ResponseTask(r), RetryTask(r)}}
InPool(r) == {i \in 1..Len(pool) : pool[i] = RequestJob(r)}
InWorkers(r) == {w \in Workers : running[w] = RequestJob(r)}

\* At every moment at most one thing stands for a request: a queued job, a
\* worker that computes it, or the task that brings its outcome back. So no
\* request is computed by two workers, and a retry never races a response.
OneCarrier ==
    \A r \in Requests :
        Cardinality(InTasks(r)) + Cardinality(InPool(r))
            + Cardinality(InWorkers(r)) <= 1

Carried(r) == InTasks(r) # {} \/ InPool(r) # {} \/ InWorkers(r) # {}

\* A registered request is never forgotten unless its handler panicked: a
\* job, a worker or a task still leads to its answer. A panic is the only way
\* to lose a request, whatever is retried, cancelled or shut down meanwhile.
NeverForgotten == \A r \in pending \ crashed : Carried(r)

\* The refinement mapping to RequestService.
RequestStatus(r) ==
    IF r \notin received THEN "new"
    ELSE IF r \in pending THEN "open"
    ELSE IF replies[r] > 0 THEN "answered"
    ELSE "cancelled"

Service ==
    INSTANCE RequestService
        WITH status <- [r \in Requests |-> RequestStatus(r)]

\* Requests live as RequestService promises: what was answered or cancelled
\* stays so, whatever retries and responses are still queued for it.
ServiceSpec == Service!Spec
=============================================================================
