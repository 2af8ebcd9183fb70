-------------------------- MODULE LspServerProofs ---------------------------
(***************************************************************************)
(* Theorems about the requests, and about the whole server, in which       *)
(* requests and documents share the main thread, the task channel and the  *)
(* pool: for every set of requests, files and workspaces, every assignment *)
(* of kinds and any number of workers.                                     *)
(***************************************************************************)
EXTENDS LspServer, LspDocumentsProofs, FiniteSetTheorems

-----------------------------------------------------------------------------
(* The requests by themselves. *)

requestsAll == <<runtimeVars, requestVars>>

\* The registry's types are inductive given those of the queues.
LEMMA RegistryTypeStep ==
    QueuesTypeOK /\ RegistryTypeOK /\ [RequestsNext]_requestsAll
        => RegistryTypeOK'
<1> SUFFICES ASSUME QueuesTypeOK, RegistryTypeOK, [RequestsNext]_requestsAll
             PROVE  RegistryTypeOK'
  OBVIOUS
<1> USE DEF RegistryTypeOK
<1>1. ASSUME NEW r \in Requests, OnRequest(r)
      PROVE  /\ pending' \in SUBSET Requests
             /\ replies' \in [Requests -> Nat]
             /\ shutdown_requested' \in BOOLEAN
  <2>1. shutdown_requested' \in BOOLEAN
    BY <1>1, Zenon DEF OnRequest
  <2>2. QED BY <1>1, <2>1 DEF OnRequest
<1>2. ASSUME NEW r \in Requests, Request(r) PROVE RegistryTypeOK'
  BY <1>1, <1>2 DEF Request
<1>3. ASSUME NEW r \in Requests, Cancel(r) PROVE RegistryTypeOK'
  BY <1>3 DEF Cancel
<1>4. ASSUME NEW r \in Requests, HandleResponse(r) PROVE RegistryTypeOK'
  BY <1>4 DEF HandleResponse, Respond
<1>5. ASSUME NEW r \in Requests, HandleRetry(r) PROVE RegistryTypeOK'
  BY <1>1, <1>5 DEF HandleRetry
<1>6. ASSUME NEW w \in Workers, NEW o \in Outcomes, FinishRequest(w, o)
      PROVE  RegistryTypeOK'
  <2>2. UNCHANGED <<received, pending, replies, shutdown_requested>>
    BY <1>6 DEF FinishRequest
  <2>3. request_retry' \in SUBSET Requests /\ crashed' \in SUBSET Requests
    <3>1. \A j \in {Idle} \cup RequestJobs :
              j.kind = "request" => j.req \in Requests
      BY DEF Idle, RequestJobs, RequestJob
    <3>2. running[w].req \in Requests
      BY <3>1, <1>6 DEF FinishRequest, QueuesTypeOK
    <3>3. QED BY <3>2, <1>6 DEF FinishRequest
  <2>4. QED BY <2>2, <2>3
<1>7. CASE UNCHANGED requestVars
  BY <1>7 DEF requestVars
<1>8. QED
  BY <1>2, <1>3, <1>4, <1>5, <1>6, <1>7
     DEF RequestsNext, RequestStep, requestsAll

\* The queues only ever hold jobs and tasks of requests.
LEMMA QueuesTypeStep ==
    QueuesTypeOK /\ [RequestsNext]_requestsAll => QueuesTypeOK'
<1> SUFFICES ASSUME QueuesTypeOK, [RequestsNext]_requestsAll
             PROVE  QueuesTypeOK'
  OBVIOUS
<1> USE DEF QueuesTypeOK, MainStates
<1>a. \A r \in Requests :
          /\ RequestJob(r) \in RequestJobs
          /\ ResponseTask(r) \in RequestTasks
          /\ RetryTask(r) \in RequestTasks
  BY DEF RequestJobs, RequestTasks
<1>b. \A j \in {Idle} \cup RequestJobs : j.kind = "request" => j.req \in Requests
  BY DEF Idle, RequestJobs, RequestJob
<1>1. ASSUME NEW r \in Requests, OnRequest(r)
      PROVE  pool' \in Seq(RequestJobs)
  BY <1>1, <1>a DEF OnRequest
<1>2. ASSUME NEW r \in Requests, Request(r) PROVE QueuesTypeOK'
  BY <1>1, <1>2 DEF Request
<1>3. ASSUME NEW r \in Requests, Cancel(r) PROVE QueuesTypeOK'
  BY <1>3 DEF Cancel, runtimeVars
<1>4. ASSUME NEW r \in Requests, HandleResponse(r) PROVE QueuesTypeOK'
  BY <1>4 DEF HandleResponse, Receive
<1>5. ASSUME NEW r \in Requests, HandleRetry(r) PROVE QueuesTypeOK'
  <2>1. pool' \in Seq(RequestJobs)
    BY <1>1, <1>5 DEF HandleRetry
  <2>2. QED BY <1>5, <2>1 DEF HandleRetry, Receive
<1>6. ASSUME NEW w \in Workers, StartJob(w) PROVE QueuesTypeOK'
  BY <1>6 DEF StartJob
<1>7. ASSUME NEW w \in Workers, NEW o \in Outcomes, FinishRequest(w, o)
      PROVE  QueuesTypeOK'
  <2>1. running[w].req \in Requests
    BY <1>7, <1>b DEF FinishRequest
  <2>2. Sent(running[w].req, o) \in Seq(RequestTasks)
    BY <1>a, <2>1, RequestsAssumption DEF Sent
  <2>3. tasks' \in Seq(RequestTasks)
    BY <1>7, <2>2 DEF FinishRequest
  <2>4. QED BY <1>7, <2>3 DEF FinishRequest, EndJob
<1>8. CASE Exit
  BY <1>8 DEF Exit
<1>9. CASE UNCHANGED requestsAll
  BY <1>9 DEF requestsAll, runtimeVars
<1>10. QED
  BY <1>2, <1>3, <1>4, <1>5, <1>6, <1>7, <1>8, <1>9
     DEF RequestsNext, RequestStep

\* The variables of LspRequests always have their types.
THEOREM RequestsTypesHold == RequestsSpec => []RequestsTypeOK
<1>1. RequestsStart => QueuesTypeOK
  BY DEF RequestsStart, RuntimeInit, QueuesTypeOK, MainStates
<1>2. RequestsStart => RegistryTypeOK
  <2> SUFFICES ASSUME RequestsInit PROVE RegistryTypeOK
    BY DEF RequestsStart
  <2>2. replies \in [Requests -> Nat] BY DEF RequestsInit
  <2>3. QED BY <2>2 DEF RequestsInit, RegistryTypeOK
<1>3. QED
  BY <1>1, <1>2, QueuesTypeStep, RegistryTypeStep, PTL
     DEF RequestsSpec, RequestsStart, requestsAll, RequestsTypeOK

-----------------------------------------------------------------------------
\* What makes AtMostOneReply inductive: a registered request has been
\* received and has no answer yet, and nothing is answered before it is
\* received. It is the is_completed guard of Task::Retry that keeps an
\* answered request from being registered again.
Unanswered ==
    /\ \A r \in pending : r \in received /\ replies[r] = 0
    /\ \A r \in Requests : r \notin received => replies[r] = 0
    /\ AtMostOneReply

\* The part of the registry's types that the answers depend on.
AnswersTypeOK ==
    /\ received \in SUBSET Requests
    /\ pending \in SUBSET Requests
    /\ replies \in [Requests -> Nat]

LEMMA RegistryHasAnswers == RegistryTypeOK => AnswersTypeOK
  BY DEF RegistryTypeOK, AnswersTypeOK

LEMMA UnansweredStep ==
    AnswersTypeOK /\ Unanswered /\ [RequestsNext]_requestsAll => Unanswered'
<1> SUFFICES ASSUME AnswersTypeOK, Unanswered, [RequestsNext]_requestsAll
             PROVE  Unanswered'
  OBVIOUS
<1> USE DEF AnswersTypeOK, Unanswered, AtMostOneReply
<1>1. ASSUME NEW r \in Requests, Request(r) PROVE Unanswered'
  BY <1>1 DEF Request, OnRequest
<1>2. ASSUME NEW r \in Requests, Cancel(r) PROVE Unanswered'
  BY <1>2 DEF Cancel
<1>3. ASSUME NEW r \in Requests, HandleResponse(r) PROVE Unanswered'
  BY <1>3 DEF HandleResponse, Respond
<1>4. ASSUME NEW r \in Requests, HandleRetry(r) PROVE Unanswered'
  BY <1>4 DEF HandleRetry, Completed, OnRequest
<1>5. ASSUME NEW w \in Workers, StartJob(w), UNCHANGED requestVars
      PROVE  Unanswered'
  BY <1>5 DEF requestVars
<1>6. ASSUME NEW w \in Workers, NEW o \in Outcomes, FinishRequest(w, o)
      PROVE  Unanswered'
  BY <1>6 DEF FinishRequest
<1>7. CASE Exit /\ UNCHANGED requestVars
  BY <1>7 DEF requestVars
<1>8. CASE UNCHANGED requestsAll
  BY <1>8 DEF requestsAll, requestVars
<1>9. QED
  BY <1>1, <1>2, <1>3, <1>4, <1>5, <1>6, <1>7, <1>8
     DEF RequestsNext, RequestStep

LEMMA UnansweredAlways == RequestsSpec => []Unanswered
<1>1. RequestsStart => Unanswered
  BY DEF RequestsStart, RequestsInit, Unanswered, AtMostOneReply
<1>2. QED
  BY <1>1, UnansweredStep, RequestsTypesHold, RegistryHasAnswers, PTL
     DEF RequestsSpec, RequestsStart, requestsAll, RequestsTypeOK

\* No request is ever answered twice, however often it is dispatched, retried
\* or cancelled.
THEOREM RepliesAtMostOnce == RequestsSpec => []AtMostOneReply
<1>1. Unanswered => AtMostOneReply
  BY DEF Unanswered
<1>2. QED
  BY <1>1, UnansweredAlways, PTL

-----------------------------------------------------------------------------
\* Every step of the server is a step of RequestService or leaves the status
\* of every request alone.
LEMMA ServiceStep ==
    AnswersTypeOK /\ Unanswered /\ [RequestsNext]_requestsAll
        => [Service!Next]_[r \in Requests |-> RequestStatus(r)]
<1> DEFINE Same(S) ==
             \A q \in S : RequestStatus(q)' = RequestStatus(q)
           Moves(r, from, to) ==
             /\ RequestStatus(r) = from
             /\ RequestStatus(r)' = to
             /\ Same(Requests \ {r})
<1> SUFFICES ASSUME AnswersTypeOK, Unanswered, [RequestsNext]_requestsAll
             PROVE  [Service!Next]_[r \in Requests |-> RequestStatus(r)]
  OBVIOUS
<1>a. ASSUME NEW r \in Requests, NEW from, NEW to, Moves(r, from, to)
      PROVE  Service!Move(r, from, to)
  BY <1>a DEF Service!Move
<1>b. Same(Requests)
        => UNCHANGED [r \in Requests |-> RequestStatus(r)]
  OBVIOUS
<1> USE DEF AnswersTypeOK, Unanswered, AtMostOneReply, RequestStatus
<1>1. ASSUME NEW r \in Requests, Request(r)
      PROVE  Moves(r, "new", "open") \/ Moves(r, "new", "answered")
  <2>1. CASE AnsweredAtOnce(r)
    <3>1. RequestStatus(r) = "new" /\ RequestStatus(r)' = "answered"
      BY <1>1, <2>1 DEF Request, OnRequest
    <3>2. Same(Requests \ {r})
      BY <1>1, <2>1 DEF Request, OnRequest
    <3>3. QED BY <3>1, <3>2
  <2>2. CASE ~AnsweredAtOnce(r)
    <3>1. RequestStatus(r) = "new" /\ RequestStatus(r)' = "open"
      BY <1>1, <2>2 DEF Request, OnRequest
    <3>2. Same(Requests \ {r})
      BY <1>1, <2>2 DEF Request, OnRequest
    <3>3. QED BY <3>1, <3>2
  <2>3. QED BY <2>1, <2>2
<1>2. ASSUME NEW r \in Requests, Cancel(r)
      PROVE  Moves(r, "open", "cancelled") \/ Same(Requests)
  BY <1>2 DEF Cancel
<1>3. ASSUME NEW r \in Requests, HandleResponse(r)
      PROVE  Moves(r, "open", "answered") \/ Same(Requests)
  BY <1>3 DEF HandleResponse, Respond
<1>4. ASSUME NEW r \in Requests, HandleRetry(r)
      PROVE  Moves(r, "open", "answered") \/ Same(Requests)
  BY <1>4 DEF HandleRetry, Completed, OnRequest
<1>5. CASE UNCHANGED requestVars
  <2>1. Same(Requests) BY <1>5 DEF requestVars
  <2>2. QED BY <1>b, <2>1
<1>6. ASSUME NEW w \in Workers, NEW o \in Outcomes, FinishRequest(w, o)
      PROVE  Same(Requests)
  BY <1>6 DEF FinishRequest
<1> HIDE DEF RequestStatus, Moves, Same
<1>7. ASSUME NEW r \in Requests, Request(r) PROVE Service!Next
  BY <1>1, <1>7, <1>a
     DEF Service!Next, Service!Accept, Service!AnswerAtOnce
<1>8. ASSUME NEW r \in Requests, Cancel(r) PROVE Service!Next \/ Same(Requests)
  BY <1>2, <1>8, <1>a DEF Service!Next, Service!Withdraw
<1>9. ASSUME NEW r \in Requests, RequestStep(r)
      PROVE  Service!Next \/ Same(Requests)
  BY <1>3, <1>4, <1>9, <1>a DEF RequestStep, Service!Next, Service!Answer
<1>10. QED
  BY <1>b, <1>5, <1>6, <1>7, <1>8, <1>9 DEF RequestsNext, requestsAll

\* LspRequests implements RequestService: a request that was answered or
\* cancelled stays so, whatever jobs, retries and responses are still queued.
THEOREM ImplementsService == RequestsSpec => ServiceSpec
<1>1. RequestsStart => Service!Init
  BY DEF RequestsStart, RequestsInit, RequestStatus, Service!Init
<1>2. QED
  BY <1>1, ServiceStep, RequestsTypesHold, RegistryHasAnswers,
     UnansweredAlways, PTL
     DEF RequestsSpec, RequestsStart, requestsAll, ServiceSpec, Service!Spec,
         RequestsTypeOK

-----------------------------------------------------------------------------
\* What the arguments about carriers use of the queues: they are sequences over
\* some sets of tasks and jobs, in which only a job of a request has its kind.
\* Other handlers may share them.
QueuesOver(T, J) ==
    /\ tasks \in Seq(T) /\ RequestTasks \subseteq T
    /\ pool \in Seq(J) /\ RequestJobs \subseteq J
    /\ running \in [Workers -> {Idle} \cup J]
    /\ \A j \in {Idle} \cup J : j.kind = "request" => j \in RequestJobs

\* The steps that hand requests on.
CarrierNext ==
    \/ \E r \in Requests : Request(r) \/ Cancel(r) \/ RequestStep(r)
    \/ \E w \in Workers : StartJob(w) /\ UNCHANGED requestVars
    \/ \E w \in Workers, o \in {"done", "retry", "panic"} : FinishRequest(w, o)
    \/ UNCHANGED <<tasks, pool, running, requestVars>>

LEMMA RequestsCarry ==
    /\ QueuesTypeOK => QueuesOver(RequestTasks, RequestJobs)
    /\ [RequestsNext]_requestsAll => CarrierNext
<1>1. QueuesTypeOK => QueuesOver(RequestTasks, RequestJobs)
  BY DEF QueuesTypeOK, QueuesOver, Idle
<1>2. [RequestsNext]_requestsAll => CarrierNext
  <2>1. (Exit /\ UNCHANGED requestVars) \/ UNCHANGED requestsAll
            => UNCHANGED <<tasks, pool, running, requestVars>>
    BY DEF Exit, requestsAll, runtimeVars
  <2>2. QED BY <2>1, RequestsAssumption DEF RequestsNext, CarrierNext
<1>3. QED BY <1>1, <1>2

\* Whether something stands for a request, by membership in the queues.
LEMMA CarriedByMembership ==
    ASSUME NEW r \in Requests
    PROVE  Carried(r) <=>
             \/ \E i \in 1..Len(tasks) :
                   tasks[i] \in {ResponseTask(r), RetryTask(r)}
             \/ \E i \in 1..Len(pool) : pool[i] = RequestJob(r)
             \/ \E w \in Workers : running[w] = RequestJob(r)
  BY DEF Carried, InTasks, InPool, InWorkers

\* Jobs and tasks of different requests differ.
LEMMA CarriersDiffer ==
    ASSUME NEW q \in Requests, NEW r \in Requests, q # r
    PROVE  /\ RequestJob(q) # RequestJob(r)
           /\ {ResponseTask(q), RetryTask(q)}
                  \cap {ResponseTask(r), RetryTask(r)} = {}
  BY DEF RequestJob, ResponseTask, RetryTask

\* Every step keeps a registered request carried unless its handler panics: a
\* job becomes a running one, a running one a task, and a task a job again or
\* an answer.
LEMMA NeverForgottenStep ==
    ASSUME NEW T, NEW J, QueuesOver(T, J), AnswersTypeOK, AnswersTypeOK',
           NeverForgotten, CarrierNext
    PROVE  NeverForgotten'
<1> DEFINE Tasked(r) == \E i \in 1..Len(tasks) :
                            tasks[i] \in {ResponseTask(r), RetryTask(r)}
           Pooled(r) == \E i \in 1..Len(pool) : pool[i] = RequestJob(r)
           Worked(r) == \E w \in Workers : running[w] = RequestJob(r)
<1>a. QueuesOver(T, J) OBVIOUS
<1>b. \A r \in pending \ crashed : Tasked(r) \/ Pooled(r) \/ Worked(r)
  BY CarriedByMembership DEF NeverForgotten, AnswersTypeOK
<1>c. \A r \in Requests :
          Carried(r)' <=> (Tasked(r)' \/ Pooled(r)' \/ Worked(r)')
  BY DEF Carried, InTasks, InPool, InWorkers
<1>. SUFFICES ASSUME NEW q \in pending' \ crashed'
              PROVE  Tasked(q)' \/ Pooled(q)' \/ Worked(q)'
  <2>1. pending' \in SUBSET Requests
    BY DEF AnswersTypeOK
  <2>2. QED BY <1>c, <2>1 DEF NeverForgotten
<1>d. q \in Requests
  BY DEF AnswersTypeOK
<1> USE DEF QueuesOver
\* A step that takes the first task keeps the tasks of other requests, and
\* one that appends a task or a job keeps everything.
<1>e. ASSUME NEW r \in Requests \ {q}, tasks' = Tail(tasks), tasks # <<>>,
             Head(tasks) \in {ResponseTask(r), RetryTask(r)}, Tasked(q)
      PROVE  Tasked(q)'
  <2>1. PICK i \in 1..Len(tasks) : tasks[i] \in {ResponseTask(q), RetryTask(q)}
    BY <1>e
  <2>2. i # 1
    <3>1. tasks[1] = Head(tasks) BY <1>a, <1>e
    <3>2. {ResponseTask(q), RetryTask(q)}
              \cap {ResponseTask(r), RetryTask(r)} = {}
      BY <1>d, CarriersDiffer
    <3>3. QED BY <2>1, <3>1, <3>2, <1>e
  <2>3. i - 1 \in 1..Len(tasks') /\ tasks'[i - 1] = tasks[i]
    BY <2>2, <1>e, <1>a
  <2>4. QED BY <2>1, <2>3
<1>f. ASSUME NEW r \in Requests, pool' = Append(pool, RequestJob(r)),
             Pooled(q) \/ q = r
      PROVE  Pooled(q)'
  <2>1. /\ Len(pool') = Len(pool) + 1
        /\ \A i \in 1..Len(pool) : pool'[i] = pool[i]
        /\ pool'[Len(pool) + 1] = RequestJob(r)
        /\ Len(pool) \in Nat
    BY <1>f, <1>a
  <2>2. QED BY <2>1, <1>f
<1>1. ASSUME NEW r \in Requests, OnRequest(r), q = r \/ Pooled(q)
      PROVE  Pooled(q)'
  <2>1. CASE pool' = Append(pool, RequestJob(r)) BY <2>1, <1>1, <1>f
  <2>2. CASE pool' = pool /\ pending' = pending \ {r} BY <2>2, <1>1
  <2>3. QED BY <2>1, <2>2, <1>1 DEF OnRequest
<1>2. ASSUME NEW r \in Requests, Request(r)
      PROVE  Tasked(q)' \/ Pooled(q)' \/ Worked(q)'
  <2>1. q = r \/ q \in pending \ crashed BY <1>2 DEF Request, OnRequest
  <2>2. QED BY <2>1, <1>2, <1>1, <1>b DEF Request
<1>3. ASSUME NEW r \in Requests, Cancel(r)
      PROVE  Tasked(q)' \/ Pooled(q)' \/ Worked(q)'
  BY <1>3, <1>b DEF Cancel, runtimeVars
<1>4. ASSUME NEW r \in Requests, HandleResponse(r)
      PROVE  Tasked(q)' \/ Pooled(q)' \/ Worked(q)'
  <2>1. q # r /\ q \in pending \ crashed BY <1>4 DEF HandleResponse, Respond
  <2>2. UNCHANGED <<pool, running>> BY <1>4 DEF HandleResponse
  <2>3. Tasked(q) => Tasked(q)'
    BY <2>1, <1>4, <1>e DEF HandleResponse, Receive
  <2>4. QED BY <2>1, <2>2, <2>3, <1>b
<1>5. ASSUME NEW r \in Requests, HandleRetry(r)
      PROVE  Tasked(q)' \/ Pooled(q)' \/ Worked(q)'
  <2>1. CASE q = r
    <3>1. OnRequest(r)
      BY <1>5, <2>1 DEF HandleRetry, Completed
    <3>2. QED BY <3>1, <2>1, <1>1
  <2>2. CASE q # r
    <3>1. q \in pending \ crashed BY <1>5, <2>2 DEF HandleRetry, OnRequest
    <3>2. running' = running BY <1>5 DEF HandleRetry
    <3>3. Tasked(q) => Tasked(q)'
      BY <2>2, <1>5, <1>e, <1>d DEF HandleRetry, Receive
    <3>4. Pooled(q) => Pooled(q)'
      BY <1>5, <1>1 DEF HandleRetry
    <3>5. QED BY <3>1, <3>2, <3>3, <3>4, <1>b
  <2>3. QED BY <2>1, <2>2
<1>6. ASSUME NEW w \in Workers, StartJob(w), UNCHANGED requestVars
      PROVE  Tasked(q)' \/ Pooled(q)' \/ Worked(q)'
  <2>1. q \in pending \ crashed BY <1>6 DEF requestVars
  <2>2. tasks' = tasks BY <1>6 DEF StartJob
  <2>3. Worked(q) => Worked(q)'
    <3>1. RequestJob(q) # Idle BY DEF RequestJob, Idle
    <3>2. \A v \in Workers : running[v] # Idle => running'[v] = running[v]
      BY <1>6, <1>a DEF StartJob
    <3>3. QED BY <3>1, <3>2
  <2>4. Pooled(q) => Pooled(q)' \/ Worked(q)'
    <3> SUFFICES ASSUME Pooled(q) PROVE Pooled(q)' \/ Worked(q)'
      OBVIOUS
    <3>1. PICK i \in 1..Len(pool) : pool[i] = RequestJob(q)
      OBVIOUS
    <3>2. CASE i = 1
      <4>1. running'[w] = pool[1] BY <1>6, <1>a DEF StartJob
      <4>2. QED BY <4>1, <3>1, <3>2
    <3>3. CASE i # 1
      <4>1. i - 1 \in 1..Len(pool') /\ pool'[i - 1] = pool[i]
        BY <3>3, <1>6, <1>a DEF StartJob
      <4>2. QED BY <4>1, <3>1
    <3>4. QED BY <3>2, <3>3
  <2>5. QED BY <2>1, <2>2, <2>3, <2>4, <1>b
<1>7. ASSUME NEW w \in Workers, NEW o \in {"done", "retry", "panic"}, FinishRequest(w, o)
      PROVE  Tasked(q)' \/ Pooled(q)' \/ Worked(q)'
  <2> DEFINE r == running[w].req
  <2>1. /\ q \in pending \ crashed /\ pool' = pool
        /\ o = "panic" => q # r
    BY <1>7 DEF FinishRequest
  <2>2. r \in Requests /\ running[w] = RequestJob(r)
    <3>1. \A j \in RequestJobs : j.req \in Requests /\ j = RequestJob(j.req)
      BY DEF RequestJobs, RequestJob
    <3>2. QED BY <3>1, <1>7, <1>a DEF FinishRequest
  <2>3. q # r /\ Worked(q) => Worked(q)'
    <3>1. ASSUME q # r
          PROVE  \A v \in Workers : running[v] = RequestJob(q) => v # w
      BY <2>2, <3>1, <1>d, CarriersDiffer
    <3>2. \A v \in Workers \ {w} : running'[v] = running[v]
      BY <1>7, <1>a DEF FinishRequest, EndJob
    <3>3. QED BY <3>1, <3>2
  <2>4. CASE o = "panic"
    <3>1. tasks' = tasks \o <<>> BY <1>7, <2>4 DEF FinishRequest, Sent
    <3>2. tasks' = tasks BY <3>1, <1>a
    <3>3. QED BY <2>1, <2>3, <2>4, <3>2, <1>b
  <2>5. CASE o # "panic"
    <3>1. PICK t \in {ResponseTask(r), RetryTask(r)} : Sent(r, o) = <<t>>
      BY <2>5, RequestsAssumption DEF Sent
    <3>2. t \in RequestTasks
      BY <2>2 DEF RequestTasks
    <3>3. /\ Len(tasks') = Len(tasks) + 1
          /\ \A i \in 1..Len(tasks) : tasks'[i] = tasks[i]
          /\ tasks'[Len(tasks) + 1] = t
          /\ Len(tasks) \in Nat
      <4>1. tasks' = tasks \o <<t>> BY <1>7, <3>1 DEF FinishRequest
      <4>2. QED BY <4>1, <3>2, <1>a
    <3>4. Tasked(q) => Tasked(q)' BY <3>3
    <3>5. CASE q = r BY <3>5, <3>1, <3>3
    <3>6. CASE q # r BY <3>6, <3>4, <2>1, <2>3, <1>b
    <3>7. QED BY <3>5, <3>6
  <2>6. QED BY <2>4, <2>5
<1>8. CASE UNCHANGED <<tasks, pool, running, requestVars>>
  BY <1>8, <1>b DEF requestVars
<1>9. QED
  BY <1>2, <1>3, <1>4, <1>5, <1>6, <1>7, <1>8 DEF CarrierNext, RequestStep

\* A registered request whose handler has not panicked always has a job, a
\* worker or a task that leads to its answer, whatever is retried or cancelled
\* meanwhile: register_request keeps its promise up to panics.
THEOREM NothingForgotten == RequestsSpec => []NeverForgotten
<1>1. RequestsStart => NeverForgotten
  BY DEF RequestsStart, RequestsInit, NeverForgotten
<1>2. RequestsTypeOK /\ RequestsTypeOK' /\ NeverForgotten
          /\ [RequestsNext]_requestsAll => NeverForgotten'
  BY NeverForgottenStep, RequestsCarry, RegistryHasAnswers
     DEF RequestsTypeOK, RegistryTypeOK, AnswersTypeOK
<1>3. QED
  BY <1>1, <1>2, RequestsTypesHold, PTL
     DEF RequestsSpec, RequestsStart, requestsAll
-----------------------------------------------------------------------------
\* At most one element.
AtMostOne(S) == \A x, y \in S : x = y

\* OneCarrier without cardinalities, and what makes it inductive: a request
\* that the client has not sent has no carrier, so the job that on_request
\* queues for it is its first.
SingleCarrier ==
    \A r \in Requests :
        /\ AtMostOne(InTasks(r)) /\ AtMostOne(InPool(r)) /\ AtMostOne(InWorkers(r))
        /\ InTasks(r) = {} \/ InPool(r) = {}
        /\ InTasks(r) = {} \/ InWorkers(r) = {}
        /\ InPool(r) = {} \/ InWorkers(r) = {}
        /\ Carried(r) => r \in received

\* A set of at most one element has at most that cardinality.
LEMMA AtMostOneCardinality ==
    ASSUME NEW S, AtMostOne(S)
    PROVE  /\ Cardinality(S) \in {0, 1}
           /\ Cardinality(S) = 0 <=> S = {}
<1>1. CASE S = {}
  BY <1>1, FS_EmptySet
<1>2. CASE S # {}
  <2>1. PICK x \in S : TRUE BY <1>2
  <2>2. S = {x} BY <2>1 DEF AtMostOne
  <2>3. Cardinality(S) = 1 BY <2>2, FS_Singleton
  <2>4. QED BY <2>3, <1>2
<1>3. QED BY <1>1, <1>2

\* SingleCarrier is what OneCarrier says.
LEMMA SingleIsOne == SingleCarrier => OneCarrier
<1> SUFFICES ASSUME SingleCarrier, NEW r \in Requests
             PROVE  Cardinality(InTasks(r)) + Cardinality(InPool(r))
                        + Cardinality(InWorkers(r)) <= 1
  BY DEF OneCarrier
<1>1. /\ AtMostOne(InTasks(r)) /\ AtMostOne(InPool(r)) /\ AtMostOne(InWorkers(r))
      /\ InTasks(r) = {} \/ InPool(r) = {}
      /\ InTasks(r) = {} \/ InWorkers(r) = {}
      /\ InPool(r) = {} \/ InWorkers(r) = {}
  BY DEF SingleCarrier
<1>2. /\ Cardinality(InTasks(r)) \in {0, 1}
      /\ Cardinality(InTasks(r)) = 0 <=> InTasks(r) = {}
  BY <1>1, AtMostOneCardinality
<1>3. /\ Cardinality(InPool(r)) \in {0, 1}
      /\ Cardinality(InPool(r)) = 0 <=> InPool(r) = {}
  BY <1>1, AtMostOneCardinality
<1>4. /\ Cardinality(InWorkers(r)) \in {0, 1}
      /\ Cardinality(InWorkers(r)) = 0 <=> InWorkers(r) = {}
  BY <1>1, AtMostOneCardinality
<1>5. QED BY <1>1, <1>2, <1>3, <1>4

\* Every step hands the carrier of a request on: a queued job to a worker, its
\* outcome to a task, a retried task to a queued job again.
LEMMA SingleCarrierStep ==
    ASSUME NEW T, NEW J, QueuesOver(T, J), SingleCarrier, CarrierNext
    PROVE  SingleCarrier'
<1> DEFINE Single(S, P, W, rec, q) ==
             /\ AtMostOne(S) /\ AtMostOne(P) /\ AtMostOne(W)
             /\ S = {} \/ P = {}
             /\ S = {} \/ W = {}
             /\ P = {} \/ W = {}
             /\ S # {} \/ P # {} \/ W # {} => q \in rec
<1>a. QueuesOver(T, J) OBVIOUS
<1> SUFFICES ASSUME NEW q \in Requests
             PROVE  Single(InTasks(q)', InPool(q)', InWorkers(q)', received', q)
  BY DEF SingleCarrier, Carried
<1>b. Single(InTasks(q), InPool(q), InWorkers(q), received, q)
  BY DEF SingleCarrier, Carried
<1> USE DEF AtMostOne
\* The first task gone, the tasks of q move down; a task that is appended
\* comes after all others.  Likewise for the pool.
<1>c. ASSUME NEW r \in Requests, NEW t \in {ResponseTask(r), RetryTask(r)},
             tasks # <<>>, Head(tasks) = t, tasks' = Tail(tasks)
      PROVE  /\ AtMostOne(InTasks(q)')
             /\ InTasks(q)' # {} => InTasks(q) # {}
             /\ q = r => InTasks(q) # {} /\ InTasks(q)' = {}
  <2>1. /\ Len(tasks) \in Nat /\ Len(tasks') = Len(tasks) - 1
        /\ \A i \in 1..Len(tasks') : i + 1 \in 1..Len(tasks) /\ tasks'[i] = tasks[i + 1]
        /\ tasks[1] = t /\ 1 \in 1..Len(tasks)
    BY <1>c, <1>a DEF QueuesOver
  <2>2. \A i \in InTasks(q)' : i \in Nat /\ i # 0 /\ i + 1 \in InTasks(q)
    BY <2>1 DEF InTasks
  <2>3. q = r => 1 \in InTasks(q)
    BY <2>1 DEF InTasks
  <2>4. AtMostOne(InTasks(q)) BY <1>b
  <2>5. AtMostOne(InTasks(q)') BY <2>2, <2>4
  <2>6. InTasks(q)' # {} => InTasks(q) # {} BY <2>2
  <2>7. q = r => InTasks(q) # {} /\ InTasks(q)' = {}
    BY <2>2, <2>3, <2>4
  <2>8. QED BY <2>5, <2>6, <2>7
<1>d. ASSUME NEW r \in Requests, pool' = Append(pool, RequestJob(r))
      PROVE  /\ q # r => InPool(q)' = InPool(q)
             /\ q = r /\ InPool(q) = {} => AtMostOne(InPool(q)')
  <2>1. /\ Len(pool') = Len(pool) + 1 /\ Len(pool) \in Nat
        /\ \A i \in 1..Len(pool) : pool'[i] = pool[i]
        /\ pool'[Len(pool) + 1] = RequestJob(r)
    BY <1>d, <1>a DEF QueuesOver
  <2>2. 1..Len(pool') = 1..Len(pool) \cup {Len(pool) + 1}
    BY <2>1
  <2>3. q # r => InPool(q)' = InPool(q)
    <3>1. q # r => RequestJob(r) # RequestJob(q) BY CarriersDiffer
    <3>2. QED BY <2>1, <2>2, <3>1 DEF InPool
  <2>4. InPool(q) = {} => \A i \in InPool(q)' : i = Len(pool) + 1
    BY <2>1, <2>2 DEF InPool
  <2>5. QED BY <2>3, <2>4
<1>1. ASSUME NEW r \in Requests, Request(r)
      PROVE  Single(InTasks(q)', InPool(q)', InWorkers(q)', received', q)
  <2>1. InTasks(q)' = InTasks(q) /\ InWorkers(q)' = InWorkers(q)
    BY <1>1 DEF Request, InTasks, InWorkers
  <2>2. pool' = pool \/ pool' = Append(pool, RequestJob(r))
    BY <1>1 DEF Request, OnRequest
  <2>3. received' = received \cup {r} /\ r \notin received
    BY <1>1 DEF Request
  <2>4. CASE pool' = pool
    <3>1. InPool(q)' = InPool(q) BY <2>4 DEF InPool
    <3>2. QED BY <2>1, <2>3, <3>1, <1>b
  <2>5. CASE pool' = Append(pool, RequestJob(r))
    <3>1. CASE q # r BY <3>1, <2>1, <2>3, <2>5, <1>b, <1>d
    <3>2. CASE q = r BY <3>2, <2>1, <2>3, <2>5, <1>b, <1>d
    <3>3. QED BY <3>1, <3>2
  <2>6. QED BY <2>2, <2>4, <2>5
<1>2. ASSUME NEW r \in Requests, HandleResponse(r)
      PROVE  Single(InTasks(q)', InPool(q)', InWorkers(q)', received', q)
  <2>1. InPool(q)' = InPool(q) /\ InWorkers(q)' = InWorkers(q) /\ received' = received
    BY <1>2 DEF HandleResponse, InPool, InWorkers
  <2>2. /\ AtMostOne(InTasks(q)')
        /\ InTasks(q)' # {} => InTasks(q) # {}
    BY <1>2, <1>c DEF HandleResponse, Receive
  <2>3. QED BY <2>1, <2>2, <1>b
<1>3. ASSUME NEW r \in Requests, HandleRetry(r)
      PROVE  Single(InTasks(q)', InPool(q)', InWorkers(q)', received', q)
  <2>1. InWorkers(q)' = InWorkers(q) /\ received' = received
    BY <1>3 DEF HandleRetry, InWorkers
  <2>2. /\ AtMostOne(InTasks(q)')
        /\ InTasks(q)' # {} => InTasks(q) # {}
        /\ q = r => InTasks(q) # {} /\ InTasks(q)' = {}
    BY <1>3, <1>c DEF HandleRetry, Receive
  <2>3. pool' = pool \/ pool' = Append(pool, RequestJob(r))
    BY <1>3 DEF HandleRetry, OnRequest
  <2>4. CASE pool' = pool
    <3>1. InPool(q)' = InPool(q) BY <2>4 DEF InPool
    <3>2. QED BY <2>1, <2>2, <3>1, <1>b
  <2>5. CASE pool' = Append(pool, RequestJob(r))
    <3>1. CASE q # r BY <3>1, <2>1, <2>2, <2>5, <1>b, <1>d
    <3>2. CASE q = r BY <3>2, <2>1, <2>2, <2>5, <1>b, <1>d
    <3>3. QED BY <3>1, <3>2
  <2>6. QED BY <2>3, <2>4, <2>5
<1>4. ASSUME NEW w \in Workers, StartJob(w), UNCHANGED requestVars
      PROVE  Single(InTasks(q)', InPool(q)', InWorkers(q)', received', q)
  <2>1. InTasks(q)' = InTasks(q) /\ received' = received
    BY <1>4 DEF StartJob, InTasks, requestVars
  <2>2. /\ Len(pool) \in Nat /\ Len(pool') = Len(pool) - 1
        /\ \A i \in 1..Len(pool') : i + 1 \in 1..Len(pool) /\ pool'[i] = pool[i + 1]
        /\ running'[w] = pool[1] /\ 1 \in 1..Len(pool)
        /\ \A v \in Workers \ {w} : running'[v] = running[v]
    BY <1>4, <1>a DEF QueuesOver, StartJob
  <2>3. \A i \in InPool(q)' : i \in Nat /\ i # 0 /\ i + 1 \in InPool(q)
    BY <2>2 DEF InPool
  <2>4. AtMostOne(InPool(q)) BY <1>b
  <2>5. AtMostOne(InPool(q)') BY <2>3, <2>4
  <2>6. InPool(q)' # {} => InPool(q) # {} BY <2>3
  <2>7. CASE pool[1] = RequestJob(q)
    <3>1. 1 \in InPool(q) BY <2>2, <2>7 DEF InPool
    <3>2. InPool(q)' = {} BY <3>1, <2>3, <2>4
    <3>3. InTasks(q) = {} /\ InWorkers(q) = {} /\ q \in received
      BY <3>1, <1>b
    <3>4. InWorkers(q)' = {w} BY <2>2, <2>7, <3>3 DEF InWorkers
    <3>5. QED BY <2>1, <3>2, <3>3, <3>4
  <2>8. CASE pool[1] # RequestJob(q)
    <3>1. RequestJob(q) # Idle BY DEF RequestJob, Idle
    <3>2. running[w] = Idle BY <1>4 DEF StartJob
    <3>3. InWorkers(q)' = InWorkers(q)
      BY <2>2, <2>8, <3>1, <3>2 DEF InWorkers
    <3>4. QED BY <2>1, <2>5, <2>6, <3>3, <1>b
  <2>9. QED BY <2>7, <2>8
<1>5. ASSUME NEW w \in Workers, NEW o \in {"done", "retry", "panic"}, FinishRequest(w, o)
      PROVE  Single(InTasks(q)', InPool(q)', InWorkers(q)', received', q)
  <2> DEFINE r == running[w].req
  <2>1. InPool(q)' = InPool(q) /\ received' = received
    BY <1>5 DEF FinishRequest, InPool
  <2>2. r \in Requests /\ running[w] = RequestJob(r)
    <3>1. \A j \in RequestJobs : j.req \in Requests /\ j = RequestJob(j.req)
      BY DEF RequestJobs, RequestJob
    <3>2. QED BY <3>1, <1>5, <1>a DEF FinishRequest, QueuesOver
  <2>3. InWorkers(q)' = InWorkers(q) \ {w}
    <3>1. /\ running'[w] = Idle
          /\ \A v \in Workers \ {w} : running'[v] = running[v]
      BY <1>5, <1>a DEF FinishRequest, EndJob, QueuesOver
    <3>2. RequestJob(q) # Idle BY DEF RequestJob, Idle
    <3>3. QED BY <3>1, <3>2 DEF InWorkers
  <2>4. \/ tasks' = tasks
        \/ \E t \in {ResponseTask(r), RetryTask(r)} : tasks' = Append(tasks, t)
    <3>1. \/ Sent(r, o) = <<>>
          \/ \E t \in {ResponseTask(r), RetryTask(r)} : Sent(r, o) = <<t>>
      BY RequestsAssumption DEF Sent
    <3>2. tasks' = tasks \o Sent(r, o) BY <1>5 DEF FinishRequest
    <3>3. \A t \in {ResponseTask(r), RetryTask(r)} : t \in RequestTasks
      BY <2>2 DEF RequestTasks
    <3>4. CASE Sent(r, o) = <<>> BY <3>2, <3>4, <1>a DEF QueuesOver
    <3>5. CASE \E t \in {ResponseTask(r), RetryTask(r)} : Sent(r, o) = <<t>>
      BY <3>2, <3>3, <3>5, <1>a DEF QueuesOver
    <3>6. QED BY <3>1, <3>4, <3>5
  <2>5. CASE tasks' = tasks
    <3>1. InTasks(q)' = InTasks(q) BY <2>5 DEF InTasks
    <3>2. QED BY <2>1, <2>3, <3>1, <1>b
  <2>6. ASSUME NEW t \in {ResponseTask(r), RetryTask(r)}, tasks' = Append(tasks, t)
        PROVE  Single(InTasks(q)', InPool(q)', InWorkers(q)', received', q)
    <3>1. /\ Len(tasks') = Len(tasks) + 1 /\ Len(tasks) \in Nat
          /\ \A i \in 1..Len(tasks) : tasks'[i] = tasks[i]
          /\ tasks'[Len(tasks) + 1] = t
      BY <2>6, <1>a DEF QueuesOver
    <3>2. 1..Len(tasks') = 1..Len(tasks) \cup {Len(tasks) + 1}
      BY <3>1
    <3>3. CASE q # r
      <4>1. t \notin {ResponseTask(q), RetryTask(q)}
        BY <2>2, <2>6, <3>3, CarriersDiffer
      <4>2. InTasks(q)' = InTasks(q) BY <3>1, <3>2, <4>1 DEF InTasks
      <4>3. QED BY <2>1, <2>3, <4>2, <1>b
    <3>4. CASE q = r
      <4>1. w \in InWorkers(q) BY <2>2, <3>4 DEF InWorkers
      <4>2. /\ InTasks(q) = {} /\ InPool(q) = {} /\ InWorkers(q) \ {w} = {}
            /\ q \in received
        BY <4>1, <1>b
      <4>3. \A i \in InTasks(q)' : i = Len(tasks) + 1
        BY <3>1, <3>2, <4>2 DEF InTasks
      <4>4. QED BY <2>1, <2>3, <4>2, <4>3
    <3>5. QED BY <3>3, <3>4
  <2>7. QED BY <2>4, <2>5, <2>6
<1>6. CASE UNCHANGED <<tasks, pool, running, received>>
  BY <1>6, <1>b DEF InTasks, InPool, InWorkers
<1>7. ASSUME NEW r \in Requests, Cancel(r)
      PROVE  UNCHANGED <<tasks, pool, running, received>>
  BY <1>7 DEF Cancel, runtimeVars
<1>8. UNCHANGED requestVars => UNCHANGED received
  BY DEF requestVars
<1>9. QED
  BY <1>1, <1>2, <1>3, <1>4, <1>5, <1>6, <1>7, <1>8
     DEF CarrierNext, RequestStep

\* At every moment one job, one worker or one task stands for a request, so no
\* request is computed by two workers and a retry never races a response, for
\* any number of requests and workers.
THEOREM CarriersAreSingle == RequestsSpec => []OneCarrier
<1>1. RequestsStart => SingleCarrier
  <2> SUFFICES ASSUME RequestsStart, NEW r \in Requests
               PROVE  InTasks(r) = {} /\ InPool(r) = {} /\ InWorkers(r) = {}
    BY DEF SingleCarrier, AtMostOne, Carried
  <2>1. RequestJob(r) # Idle BY DEF RequestJob, Idle
  <2>2. QED
    BY <2>1 DEF RequestsStart, RuntimeInit, InTasks, InPool, InWorkers
<1>2. RequestsTypeOK /\ RequestsTypeOK' /\ SingleCarrier
          /\ [RequestsNext]_requestsAll => SingleCarrier'
  BY SingleCarrierStep, RequestsCarry DEF RequestsTypeOK
<1>3. QED
  BY <1>1, <1>2, SingleIsOne, RequestsTypesHold, PTL
     DEF RequestsSpec, RequestsStart, requestsAll

-----------------------------------------------------------------------------
(* The server. *)

\* What the answers of the server depend on.
answerVars == <<received, pending, replies>>

\* Every step of the server is one of the steps of LspRequests or touches none
\* of the answers: no document handler, no compile job and no worker does.
LEMMA ServerStepCases ==
    [ServerNext]_serverVars
        => [RequestsNext]_requestsAll \/ UNCHANGED answerVars
<1> SUFFICES ASSUME [ServerNext]_serverVars
             PROVE  [RequestsNext]_requestsAll \/ UNCHANGED answerVars
  OBVIOUS
<1>1. ASSUME NEW r \in Requests, Ask(r) \/ Cancel(r) \/ RequestStep(r)
      PROVE  RequestsNext
  BY <1>1 DEF Ask, RequestsNext
<1>2. CASE UNCHANGED requestVars
  BY <1>2 DEF requestVars, answerVars
<1>3. ASSUME NEW w \in Workers, HandleOnWorker(w) PROVE UNCHANGED answerVars
  BY <1>3 DEF HandleOnWorker, FinishRequest, answerVars
<1>4. CASE UNCHANGED serverVars
  BY <1>2, <1>4 DEF serverVars
<1>5. CASE MainStep
  BY <1>1, <1>2, <1>5 DEF MainStep
<1>6. ASSUME NEW w \in Workers, WorkerStep(w) PROVE UNCHANGED answerVars
  BY <1>2, <1>3, <1>6 DEF WorkerStep, requestVars, answerVars
<1>7. QED
  BY <1>1, <1>2, <1>4, <1>5, <1>6 DEF ServerNext

\* The types of the answers and the bookkeeping of registered requests are
\* kept whatever the documents' handlers and jobs do in between.
LEMMA ServerAnswersStep ==
    ASSUME AnswersTypeOK, Unanswered, [ServerNext]_serverVars
    PROVE  AnswersTypeOK' /\ Unanswered'
<1>1. CASE UNCHANGED answerVars
  BY <1>1 DEF answerVars, AnswersTypeOK, Unanswered, AtMostOneReply
<1>2. CASE [RequestsNext]_requestsAll
  <2>1. Unanswered' BY <1>2, UnansweredStep
  <2>2. AnswersTypeOK'
    <3>1. ASSUME NEW r \in Requests, Request(r) PROVE AnswersTypeOK'
      BY <3>1 DEF Request, OnRequest, AnswersTypeOK
    <3>2. ASSUME NEW r \in Requests, Cancel(r) PROVE AnswersTypeOK'
      BY <3>2 DEF Cancel, AnswersTypeOK
    <3>3. ASSUME NEW r \in Requests, HandleResponse(r) PROVE AnswersTypeOK'
      BY <3>3 DEF HandleResponse, Respond, AnswersTypeOK
    <3>4. ASSUME NEW r \in Requests, HandleRetry(r) PROVE AnswersTypeOK'
      BY <3>4 DEF HandleRetry, OnRequest, AnswersTypeOK
    <3>5. ASSUME NEW w \in Workers, NEW o \in Outcomes, FinishRequest(w, o)
          PROVE  AnswersTypeOK'
      BY <3>5 DEF FinishRequest, AnswersTypeOK
    <3>6. CASE UNCHANGED requestVars
      BY <3>6 DEF requestVars, AnswersTypeOK
    <3>7. QED
      BY <1>2, <3>1, <3>2, <3>3, <3>4, <3>5, <3>6
         DEF RequestsNext, RequestStep, requestsAll
  <2>3. QED BY <2>1, <2>2
<1>3. QED BY <1>1, <1>2, ServerStepCases

LEMMA ServerAnswersAlways == ServerSpec => [](AnswersTypeOK /\ Unanswered)
<1>1. ServerInit => AnswersTypeOK /\ Unanswered
  BY DEF ServerInit, RequestsInit, AnswersTypeOK, Unanswered, AtMostOneReply
<1>2. AnswersTypeOK /\ Unanswered /\ [ServerNext]_serverVars
          => (AnswersTypeOK /\ Unanswered)'
  BY ServerAnswersStep
<1>3. QED BY <1>1, <1>2, PTL DEF ServerSpec

\* The whole server keeps the promise of RequestService: while files are
\* opened, edited, closed and compiled on the same threads and queues, and
\* while a handler may panic, be retried or find a lock taken, a request is
\* answered at most once and what was answered or cancelled stays so.
THEOREM ServerImplementsService == ServerSpec => ServiceSpec
<1>1. ServerInit => Service!Init
  BY DEF ServerInit, RequestsInit, RequestStatus, Service!Init
<1>2. UNCHANGED answerVars
          => UNCHANGED [r \in Requests |-> RequestStatus(r)]
  BY DEF answerVars, RequestStatus
<1>3. AnswersTypeOK /\ Unanswered /\ [ServerNext]_serverVars
          => [Service!Next]_[r \in Requests |-> RequestStatus(r)]
  BY <1>2, ServerStepCases, ServiceStep
<1>4. QED
  BY <1>1, <1>3, ServerAnswersAlways, PTL
     DEF ServerSpec, ServiceSpec, Service!Spec

-----------------------------------------------------------------------------
\* What is known of the shared queues without the documents' types: a job is
\* one of a request or of async_compile, and the latter only ever publishes for
\* files.
IsCompile(job) ==
    /\ {"kind", "old"} \subseteq DOMAIN job
    /\ job.kind = "compile"
    /\ job.old \subseteq Files

SharedQueues ==
    /\ tasks \in Seq(Elems(tasks))
    /\ pool \in Seq(Elems(pool))
    /\ \A job \in Elems(pool) : job \in RequestJobs \/ IsCompile(job)
    /\ running \in [Workers -> {running[w] : w \in Workers}]
    /\ \A w \in Workers :
          running[w] = Idle \/ running[w] \in RequestJobs \/ IsCompile(running[w])
    /\ recorded \in [Files -> SUBSET WorkSpaces]

\* A sequence that nothing of a request is in, and one of compile jobs.
OtherTasks(s) == s \in Seq(Elems(s)) /\ Elems(s) \cap RequestTasks = {}
OtherJobs(s) == s \in Seq(Elems(s)) /\ \A job \in Elems(s) : IsCompile(job)

\* What the handlers and jobs of documents do to the shared queues: they take
\* tasks and finish jobs of their own and add to the ends.
DocumentEffect ==
    /\ \E new : /\ OtherTasks(new)
                /\ \/ tasks' = tasks \o new
                   \/ /\ tasks # <<>> /\ Head(tasks) \notin RequestTasks
                      /\ tasks' = Tail(tasks) \o new
    /\ \E new : OtherJobs(new) /\ pool' = pool \o new
    /\ running' \in [Workers -> {running'[w] : w \in Workers}]
    /\ \A w \in Workers :
          \/ running'[w] = running[w]
          \/ /\ IsCompile(running[w])
             /\ running'[w] = Idle \/ IsCompile(running'[w])
    /\ recorded' \in [Files -> SUBSET WorkSpaces]
    /\ UNCHANGED requestVars

LEMMA EmptyQueues == OtherTasks(<<>>) /\ OtherJobs(<<>>)
<1>1. Elems(<<>>) = {} BY DEF Elems
<1>2. QED BY <1>1 DEF OtherTasks, OtherJobs

LEMMA SharedAreQueues ==
    SharedQueues =>
        QueuesOver(RequestTasks \cup Elems(tasks),
                   RequestJobs \cup Elems(pool) \cup {running[w] : w \in Workers})
<1> DEFINE T == RequestTasks \cup Elems(tasks)
           J == RequestJobs \cup Elems(pool) \cup {running[w] : w \in Workers}
<1> SUFFICES ASSUME SharedQueues PROVE QueuesOver(T, J)
  OBVIOUS
<1>1. tasks \in Seq(T) /\ pool \in Seq(J)
  BY DEF SharedQueues
<1>2. running \in [Workers -> {Idle} \cup J]
  BY DEF SharedQueues
<1>3. ASSUME NEW job \in {Idle} \cup J, job.kind = "request"
      PROVE  job \in RequestJobs
  BY <1>3 DEF SharedQueues, IsCompile, Idle
<1>4. QED BY <1>1, <1>2, <1>3 DEF QueuesOver

\* A function over the keys a HashMap lists is a queue of its values.
LEMMA ListedQueue ==
    ASSUME NEW S, IsFiniteSet(S), NEW s \in Orders(S), NEW new,
           new = [i \in DOMAIN s |-> new[i]]
    PROVE  /\ new \in Seq(Elems(new))
           /\ \A x \in Elems(new) : \E i \in DOMAIN s : s[i] \in S /\ x = new[i]
<1>1. /\ s \in Seq(S) /\ DOMAIN s = 1..Len(s)
      /\ \A i \in 1..Len(s) : s[i] \in S
  BY OrderLists
<1>2. Len(s) \in Nat BY <1>1
<1>3. new \in [1..Len(s) -> {new[i] : i \in 1..Len(s)}] BY <1>1
<1>4. new \in Seq({new[i] : i \in 1..Len(s)}) /\ Len(new) = Len(s)
  BY <1>2, <1>3
<1>5. Elems(new) = {new[i] : i \in 1..Len(s)} BY <1>4 DEF Elems
<1>6. QED BY <1>1, <1>4, <1>5

\* async_compile only adds compile jobs to the pool.
LEMMA AsyncAddsJobs ==
    ASSUME NEW ws, IsFiniteSet(ws), NEW f \in Files, NEW temp,
           AsyncCompile(ws, f, temp)
    PROVE  \E new : OtherJobs(new) /\ pool' = pool \o new
<1>1. PICK s \in Orders(ws) :
          pool' = pool \o [i \in DOMAIN s |-> CompileJob(s[i], {f}, temp)]
  BY DEF AsyncCompile
<1> DEFINE new == [i \in DOMAIN s |-> CompileJob(s[i], {f}, temp)]
<1>2. /\ new = [i \in DOMAIN s |-> new[i]]
      /\ \A i \in DOMAIN s : new[i] = CompileJob(s[i], {f}, temp)
  OBVIOUS
<1> HIDE DEF new
<1>3. /\ new \in Seq(Elems(new))
      /\ \A x \in Elems(new) : \E i \in DOMAIN s : x = new[i]
  BY <1>2, ListedQueue
<1>4. \A w : IsCompile(CompileJob(w, {f}, temp))
  BY DEF IsCompile, CompileJob
<1>5. OtherJobs(new) BY <1>2, <1>3, <1>4 DEF OtherJobs
<1>6. QED BY <1>1, <1>5 DEF new

\* The tasks of documents are not those of requests.
LEMMA TasksDiffer ==
    \A f, c, v : /\ ChangedFile(f, c) \notin RequestTasks
                 /\ ReOpenFile(f) \notin RequestTasks
                 /\ Notify(f, v) \notin RequestTasks
  BY DEF ChangedFile, ReOpenFile, Notify, RequestTasks, ResponseTask, RetryTask

\* What process_changed_file does to the queues, rest being the channel it
\* found.
HandlerEffect(rest) ==
    /\ \E new : OtherTasks(new) /\ tasks' = rest \o new
    /\ \E new : OtherJobs(new) /\ pool' = pool \o new

LEMMA NothingSent ==
    ASSUME NEW T, NEW rest \in Seq(T), tasks' = rest
    PROVE  \E new : OtherTasks(new) /\ tasks' = rest \o new
<1>1. tasks' = rest \o <<>> OBVIOUS
<1> WITNESS <<>>
<1>2. QED BY <1>1, EmptyQueues

LEMMA NothingQueued ==
    ASSUME SharedQueues, pool' = pool
    PROVE  \E new : OtherJobs(new) /\ pool' = pool \o new
<1>1. pool' = pool \o <<>> BY DEF SharedQueues
<1> WITNESS <<>>
<1>2. QED BY <1>1, EmptyQueues

LEMMA CreateQueues ==
    ASSUME SharedQueues, NEW T, NEW f \in Files, NEW rest \in Seq(T), NEW open,
           NEW rec \in [Files -> SUBSET WorkSpaces],
           ProcessCreate(f, rest, open, rec)
    PROVE  HandlerEffect(rest) /\ recorded' \in [Files -> SUBSET WorkSpaces]
<1>2. Containing(f) \subseteq WorkSpaces /\ IsFiniteSet(Lookup[f])
  BY SubsetsFinite, DocumentsAssumption DEF Containing
<1>3. recorded' \in [Files -> SUBSET WorkSpaces]
  BY <1>2 DEF ProcessCreate
<1>4. \/ tasks' = rest /\ pool' = pool
      \/ /\ SendAfter(rest, [i \in 1..Cardinality(InProgress) |->
                                ChangedFile(f, "create")])
         /\ pool' = pool
      \/ tasks' = rest /\ AsyncCompile(Lookup[f], f, TRUE)
  BY DEF ProcessCreate
<1>5. CASE tasks' = rest /\ pool' = pool
  BY <1>3, <1>5, NothingSent, NothingQueued DEF HandlerEffect
<1>6. CASE /\ SendAfter(rest, [i \in 1..Cardinality(InProgress) |->
                                  ChangedFile(f, "create")])
           /\ pool' = pool
  <2> DEFINE new == [i \in 1..Cardinality(InProgress) |-> ChangedFile(f, "create")]
  <2>1. Cardinality(InProgress) \in Nat
    <3>1. InProgress \in SUBSET WorkSpaces BY DEF InProgress
    <3>2. QED BY <3>1, SubsetsFinite, FS_CardinalityType
  <2>2. new \in Seq({ChangedFile(f, "create")}) BY <2>1
  <2>3. tasks' = rest \o new BY <1>6 DEF SendAfter
  <2> HIDE DEF new
  <2>4. new \in Seq(Elems(new)) /\ Elems(new) \subseteq {ChangedFile(f, "create")}
    BY <2>2 DEF Elems
  <2>5. OtherTasks(new) BY <2>4, TasksDiffer DEF OtherTasks
  <2>6. QED BY <1>3, <1>6, <2>3, <2>5, NothingQueued DEF HandlerEffect
<1>7. CASE tasks' = rest /\ AsyncCompile(Lookup[f], f, TRUE)
  BY <1>2, <1>3, <1>7, NothingSent, AsyncAddsJobs DEF HandlerEffect
<1>8. QED BY <1>4, <1>5, <1>6, <1>7

LEMMA ModifyQueues ==
    ASSUME SharedQueues, NEW T, NEW f \in Files, NEW rest \in Seq(T),
           ProcessModify(f, rest)
    PROVE  HandlerEffect(rest)
<1> DEFINE temp == temporary[f]
           targets == IF recorded[f] # {} THEN recorded[f]
                      ELSE IF temp.entry = "workspace" THEN {temp.ws} ELSE {}
<1>2. IsFiniteSet(targets)
  <2>1. IsFiniteSet(recorded[f]) BY SubsetsFinite DEF SharedQueues
  <2>2. QED BY <2>1, FS_EmptySet, FS_Singleton
<1>3. \/ tasks' = rest /\ pool' = pool
      \/ AsyncCompile(targets, f, recorded[f] = {}) /\ tasks' = rest
      \/ /\ SendAfter(rest, IF temp = InCompiling
                            THEN <<ChangedFile(f, "modify"), ReOpenFile(f)>>
                            ELSE <<ReOpenFile(f)>>)
         /\ pool' = pool
  BY DEF ProcessModify
<1> HIDE DEF targets
<1>4. CASE tasks' = rest /\ pool' = pool
  BY <1>4, NothingSent, NothingQueued DEF HandlerEffect
<1>5. CASE AsyncCompile(targets, f, recorded[f] = {}) /\ tasks' = rest
  BY <1>2, <1>5, NothingSent, AsyncAddsJobs DEF HandlerEffect
<1>6. CASE /\ SendAfter(rest, IF temp = InCompiling
                              THEN <<ChangedFile(f, "modify"), ReOpenFile(f)>>
                              ELSE <<ReOpenFile(f)>>)
           /\ pool' = pool
  <2> DEFINE own == {ChangedFile(f, "modify"), ReOpenFile(f)}
             new == IF temp = InCompiling
                    THEN <<ChangedFile(f, "modify"), ReOpenFile(f)>>
                    ELSE <<ReOpenFile(f)>>
  <2> HIDE DEF own
  <2>a. ChangedFile(f, "modify") \in own /\ ReOpenFile(f) \in own BY DEF own
  <2>1. new \in Seq(own)
    <3>1. /\ <<ChangedFile(f, "modify"), ReOpenFile(f)>> \in Seq(own)
          /\ <<ReOpenFile(f)>> \in Seq(own)
      BY <2>a
    <3>2. QED BY <3>1
  <2>2. tasks' = rest \o new BY <1>6 DEF SendAfter
  <2> HIDE DEF new
  <2>3. new \in Seq(Elems(new)) /\ Elems(new) \subseteq own
    BY <2>1 DEF Elems
  <2>4. OtherTasks(new) BY <2>3, TasksDiffer DEF OtherTasks, own
  <2>5. QED BY <1>6, <2>2, <2>4, NothingQueued DEF HandlerEffect
<1>7. QED BY <1>3, <1>4, <1>5, <1>6

\* The client's notifications and the main thread's own tasks.
LEMMA MainQueues ==
    ASSUME SharedQueues, NEW f \in Files, ClientStep(f) \/ DocumentStep(f),
           UNCHANGED requestVars
    PROVE  DocumentEffect
<1>1. /\ tasks \in Seq(Elems(tasks))
      /\ tasks # <<>> => Tail(tasks) \in Seq(Elems(tasks))
      /\ recorded \in [Files -> SUBSET WorkSpaces]
  BY DEF SharedQueues
<1>2. running' = running
  BY DEF ClientStep, DocumentStep, DidOpen, DidChange, DidClose, FinishClose,
         HandleChangedFile, HandleReOpenFile, HandleNotify
<1>3. /\ running' \in [Workers -> {running'[w] : w \in Workers}]
      /\ \A w \in Workers : running'[w] = running[w]
  BY <1>2 DEF SharedQueues
<1>4. CASE HandlerEffect(tasks) /\ recorded' \in [Files -> SUBSET WorkSpaces]
  BY <1>3, <1>4 DEF HandlerEffect, DocumentEffect
<1>5. CASE /\ tasks # <<>> /\ Head(tasks) \notin RequestTasks
           /\ HandlerEffect(Tail(tasks))
           /\ recorded' \in [Files -> SUBSET WorkSpaces]
  BY <1>3, <1>5 DEF HandlerEffect, DocumentEffect
<1>6. CASE DidOpen(f)
  <2>1. [recorded EXCEPT ![f] = {}] \in [Files -> SUBSET WorkSpaces] BY <1>1
  <2>2. ProcessCreate(f, tasks, opened \cup {f}, [recorded EXCEPT ![f] = {}])
    BY <1>6 DEF DidOpen
  <2>3. QED BY <2>1, <2>2, <1>1, <1>4, CreateQueues
<1>7. CASE DidChange(f)
  <2>1. ProcessModify(f, tasks) /\ recorded' = recorded
    BY <1>7 DEF DidChange
  <2>2. QED BY <2>1, <1>1, <1>4, ModifyQueues
<1>8. CASE DidClose(f) \/ FinishClose(f)
  <2>1. /\ UNCHANGED <<tasks, pool>>
        /\ recorded' \in [Files -> SUBSET WorkSpaces]
    BY <1>1, <1>8 DEF DidClose, FinishClose
  <2>2. HandlerEffect(tasks)
    BY <1>1, <2>1, NothingSent, NothingQueued DEF HandlerEffect
  <2>3. QED BY <2>1, <2>2, <1>4
<1>9. CASE HandleChangedFile(f)
  <2>1. tasks # <<>> /\ Head(tasks) \notin RequestTasks
    BY <1>9, TasksDiffer DEF HandleChangedFile, Receive
  <2>2. \/ ProcessCreate(f, Tail(tasks), opened, recorded)
        \/ ProcessModify(f, Tail(tasks)) /\ recorded' = recorded
    BY <1>9 DEF HandleChangedFile
  <2>3. QED BY <2>1, <2>2, <1>1, <1>5, CreateQueues, ModifyQueues
<1>10. CASE HandleReOpenFile(f)
  <2>1. tasks # <<>> /\ Head(tasks) \notin RequestTasks
    BY <1>10, TasksDiffer DEF HandleReOpenFile, Receive
  <2>2. ProcessCreate(f, Tail(tasks), opened, recorded)
    BY <1>10 DEF HandleReOpenFile
  <2>3. QED BY <2>1, <2>2, <1>1, <1>5, CreateQueues
<1>11. CASE HandleNotify(f)
  <2>1. tasks # <<>> /\ Head(tasks) \notin RequestTasks
    BY <1>11, TasksDiffer DEF HandleNotify, Receive
  <2>2. tasks' = Tail(tasks) /\ pool' = pool /\ recorded' = recorded
    BY <1>11 DEF HandleNotify
  <2>3. HandlerEffect(Tail(tasks))
    BY <1>1, <2>1, <2>2, NothingSent, NothingQueued DEF HandlerEffect
  <2>4. QED BY <2>1, <2>2, <2>3, <1>1, <1>5
<1>12. QED
  BY <1>6, <1>7, <1>8, <1>9, <1>10, <1>11 DEF ClientStep, DocumentStep

\* A compile job stays one while it moves from step to step.
LEMMA CompileQueues ==
    ASSUME SharedQueues, NEW w \in Workers, CompileStep(w), UNCHANGED requestVars
    PROVE  DocumentEffect
<1>1. /\ tasks \in Seq(Elems(tasks))
      /\ running \in [Workers -> {running[v] : v \in Workers}]
      /\ recorded \in [Files -> SUBSET WorkSpaces]
  BY DEF SharedQueues
<1>2. /\ pool' = pool /\ recorded' = recorded /\ running[w].kind = "compile"
  BY DEF CompileStep, ReadOldDiags, MarkCompiling, Compile, CompilePanics,
         PublishDiagnostics, Install, InsertTemporary, AtStep, documentVars
<1>3. IsCompile(running[w])
  <2>1. running[w] # Idle /\ running[w] \notin RequestJobs
    BY <1>2 DEF Idle, RequestJobs, RequestJob
  <2>2. QED BY <2>1 DEF SharedQueues
<1>4. ASSUME NEW job, running' = [running EXCEPT ![w] = job],
             job = Idle \/ IsCompile(job)
      PROVE  /\ running' \in [Workers -> {running'[v] : v \in Workers}]
             /\ \A v \in Workers :
                   \/ running'[v] = running[v]
                   \/ /\ IsCompile(running[v])
                      /\ running'[v] = Idle \/ IsCompile(running'[v])
  <2>1. running'[w] = job /\ \A v \in Workers \ {w} : running'[v] = running[v]
    BY <1>1, <1>4
  <2>2. running' \in [Workers -> {running'[v] : v \in Workers}]
    BY <1>1, <1>4
  <2>3. QED BY <2>1, <2>2, <1>3, <1>4
<1>5. \E job : /\ running' = [running EXCEPT ![w] = job]
               /\ job = Idle \/ IsCompile(job)
  <2>1. ASSUME NEW st, NEW job, IsCompile(job),
               running' = [running EXCEPT ![w] = [job EXCEPT !.step = st]]
        PROVE  \E j : /\ running' = [running EXCEPT ![w] = j]
                      /\ j = Idle \/ IsCompile(j)
    <3>1. IsCompile([job EXCEPT !.step = st]) BY <2>1 DEF IsCompile
    <3>2. QED BY <2>1, <3>1
  <2>2. CASE ReadOldDiags(w)
    <3> DEFINE old == DiagnosedFiles(workspaces[running[w].ws].db)
               job == [running[w] EXCEPT !.step = "mark", !.old = old]
    <3>1. old \subseteq Files BY DEF DiagnosedFiles
    <3>2. running' = [running EXCEPT ![w] = job]
      BY <2>2, <1>1 DEF ReadOldDiags
    <3> HIDE DEF old
    <3>3. IsCompile(job) BY <1>3, <3>1 DEF IsCompile
    <3>4. QED BY <3>2, <3>3
  <2>3. CASE Compile(w)
    <3>1. PICK ok, seen \in BOOLEAN :
              running' = [running EXCEPT
                  ![w].step = "publish",
                  ![w].ok = ok,
                  ![w].db = Program(running[w].ws, seen)]
      BY <2>3 DEF Compile
    <3> DEFINE db == Program(running[w].ws, seen)
               job == [running[w] EXCEPT !.step = "publish", !.ok = ok, !.db = db]
    <3> HIDE DEF db
    <3>2. running' = [running EXCEPT ![w] = job]
      BY <3>1, <1>1 DEF db
    <3>3. IsCompile(job) BY <1>3 DEF IsCompile
    <3>4. QED BY <3>2, <3>3
  <2>4. CASE MarkCompiling(w)
    BY <2>4, <2>1, <1>3 DEF MarkCompiling
  <2>5. CASE PublishDiagnostics(w)
    BY <2>5, <2>1, <1>3 DEF PublishDiagnostics
  <2>6. CASE EndJob(w)
    BY <2>6 DEF EndJob
  <2>7. CASE Install(w)
    BY <2>7, <2>1, <2>6, <1>3 DEF Install
  <2>8. CASE CompilePanics(w) \/ InsertTemporary(w)
    BY <2>8, <2>6 DEF CompilePanics, InsertTemporary
  <2>9. QED
    BY <2>2, <2>3, <2>4, <2>5, <2>7, <2>8 DEF CompileStep
<1>6. \E new : OtherTasks(new) /\ tasks' = tasks \o new
  <2>1. CASE tasks' = tasks BY <2>1, <1>1, NothingSent
  <2>2. CASE PublishDiagnostics(w)
    <3>1. PICK s \in Orders(ToPublish(running[w])) :
              tasks' = tasks \o [i \in DOMAIN s |->
                          Notify(s[i], IF s[i] \in DiagnosedFiles(running[w].db)
                                       THEN running[w].db[s[i]] ELSE 0)]
      BY <2>2 DEF PublishDiagnostics
    <3> DEFINE new == [i \in DOMAIN s |->
                          Notify(s[i], IF s[i] \in DiagnosedFiles(running[w].db)
                                       THEN running[w].db[s[i]] ELSE 0)]
    <3>2. /\ new = [i \in DOMAIN s |-> new[i]]
          /\ \A i \in DOMAIN s : \E v : new[i] = Notify(s[i], v)
      OBVIOUS
    <3> HIDE DEF new
    <3>3. IsFiniteSet(ToPublish(running[w]))
      <4>1. ToPublish(running[w]) \in SUBSET Files
        BY <1>3 DEF ToPublish, IsCompile, DiagnosedFiles
      <4>2. QED BY <4>1, SubsetsFinite
    <3>4. /\ new \in Seq(Elems(new))
          /\ \A x \in Elems(new) : \E i \in DOMAIN s : x = new[i]
      BY <3>2, <3>3, ListedQueue
    <3>5. \A x \in Elems(new) : x \notin RequestTasks
      <4> TAKE x \in Elems(new)
      <4>1. PICK i \in DOMAIN s : x = new[i] BY <3>4
      <4>2. PICK v : x = Notify(s[i], v) BY <3>2, <4>1
      <4>3. QED BY <4>2, TasksDiffer
    <3>6. OtherTasks(new) BY <3>4, <3>5 DEF OtherTasks
    <3>7. QED BY <3>1, <3>6 DEF new
  <2>3. QED
    BY <2>1, <2>2 DEF CompileStep, ReadOldDiags, MarkCompiling, Compile,
                      CompilePanics, Install, InsertTemporary
<1>7. QED
  BY <1>1, <1>2, <1>4, <1>5, <1>6, NothingQueued DEF DocumentEffect

\* Every step of the server hands requests on or belongs to documents.
LEMMA ServerCarries ==
    SharedQueues /\ [ServerNext]_serverVars
        => (CarrierNext /\ UNCHANGED recorded) \/ DocumentEffect
<1> SUFFICES ASSUME SharedQueues, [ServerNext]_serverVars
             PROVE  (CarrierNext /\ UNCHANGED recorded) \/ DocumentEffect
  OBVIOUS
<1>a. UNCHANGED documentVars => UNCHANGED recorded
  BY DEF documentVars
<1>1. ASSUME NEW r \in Requests,
             \/ Ask(r)
             \/ (Cancel(r) \/ RequestStep(r)) /\ UNCHANGED documentVars
      PROVE  CarrierNext /\ UNCHANGED recorded
  BY <1>1, <1>a DEF Ask, CarrierNext
<1>2. ASSUME NEW f \in Files, ClientStep(f) \/ DocumentStep(f),
             UNCHANGED requestVars
      PROVE  DocumentEffect
  BY <1>2, MainQueues
<1>3. ASSUME NEW w \in Workers, HandleOnWorker(w)
      PROVE  CarrierNext /\ UNCHANGED recorded
  BY <1>3, <1>a DEF HandleOnWorker, CarrierNext
<1>4. ASSUME NEW w \in Workers, StartJob(w), UNCHANGED <<requestVars, documentVars>>
      PROVE  CarrierNext /\ UNCHANGED recorded
  BY <1>4, <1>a DEF CarrierNext
<1>5. CASE UNCHANGED serverVars
  BY <1>5, <1>a DEF serverVars, runtimeVars, CarrierNext
<1>6. CASE MainStep BY <1>1, <1>2, <1>6 DEF MainStep
<1>7. ASSUME NEW w \in Workers, WorkerStep(w)
      PROVE  (CarrierNext /\ UNCHANGED recorded) \/ DocumentEffect
  <2>1. CASE CompileStep(w) /\ UNCHANGED requestVars BY <2>1, CompileQueues
  <2>2. QED BY <1>3, <1>4, <1>7, <2>1 DEF WorkerStep
<1>8. QED BY <1>1, <1>2, <1>5, <1>6, <1>7 DEF ServerNext

\* Every sequence is one over its own elements.
LEMMA OverItsElements ==
    ASSUME NEW T, NEW s \in Seq(T) PROVE s \in Seq(Elems(s))
<1>1. Len(s) \in Nat /\ s \in [1..Len(s) -> T] OBVIOUS
<1>2. \A i \in 1..Len(s) : s[i] \in Elems(s) BY DEF Elems
<1>3. s \in [1..Len(s) -> Elems(s)] BY <1>1, <1>2
<1>4. QED BY <1>1, <1>3

\* The queues hold only what they should after every step.
LEMMA SharedQueuesStep ==
    ASSUME SharedQueues, [ServerNext]_serverVars PROVE SharedQueues'
<1>1. /\ tasks \in Seq(Elems(tasks)) /\ pool \in Seq(Elems(pool))
      /\ \A job \in Elems(pool) : job \in RequestJobs \/ IsCompile(job)
      /\ running \in [Workers -> {running[w] : w \in Workers}]
      /\ \A w \in Workers :
            running[w] = Idle \/ running[w] \in RequestJobs \/ IsCompile(running[w])
  BY DEF SharedQueues
<1> DEFINE Q(s) == s \in Seq(Elems(s))
           Jobs(s) == \A job \in Elems(s) : job \in RequestJobs \/ IsCompile(job)
           Run(f) == /\ f \in [Workers -> {f[w] : w \in Workers}]
                     /\ \A w \in Workers :
                           f[w] = Idle \/ f[w] \in RequestJobs \/ IsCompile(f[w])
<1>2. ASSUME NEW s, NEW new, Q(s), Q(new)
      PROVE  Q(s \o new) /\ Elems(s \o new) = Elems(s) \cup Elems(new)
  <2>1. s \in Seq(Elems(s) \cup Elems(new)) /\ new \in Seq(Elems(s) \cup Elems(new))
    BY <1>2
  <2>2. QED BY <2>1, ElemsOfAppend
<1>3. ASSUME NEW s, Q(s), s # <<>>
      PROVE  /\ Q(Tail(s)) /\ Head(s) \in Elems(s)
             /\ Elems(Tail(s)) \subseteq Elems(s)
  <2>1. Elems(s) = {Head(s)} \cup Elems(Tail(s)) /\ Tail(s) \in Seq(Elems(s))
    BY <1>3, ElemsOfTail
  <2>2. Tail(s) \in Seq(Elems(Tail(s))) BY <2>1, OverItsElements
  <2>3. QED BY <2>1, <2>2
<1>4. ASSUME NEW x PROVE Q(<<x>>) /\ Elems(<<x>>) = {x}
  BY DEF Elems
<1>5. CASE DocumentEffect
  <2>1. Q(tasks')
    <3>1. PICK new : /\ OtherTasks(new)
                     /\ \/ tasks' = tasks \o new
                        \/ tasks # <<>> /\ tasks' = Tail(tasks) \o new
      BY <1>5 DEF DocumentEffect
    <3>2. Q(new) BY <3>1 DEF OtherTasks
    <3>3. Q(tasks) /\ (tasks # <<>> => Q(Tail(tasks))) BY <1>1, <1>3
    <3> HIDE DEF Q
    <3>4. QED BY <3>1, <3>2, <3>3, <1>2
  <2>2. Q(pool') /\ Jobs(pool')
    BY <1>1, <1>2, <1>5 DEF DocumentEffect, OtherJobs
  <2>3. Run(running')
    BY <1>1, <1>5 DEF DocumentEffect
  <2>4. QED BY <2>1, <2>2, <2>3, <1>5 DEF SharedQueues, DocumentEffect
<1>6. CASE CarrierNext /\ UNCHANGED recorded
  <2> SUFFICES Q(tasks') /\ Q(pool') /\ Jobs(pool') /\ Run(running')
    BY <1>6 DEF SharedQueues
  <2> USE <1>1
  <2>1. ASSUME NEW r \in Requests, pool' = Append(pool, RequestJob(r))
        PROVE  Q(pool') /\ Jobs(pool')
    <3>1. pool' = pool \o <<RequestJob(r)>> BY <2>1
    <3>2. Q(<<RequestJob(r)>>) /\ Elems(<<RequestJob(r)>>) = {RequestJob(r)} BY <1>4
    <3>3. Q(pool') /\ Elems(pool') = Elems(pool) \cup {RequestJob(r)}
      BY <3>1, <3>2, <1>2
    <3>4. QED BY <3>3 DEF RequestJobs
  <2>2. ASSUME NEW r \in Requests, Request(r)
        PROVE  Q(tasks') /\ Q(pool') /\ Jobs(pool') /\ Run(running')
    BY <2>1, <2>2 DEF Request, OnRequest
  <2>3. ASSUME NEW r \in Requests, Cancel(r)
        PROVE  Q(tasks') /\ Q(pool') /\ Jobs(pool') /\ Run(running')
    BY <2>3 DEF Cancel, runtimeVars
  <2>4. ASSUME NEW r \in Requests, HandleResponse(r)
        PROVE  Q(tasks') /\ Q(pool') /\ Jobs(pool') /\ Run(running')
    BY <2>4, <1>3 DEF HandleResponse, Receive
  <2>5. ASSUME NEW r \in Requests, HandleRetry(r)
        PROVE  Q(tasks') /\ Q(pool') /\ Jobs(pool') /\ Run(running')
    <3>1. Q(tasks') /\ Run(running') BY <2>5, <1>3 DEF HandleRetry, Receive
    <3>2. QED BY <3>1, <2>1, <2>5 DEF HandleRetry, OnRequest
  <2>6. ASSUME NEW w \in Workers, StartJob(w)
        PROVE  Q(tasks') /\ Q(pool') /\ Jobs(pool') /\ Run(running')
    <3>1. /\ tasks' = tasks /\ pool # <<>> /\ pool' = Tail(pool)
          /\ running' = [running EXCEPT ![w] = Head(pool)]
      BY <2>6 DEF StartJob
    <3>2. Q(pool') /\ Jobs(pool') /\ (Head(pool) \in RequestJobs \/ IsCompile(Head(pool)))
      BY <3>1, <1>3
    <3>3. /\ running'[w] = Head(pool)
          /\ \A v \in Workers \ {w} : running'[v] = running[v]
          /\ running' \in [Workers -> {running'[v] : v \in Workers}]
      BY <3>1
    <3>4. QED BY <3>1, <3>2, <3>3
  <2>7. ASSUME NEW w \in Workers, NEW o \in {"done", "retry", "panic"},
               FinishRequest(w, o)
        PROVE  Q(tasks') /\ Q(pool') /\ Jobs(pool') /\ Run(running')
    <3>1. pool' = pool /\ running' = [running EXCEPT ![w] = Idle]
          /\ tasks' = tasks \o Sent(running[w].req, o)
      BY <2>7 DEF FinishRequest, EndJob
    <3>2. Q(Sent(running[w].req, o))
      <4>1. Sent(running[w].req, o) = <<>> \/ \E x : Sent(running[w].req, o) = <<x>>
        BY DEF Sent
      <4>2. QED BY <4>1, <1>4, EmptyQueues DEF OtherTasks
    <3>3. /\ running'[w] = Idle
          /\ \A v \in Workers \ {w} : running'[v] = running[v]
          /\ running' \in [Workers -> {running'[v] : v \in Workers}]
      BY <3>1
    <3>4. QED BY <3>1, <3>2, <3>3, <1>2
  <2>8. CASE UNCHANGED <<tasks, pool, running, requestVars>>
    BY <2>8
  <2>9. QED
    BY <1>6, <2>2, <2>3, <2>4, <2>5, <2>6, <2>7, <2>8
       DEF CarrierNext, RequestStep
<1>7. QED BY <1>5, <1>6, ServerCarries

\* The steps of documents leave every carrier of a request where it is, but
\* for the place in the channel.
LEMMA CarriersKept ==
    ASSUME SharedQueues, DocumentEffect, NEW q \in Requests
    PROVE  /\ InPool(q)' = InPool(q)
           /\ InWorkers(q)' = InWorkers(q)
           /\ \/ InTasks(q)' = InTasks(q)
              \/ InTasks(q)' = {i - 1 : i \in InTasks(q)} /\ 1 \notin InTasks(q)
           /\ InTasks(q) \subseteq Nat
<1> DEFINE Own == {ResponseTask(q), RetryTask(q)}
<1>1. Own \subseteq RequestTasks /\ RequestJob(q) \in RequestJobs
  BY DEF RequestTasks, RequestJobs
<1>2. \A job \in RequestJobs : ~IsCompile(job) /\ job # Idle
  BY DEF RequestJobs, RequestJob, IsCompile, Idle
<1>3. tasks \in Seq(Elems(tasks)) /\ pool \in Seq(Elems(pool))
  BY DEF SharedQueues
\* What is added after a queue that holds other things changes no place.
<1>4. ASSUME NEW s, NEW new, NEW U, s \in Seq(Elems(s)), new \in Seq(Elems(new)),
             U \cap Elems(new) = {}
      PROVE  {i \in 1..Len(s \o new) : (s \o new)[i] \in U}
                 = {i \in 1..Len(s) : s[i] \in U}
  <2>1. /\ Len(s) \in Nat /\ Len(new) \in Nat /\ Len(s \o new) = Len(s) + Len(new)
        /\ \A i \in 1..Len(s) : (s \o new)[i] = s[i]
        /\ \A i \in 1..Len(s \o new) :
              i \in 1..Len(s) \/ (i - Len(s) \in 1..Len(new)
                                  /\ (s \o new)[i] = new[i - Len(s)])
    <3>1. s \in Seq(Elems(s) \cup Elems(new)) /\ new \in Seq(Elems(s) \cup Elems(new))
      BY <1>4
    <3>2. QED BY <3>1
  <2>2. \A i \in 1..Len(new) : new[i] \notin U BY <1>4 DEF Elems
  <2>3. QED BY <2>1, <2>2
<1>5. InPool(q)' = InPool(q)
  <2>1. PICK new : OtherJobs(new) /\ pool' = pool \o new BY DEF DocumentEffect
  <2>2. {RequestJob(q)} \cap Elems(new) = {} BY <2>1, <1>1, <1>2 DEF OtherJobs
  <2>3. {i \in 1..Len(pool') : pool'[i] \in {RequestJob(q)}}
            = {i \in 1..Len(pool) : pool[i] \in {RequestJob(q)}}
    BY <2>1, <2>2, <1>3, <1>4 DEF OtherJobs
  <2>4. QED BY <2>3 DEF InPool
<1>6. InWorkers(q)' = InWorkers(q)
  BY <1>1, <1>2 DEF DocumentEffect, InWorkers
<1>7. /\ InTasks(q) \subseteq Nat
      /\ \/ InTasks(q)' = InTasks(q)
         \/ InTasks(q)' = {i - 1 : i \in InTasks(q)} /\ 1 \notin InTasks(q)
  <2>1. PICK new : /\ OtherTasks(new)
                   /\ \/ tasks' = tasks \o new
                      \/ /\ tasks # <<>> /\ Head(tasks) \notin RequestTasks
                         /\ tasks' = Tail(tasks) \o new
    BY DEF DocumentEffect
  <2>2. Own \cap Elems(new) = {} /\ new \in Seq(Elems(new))
    BY <2>1, <1>1 DEF OtherTasks
  <2> HIDE DEF Own
  <2>3. InTasks(q) = {i \in 1..Len(tasks) : tasks[i] \in Own}
        /\ InTasks(q)' = {i \in 1..Len(tasks') : tasks'[i] \in Own}
    BY DEF InTasks, Own
  <2>4. CASE tasks' = tasks \o new
    BY <2>2, <2>3, <2>4, <1>3, <1>4
  <2>5. CASE /\ tasks # <<>> /\ Head(tasks) \notin RequestTasks
             /\ tasks' = Tail(tasks) \o new
    <3>1. /\ Len(tasks) \in Nat /\ Len(Tail(tasks)) = Len(tasks) - 1
          /\ \A i \in 1..Len(Tail(tasks)) : Tail(tasks)[i] = tasks[i + 1]
          /\ tasks[1] = Head(tasks)
          /\ Tail(tasks) \in Seq(Elems(tasks))
      BY <2>5, <1>3
    <3>2. Tail(tasks) \in Seq(Elems(Tail(tasks))) BY <3>1, OverItsElements
    <3>3. InTasks(q)' = {i \in 1..Len(Tail(tasks)) : Tail(tasks)[i] \in Own}
      BY <2>2, <2>3, <2>5, <3>2, <1>4
    <3>4. tasks[1] \notin Own BY <2>5, <3>1, <1>1
    <3>5. \A i \in InTasks(q) : i - 1 \in InTasks(q)'
      BY <2>3, <3>1, <3>3, <3>4
    <3>6. \A i \in InTasks(q)' : i \in Nat /\ i + 1 \in InTasks(q)
      BY <2>3, <3>1, <3>3
    <3>7. InTasks(q)' = {i - 1 : i \in InTasks(q)}
      BY <3>5, <3>6
    <3>8. QED BY <2>3, <3>4, <3>7
  <2>6. QED BY <2>1, <2>3, <2>4, <2>5
<1>8. QED BY <1>5, <1>6, <1>7

LEMMA SharedQueuesStart == ServerInit => SharedQueues
<1> SUFFICES ASSUME ServerInit PROVE SharedQueues
  OBVIOUS
<1>1. tasks = <<>> /\ running = [w \in Workers |-> Idle]
      /\ recorded = [f \in Files |-> {}]
  BY DEF ServerInit, RuntimeInit, DocumentsInit
<1>2. tasks \in Seq(Elems(tasks)) BY <1>1, EmptyQueues DEF OtherTasks
<1>3. OtherJobs(pool)
  <2>1. PICK s \in Orders(InitWorkSpaces) :
            pool = [i \in DOMAIN s |-> CompileJob(s[i], {}, FALSE)]
    BY DEF ServerInit, PoolAtStart
  <2>2. IsFiniteSet(InitWorkSpaces) BY SubsetsFinite, DocumentsAssumption
  <2>3. /\ pool = [i \in DOMAIN s |-> pool[i]]
        /\ \A i \in DOMAIN s : pool[i] = CompileJob(s[i], {}, FALSE)
    BY <2>1
  <2>4. /\ pool \in Seq(Elems(pool))
        /\ \A x \in Elems(pool) : \E i \in DOMAIN s : x = pool[i]
    BY <2>2, <2>3, ListedQueue
  <2>5. \A w : IsCompile(CompileJob(w, {}, FALSE)) BY DEF IsCompile, CompileJob
  <2>6. QED BY <2>3, <2>4, <2>5 DEF OtherJobs
<1>4. QED BY <1>1, <1>2, <1>3 DEF SharedQueues, OtherJobs

\* The inductive invariant of the carriers in the shared queues.
ServerCarriers ==
    AnswersTypeOK /\ Unanswered /\ SharedQueues /\ NeverForgotten /\ SingleCarrier

LEMMA ServerCarriersStep ==
    ASSUME ServerCarriers, [ServerNext]_serverVars PROVE ServerCarriers'
<1> USE DEF ServerCarriers
<1>1. AnswersTypeOK' /\ Unanswered' BY ServerAnswersStep
<1>2. SharedQueues' BY SharedQueuesStep
<1>3. CASE CarrierNext
  BY <1>1, <1>2, <1>3, SharedAreQueues, NeverForgottenStep, SingleCarrierStep
<1>4. CASE DocumentEffect
  <2>1. UNCHANGED <<pending, crashed, received>>
    BY <1>4 DEF DocumentEffect, requestVars
  <2>2. ASSUME NEW q \in Requests
        PROVE  /\ Carried(q)' <=> Carried(q)
               /\ InPool(q)' = InPool(q) /\ InWorkers(q)' = InWorkers(q)
               /\ InTasks(q)' = {} <=> InTasks(q) = {}
               /\ AtMostOne(InTasks(q)) => AtMostOne(InTasks(q)')
    <3>1. /\ InPool(q)' = InPool(q) /\ InWorkers(q)' = InWorkers(q)
          /\ \/ InTasks(q)' = InTasks(q)
             \/ InTasks(q)' = {i - 1 : i \in InTasks(q)}
      BY <1>4, CarriersKept
    <3>2. InTasks(q)' = {} <=> InTasks(q) = {} BY <3>1
    <3>3. AtMostOne(InTasks(q)) => AtMostOne(InTasks(q)')
      BY <3>1 DEF AtMostOne
    <3>4. QED BY <3>1, <3>2, <3>3 DEF Carried
  <2>3. NeverForgotten'
    BY <2>1, <2>2 DEF NeverForgotten, AnswersTypeOK
  <2>4. SingleCarrier'
    BY <2>1, <2>2 DEF SingleCarrier
  <2>5. QED BY <1>1, <1>2, <2>3, <2>4
<1>5. QED BY <1>3, <1>4, ServerCarries

LEMMA ServerCarriersAlways == ServerSpec => []ServerCarriers
<1>1. ServerInit => AnswersTypeOK /\ Unanswered
  BY DEF ServerInit, RequestsInit, AnswersTypeOK, Unanswered, AtMostOneReply
<1>2. ServerInit => NeverForgotten
  BY DEF ServerInit, RequestsInit, NeverForgotten
<1>3. ServerInit => SingleCarrier
  <2> SUFFICES ASSUME ServerInit, NEW r \in Requests
               PROVE  InTasks(r) = {} /\ InPool(r) = {} /\ InWorkers(r) = {}
    BY DEF SingleCarrier, AtMostOne, Carried
  <2>1. InTasks(r) = {} /\ InWorkers(r) = {}
    <3>1. RequestJob(r) # Idle BY DEF RequestJob, Idle
    <3>2. QED BY <3>1 DEF ServerInit, RuntimeInit, InTasks, InWorkers
  <2>2. InPool(r) = {}
    <3>1. PICK s \in Orders(InitWorkSpaces) :
              pool = [i \in DOMAIN s |-> CompileJob(s[i], {}, FALSE)]
      BY DEF ServerInit, PoolAtStart
    <3>2. IsFiniteSet(InitWorkSpaces) BY SubsetsFinite, DocumentsAssumption
    <3>3. DOMAIN s = 1..Len(s) /\ Len(s) \in Nat BY <3>2, OrderLists
    <3>4. pool \in Seq(Elems(pool)) BY SharedQueuesStart DEF SharedQueues
    <3>5. 1..Len(pool) = DOMAIN s BY <3>1, <3>4
    <3>6. \A w : CompileJob(w, {}, FALSE) # RequestJob(r)
      BY DEF CompileJob, RequestJob
    <3>7. \A i \in DOMAIN s : pool[i] # RequestJob(r) BY <3>1, <3>6
    <3>8. QED BY <3>5, <3>7 DEF InPool
  <2>3. QED BY <2>1, <2>2
<1>4. ServerInit => ServerCarriers
  BY <1>1, <1>2, <1>3, SharedQueuesStart DEF ServerCarriers
<1>5. ServerCarriers /\ [ServerNext]_serverVars => ServerCarriers'
  BY ServerCarriersStep
<1>6. QED BY <1>4, <1>5, PTL DEF ServerSpec

\* In the whole server a registered request is forgotten only by a panic of its
\* handler: no burst of file changes, diagnostics or compilations on the shared
\* channel and pool loses its job, its retry or its response, and a panic of
\* the main thread leaves them queued.
THEOREM ServerForgetsNothing == ServerSpec => []NeverForgotten
  BY ServerCarriersAlways, PTL DEF ServerCarriers

\* In the whole server no request is ever computed by two workers, nor does a
\* retry of it race its response.
THEOREM ServerCarriersAreSingle == ServerSpec => []OneCarrier
<1>1. ServerCarriers => OneCarrier
  BY SingleIsOne DEF ServerCarriers
<1>2. QED BY <1>1, ServerCarriersAlways, PTL
=============================================================================
