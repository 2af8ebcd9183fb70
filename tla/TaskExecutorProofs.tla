------------------------ MODULE TaskExecutorProofs ------------------------
(***************************************************************************)
(* Proofs about TaskExecutor, for every list of tasks, every capacity and  *)
(* every choice of the tasks that may die.  One inductive invariant, Inv,  *)
(* carries all of them: it says how the map of running tasks, the threads, *)
(* the channel and the reports fit together while run_all_tasks runs.      *)
(***************************************************************************)
EXTENDS TaskExecutor, FiniteSetTheorems, TLAPS

\* The threads that have sent their result.
HasSent(t) == thread[t] \in {"sent", "ended", "panicked"}

\* A task that waits to be loaded was not announced and has no thread, and it
\* waits once.
WaitingFresh ==
    /\ \A i, j \in 1..Len(waiting_tasks) :
          waiting_tasks[i] = waiting_tasks[j] => i = j
    /\ \A t \in Tasks :
          /\ report[t] = "none" <=> \E i \in 1..Len(waiting_tasks) : waiting_tasks[i] = t
          /\ report[t] = "none" <=> thread[t] = "none"

\* The map holds the tasks between their announcement and their last report,
\* and every thread that may still send.
MapMatches ==
    /\ running_tasks = {t \in Tasks : report[t] \in {"Wait", "Timeout"}}
    /\ \A t \in Tasks : thread[t] = "running" => t \in running_tasks

\* Results belong to tasks of the map that have sent, one for each.
ChannelMatches ==
    \A i \in 1..Len(channel) :
       /\ channel[i].task \in running_tasks /\ HasSent(channel[i].task)
       /\ res # NoResult => channel[i].task # res.task
       /\ \A j \in 1..Len(channel) : channel[i].task = channel[j].task => i = j

ReceivedMatches ==
    /\ res # NoResult => res.task \in running_tasks /\ HasSent(res.task)
    /\ step \in {"load", "wait"} => res = NoResult
    /\ step = "take" => res # NoResult

\* A task of the map that is still in the timeout queue was not reported late.
QueueUnreported ==
    \A i \in 1..Len(timeout_queue) :
       timeout_queue[i] \in running_tasks => report[timeout_queue[i]] = "Wait"

WhileRunning ==
    WaitingFresh /\ MapMatches /\ ChannelMatches /\ ReceivedMatches /\ QueueUnreported

\* After a run that returned Ok no thread is left that could send.
Inv ==
    /\ ExecutorTypeOK
    /\ outcome = "running" => WhileRunning
    /\ outcome = "ok" => \A t \in Tasks : thread[t] # "running"
    /\ OrphanedOnlyByError
-----------------------------------------------------------------------------

\* What the loading loop does to the waiting tasks and the timeout queue.
LEMMA LoadFacts ==
    ASSUME NEW S, NEW w \in Seq(S), w # <<>>, NEW q \in Seq(S)
    PROVE  /\ Head(w) \in S /\ Head(w) = w[1] /\ 1 \in 1..Len(w)
           /\ Tail(w) \in Seq(S) /\ Len(w) \in Nat /\ Len(Tail(w)) = Len(w) - 1
           /\ \A i \in 1..Len(Tail(w)) : Tail(w)[i] = w[i + 1] /\ i + 1 \in 1..Len(w)
           /\ Append(q, Head(w)) \in Seq(S)
           /\ Len(Append(q, Head(w))) = Len(q) + 1 /\ Len(q) \in Nat
           /\ \A i \in 1..Len(q) : Append(q, Head(w))[i] = q[i]
           /\ Append(q, Head(w))[Len(q) + 1] = Head(w)
  OBVIOUS

\* What sending does to the channel.
LEMMA SendFacts ==
    ASSUME NEW S, NEW c \in Seq(S), NEW e \in S
    PROVE  /\ Append(c, e) \in Seq(S) /\ Len(c) \in Nat
           /\ Len(Append(c, e)) = Len(c) + 1
           /\ \A i \in 1..Len(c) : Append(c, e)[i] = c[i]
           /\ Append(c, e)[Len(c) + 1] = e
  OBVIOUS

\* A result is not NoResult.
LEMMA ResultFacts ==
    \A r \in Results \ {NoResult} : r.task \in Tasks /\ r.status \in TaskStatus
  BY DEF Results

\* The variables keep their types.
LEMMA TypeStep ==
    ExecutorTypeOK /\ (outcome = "running" => ReceivedMatches) /\ [ExecutorNext]_execVars
        => ExecutorTypeOK'
<1> SUFFICES ASSUME ExecutorTypeOK, outcome = "running" => ReceivedMatches,
                    [ExecutorNext]_execVars
             PROVE  ExecutorTypeOK'
  OBVIOUS
<1>1. CASE LoadTask
  <2>1. waiting_tasks # <<>>
    BY <1>1 DEF LoadTask, CanLoad
  <2>2. /\ Head(waiting_tasks) \in Tasks /\ Tail(waiting_tasks) \in Seq(Tasks)
        /\ Append(timeout_queue, Head(waiting_tasks)) \in Seq(Tasks)
    BY <2>1, LoadFacts DEF ExecutorTypeOK
  <2>3. QED
    BY <1>1, <2>2 DEF LoadTask, NotifyOutcomes, ExecutorTypeOK, Outcomes
<1>2. CASE StopLoading
  BY <1>2 DEF StopLoading, waitVars, ExecutorTypeOK, Outcomes
<1>3. CASE Receive
  <2>1. Head(channel) \in Results /\ Tail(channel) \in Seq(Results \ {NoResult})
    BY <1>3 DEF Receive, ExecutorTypeOK
  <2>2. QED
    BY <1>3, <2>1 DEF Receive, waitVars, ExecutorTypeOK
<1>4. CASE RecvTimeout
  BY <1>4 DEF RecvTimeout, waitVars, ExecutorTypeOK
<1>5. CASE NotifyTimeouts
  <2>1. timeout_queue' \in Seq(Tasks)
    BY <1>5 DEF NotifyTimeouts, ExecutorTypeOK
  <2>2. report' \in [Tasks -> {"none", "Wait", "Timeout", "Finished"}]
    BY <1>5 DEF NotifyTimeouts, Told, ExecutorTypeOK
  <2>3. outcome' \in Outcomes
    BY <1>5 DEF NotifyTimeouts, Outcomes
  <2>4. QED
    BY <1>5, <2>1, <2>2, <2>3 DEF NotifyTimeouts, ExecutorTypeOK
<1>6. CASE TakeFinished
  <2>1. res \in Results \ {NoResult}
    BY <1>6 DEF TakeFinished, ReceivedMatches, ExecutorTypeOK
  <2>2. res.task \in Tasks
    BY <2>1, ResultFacts
  <2>3. QED
    BY <1>6, <2>2 DEF TakeFinished, NotifyOutcomes, ExecutorTypeOK, Outcomes, Results
<1>7. ASSUME NEW t \in Tasks, NEW status \in TaskStatus, Send(t, status)
      PROVE  ExecutorTypeOK'
  <2>1. [task |-> t, status |-> status] \in Results \ {NoResult}
    BY DEF Results, NoResult, TaskStatus
  <2>2. channel' \in Seq(Results \ {NoResult})
    <3>1. Append(channel, [task |-> t, status |-> status]) \in Seq(Results \ {NoResult})
      BY <2>1, SendFacts DEF ExecutorTypeOK
    <3>2. QED BY <1>7, <3>1 DEF Send, ExecutorTypeOK
  <2>3. thread' \in [Tasks -> {"none", "running", "sent", "ended", "panicked", "orphaned", "died"}]
    BY <1>7 DEF Send, ExecutorTypeOK
  <2>4. QED
    BY <1>7, <2>2, <2>3 DEF Send, waitVars, ExecutorTypeOK
<1>8. ASSUME NEW t \in Tasks, EndThread(t) PROVE ExecutorTypeOK'
  BY <1>8 DEF EndThread, waitVars, ExecutorTypeOK
<1>9. ASSUME NEW t \in Tasks, Die(t) PROVE ExecutorTypeOK'
  BY <1>9 DEF Die, waitVars, ExecutorTypeOK
<1>10. CASE PassDeadline
  BY <1>10 DEF PassDeadline, waitVars, ExecutorTypeOK
<1>11. CASE UNCHANGED execVars
  BY <1>11 DEF execVars, ExecutorTypeOK
<1>12. QED
  BY <1>1, <1>2, <1>3, <1>4, <1>5, <1>6, <1>7, <1>8, <1>9, <1>10, <1>11
     DEF ExecutorNext, Execute, Thread

\* A step that leaves run_all_tasks running keeps what fits together.
LEMMA RunningStep ==
    ASSUME Inv, [ExecutorNext]_execVars, outcome' = "running", ExecutorTypeOK'
    PROVE  WhileRunning'
<1> USE DEF WhileRunning
<1>1. CASE LoadTask
  <2> DEFINE task == Head(waiting_tasks)
  <2>1. /\ outcome = "running" /\ waiting_tasks # <<>> /\ step = "load"
        /\ waiting_tasks' = Tail(waiting_tasks)
        /\ report' = [report EXCEPT ![task] = "Wait"]
        /\ thread' = [thread EXCEPT ![task] = "running"]
        /\ running_tasks' = running_tasks \cup {task}
        /\ timeout_queue' = Append(timeout_queue, task)
        /\ UNCHANGED <<channel, res, step>>
    BY <1>1 DEF LoadTask, CanLoad
  <2>2. WaitingFresh /\ MapMatches /\ ChannelMatches /\ ReceivedMatches /\ QueueUnreported
    BY <2>1 DEF Inv
  <2>3. /\ task \in Tasks /\ task = waiting_tasks[1] /\ 1 \in 1..Len(waiting_tasks)
        /\ Len(waiting_tasks) \in Nat /\ Len(Tail(waiting_tasks)) = Len(waiting_tasks) - 1
        /\ \A i \in 1..Len(Tail(waiting_tasks)) :
              /\ Tail(waiting_tasks)[i] = waiting_tasks[i + 1]
              /\ i + 1 \in 1..Len(waiting_tasks)
        /\ Len(timeout_queue') = Len(timeout_queue) + 1 /\ Len(timeout_queue) \in Nat
        /\ \A i \in 1..Len(timeout_queue) : timeout_queue'[i] = timeout_queue[i]
        /\ timeout_queue'[Len(timeout_queue) + 1] = task
    BY <2>1, LoadFacts DEF Inv, ExecutorTypeOK
  <2>4. /\ report[task] = "none" /\ thread[task] = "none" /\ task \notin running_tasks
        /\ \A t \in Tasks : /\ report'[t] = IF t = task THEN "Wait" ELSE report[t]
                            /\ thread'[t] = IF t = task THEN "running" ELSE thread[t]
    BY <2>1, <2>2, <2>3 DEF WaitingFresh, MapMatches, Inv, ExecutorTypeOK
  <2> HIDE DEF task
  <2>5. WaitingFresh'
    <3>1. \A t \in Tasks : (\E i \in 1..Len(waiting_tasks') : waiting_tasks'[i] = t)
                              <=> (\E i \in 1..Len(waiting_tasks) : waiting_tasks[i] = t) /\ t # task
      <4>1. ASSUME NEW i \in 1..Len(waiting_tasks), waiting_tasks[i] # task
            PROVE  \E j \in 1..Len(waiting_tasks') : waiting_tasks'[j] = waiting_tasks[i]
        <5>1. i # 1 /\ i - 1 \in 1..Len(waiting_tasks')
          BY <4>1, <2>1, <2>3
        <5>2. waiting_tasks'[i - 1] = waiting_tasks[i]
          BY <5>1, <2>1, <2>3
        <5>3. QED BY <5>1, <5>2
      <4>2. ASSUME NEW i \in 1..Len(waiting_tasks')
            PROVE  /\ i + 1 \in 1..Len(waiting_tasks) /\ waiting_tasks'[i] = waiting_tasks[i + 1]
                   /\ waiting_tasks'[i] # task
        BY <2>1, <2>2, <2>3 DEF WaitingFresh
      <4>3. QED BY <4>1, <4>2
    <3>2. \A i, j \in 1..Len(waiting_tasks') : waiting_tasks'[i] = waiting_tasks'[j] => i = j
      BY <2>1, <2>2, <2>3 DEF WaitingFresh
    <3>3. QED BY <3>1, <3>2, <2>2, <2>4 DEF WaitingFresh
  <2>6. MapMatches'
    BY <2>1, <2>2, <2>3, <2>4 DEF MapMatches
  <2>7. ChannelMatches' /\ ReceivedMatches'
    BY <2>1, <2>2, <2>4 DEF ChannelMatches, ReceivedMatches, HasSent, MapMatches
  <2>8. QueueUnreported'
    BY <2>1, <2>2, <2>3, <2>4 DEF QueueUnreported, MapMatches
  <2>9. QED BY <2>5, <2>6, <2>7, <2>8
<1>2. CASE StopLoading \/ RecvTimeout
  BY <1>2 DEF StopLoading, RecvTimeout, waitVars, Inv, WaitingFresh, MapMatches,
              ChannelMatches, ReceivedMatches, QueueUnreported, HasSent
<1>3. CASE Receive
  <2>1. /\ outcome = "running" /\ channel # <<>> /\ step = "wait" /\ step' \in {"take", "timeouts"}
        /\ res' = Head(channel) /\ channel' = Tail(channel)
        /\ UNCHANGED <<waiting_tasks, running_tasks, timeout_queue, thread, report>>
    BY <1>3 DEF Receive, waitVars
  <2>2. /\ Head(channel) \in Results \ {NoResult} /\ Head(channel) = channel[1]
        /\ Len(channel) \in Nat /\ 1 \in 1..Len(channel)
        /\ Len(Tail(channel)) = Len(channel) - 1
        /\ \A i \in 1..Len(Tail(channel)) :
              Tail(channel)[i] = channel[i + 1] /\ i + 1 \in 1..Len(channel)
    BY <2>1, LoadFacts DEF Inv, ExecutorTypeOK
  <2>3. ChannelMatches'
    BY <2>1, <2>2 DEF Inv, ChannelMatches, HasSent
  <2>4. ReceivedMatches'
    BY <2>1, <2>2 DEF Inv, ChannelMatches, ReceivedMatches, HasSent
  <2>5. WaitingFresh' /\ MapMatches' /\ QueueUnreported'
    BY <2>1 DEF Inv, WaitingFresh, MapMatches, QueueUnreported
  <2>6. QED BY <2>3, <2>4, <2>5
<1>4. CASE NotifyTimeouts
  <2>1. PICK n \in 0..Len(timeout_queue) :
           /\ report' = Told(all_timed_out_tasks_info \cap Queued(n), "Timeout")
           /\ all_timed_out_tasks_info \cap Queued(n) = all_timed_out_tasks_info
    BY <1>4 DEF NotifyTimeouts
  <2>2. /\ outcome = "running" /\ step = "timeouts"
        /\ timeout_queue' = IF expired THEN <<>> ELSE timeout_queue
        /\ step' = IF res = NoResult THEN "wait" ELSE "take"
        /\ UNCHANGED <<waiting_tasks, running_tasks, channel, res, thread>>
    BY <1>4 DEF NotifyTimeouts
  <2>3. \A t \in Tasks : report'[t] = IF t \in all_timed_out_tasks_info THEN "Timeout" ELSE report[t]
    BY <2>1 DEF Told
  <2>4. all_timed_out_tasks_info \subseteq running_tasks
    BY DEF all_timed_out_tasks_info
  <2>5. MapMatches' /\ WaitingFresh'
    BY <2>2, <2>3, <2>4 DEF Inv, ExecutorTypeOK, MapMatches, WaitingFresh
  <2>6. ChannelMatches' /\ ReceivedMatches'
    BY <2>2 DEF Inv, ChannelMatches, ReceivedMatches, HasSent
  <2>7. QueueUnreported'
    <3>1. CASE expired
      BY <3>1, <2>2 DEF QueueUnreported
    <3>2. CASE ~expired
      <4>1. all_timed_out_tasks_info = {}
        BY <3>2 DEF all_timed_out_tasks_info
      <4>2. \A i \in 1..Len(timeout_queue) : timeout_queue[i] \in Tasks
        BY DEF Inv, ExecutorTypeOK
      <4>3. QED BY <3>2, <4>1, <4>2, <2>2, <2>3 DEF Inv, QueueUnreported
    <3>3. QED BY <3>1, <3>2
  <2>8. QED BY <2>5, <2>6, <2>7
<1>5. CASE TakeFinished
  <2>1. /\ outcome = "running" /\ step = "take"
        /\ thread[res.task] \in {"ended", "panicked"}
        /\ running_tasks' = running_tasks \ {res.task}
        /\ report' = [report EXCEPT ![res.task] = "Finished"]
        /\ res' = NoResult /\ step' = "load"
        /\ UNCHANGED <<waiting_tasks, timeout_queue, channel, thread>>
    BY <1>5 DEF TakeFinished
  <2>2. res # NoResult /\ res.task \in Tasks /\ res.task \in running_tasks
    BY <2>1, ResultFacts DEF Inv, ReceivedMatches, ExecutorTypeOK
  <2>3. \A t \in Tasks : report'[t] = IF t = res.task THEN "Finished" ELSE report[t]
    BY <2>1, <2>2 DEF Inv, ExecutorTypeOK
  <2>4. WaitingFresh' /\ MapMatches'
    BY <2>1, <2>2, <2>3 DEF Inv, WaitingFresh, MapMatches
  <2>5. ChannelMatches' /\ ReceivedMatches'
    BY <2>1, <2>2 DEF Inv, ChannelMatches, ReceivedMatches, HasSent
  <2>6. QueueUnreported'
    BY <2>1, <2>2, <2>3 DEF Inv, QueueUnreported, ExecutorTypeOK
  <2>7. QED BY <2>4, <2>5, <2>6
<1>6. ASSUME NEW t \in Tasks, NEW status \in TaskStatus, Send(t, status)
      PROVE  WhileRunning'
  <2> DEFINE r == [task |-> t, status |-> status]
  <2>1. /\ outcome = "running" /\ thread[t] = "running"
        /\ thread' = [thread EXCEPT ![t] = "sent"] /\ channel' = Append(channel, r)
        /\ UNCHANGED <<waiting_tasks, running_tasks, timeout_queue, res, step, report>>
    BY <1>6 DEF Send, ReceiverAlive, waitVars
  <2>2. r \in Results \ {NoResult} /\ r.task = t
    BY DEF Results, NoResult, TaskStatus
  <2>3. /\ Len(channel) \in Nat /\ Len(channel') = Len(channel) + 1
        /\ \A i \in 1..Len(channel) : channel'[i] = channel[i]
        /\ channel'[Len(channel) + 1] = r
    BY <2>1, <2>2, SendFacts DEF Inv, ExecutorTypeOK
  <2>4. \A u \in Tasks : thread'[u] = IF u = t THEN "sent" ELSE thread[u]
    BY <2>1 DEF Inv, ExecutorTypeOK
  <2>5. t \in running_tasks /\ ~HasSent(t) /\ running_tasks \subseteq Tasks
    BY <2>1 DEF Inv, MapMatches, HasSent
  <2> HIDE DEF r
  <2>6. WaitingFresh' /\ MapMatches' /\ QueueUnreported'
    BY <2>1, <2>4, <2>5 DEF Inv, WaitingFresh, MapMatches, QueueUnreported
  <2>7. ReceivedMatches'
    BY <2>1, <2>4, <2>5 DEF Inv, ReceivedMatches, HasSent
  <2>8. ChannelMatches'
    <3>1. \A i \in 1..Len(channel) : channel[i].task # t
      BY <2>1, <2>5 DEF Inv, ChannelMatches
    <3>2. res # NoResult => res.task # t
      BY <2>1, <2>5 DEF Inv, ReceivedMatches
    <3>3. ASSUME NEW i \in 1..Len(channel')
          PROVE  /\ channel'[i].task \in running_tasks'
                 /\ thread'[channel'[i].task] \in {"sent", "ended", "panicked"}
                 /\ res' # NoResult => channel'[i].task # res'.task
                 /\ \A j \in 1..Len(channel') : channel'[i].task = channel'[j].task => i = j
      <4>1. CASE i \in 1..Len(channel)
        BY <4>1, <3>1, <2>1, <2>2, <2>3, <2>4, <2>5 DEF Inv, ChannelMatches, HasSent
      <4>2. CASE i = Len(channel) + 1
        BY <4>2, <3>1, <3>2, <2>1, <2>2, <2>3, <2>4, <2>5 DEF HasSent
      <4>3. QED BY <4>1, <4>2, <2>3
    <3>4. QED BY <3>3 DEF ChannelMatches, HasSent
  <2>9. QED BY <2>6, <2>7, <2>8
<1>7. ASSUME NEW t \in Tasks, EndThread(t) \/ Die(t) PROVE WhileRunning'
  <2>1. /\ outcome = "running" /\ thread[t] \in {"sent", "running"}
        /\ \E end \in {"ended", "panicked", "died"} :
              thread' = [thread EXCEPT ![t] = end] /\ (end = "died" <=> thread[t] = "running")
        /\ UNCHANGED <<waiting_tasks, running_tasks, timeout_queue, channel, res, step, report>>
    BY <1>7 DEF EndThread, Die, waitVars
  <2>2. \A u \in Tasks : /\ HasSent(u)' <=> HasSent(u)
                         /\ thread'[u] = "running" => thread[u] = "running"
                         /\ thread'[u] = "none" <=> thread[u] = "none"
    BY <2>1 DEF Inv, ExecutorTypeOK, HasSent
  <2>3. WaitingFresh' /\ MapMatches' /\ QueueUnreported'
    BY <2>1, <2>2 DEF Inv, WaitingFresh, MapMatches, QueueUnreported
  <2>4. ChannelMatches' /\ ReceivedMatches'
    <3>1. running_tasks \subseteq Tasks
      BY DEF Inv, ExecutorTypeOK
    <3>2. QED BY <3>1, <2>1, <2>2 DEF Inv, ChannelMatches, ReceivedMatches
  <2>5. QED BY <2>3, <2>4
<1>8. CASE PassDeadline \/ UNCHANGED execVars
  BY <1>8 DEF PassDeadline, execVars, waitVars, Inv, WaitingFresh, MapMatches,
              ChannelMatches, ReceivedMatches, QueueUnreported, HasSent
<1>9. QED
  BY <1>1, <1>2, <1>3, <1>4, <1>5, <1>6, <1>7, <1>8 DEF ExecutorNext, Execute, Thread

\* A thread loses its receiver only to the notifier's error.
LEMMA EndStep ==
    ASSUME Inv, [ExecutorNext]_execVars
    PROVE  /\ outcome' = "ok" => \A t \in Tasks : thread'[t] # "running"
           /\ OrphanedOnlyByError'
<1> USE DEF Inv, ExecutorTypeOK, OrphanedOnlyByError
<1>1. CASE LoadTask
  <2>1. Head(waiting_tasks) \in Tasks
    BY <1>1, LoadFacts DEF LoadTask, CanLoad
  <2>2. QED BY <1>1, <2>1 DEF LoadTask, NotifyOutcomes
<1>2. CASE StopLoading
  BY <1>2 DEF StopLoading, waitVars, WhileRunning, MapMatches
<1>3. CASE Receive \/ RecvTimeout \/ PassDeadline \/ UNCHANGED execVars
  BY <1>3 DEF Receive, RecvTimeout, PassDeadline, execVars, waitVars
<1>4. CASE NotifyTimeouts
  <2>1. outcome = "running" /\ outcome' \in {"running", "error"} /\ thread' = thread
    BY <1>4 DEF NotifyTimeouts
  <2>2. QED BY <2>1
<1>5. CASE TakeFinished
  BY <1>5 DEF TakeFinished, NotifyOutcomes
<1>6. ASSUME NEW t \in Tasks, NEW status \in TaskStatus, Send(t, status)
      PROVE  /\ outcome' = "ok" => \A u \in Tasks : thread'[u] # "running"
             /\ OrphanedOnlyByError'
  BY <1>6 DEF Send, ReceiverAlive, Outcomes
<1>7. ASSUME NEW t \in Tasks, EndThread(t) \/ Die(t)
      PROVE  /\ outcome' = "ok" => \A u \in Tasks : thread'[u] # "running"
             /\ OrphanedOnlyByError'
  BY <1>7 DEF EndThread, Die
<1>8. QED
  BY <1>1, <1>2, <1>3, <1>4, <1>5, <1>6, <1>7 DEF ExecutorNext, Execute, Thread

\* At the start every task waits, once, and nothing else has happened.
LEMMA InvStart == ExecutorStart => Inv
<1> SUFFICES ASSUME ExecutorStart PROVE Inv
  OBVIOUS
<1>1. \A t \in Tasks : \E i \in 1..Len(waiting_tasks) : waiting_tasks[i] = t
  BY DEF ExecutorStart, Tasks
<1>2. ExecutorTypeOK
  BY TaskListAssumption DEF ExecutorStart, ExecutorTypeOK, Results, Outcomes
<1>3. WaitingFresh
  BY <1>1, TaskListAssumption DEF ExecutorStart, WaitingFresh
<1>4. MapMatches /\ ChannelMatches /\ ReceivedMatches /\ QueueUnreported
  BY DEF ExecutorStart, MapMatches, ChannelMatches, ReceivedMatches, QueueUnreported
<1>5. QED
  BY <1>2, <1>3, <1>4 DEF ExecutorStart, Inv, WhileRunning, OrphanedOnlyByError

\* Inv is an invariant of run_all_tasks and its threads.
LEMMA InvHolds == ExecutorSpec => []Inv
<1>1. Inv /\ [ExecutorNext]_execVars => Inv'
  <2> SUFFICES ASSUME Inv, [ExecutorNext]_execVars PROVE Inv'
    OBVIOUS
  <2>1. ExecutorTypeOK'
    BY TypeStep DEF Inv, WhileRunning
  <2>2. QED BY <2>1, RunningStep, EndStep DEF Inv
<1>2. QED BY InvStart, <1>1, PTL DEF ExecutorSpec

-----------------------------------------------------------------------------

\* running_tasks.remove finds the task of every result, whatever the order of
\* results, deadline and failures: its None arm is never reached.
THEOREM ResultsFindTheirTasks == ExecutorSpec => []ResultsAwaited
<1>1. Inv => ResultsAwaited
  BY DEF Inv, WhileRunning, ChannelMatches, ReceivedMatches, ResultsAwaited
<1>2. QED BY <1>1, InvHolds, PTL

\* A thread whose send finds no receiver is possible only after the notifier
\* returned an error: neither Ok nor a bug drops the receiver under a thread.
THEOREM ReceiverOutlivesThreads == ExecutorSpec => []OrphanedOnlyByError
<1>1. Inv => OrphanedOnlyByError
  BY DEF Inv
<1>2. QED BY <1>1, InvHolds, PTL

\* Every step of the executor is an event of TaskReports or none.
LEMMA ReportsStep ==
    ASSUME Inv, Inv', [ExecutorNext]_execVars
    PROVE  Reports!ReportsNext \/ UNCHANGED <<report, outcome>>
<1>1. outcome = "running" => Reports!Active = running_tasks
  BY DEF Inv, WhileRunning, MapMatches, Reports!Active
<1>2. CASE LoadTask
  <2> DEFINE task == Head(waiting_tasks)
  <2>1. /\ outcome = "running" /\ outcome' \in {"running", "error"}
        /\ report' = [report EXCEPT ![task] = "Wait"]
        /\ Cardinality(running_tasks) < Capacity /\ waiting_tasks # <<>>
    BY <1>2 DEF LoadTask, CanLoad, NotifyOutcomes
  <2>2. task \in Tasks /\ task = waiting_tasks[1] /\ 1 \in 1..Len(waiting_tasks)
    BY <2>1, LoadFacts DEF Inv, ExecutorTypeOK
  <2>3. report[task] = "none"
    BY <2>1, <2>2 DEF Inv, WhileRunning, WaitingFresh
  <2>4. Reports!Announce(task)
    <3>1. Reports!Cardinality(Reports!Active) = Cardinality(running_tasks)
      BY <2>1, <1>1, Zenon DEF Reports!Cardinality, Cardinality
    <3>2. QED BY <2>1, <2>3, <3>1 DEF Reports!Announce
  <2>5. QED BY <2>1, <2>2, <2>4 DEF Reports!ReportsNext, Reports!ReportsStep
<1>3. CASE StopLoading
  <2>1. CASE running_tasks = {}
    <3>1. /\ outcome = "running" /\ outcome' = "ok" /\ report' = report
          /\ ~(Cardinality(running_tasks) < Capacity /\ waiting_tasks # <<>>)
      BY <1>3, <2>1 DEF StopLoading, CanLoad
    <3>2. Cardinality(running_tasks) = 0
      BY <2>1, FS_EmptySet
    <3>3. waiting_tasks = <<>>
      BY <3>1, <3>2, CapacityAssumption
    <3>4. \A t \in Tasks : report[t] = "Finished"
      BY <3>1, <3>3, <2>1 DEF Inv, ExecutorTypeOK, WhileRunning, WaitingFresh, MapMatches
    <3>5. QED BY <3>1, <3>4 DEF Reports!ReportsNext, Reports!Return
  <2>2. CASE running_tasks # {}
    BY <1>3, <2>2 DEF StopLoading
  <2>3. QED BY <2>1, <2>2
<1>4. CASE NotifyTimeouts
  <2>1. outcome = "running" /\ outcome' \in {"running", "error"}
    BY <1>4 DEF NotifyTimeouts
  <2>2. PICK n \in 0..Len(timeout_queue) :
           LET told == all_timed_out_tasks_info \cap Queued(n)
           IN  /\ report' = Told(told, "Timeout")
               /\ outcome' = "running" \/ told # {}
    BY <1>4 DEF NotifyTimeouts
  <2> DEFINE told == all_timed_out_tasks_info \cap Queued(n)
  <2>3. told \subseteq running_tasks
    BY DEF all_timed_out_tasks_info
  <2>4. \A t \in told : report[t] = "Wait"
    <3> SUFFICES ASSUME NEW t \in told PROVE report[t] = "Wait"
      OBVIOUS
    <3>1. PICK i \in 1..n : timeout_queue[i] = t
      BY DEF Queued
    <3>2. i \in 1..Len(timeout_queue)
      BY DEF Inv, ExecutorTypeOK
    <3>3. QED BY <3>1, <3>2, <2>1, <2>3 DEF Inv, WhileRunning, QueueUnreported
  <2>5. report' = [t \in Tasks |-> IF t \in told THEN "Timeout" ELSE report[t]]
    BY <2>2 DEF Told
  <2> HIDE DEF told
  <2>6. CASE told = {}
    <3>1. outcome' = "running"
      BY <2>2, <2>6 DEF told
    <3>2. report' = report
      BY <2>5, <2>6 DEF Inv, ExecutorTypeOK
    <3>3. QED BY <3>1, <3>2, <2>1
  <2>7. CASE told # {}
    <3>1. Reports!PassDeadline
      BY <2>3, <2>4, <2>5, <2>7, <2>1, <1>1 DEF Reports!PassDeadline
    <3>2. QED BY <3>1, <2>1 DEF Reports!ReportsNext, Reports!ReportsStep
  <2>8. QED BY <2>6, <2>7
<1>5. CASE TakeFinished
  <2>1. outcome = "running" /\ step = "take"
    BY <1>5 DEF TakeFinished
  <2>2. res.task \in Tasks /\ res.task \in running_tasks
    BY <2>1, ResultFacts DEF Inv, WhileRunning, ReceivedMatches, ExecutorTypeOK
  <2>3. CASE FoundBug(res)
    <3>1. outcome' = "bug" /\ report' = report
      BY <1>5, <2>3 DEF TakeFinished
    <3>2. QED BY <3>1, <2>1, <2>2, <1>1 DEF Reports!ReportsNext, Reports!Return
  <2>4. CASE ~FoundBug(res)
    <3>1. outcome' \in {"running", "error"} /\ report' = [report EXCEPT ![res.task] = "Finished"]
      BY <1>5, <2>4 DEF TakeFinished, NotifyOutcomes
    <3>2. Reports!Complete(res.task)
      BY <3>1, <2>1, <2>2, <1>1 DEF Reports!Complete
    <3>3. QED BY <3>1, <3>2, <2>1, <2>2 DEF Reports!ReportsNext, Reports!ReportsStep
  <2>5. QED BY <2>3, <2>4
<1>6. CASE Receive \/ RecvTimeout \/ PassDeadline \/ UNCHANGED execVars
  BY <1>6 DEF Receive, RecvTimeout, PassDeadline, execVars
<1>7. CASE \E t \in Tasks : Thread(t) \/ Die(t)
  BY <1>7 DEF Thread, Send, EndThread, Die
<1>8. QED
  BY <1>2, <1>3, <1>4, <1>5, <1>6, <1>7 DEF ExecutorNext, Execute

\* The timeout executor implements TaskReports: every task is announced once,
\* late at most once and never after its end, finished once, no more than
\* Capacity at a time, and all of them before Ok.
THEOREM ImplementsReports == ExecutorSpec => ReportsImplemented
<1>1. ExecutorStart => Reports!ReportsInit
  BY DEF ExecutorStart, Reports!ReportsInit
<1>2. Inv /\ Inv' /\ [ExecutorNext]_execVars => [Reports!ReportsNext]_(Reports!reportVars)
  BY ReportsStep DEF Reports!reportVars
<1>3. QED
  BY <1>1, <1>2, InvHolds, PTL DEF ExecutorSpec, ReportsImplemented, Reports!ReportsSpec
=============================================================================
