----------------------------- MODULE JobsProofs -----------------------------
(* For every set of jobs, locks and calls: types, Job.abort, the holders   *)
(* of a lock, and the life of a job: its transitions, its end and the      *)
(* deque that lists it.                                                    *)
EXTENDS Jobs, SequenceTheorems, TLAPS

\* list.remove / del dict[key] on a sequence: one element goes, the others keep
\* their order.
LEMMA RemoveAtProperties ==
    ASSUME NEW S, NEW s \in Seq(S), NEW i \in DOMAIN s
    PROVE  /\ RemoveAt(s, i) \in Seq(S)
           /\ Len(RemoveAt(s, i)) = Len(s) - 1
           /\ \A k \in 1..(Len(s) - 1) : RemoveAt(s, i)[k] = IF k < i THEN s[k] ELSE s[k + 1]
<1> DEFINE a == SubSeq(s, 1, i - 1)
           b == SubSeq(s, i + 1, Len(s))
<1>1. i \in 1..Len(s) /\ Len(s) \in Nat
  BY LenProperties, Zenon
<1>2. /\ a \in Seq(S)
      /\ Len(a) = i - 1
      /\ \A k \in 1..(i - 1) : a[k] = s[k]
  BY <1>1, SubSeqProperties
<1>3. /\ b \in Seq(S)
      /\ Len(b) = Len(s) - i
      /\ \A k \in 1..(Len(s) - i) : b[k] = s[i + k]
  BY <1>1, SubSeqProperties
<1>4. RemoveAt(s, i) = a \o b
  BY Zenon DEF RemoveAt
<1> HIDE DEF a, b
<1>5. /\ a \o b \in Seq(S)
      /\ Len(a \o b) = Len(a) + Len(b)
      /\ \A k \in 1..(Len(a) + Len(b)) : (a \o b)[k] = IF k <= Len(a) THEN a[k] ELSE b[k - Len(a)]
  BY <1>2, <1>3, ConcatProperties, ZenonT(120)
<1>6. ASSUME NEW k \in 1..(Len(s) - 1)
      PROVE  (a \o b)[k] = IF k < i THEN s[k] ELSE s[k + 1]
  <2>1. CASE k < i
    <3>1. k \in 1..(i - 1) /\ k \in 1..(Len(a) + Len(b)) /\ k <= Len(a)
      BY <1>1, <1>2, <1>3, <2>1, SMTT(60)
    <3>2. (a \o b)[k] = a[k]
      BY <1>5, <3>1, Zenon
    <3>3. a[k] = s[k]
      BY <1>2, <3>1, Zenon
    <3> QED
      BY <2>1, <3>2, <3>3, Zenon
  <2>2. CASE ~(k < i)
    <3>1. k - (i - 1) \in 1..(Len(s) - i) /\ i + (k - (i - 1)) = k + 1
      BY <1>1, <2>2
    <3>2. (a \o b)[k] = b[k - (i - 1)]
      <4>1. Len(a) + Len(b) = Len(s) - 1 /\ ~(k <= Len(a))
        BY <1>1, <1>2, <1>3, <2>2, SMTT(60)
      <4> QED
        BY <1>2, <1>5, <4>1, Zenon
    <3>3. b[k - (i - 1)] = s[i + (k - (i - 1))]
      BY <1>3, <3>1, Zenon
    <3> QED
      BY <3>1, <3>2, <3>3, <2>2, Zenon
  <2> QED
    BY <2>1, <2>2, ZenonT(30)
<1>7. Len(a) + Len(b) = Len(s) - 1
  BY <1>1, <1>2, <1>3
<1> QED
  BY <1>4, <1>5, <1>6, <1>7, Zenon

-----------------------------------------------------------------------------
(* Types                                                                   *)

\* Where the elements of a queue are after one has been appended to it.
LEMMA AppendFacts ==
    ASSUME NEW s \in Seq(Jobs), NEW e \in Jobs
    PROVE  /\ DOMAIN Append(s, e) = 1..(Len(s) + 1)
           /\ DOMAIN s = 1..Len(s)
           /\ Len(s) \in Nat
           /\ \A i \in 1..Len(s) : Append(s, e)[i] = s[i]
           /\ Append(s, e)[Len(s) + 1] = e
           /\ \A i \in 1..(Len(s) + 1) : i \in 1..Len(s) \/ i = Len(s) + 1
  OBVIOUS

\* JobsDeque.add and JobsDeque.remove keep a sequence of jobs.
LEMMA DequeType ==
    ASSUME deque \in Seq(Jobs), NEW j \in Jobs, deque_add(j) \/ deque_remove(j)
    PROVE  deque' \in Seq(Jobs)
<1>1. ASSUME NEW i \in DOMAIN deque PROVE RemoveAt(deque, i) \in Seq(Jobs)
  BY RemoveAtProperties, Zenon
<1>2. ASSUME NEW s \in Seq(Jobs) PROVE Append(s, j) \in Seq(Jobs)
  BY AppendProperties, Zenon
<1> QED
  BY <1>1, <1>2, ZenonT(30) DEF deque_add, deque_remove

\* handle_lock() stores a lock object that exists, or the one the job makes.
LEMMA HandleLockType ==
    ASSUME TypeOK, NEW j \in Jobs, Call[j].lock # LockError, handle_lock(j)
    PROVE  /\ lock' \in [Jobs -> Jobs \cup {None}]
           /\ job_locks' \in [Locks -> Jobs \cup {None}]
           /\ lock_jobs' \in [Jobs -> SUBSET Jobs]
           /\ locked' \in [Jobs -> BOOLEAN]
<1>1. Call[j].lock \in Locks \cup {None}
  BY JobsAssumption, Zenon DEF Calls
<1>2. CASE Call[j].lock = None
  BY <1>2, ZenonT(120) DEF TypeOK, handle_lock, lockVars
<1>3. CASE Call[j].lock \in Locks
  <2>1. SharedLock(j) \in Jobs
    BY <1>3, JobsAssumption, ZenonT(120) DEF SharedLock, TypeOK
  <2> QED
    <3>1. Call[j].lock # None
      BY <1>3, JobsAssumption, Zenon
    <3>2. /\ job_locks' = [job_locks EXCEPT ![Call[j].lock] = SharedLock(j)]
          /\ lock_jobs' = [lock_jobs EXCEPT ![SharedLock(j)] = @ \cup {j}]
          /\ lock' = [lock EXCEPT ![j] = SharedLock(j)]
          /\ UNCHANGED locked
      BY <3>1, Zenon DEF handle_lock
    <3> QED
      BY <1>3, <2>1, <3>2, ZenonT(120) DEF TypeOK
<1> QED
  BY <1>1, <1>2, <1>3, Zenon

\* A job waits for its callback only if it has one, so that what Notified logs is a call.
CallbackSet == \A j \in Jobs : pc[j] = "notifying" => on_finish_cb[j] # None

\* Every step of the model keeps the types of the variables.
THEOREM TypeInvariance == Spec => []TypeOK
<1>1. Init => TypeOK /\ CallbackSet
  BY DEF Init, TypeOK, PCs, States, CallbackSet
<1>2. TypeOK /\ CallbackSet /\ [Next]_vars => TypeOK'
  <2> SUFFICES ASSUME TypeOK, CallbackSet, [Next]_vars PROVE TypeOK'
    OBVIOUS
  <2>1. CASE UNCHANGED vars
    BY <2>1, Zenon DEF TypeOK, vars, jobVars, lockVars, abortVars, callVars, queueVars
  <2>2. CASE Schedule
    <3>1. ASSUME NEW i \in DOMAIN queue PROVE RemoveAt(queue, i) \in Seq(Jobs) /\ queue[i] \in Jobs
      BY RemoveAtProperties DEF TypeOK
    <3>2. CASE next_found
      <4>1. PICK i \in DOMAIN queue : next_found!(i)
        BY <3>2, ZenonT(30) DEF next_found
      <4> QED
        BY <2>2, <3>1, <4>1, Zenon DEF Schedule, TypeOK, PCs, abortVars, callVars
    <3>3. CASE next_none
      BY <2>2, <3>3, Zenon DEF Schedule, next_none, TypeOK, abortVars, callVars
    <3> QED
      BY <2>2, <3>2, <3>3, Zenon DEF Schedule
  <2>3. ASSUME NEW j \in Jobs, add(j) PROVE TypeOK'
    <3> USE <2>3 DEF add
    <3>1. CASE add_rejected(j)
      <4>1. /\ lock' \in [Jobs -> Jobs \cup {None}]
            /\ job_locks' \in [Locks -> Jobs \cup {None}]
            /\ lock_jobs' \in [Jobs -> SUBSET Jobs]
            /\ locked' \in [Jobs -> BOOLEAN]
        <5>1. CASE UNCHANGED lockVars
          BY <5>1, Zenon DEF TypeOK, lockVars
        <5>2. CASE Call[j].lock # LockError /\ handle_lock(j)
          BY <5>2, HandleLockType, Zenon
        <5> QED
          BY <3>1, <5>1, <5>2, ZenonT(30) DEF add_rejected
      <4> QED
        BY <3>1, <4>1, ZenonT(120) DEF add_rejected, Raise, TypeOK, PCs, abortVars, queueVars
    <3>2. CASE add_merged(j)
      <4>1. PICK i \in DOMAIN queue : Return(j, queue[i])
        BY <3>2, Zenon DEF add_merged, shareable, queued_jobs
      <4>2. queue[i] \in Jobs
        BY DEF TypeOK
      <4>3. /\ lock' \in [Jobs -> Jobs \cup {None}]
            /\ job_locks' \in [Locks -> Jobs \cup {None}]
            /\ lock_jobs' \in [Jobs -> SUBSET Jobs]
            /\ locked' \in [Jobs -> BOOLEAN]
        BY <3>2, HandleLockType, Zenon DEF add_merged
      <4>4. /\ ret' \in [Jobs -> Jobs \cup {None}]
            /\ on_finish_cb' \in [Jobs -> Jobs \cup {None}]
            /\ caller' \in [Jobs -> {"idle", "blocked", "returned", "raised"}]
            /\ audited' \subseteq Jobs
        BY <4>1, <4>2, Zenon DEF Return, TypeOK
      <4>5. pc' \in [Jobs -> PCs] /\ UNCHANGED queueVars
        BY <3>2, Zenon DEF add_merged, TypeOK, PCs
      <4> QED
        BY <4>3, <4>4, <4>5, Zenon DEF TypeOK, abortVars, queueVars
    <3>3. CASE add_queued(j)
      BY <3>3, HandleLockType, DequeType DEF add_queued, Return, TypeOK, PCs, abortVars
    <3> QED
      BY <3>1, <3>2, <3>3, Zenon
  <2>4. ASSUME NEW j \in Jobs, CallOnLoop(j) \/ Callback(j) PROVE TypeOK'
    BY <2>3, <2>4, Zenon DEF CallOnLoop, Callback
  <2>5. ASSUME NEW j \in Jobs, CallFromThread(j) PROVE TypeOK'
    BY <2>5, Zenon DEF CallFromThread, TypeOK, PCs, lockVars, abortVars, queueVars
  <2>6. ASSUME NEW j \in Jobs, Receive(j) PROVE TypeOK'
    BY <2>6, Zenon DEF Receive, TypeOK, PCs, lockVars, abortVars, callVars, queueVars
  <2>7. ASSUME NEW j \in Jobs, Received(j) PROVE TypeOK'
    BY <2>7 DEF Received, TypeOK, PCs, States, Terminal, lockVars, abortVars, callVars
  <2>8. ASSUME NEW j \in Jobs, JobStep(j) PROVE TypeOK'
    <3> USE DEF TypeOK, PCs, States, lockVars, abortVars, callVars, queueVars, Goto, set_state
    <3>1. CASE StartLogging(j)
      BY <3>1, Zenon DEF StartLogging
    <3>2. CASE LoggingStarted(j)
      BY <3>2, ZenonT(120) DEF LoggingStarted
    <3>3. CASE RunCheck(j)
      <4>1. CASE aborted[j]
        <5>1. /\ state' = [state EXCEPT ![j] = "ABORTED"]
              /\ outcome' = [outcome EXCEPT ![j] = "skipped"]
              /\ pc' = [pc EXCEPT ![j] = "closing"]
              /\ UNCHANGED <<loop, finished, lockVars, abortVars, callVars, queueVars>>
          BY <3>3, <4>1, Zenon DEF RunCheck
        <5> QED
          BY <5>1, Zenon
      <4>2. CASE ~aborted[j]
        BY <3>3, <4>2, ZenonT(120) DEF RunCheck
      <4> QED
        BY <4>1, <4>2, Zenon
    <3>4. CASE RunStart(j)
      BY <3>4, Zenon DEF RunStart
    <3>5. CASE RunFuture(j)
      BY <3>5, Zenon DEF RunFuture
    <3>6. CASE BodyStart(j)
      <4>1. CASE cancelled[j]
        <5>1. /\ outcome' = [outcome EXCEPT ![j] = "cancelled"]
              /\ pc' = [pc EXCEPT ![j] = "ended"]
              /\ UNCHANGED <<state, finished, lockVars, abortVars, callVars, queueVars, loop>>
          BY <3>6, <4>1, Zenon DEF BodyStart
        <5> QED
          BY <5>1, Zenon
      <4>2. CASE ~cancelled[j]
        BY <3>6, <4>2 DEF BodyStart
      <4> QED
        BY <4>1, <4>2, Zenon
    <3>7. CASE BodyReturn(j)
      BY <3>7, Zenon DEF BodyReturn
    <3>8. CASE BodyRaise(j)
      BY <3>8 DEF BodyRaise
    <3>9. CASE RunResume(j)
      <4>1. state' \in [Jobs -> States]
        <5>1. \/ UNCHANGED state
              \/ state' = [state EXCEPT ![j] = "FAILED"]
              \/ state' = [state EXCEPT ![j] = "ABORTED"]
          BY <3>9, Zenon DEF RunResume
        <5> QED
          BY <5>1, ZenonT(120)
      <4> QED
        BY <3>9, <4>1, ZenonT(30) DEF RunResume
    <3>10. CASE ClosePipes(j)
      BY <3>10, ZenonT(120) DEF ClosePipes
    <3>11. CASE Finish(j)
      <4>1. deque' \in Seq(Jobs)
        BY <3>11, DequeType, Zenon DEF Finish
      <4>2. /\ lock' \in [Jobs -> Jobs \cup {None}]
            /\ job_locks' \in [Locks -> Jobs \cup {None}]
            /\ lock_jobs' \in [Jobs -> SUBSET Jobs]
            /\ locked' \in [Jobs -> BOOLEAN]
            /\ queue_event' \in {"set", "clear"}
        <5>1. CASE lock[j] = None
          BY <3>11, <5>1, ZenonT(120) DEF Finish, release_lock
        <5>2. CASE lock[j] # None
          <6>1. /\ lock_jobs' = [lock_jobs EXCEPT ![lock[j]] = @ \ {j}]
                /\ locked' = [locked EXCEPT ![lock[j]] = FALSE]
                /\ \/ job_locks' = job_locks
                   \/ job_locks' = [job_locks EXCEPT ![Call[j].lock] = None]
                /\ queue_event' = "set"
                /\ UNCHANGED lock
            BY <3>11, <5>2, Zenon DEF Finish, release_lock
          <6> QED
            BY <5>2, <6>1, ZenonT(120)
        <5> QED
          BY <5>1, <5>2, Zenon
      <4>3. \E p \in {"done", "notifying"} : pc' = [pc EXCEPT ![j] = p]
        BY <3>11, Zenon DEF Finish
      <4> QED
        BY <3>11, <4>1, <4>2, <4>3 DEF Finish
    <3>12. CASE Notified(j)
      <4>1. deque' \in Seq(Jobs)
        BY <3>12, DequeType, Zenon DEF Notified
      <4>2. on_finish_cb[j] \in Jobs
        BY <3>12, Zenon DEF Notified, CallbackSet
      <4> QED
        BY <3>12, <4>1, <4>2, Zenon DEF Notified
    <3> QED
      BY <2>8, <3>1, <3>2, <3>3, <3>4, <3>5, <3>6, <3>7, <3>8, <3>9, <3>10, <3>11, <3>12, ZenonT(120) DEF JobStep
  <2>9. ASSUME NEW j \in Jobs, AbortRead(j) PROVE TypeOK'
    BY <2>9, ZenonT(120) DEF AbortRead, TypeOK, jobVars, lockVars, callVars, queueVars
  <2>10. ASSUME NEW j \in Jobs, AbortStep(j) PROVE TypeOK'
    <3>1. CASE AbortReadState(j)
      BY <3>1, Zenon DEF AbortReadState, TypeOK, jobVars, lockVars, callVars, queueVars
    <3>2. CASE AbortSet(j)
      BY <3>2, Zenon DEF AbortSet, TypeOK, jobVars, lockVars, callVars, queueVars
    <3>3. CASE CancelFuture(j)
      <4>1. cancel_posted \in [Jobs -> BOOLEAN] /\ cancelled \in [Jobs -> BOOLEAN]
        BY Zenon DEF TypeOK
      <4>2. cancel_posted' \in [Jobs -> BOOLEAN] /\ cancelled' \in [Jobs -> BOOLEAN]
        BY <3>3, <4>1, Zenon DEF CancelFuture
      <4> QED
        BY <3>3, <4>2, ZenonT(30) DEF CancelFuture, TypeOK, jobVars, lockVars, callVars, queueVars
    <3> QED
      BY <2>10, <3>1, <3>2, <3>3, Zenon DEF AbortStep
  <2> QED
    BY <2>1, <2>2, <2>4, <2>5, <2>6, <2>7, <2>8, <2>9, <2>10, Zenon DEF Next
<1>3. TypeOK /\ CallbackSet /\ [Next]_vars => CallbackSet'
  <2> SUFFICES ASSUME TypeOK, CallbackSet, [Next]_vars, NEW k \in Jobs, pc'[k] = "notifying"
               PROVE  on_finish_cb'[k] # None
    BY ZenonT(30) DEF CallbackSet
  <2>a. /\ pc \in [Jobs -> PCs] /\ on_finish_cb \in [Jobs -> Jobs \cup {None}]
        /\ pc[k] = "notifying" => on_finish_cb[k] # None
    BY Zenon DEF TypeOK, CallbackSet
  <2>b. queue \in Seq(Jobs)
    BY Zenon DEF TypeOK
  <2>1. CASE UNCHANGED vars
    BY <2>1, <2>a, Zenon DEF vars, jobVars, callVars
  <2>2. CASE Schedule
    <3>1. pc'[k] = pc[k] \/ pc'[k] = "picked"
      BY <2>2, <2>a, Zenon DEF Schedule, next_found, next_none
    <3> QED
      BY <2>2, <2>a, <3>1, Zenon DEF Schedule, callVars
  <2>3. ASSUME NEW j \in Jobs, add(j) PROVE on_finish_cb'[k] # None
    <3>1. pc[k] = "notifying"
      BY <2>3, <2>a, Zenon DEF add, add_rejected, add_merged, add_queued
    <3>2. on_finish_cb' = on_finish_cb \/ \E r \in Jobs : on_finish_cb' = [on_finish_cb EXCEPT ![r] = j]
      BY <2>3, <2>a, <2>b DEF add, add_rejected, add_merged, add_queued, Raise, Return, shareable, queued_jobs
    <3> QED
      BY <2>a, <3>1, <3>2, JobsAssumption, Zenon
  <2>4. ASSUME NEW j \in Jobs, CallOnLoop(j) \/ Callback(j) PROVE on_finish_cb'[k] # None
    BY <2>3, <2>4, Zenon DEF CallOnLoop, Callback
  <2>5. ASSUME NEW j \in Jobs, CallFromThread(j) \/ Receive(j) \/ Received(j)
        PROVE  on_finish_cb'[k] # None
    BY <2>5, <2>a, Zenon DEF CallFromThread, Receive, Received, callVars
  <2>6. ASSUME NEW j \in Jobs, Finish(j) PROVE on_finish_cb'[k] # None
    BY <2>6, <2>a, Zenon DEF Finish, Goto, callVars
  <2>7. ASSUME NEW j \in Jobs, JobStep(j), ~Finish(j) PROVE on_finish_cb'[k] # None
    <3> DEFINE Moves == \E p \in PCs \ {"notifying"} : pc' = [pc EXCEPT ![j] = p]
    <3>a. ASSUME StartLogging(j) \/ LoggingStarted(j) \/ RunCheck(j) \/ RunStart(j) PROVE Moves
      BY <3>a, ZenonT(30) DEF PCs, Goto, StartLogging, LoggingStarted, RunCheck, RunStart
    <3>b. ASSUME RunFuture(j) \/ BodyStart(j) \/ BodyReturn(j) \/ BodyRaise(j) PROVE Moves
      BY <3>b, ZenonT(30) DEF PCs, Goto, RunFuture, BodyStart, BodyReturn, BodyRaise
    <3>c. ASSUME RunResume(j) \/ ClosePipes(j) \/ Notified(j) PROVE Moves
      BY <3>c, ZenonT(30) DEF PCs, Goto, RunResume, ClosePipes, Notified
    <3>d. PICK p \in PCs \ {"notifying"} : pc' = [pc EXCEPT ![j] = p]
      BY <2>7, <3>a, <3>b, <3>c, Zenon DEF JobStep
    <3>e. pc \in [Jobs -> PCs] /\ pc'[k] = "notifying"
      BY <2>a, Zenon
    <3>1. pc[k] = "notifying"
      BY <3>d, <3>e, Zenon
    <3>2. on_finish_cb' = on_finish_cb
      BY <2>7, ZenonT(30) DEF JobStep, callVars, StartLogging, LoggingStarted, RunCheck, RunStart, RunFuture, BodyStart,
                  BodyReturn, BodyRaise, RunResume, ClosePipes, Notified
    <3> QED
      BY <2>a, <3>1, <3>2, Zenon
  <2>8. ASSUME NEW j \in Jobs, AbortRead(j) \/ AbortStep(j) PROVE on_finish_cb'[k] # None
    BY <2>8, <2>a, Zenon DEF AbortRead, AbortStep, AbortReadState, AbortSet, CancelFuture, jobVars, callVars
  <2> QED
    BY <2>1, <2>2, <2>4, <2>5, <2>6, <2>7, <2>8, Zenon DEF Next
<1> QED
  BY <1>1, <1>2, <1>3, PTL DEF Spec

-----------------------------------------------------------------------------
(* Job.run and Job.abort                                                   *)

\* The steps of a job that holds its lock move it along Job.run, and nothing else.
RunEdges == {<<"picked", "logging">>, <<"logging", "ready">>, <<"logging", "dead">>,
             <<"picked", "closing">>, <<"ready", "closing">>, <<"picked", "checked">>,
             <<"ready", "checked">>, <<"checked", "started">>, <<"started", "created">>,
             <<"created", "body">>, <<"created", "ended">>, <<"body", "ended">>,
             <<"ended", "closing">>, <<"closing", "closed">>, <<"closing", "dead">>,
             <<"notifying", "done">>}

\* Every step of Job.run but the one that releases the lock goes along an edge and leaves
\* the queue and the locks alone.
LEMMA RunSteps ==
    ASSUME TypeOK, NEW j \in Jobs, JobStep(j), ~Finish(j)
    PROVE  /\ \E e \in RunEdges : pc[j] = e[1] /\ pc' = [pc EXCEPT ![j] = e[2]]
           /\ UNCHANGED <<queue, lock, job_locks, lock_jobs, locked, queue_event>>
<1> USE DEF Goto, RunEdges, lockVars, queueVars
<1>1. CASE StartLogging(j)
  BY <1>1, Zenon DEF StartLogging
<1>2. CASE LoggingStarted(j)
  BY <1>2, Zenon DEF LoggingStarted
<1>3. CASE RunCheck(j)
  BY <1>3, Zenon DEF RunCheck
<1>4. CASE RunStart(j)
  BY <1>4, Zenon DEF RunStart
<1>5. CASE RunFuture(j)
  BY <1>5, Zenon DEF RunFuture
<1>6. CASE BodyStart(j)
  BY <1>6, Zenon DEF BodyStart
<1>7. CASE BodyReturn(j)
  BY <1>7, Zenon DEF BodyReturn
<1>8. CASE BodyRaise(j)
  BY <1>8, Zenon DEF BodyRaise
<1>9. CASE RunResume(j)
  BY <1>9, Zenon DEF RunResume
<1>10. CASE ClosePipes(j)
  BY <1>10, Zenon DEF ClosePipes
<1>11. CASE Notified(j)
  BY <1>11, Zenon DEF Notified
<1> QED
  BY <1>1, <1>2, <1>3, <1>4, <1>5, <1>6, <1>7, <1>8, <1>9, <1>10, <1>11, ZenonT(30) DEF JobStep

\* Why AbortedOnRequest holds: everything that can make a job ABORTED comes after abort()
\* has set aborted_event, and only a job received from the other node is created ABORTED.
AbortTrace(j) == \/ state[j] = "ABORTED" /\ ~Call[j].remote
                 \/ outcome[j] = "cancelled" \/ abort_pc[j] # "idle"
                 \/ aborted[j] \/ cancel_posted[j] \/ cancelled[j]
AbortInv == \A j \in Jobs : /\ AbortTrace(j) => aborted_event[j]
                            /\ pc[j] = "receiving" => Call[j].remote

\* Every step that sets one of these comes after abort().
LEMMA AbortInvariance == Spec => []AbortInv
<1>1. Init => AbortInv
  BY ZenonT(120) DEF Init, AbortInv, AbortTrace
<1>2. TypeOK /\ AbortInv /\ [Next]_vars => AbortInv'
  <2> SUFFICES ASSUME TypeOK, AbortInv, [Next]_vars PROVE AbortInv'
    OBVIOUS
  <2>1. ASSUME NEW j \in Jobs, NEW p \in PCs, pc' = [pc EXCEPT ![j] = p],
               p = "receiving" => Call[j].remote,
               \A k \in Jobs : AbortTrace(k)' => AbortTrace(k) \/ aborted_event[k],
               UNCHANGED aborted_event
        PROVE  AbortInv'
    BY <2>1, ZenonT(120) DEF AbortInv, TypeOK
  <2>2. ASSUME UNCHANGED <<state, outcome, abortVars>>
        PROVE  \A k \in Jobs : AbortTrace(k)' => AbortTrace(k)
    BY <2>2, ZenonT(30) DEF AbortTrace, abortVars
  <2>3. ASSUME NEW j \in Jobs, UNCHANGED <<outcome, abortVars>>,
               \E s \in States : state' = [state EXCEPT ![j] = s]
                                 /\ (s = "ABORTED" /\ ~Call[j].remote => aborted_event[j])
        PROVE  \A k \in Jobs : AbortTrace(k)' => AbortTrace(k) \/ aborted_event[k]
    <3>1. \A k \in Jobs : state'[k] = "ABORTED" /\ ~Call[k].remote
                             => state[k] = "ABORTED" \/ aborted_event[k]
      BY <2>3, Zenon DEF TypeOK
    <3> QED
      BY <2>3, <3>1, ZenonT(30) DEF AbortTrace, abortVars
  <2>4. ASSUME NEW j \in Jobs, UNCHANGED <<state, abortVars>>,
               \E o : outcome' = [outcome EXCEPT ![j] = o] /\ (o = "cancelled" => aborted_event[j])
        PROVE  \A k \in Jobs : AbortTrace(k)' => AbortTrace(k) \/ aborted_event[k]
    <3>1. \A k \in Jobs : outcome'[k] = "cancelled" => outcome[k] = "cancelled" \/ aborted_event[k]
      BY <2>4, Zenon DEF TypeOK
    <3> QED
      BY <2>4, <3>1, ZenonT(30) DEF AbortTrace, abortVars
  <2>5. CASE UNCHANGED vars
    BY <2>5, ZenonT(30) DEF vars, jobVars, abortVars, AbortInv, AbortTrace
  <2>6. CASE Schedule
    <3>1. aborted_event' = aborted_event /\ UNCHANGED <<state, outcome, abortVars>>
      BY <2>6, Zenon DEF Schedule, abortVars
    <3>2. \A k \in Jobs : pc'[k] = "receiving" => pc[k] = "receiving"
      BY <2>6, ZenonT(120) DEF Schedule, next_found, next_none, TypeOK
    <3> QED
      BY <2>2, <3>1, <3>2, ZenonT(30) DEF AbortInv
  <2>7. ASSUME NEW j \in Jobs, CallOnLoop(j) \/ Callback(j) PROVE AbortInv'
    <3>1. /\ \E p \in {"rejected", "merged", "queued"} : pc' = [pc EXCEPT ![j] = p]
          /\ UNCHANGED <<state, outcome, abortVars>>
      BY <2>7, ZenonT(30) DEF CallOnLoop, Callback, add, add_rejected, add_merged, add_queued
    <3> QED
      BY <2>1, <2>2, <3>1, ZenonT(30) DEF PCs, abortVars
  <2>8. ASSUME NEW j \in Jobs, CallFromThread(j) \/ Receive(j) PROVE AbortInv'
    <3>1. /\ \E p \in {"posted", "receiving"} : pc' = [pc EXCEPT ![j] = p] /\ (p = "receiving" => Call[j].remote)
          /\ UNCHANGED <<state, outcome, abortVars>>
      BY <2>8, ZenonT(30) DEF CallFromThread, Receive
    <3> QED
      BY <2>1, <2>2, <3>1, ZenonT(30) DEF PCs, abortVars
  <2>9. ASSUME NEW j \in Jobs, Received(j) PROVE AbortInv'
    <3>1. Call[j].remote
      BY <2>9, Zenon DEF Received, AbortInv
    <3> QED
      BY <2>1, <2>3, <2>9, <3>1, ZenonT(30) DEF Received, Terminal, States, PCs, abortVars
  <2>10. ASSUME NEW j \in Jobs, JobStep(j) PROVE AbortInv'
    <3>0. \E p \in PCs : pc' = [pc EXCEPT ![j] = p] /\ p # "receiving"
      <4>1. CASE Finish(j)
        BY <4>1, Zenon DEF Finish, Goto, PCs
      <4>2. CASE ~Finish(j)
        BY <2>10, <4>2, RunSteps DEF RunEdges, PCs
      <4> QED
        BY <4>1, <4>2, Zenon
    <3>a. aborted[j] \/ cancelled[j] \/ outcome[j] = "cancelled" => aborted_event[j]
      BY ZenonT(30) DEF AbortInv, AbortTrace
    <3>1. CASE RunCheck(j)
      <4>1. CASE aborted[j]
        <5>1. /\ \A k \in Jobs \ {j} : state'[k] = state[k] /\ outcome'[k] = outcome[k]
              /\ UNCHANGED abortVars
          BY <3>1, <4>1 DEF RunCheck, set_state, TypeOK
        <5>2. \A k \in Jobs : AbortTrace(k)' => AbortTrace(k) \/ aborted_event[k]
          BY <3>a, <4>1, <5>1, ZenonT(30) DEF AbortTrace, abortVars
        <5> QED
          BY <2>1, <3>0, <5>1, <5>2, ZenonT(30) DEF abortVars
      <4>2. CASE ~aborted[j]
        BY <2>1, <2>2, <3>0, <3>1, <4>2, ZenonT(30) DEF RunCheck, abortVars
      <4> QED
        BY <4>1, <4>2, Zenon
    <3>2. CASE RunStart(j)
      BY <2>1, <2>3, <3>0, <3>2, ZenonT(30) DEF RunStart, set_state, States, abortVars
    <3>3. CASE BodyStart(j)
      BY <2>1, <2>2, <2>4, <3>0, <3>a, <3>3, ZenonT(30) DEF BodyStart, abortVars
    <3>4. CASE BodyReturn(j)
      <4>1. /\ \A k \in Jobs : state'[k] = "ABORTED" => state[k] = "ABORTED"
            /\ \A k \in Jobs : outcome'[k] = "cancelled" => outcome[k] = "cancelled"
            /\ UNCHANGED abortVars
        BY <3>4, Zenon DEF BodyReturn, set_state, TypeOK
      <4>2. \A k \in Jobs : AbortTrace(k)' => AbortTrace(k)
        BY <4>1, ZenonT(30) DEF AbortTrace, abortVars
      <4> QED
        BY <2>1, <3>0, <4>1, <4>2, ZenonT(30) DEF abortVars
    <3>5. CASE BodyRaise(j)
      BY <2>1, <2>4, <3>0, <3>a, <3>5, ZenonT(30) DEF BodyRaise, abortVars
    <3>6. CASE RunResume(j)
      BY <2>1, <2>2, <2>3, <3>0, <3>a, <3>6, ZenonT(30) DEF RunResume, set_state, States, abortVars
    <3>7. CASE UNCHANGED <<state, outcome, abortVars>>
      BY <2>1, <2>2, <3>0, <3>7, ZenonT(30) DEF abortVars
    <3> QED
      BY <2>10, <3>1, <3>2, <3>3, <3>4, <3>5, <3>6, <3>7, ZenonT(30) DEF JobStep, StartLogging, LoggingStarted, RunFuture,
         ClosePipes, Finish, Notified
  <2>11. ASSUME NEW j \in Jobs, AbortRead(j) \/ AbortStep(j) PROVE AbortInv'
    <3>1. UNCHANGED <<state, outcome, pc>>
      BY <2>11, ZenonT(30) DEF AbortRead, AbortStep, AbortReadState, AbortSet, CancelFuture, jobVars
    <3>2. aborted_event'[j]
      <4>1. CASE AbortRead(j)
        BY <4>1, Zenon DEF AbortRead, TypeOK
      <4>2. CASE AbortStep(j)
        <5>1. abort_pc[j] # "idle" \/ cancel_posted[j]
          BY <4>2, Zenon DEF AbortStep, AbortReadState, AbortSet, CancelFuture
        <5>2. aborted_event' = aborted_event
          BY <4>2, ZenonT(30) DEF AbortStep, AbortReadState, AbortSet, CancelFuture
        <5> QED
          BY <5>1, <5>2, ZenonT(30) DEF AbortInv, AbortTrace
      <4> QED
        BY <2>11, <4>1, <4>2, Zenon
    <3>3. \A k \in Jobs \ {j} : /\ aborted_event'[k] = aborted_event[k] /\ abort_pc'[k] = abort_pc[k]
                                /\ aborted'[k] = aborted[k]
                                /\ cancel_posted'[k] = cancel_posted[k] /\ cancelled'[k] = cancelled[k]
      BY <2>11 DEF AbortRead, AbortStep, AbortReadState, AbortSet, CancelFuture, TypeOK
    <3> QED
      BY <3>1, <3>2, <3>3, ZenonT(120) DEF AbortInv, AbortTrace
  <2> QED
    BY <2>5, <2>6, <2>7, <2>8, <2>9, <2>10, <2>11, Zenon DEF Next
<1> QED
  BY <1>1, <1>2, TypeInvariance, PTL DEF Spec

\* No job ends ABORTED that nobody called abort() on, whenever the abort comes.
THEOREM JobsAbortedOnRequest == Spec => []AbortedOnRequest
<1>1. AbortInv => AbortedOnRequest
  BY ZenonT(30) DEF AbortInv, AbortTrace, AbortedOnRequest
<1> QED
  BY <1>1, AbortInvariance, PTL

-----------------------------------------------------------------------------
(* Locks                                                                   *)

\* A step that leaves the queue and the locks alone keeps LockInv when no job
\* enters or leaves the queue, is called, or comes to hold its lock by it.
LEMMA FrameKeepsLockInv ==
    ASSUME LockInv,
           UNCHANGED <<queue, lock, job_locks, lock_jobs, locked>>,
           \A k \in Jobs : Holding(k)' => Holding(k),
           \A k \in Jobs : (pc'[k] = "queued") <=> (pc[k] = "queued"),
           \A k \in Jobs : pc'[k] \in {"new", "posted"} => pc[k] \in {"new", "posted"},
           queue \in Seq(Jobs)
    PROVE  LockInv'
<1>1. QueueInv'
  <2>1. \A i \in DOMAIN queue : queue[i] \in Jobs
    OBVIOUS
  <2> QED
    BY <2>1 DEF LockInv, QueueInv
<1>2. FreshInv'
  BY Zenon DEF LockInv, FreshInv
<1>3. NameInv'
  BY Zenon DEF LockInv, NameInv
<1>4. ActiveInv'
  <2>1. \A k \in Jobs : Active(k)' => Active(k)
    BY Zenon DEF Active
  <2> QED
    BY <2>1, Zenon DEF LockInv, ActiveInv
<1>5. HolderInv'
  BY Zenon DEF LockInv, HolderInv
<1> QED
  BY <1>1, <1>2, <1>3, <1>4, <1>5, Zenon DEF LockInv

\* handle_lock() registers the new job with the lock object of its lock's name and
\* changes nothing for the jobs that are active.
LEMMA HandleLock ==
    ASSUME TypeOK, LockInv, NEW j \in Jobs, pc[j] \in {"new", "posted"},
           Call[j].lock # LockError, handle_lock(j)
    PROVE  /\ NameInv'
           /\ locked' = locked
           /\ \A k \in Jobs \ {j} : lock'[k] = lock[k]
           /\ \A k \in Jobs : (Active(k) \/ k = j) /\ Call[k].lock # None =>
                 /\ lock'[k] # None
                 /\ job_locks'[Call[k].lock] = lock'[k]
                 /\ k \in lock_jobs'[lock'[k]]
           /\ \A k \in Jobs : pc[k] \in {"new", "posted"} /\ k # j =>
                 /\ lock'[k] = None
                 /\ \A i \in Jobs : lock'[i] # k
                 /\ \A l \in Locks : job_locks'[l] # k
<1>1. ~Active(j)
  BY Zenon DEF Active, Holding
<1>2. CASE Call[j].lock = None
  BY <1>1, <1>2 DEF handle_lock, lockVars, LockInv, NameInv, ActiveInv, FreshInv
<1>3. CASE Call[j].lock # None
  <2> DEFINE l == Call[j].lock
             o == SharedLock(j)
  <2>1. l \in Locks /\ l # None
    BY <1>3, JobsAssumption, Zenon DEF Calls
  <2>2. /\ o = IF job_locks[l] = None THEN j ELSE job_locks[l]
        /\ o \in Jobs
    BY <2>1, ZenonT(120) DEF SharedLock, TypeOK
  <2>3. /\ job_locks' = [job_locks EXCEPT ![l] = o]
        /\ lock_jobs' = [lock_jobs EXCEPT ![o] = @ \cup {j}]
        /\ lock' = [lock EXCEPT ![j] = o]
        /\ UNCHANGED locked
    BY <2>1, Zenon DEF handle_lock
  <2>4. Call[o].lock = l
    BY <2>1, <2>2, ZenonT(30) DEF LockInv, NameInv
  <2> HIDE DEF o
  <2>5. o # None /\ None \notin Jobs
    BY <2>2, JobsAssumption, Zenon
  <2>6. NameInv'
    BY <2>1, <2>2, <2>3, <2>4, ZenonT(120) DEF LockInv, NameInv, TypeOK
  <2>7. \A k \in Jobs \ {j} : lock'[k] = lock[k]
    BY <2>3, Zenon DEF TypeOK
  <2>8. ASSUME NEW k \in Jobs, Active(k) \/ k = j, Call[k].lock # None
        PROVE  /\ lock'[k] # None
               /\ job_locks'[Call[k].lock] = lock'[k]
               /\ k \in lock_jobs'[lock'[k]]
    <3>1. CASE k = j
      BY <2>1, <2>2, <2>3, <2>5, <3>1, Zenon DEF TypeOK
    <3>2. CASE k # j
      <4>1. /\ lock[k] # None
            /\ job_locks[Call[k].lock] = lock[k]
            /\ k \in lock_jobs[lock[k]]
            /\ Call[k].lock \in Locks
        BY <2>8, <3>2, Zenon DEF LockInv, ActiveInv, NameInv
      <4>2. Call[k].lock = l => lock[k] = o
        BY <2>2, <4>1, Zenon
      <4>3. lock[k] \in Jobs
        BY <4>1, ZenonT(120) DEF TypeOK
      <4> QED
        BY <2>1, <2>2, <2>3, <2>7, <3>2, <4>1, <4>2, <4>3, ZenonT(120) DEF TypeOK
    <3> QED
      BY <3>1, <3>2, Zenon
  <2>9. ASSUME NEW k \in Jobs, pc[k] \in {"new", "posted"}, k # j
        PROVE  /\ lock'[k] = None
               /\ \A i \in Jobs : lock'[i] # k
               /\ \A n \in Locks : job_locks'[n] # k
    <3>1. o # k
      BY <2>1, <2>2, <2>9, ZenonT(30) DEF LockInv, FreshInv
    <3> QED
      BY <2>1, <2>3, <2>9, <3>1, ZenonT(120) DEF LockInv, FreshInv, TypeOK
  <2> QED
    BY <2>3, <2>6, <2>7, <2>8, <2>9, Zenon
<1> QED
  BY <1>2, <1>3, Zenon

\* JobsQueue.add keeps LockInv whether it queues, merges or refuses the call.
LEMMA AddKeepsLockInv ==
    ASSUME TypeOK, LockInv, NEW j \in Jobs, pc[j] \in {"new", "posted"}, add(j)
    PROVE  LockInv'
<1>2. add_rejected(j) \/ add_merged(j) \/ add_queued(j)
  BY Zenon DEF add
<1>1. ~Holding(j) /\ ~Active(j) /\ pc[j] # "queued"
  BY Zenon DEF Active, Holding
<1>3. \A i \in DOMAIN queue : queue[i] \in Jobs /\ queue[i] # j
  BY <1>1 DEF TypeOK, LockInv, QueueInv
<1>4. CASE Call[j].lock = LockError
  <2>1. /\ add_rejected(j)
        /\ UNCHANGED <<queue, lock, job_locks, lock_jobs, locked>>
    BY <1>2, <1>4, ZenonT(30) DEF add_rejected, add_merged, add_queued, lockVars, queueVars
  <2>2. pc' = [pc EXCEPT ![j] = "rejected"]
    BY <2>1, ZenonT(30) DEF add_rejected
  <2>3. \A k \in Jobs : pc'[k] = IF k = j THEN "rejected" ELSE pc[k]
    BY <2>2, Zenon DEF TypeOK
  <2>5. \A k \in Jobs : Holding(k)' => Holding(k)
    BY <2>3, ZenonT(30) DEF Holding
  <2>6. \A k \in Jobs : /\ (pc'[k] = "queued") <=> (pc[k] = "queued")
                        /\ pc'[k] \in {"new", "posted"} => pc[k] \in {"new", "posted"}
    BY <1>1, <2>3, ZenonT(30)
  <2> QED
    BY <2>1, <2>5, <2>6, FrameKeepsLockInv, Zenon DEF TypeOK
<1>5. CASE Call[j].lock # LockError
  <2>1. handle_lock(j)
    BY <1>2, <1>5, Zenon DEF add_rejected, add_merged, add_queued
  <2>2. \/ pc' = [pc EXCEPT ![j] = "rejected"] /\ queue' = queue
        \/ pc' = [pc EXCEPT ![j] = "merged"] /\ queue' = queue
        \/ pc' = [pc EXCEPT ![j] = "queued"] /\ queue' = Append(queue, j)
    BY <1>2, Zenon DEF add_rejected, add_merged, add_queued, queueVars
  <2>3. \A k \in Jobs \ {j} : pc'[k] = pc[k]
    BY <2>2, ZenonT(120) DEF TypeOK
  <2>4. pc'[j] \in {"rejected", "merged", "queued"}
    BY <2>2, ZenonT(120) DEF TypeOK
  <2>5. \A k \in Jobs : Holding(k)' => Holding(k) /\ k # j
    BY <2>3, <2>4, Zenon DEF Holding
  <2>6. QueueInv'
    <3>1. CASE queue' = queue
      BY <1>3, <2>3, <3>1, ZenonT(120) DEF LockInv, QueueInv
    <3>2. CASE queue' = Append(queue, j) /\ pc'[j] = "queued"
      <4>1. /\ DOMAIN queue' = 1..(Len(queue) + 1)
            /\ DOMAIN queue = 1..Len(queue)
            /\ Len(queue) \in Nat
            /\ \A i \in 1..Len(queue) : queue'[i] = queue[i]
            /\ queue'[Len(queue) + 1] = j
            /\ \A i \in 1..(Len(queue) + 1) : i \in 1..Len(queue) \/ i = Len(queue) + 1
        <5>1. queue \in Seq(Jobs)
          BY Zenon DEF TypeOK
        <5> QED
          BY <3>2, <5>1, AppendFacts, ZenonT(120)
      <4>2. \A i \in 1..Len(queue) : queue[i] \in Jobs \ {j} /\ pc[queue[i]] = "queued"
        BY <1>3, <4>1, Zenon DEF LockInv, QueueInv, TypeOK
      <4>4. \A i \in DOMAIN queue' : pc'[queue'[i]] = "queued"
        BY <2>3, <3>2, <4>1, <4>2
      <4>5. \A i, k \in DOMAIN queue' : i # k => queue'[i] # queue'[k]
        BY <4>1, <4>2 DEF LockInv, QueueInv
      <4> QED
        BY <4>4, <4>5, ZenonT(30) DEF QueueInv
    <3> QED
      BY <2>2, <3>1, <3>2, Zenon DEF TypeOK
  <2>7. FreshInv'
    BY <2>1, <2>3, <2>4, <1>5, HandleLock, ZenonT(120) DEF FreshInv
  <2>8. NameInv'
    BY <2>1, <1>5, HandleLock, ZenonT(30)
  <2>9. ActiveInv'
    <3>1. \A k \in Jobs : Active(k)' => Active(k) \/ k = j
      BY <2>3, <2>5, Zenon DEF Active
    <3> QED
      BY <2>1, <1>5, <3>1, HandleLock, Zenon DEF ActiveInv
  <2>10. HolderInv'
    <3>1. locked' = locked /\ \A k \in Jobs \ {j} : lock'[k] = lock[k]
      BY <2>1, <1>5, HandleLock, Zenon
    <3> QED
      BY <2>5, <3>1, ZenonT(120) DEF LockInv, HolderInv
  <2> QED
    BY <2>6, <2>7, <2>8, <2>9, <2>10, Zenon DEF LockInv
<1> QED
  BY <1>4, <1>5, ZenonT(30)

\* JobsQueue.next gives a lock only to a job that finds it free.
LEMMA ScheduleKeepsLockInv ==
    ASSUME TypeOK, LockInv, Schedule
    PROVE  LockInv'
<1>3. /\ next_found \/ next_none
      /\ UNCHANGED <<state, lock, job_locks, lock_jobs>>
  BY Zenon DEF Schedule
<1>1. CASE next_none
  <2>1. UNCHANGED <<pc, state, queue, lock, job_locks, lock_jobs, locked>>
    BY <1>1, <1>3, Zenon DEF next_none
  <2> QED
    BY <2>1, FrameKeepsLockInv, Zenon DEF TypeOK, Holding
<1>2. CASE next_found
  <2>1. PICK i \in DOMAIN queue : next_found!(i)
    BY <1>2, ZenonT(30) DEF next_found
  <2> DEFINE j == queue[i]
  <2>2. /\ j \in Jobs /\ pc[j] = "queued" /\ ~Holding(j)
        /\ DOMAIN queue = 1..Len(queue) /\ Len(queue) \in Nat
    BY DEF TypeOK, LockInv, QueueInv, Holding
  <2>3. /\ lock[j] # None => ~locked[lock[j]]
        /\ locked' = IF lock[j] = None THEN locked ELSE [locked EXCEPT ![lock[j]] = TRUE]
        /\ pc' = [pc EXCEPT ![j] = "picked"]
        /\ queue' = RemoveAt(queue, i)
        /\ UNCHANGED <<state, lock, job_locks, lock_jobs>>
    BY <1>3, <2>1, Zenon DEF Runnable
  <2>4. /\ Len(queue') = Len(queue) - 1
        /\ queue' \in Seq(Jobs)
        /\ \A k \in 1..(Len(queue) - 1) : queue'[k] = IF k < i THEN queue[k] ELSE queue[k + 1]
    <3>1. queue \in Seq(Jobs)
      BY Zenon DEF TypeOK
    <3> QED
      BY <2>3, <3>1, RemoveAtProperties, Zenon
  <2> HIDE DEF j
  <2>5. \A k \in Jobs : pc'[k] = IF k = j THEN "picked" ELSE pc[k]
    BY <2>2, <2>3, Zenon DEF TypeOK
  <2>6. \A k \in Jobs : Holding(k)' => Holding(k) \/ k = j
    BY <2>5, Zenon DEF Holding
  <2>7. QueueInv'
    <3>1. DOMAIN queue' = 1..(Len(queue) - 1)
      BY <2>4
    <3>2. \A k \in DOMAIN queue' : \E m \in DOMAIN queue :
             queue'[k] = queue[m] /\ m # i /\ m = IF k < i THEN k ELSE k + 1
      BY <2>2, <2>4, <3>1
    <3>3. \A m \in DOMAIN queue : m # i => queue[m] # j /\ pc[queue[m]] = "queued" /\ queue[m] \in Jobs
      BY DEF LockInv, QueueInv, j, TypeOK
    <3>4. \A k \in DOMAIN queue' : pc'[queue'[k]] = "queued"
      BY <2>5, <3>2, <3>3
    <3>5. ASSUME NEW k \in DOMAIN queue', NEW n \in DOMAIN queue', k # n PROVE queue'[k] # queue'[n]
      BY <2>2, <3>1, <3>2, <3>5 DEF LockInv, QueueInv
    <3> QED
      BY <3>4, <3>5, Zenon DEF QueueInv
  <2>8. FreshInv'
    BY <2>3, <2>5 DEF LockInv, FreshInv
  <2>9. NameInv'
    BY <2>3, Zenon DEF LockInv, NameInv
  <2>10. ActiveInv'
    <3>1. \A k \in Jobs : Active(k)' => Active(k)
      BY <2>2, <2>5, <2>6, Zenon DEF Active
    <3> QED
      BY <2>3, <3>1, Zenon DEF LockInv, ActiveInv
  <2>11. HolderInv'
    <3>1. \A k \in Jobs : Holding(k) /\ lock[k] # None => lock[k] # lock[j]
      BY <2>2, <2>3, Zenon DEF LockInv, HolderInv
    <3>2. \A k \in Jobs : lock[k] # None /\ locked[lock[k]] => locked'[lock[k]]
      BY <2>2, <2>3, Zenon DEF TypeOK
    <3>3. lock[j] # None => locked'[lock[j]]
      BY <2>2, <2>3, ZenonT(120) DEF TypeOK
    <3> QED
      BY <2>2, <2>3, <2>6, <3>1, <3>2, <3>3, Zenon DEF LockInv, HolderInv
  <2> QED
    BY <2>7, <2>8, <2>9, <2>10, <2>11, Zenon DEF LockInv
<1> QED
  BY <1>1, <1>2, <1>3, Zenon

\* release_lock() drops a lock object only when no other job is registered with it.
LEMMA FinishKeepsLockInv ==
    ASSUME TypeOK, LockInv, NEW j \in Jobs, Finish(j)
    PROVE  LockInv'
<1>0. /\ pc[j] = "closed"
      /\ release_lock(j)
      /\ UNCHANGED <<state, queue>>
      /\ Goto(j, "done") \/ Goto(j, "notifying")
  BY Zenon DEF Finish
<1>6. UNCHANGED lock
  BY <1>0, Zenon DEF release_lock, lockVars
<1>1. /\ pc[j] = "closed" /\ Holding(j) /\ Active(j)
      /\ UNCHANGED <<state, queue, lock>>
  BY <1>0, <1>6, Zenon DEF Holding, Active
<1>2. \E p \in {"done", "notifying"} : pc' = [pc EXCEPT ![j] = p]
  BY <1>0, Zenon DEF Goto
<1>3. /\ \A k \in Jobs \ {j} : pc'[k] = pc[k]
      /\ pc'[j] \in {"done", "notifying"}
  BY <1>2, Zenon DEF TypeOK
<1>4. /\ \A k \in Jobs : Holding(k)' => Holding(k) /\ k # j
      /\ \A k \in Jobs : Active(k)' => Active(k) /\ k # j
  BY <1>3, ZenonT(30) DEF Holding, Active
<1>5. QueueInv'
  <2>1. \A i \in DOMAIN queue : queue[i] \in Jobs \ {j} /\ pc[queue[i]] = "queued"
    BY <1>1 DEF LockInv, QueueInv, TypeOK
  <2>2. \A i \in DOMAIN queue : pc'[queue[i]] = "queued"
    BY <1>3, <2>1, ZenonT(30)
  <2> QED
    BY <1>1, <2>2, ZenonT(120) DEF LockInv, QueueInv
<1>7. CASE lock[j] = None
  <2>1. UNCHANGED <<job_locks, lock_jobs, locked>>
    BY <1>0, <1>7, Zenon DEF release_lock, lockVars
  <2>2. FreshInv' /\ NameInv'
    BY <1>1, <1>3, <2>1, Zenon DEF LockInv, FreshInv, NameInv
  <2>3. ActiveInv' /\ HolderInv'
    BY <1>1, <1>4, <2>1, ZenonT(30) DEF LockInv, ActiveInv, HolderInv
  <2> QED
    BY <1>5, <2>2, <2>3, Zenon DEF LockInv
<1>8. CASE lock[j] # None
  <2> DEFINE o == lock[j]
             l == Call[j].lock
  <2>1. /\ lock_jobs' = [lock_jobs EXCEPT ![o] = @ \ {j}]
        /\ locked' = [locked EXCEPT ![o] = FALSE]
        /\ job_locks' = IF lock_jobs[o] \subseteq {j} THEN [job_locks EXCEPT ![l] = None] ELSE job_locks
    BY <1>0, <1>8, Zenon DEF release_lock
  <2>2. o \in Jobs /\ l \in Locks /\ o # None
    BY <1>8 DEF TypeOK, LockInv, NameInv
  <2> HIDE DEF o, l
  <2>3. \A n \in Locks : job_locks'[n] = job_locks[n] \/ job_locks'[n] = None
    BY <2>1, <2>2, Zenon DEF TypeOK
  <2>4. FreshInv'
    <3>1. ASSUME NEW k \in Jobs, pc'[k] \in {"new", "posted"}
          PROVE  /\ lock'[k] = None
                 /\ \A i \in Jobs : lock'[i] # k
                 /\ \A n \in Locks : job_locks'[n] # k
      <4>1. pc[k] \in {"new", "posted"}
        BY <1>3, <3>1, Zenon
      <4>2. /\ lock[k] = None
            /\ \A i \in Jobs : lock[i] # k
            /\ \A n \in Locks : job_locks[n] # k
        BY <4>1, Zenon DEF LockInv, FreshInv
      <4>3. k # None
        BY JobsAssumption, Zenon
      <4> QED
        BY <1>1, <2>3, <4>2, <4>3, Zenon
    <3> QED
      BY <3>1, Zenon DEF FreshInv
  <2>5. NameInv'
    BY <1>1, <2>3, Zenon DEF LockInv, NameInv
  <2>6. ActiveInv'
    <3>1. SUFFICES ASSUME NEW k \in Jobs, Active(k), k # j, Call[k].lock # None
                   PROVE  /\ lock[k] # None
                          /\ job_locks'[Call[k].lock] = lock[k]
                          /\ k \in lock_jobs'[lock[k]]
      BY <1>1, <1>4, Zenon DEF ActiveInv
    <3>2. /\ lock[k] # None /\ lock[k] \in Jobs
          /\ job_locks[Call[k].lock] = lock[k]
          /\ k \in lock_jobs[lock[k]]
          /\ Call[k].lock \in Locks
      BY <3>1, ZenonT(120) DEF LockInv, ActiveInv, NameInv, TypeOK
    <3>3. Call[k].lock = l => lock[k] = o
      <4>1. Call[j].lock # None
        BY <2>2, JobsAssumption, Zenon DEF l
      <4>2. job_locks[l] = o
        BY <1>1, <4>1, Zenon DEF LockInv, ActiveInv, o, l
      <4> QED
        BY <3>2, <4>2, ZenonT(30)
    <3>4. lock[k] = o => job_locks' = job_locks
      BY <2>1, <3>1, <3>2, Zenon
    <3>5. job_locks'[Call[k].lock] = lock[k]
      BY <2>1, <2>2, <3>2, <3>3, <3>4, Zenon DEF TypeOK
    <3>6. k \in lock_jobs'[lock[k]]
      BY <2>1, <2>2, <3>1, <3>2, ZenonT(30) DEF TypeOK
    <3> QED
      BY <3>2, <3>5, <3>6, Zenon
  <2>7. HolderInv'
    <3>1. \A k \in Jobs : Holding(k) /\ k # j /\ lock[k] # None => lock[k] # o
      BY <1>1, <1>8, ZenonT(30) DEF LockInv, HolderInv, o
    <3>2. \A k \in Jobs : Holding(k) /\ k # j /\ lock[k] # None => locked'[lock[k]]
      BY <2>1, <3>1, Zenon DEF LockInv, HolderInv, TypeOK
    <3> QED
      BY <1>1, <1>4, <3>2, ZenonT(30) DEF LockInv, HolderInv
  <2> QED
    BY <1>5, <2>4, <2>5, <2>6, <2>7, Zenon DEF LockInv
<1> QED
  BY <1>7, <1>8, Zenon

\* Every step of the model keeps LockInv.
THEOREM LockInvariance == Spec => []LockInv
<1>1. Init => LockInv
  <2> SUFFICES ASSUME Init PROVE LockInv
    OBVIOUS
  <2>1. QueueInv /\ FreshInv /\ NameInv
    BY JobsAssumption DEF Init, QueueInv, FreshInv, NameInv
  <2>2. ActiveInv /\ HolderInv
    BY Zenon DEF Init, ActiveInv, HolderInv, Active, Holding
  <2> QED
    BY <2>1, <2>2, Zenon DEF LockInv
<1>2. TypeOK /\ LockInv /\ [Next]_vars => LockInv'
  <2> SUFFICES ASSUME TypeOK, LockInv, [Next]_vars PROVE LockInv'
    OBVIOUS
  <2>1. ASSUME UNCHANGED <<jobVars, lockVars, queueVars>> PROVE LockInv'
    <3>1. UNCHANGED <<pc, state, queue, lock, job_locks, lock_jobs, locked>>
      BY <2>1, Zenon DEF jobVars, lockVars, queueVars
    <3> QED
      BY <3>1, FrameKeepsLockInv, Zenon DEF TypeOK, Holding
  <2>2. ASSUME NEW j \in Jobs, NEW p \in PCs \ {"new", "posted", "queued", "picked"},
               pc[j] \in {"new", "receiving"} => p \in {"receiving", "received"},
               pc[j] # "queued" /\ (Holding(j) \/ p \in {"done", "receiving", "received"}),
               pc' = [pc EXCEPT ![j] = p],
               UNCHANGED <<queue, lock, job_locks, lock_jobs, locked>>
        PROVE  LockInv'
    <3>1. \A k \in Jobs : pc'[k] = IF k = j THEN p ELSE pc[k]
      BY <2>2, Zenon DEF TypeOK
    <3>2. \A k \in Jobs : Holding(k)' => Holding(k)
      BY <2>2, <3>1, Zenon DEF Holding
    <3>3. \A k \in Jobs : /\ (pc'[k] = "queued") <=> (pc[k] = "queued")
                          /\ pc'[k] \in {"new", "posted"} => pc[k] \in {"new", "posted"}
      BY <2>2, <3>1, Zenon
    <3> QED
      BY <2>2, <3>2, <3>3, FrameKeepsLockInv, Zenon DEF TypeOK
  <2>3. CASE UNCHANGED vars
    BY <2>1, <2>3, Zenon DEF vars
  <2>4. CASE Schedule
    BY <2>4, ScheduleKeepsLockInv, Zenon
  <2>5. ASSUME NEW j \in Jobs, CallOnLoop(j) \/ Callback(j) PROVE LockInv'
    BY <2>5, AddKeepsLockInv, Zenon DEF CallOnLoop, Callback
  <2>6. ASSUME NEW j \in Jobs, CallFromThread(j) PROVE LockInv'
    <3>1. /\ pc[j] = "new"
          /\ \A k \in Jobs : pc'[k] = IF k = j THEN "posted" ELSE pc[k]
          /\ UNCHANGED <<state, queue, lock, job_locks, lock_jobs, locked>>
      BY <2>6, Zenon DEF CallFromThread, lockVars, queueVars, TypeOK
    <3>2. \A k \in Jobs : Holding(k)' => Holding(k)
      BY <3>1, Zenon DEF Holding
    <3> QED
      BY <3>1, <3>2, FrameKeepsLockInv, Zenon DEF TypeOK
  <2>7. ASSUME NEW j \in Jobs, Receive(j) PROVE LockInv'
    BY <2>2, <2>7, ZenonT(30) DEF Receive, lockVars, queueVars, PCs
  <2>8. ASSUME NEW j \in Jobs, Received(j) PROVE LockInv'
    BY <2>2, <2>8, ZenonT(30) DEF Received, lockVars, PCs
  <2>9. ASSUME NEW j \in Jobs, Finish(j) PROVE LockInv'
    BY <2>9, FinishKeepsLockInv, Zenon
  <2>10. ASSUME NEW j \in Jobs, JobStep(j), ~Finish(j) PROVE LockInv'
    <3>1. PICK e \in RunEdges : pc[j] = e[1] /\ pc' = [pc EXCEPT ![j] = e[2]]
      BY <2>10, RunSteps, Zenon
    <3>2. UNCHANGED <<queue, lock, job_locks, lock_jobs, locked>>
      BY <2>10, RunSteps, Zenon
    <3>3. /\ e[2] \in PCs \ {"new", "posted", "queued", "picked"}
          /\ pc[j] \notin {"new", "receiving", "queued"}
          /\ Holding(j) \/ e[2] = "done"
      BY <3>1 DEF RunEdges, Holding, PCs
    <3> QED
      BY <2>2, <3>1, <3>2, <3>3, ZenonT(30)
  <2>11. ASSUME NEW j \in Jobs, AbortRead(j) \/ AbortStep(j) PROVE LockInv'
    BY <2>1, <2>11, Zenon DEF AbortRead, AbortStep, AbortReadState, AbortSet, CancelFuture
  <2> QED
    BY <2>3, <2>4, <2>5, <2>6, <2>7, <2>8, <2>9, <2>10, <2>11, Zenon DEF Next
<1> QED
  BY <1>1, <1>2, TypeInvariance, PTL DEF Spec

-----------------------------------------------------------------------------
(* States and mutual exclusion                                             *)

\* Every step moves a job's state together with the place run() has reached.
THEOREM PhaseInvariance == Spec => []PhaseInv
<1>1. Init => PhaseInv
  BY DEF Init, PhaseInv, Phase
<1>2. TypeOK /\ PhaseInv /\ LockInv /\ [Next]_vars => PhaseInv'
  <2> SUFFICES ASSUME TypeOK, PhaseInv, LockInv, [Next]_vars PROVE PhaseInv'
    OBVIOUS
  <2>1. ASSUME NEW j \in Jobs, NEW p, UNCHANGED <<state, outcome>>,
               pc' = [pc EXCEPT ![j] = p], Phase(pc[j], outcome[j]) \subseteq Phase(p, outcome[j])
        PROVE  PhaseInv'
    BY <2>1, Zenon DEF PhaseInv, TypeOK
  <2>2. ASSUME NEW j \in Jobs, NEW p, NEW s, UNCHANGED outcome,
               pc' = [pc EXCEPT ![j] = p], state' = [state EXCEPT ![j] = s],
               s \in Phase(p, outcome[j])
        PROVE  PhaseInv'
    BY <2>2, Zenon DEF PhaseInv, TypeOK
  <2>3. CASE UNCHANGED jobVars
    BY <2>3, Zenon DEF jobVars, PhaseInv
  <2>4. CASE Schedule
    <3>1. CASE next_none
      BY <2>4, <3>1, ZenonT(30) DEF Schedule, next_none, PhaseInv
    <3>2. CASE next_found
      <4>1. PICK i \in DOMAIN queue : pc' = [pc EXCEPT ![queue[i]] = "picked"]
        BY <3>2, ZenonT(30) DEF next_found
      <4>2. queue[i] \in Jobs /\ pc[queue[i]] = "queued"
        BY DEF TypeOK, LockInv, QueueInv
      <4> QED
        BY <2>1, <2>4, <4>1, <4>2, ZenonT(30) DEF Schedule, Phase
    <3> QED
      BY <2>4, <3>1, <3>2, Zenon DEF Schedule
  <2>5. ASSUME NEW j \in Jobs, CallOnLoop(j) \/ Callback(j) PROVE PhaseInv'
    <3>1. /\ pc[j] \in {"new", "posted"}
          /\ UNCHANGED <<state, outcome>>
          /\ \E p \in {"rejected", "merged", "queued"} : pc' = [pc EXCEPT ![j] = p]
      BY <2>5, ZenonT(30) DEF CallOnLoop, Callback, add, add_rejected, add_merged, add_queued
    <3> QED
      BY <2>1, <3>1, ZenonT(30) DEF Phase
  <2>6. ASSUME NEW j \in Jobs, CallFromThread(j) PROVE PhaseInv'
    BY <2>1, <2>6, ZenonT(30) DEF CallFromThread, Phase
  <2>7. ASSUME NEW j \in Jobs, Receive(j) PROVE PhaseInv'
    BY <2>1, <2>7, ZenonT(30) DEF Receive, Phase
  <2>8. ASSUME NEW j \in Jobs, Received(j) PROVE PhaseInv'
    BY <2>2, <2>8, ZenonT(30) DEF Received, Phase
  <2>9. ASSUME NEW j \in Jobs, JobStep(j) PROVE PhaseInv'
    <3> USE DEF Goto, set_state, Phase, Terminal
    <3>1. CASE StartLogging(j)
      BY <2>1, <3>1, ZenonT(30) DEF StartLogging
    <3>2. CASE LoggingStarted(j)
      BY <2>1, <3>2, Zenon DEF LoggingStarted
    <3>3. CASE RunCheck(j)
      <4>1. CASE aborted[j]
        <5>1. /\ pc' = [pc EXCEPT ![j] = "closing"]
              /\ state' = [state EXCEPT ![j] = "ABORTED"]
              /\ outcome' = [outcome EXCEPT ![j] = "skipped"]
          BY <3>3, <4>1, ZenonT(30) DEF RunCheck
        <5> QED
          BY <5>1, ZenonT(120) DEF PhaseInv, TypeOK
      <4>2. CASE ~aborted[j]
        <5>1. /\ pc' = [pc EXCEPT ![j] = "checked"]
              /\ UNCHANGED <<state, outcome>>
              /\ pc[j] \in {"ready", "picked"}
          BY <3>3, <4>2, ZenonT(30) DEF RunCheck
        <5> QED
          BY <5>1, ZenonT(120) DEF PhaseInv, TypeOK
      <4> QED
        BY <4>1, <4>2, Zenon
    <3>4. CASE RunStart(j)
      BY <2>2, <3>4, ZenonT(30) DEF RunStart
    <3>5. CASE RunFuture(j)
      BY <2>1, <3>5, ZenonT(30) DEF RunFuture
    <3>6. CASE BodyStart(j)
      <4>1. CASE cancelled[j]
        <5>1. /\ pc' = [pc EXCEPT ![j] = "ended"]
              /\ outcome' = [outcome EXCEPT ![j] = "cancelled"]
              /\ pc[j] = "created" /\ UNCHANGED state
          BY <3>6, <4>1, Zenon DEF BodyStart, Goto
        <5> QED
          BY <5>1, ZenonT(120) DEF PhaseInv, TypeOK
      <4>2. CASE ~cancelled[j]
        <5>1. /\ pc' = [pc EXCEPT ![j] = "body"]
              /\ pc[j] = "created" /\ UNCHANGED <<state, outcome>>
          BY <3>6, <4>2, Zenon DEF BodyStart, Goto
        <5> QED
          BY <5>1, ZenonT(120) DEF PhaseInv, TypeOK
      <4> QED
        BY <4>1, <4>2, Zenon
    <3>7. CASE BodyReturn(j)
      BY <3>7, ZenonT(120) DEF BodyReturn, PhaseInv, TypeOK
    <3>8. CASE BodyRaise(j)
      BY <3>8, ZenonT(120) DEF BodyRaise, PhaseInv, TypeOK
    <3>9. CASE RunResume(j)
      BY <3>9, ZenonT(120) DEF RunResume, PhaseInv, TypeOK
    <3>10. CASE ClosePipes(j)
      BY <2>1, <3>10, Zenon DEF ClosePipes
    <3>11. CASE Finish(j)
      BY <2>1, <3>11, Zenon DEF Finish
    <3>12. CASE Notified(j)
      BY <2>1, <3>12, ZenonT(30) DEF Notified
    <3> QED
      BY <2>9, <3>1, <3>2, <3>3, <3>4, <3>5, <3>6, <3>7, <3>8, <3>9, <3>10, <3>11, <3>12, Zenon DEF JobStep
  <2>10. ASSUME NEW j \in Jobs, AbortRead(j) \/ AbortStep(j) PROVE PhaseInv'
    BY <2>3, <2>10, ZenonT(30) DEF AbortRead, AbortStep, AbortReadState, AbortSet, CancelFuture
  <2> QED
    BY <2>3, <2>4, <2>5, <2>6, <2>7, <2>8, <2>9, <2>10, Zenon DEF Next, vars
<1> QED
  BY <1>1, <1>2, TypeInvariance, LockInvariance, PTL DEF Spec

\* Two jobs with one lock name are never RUNNING together, for any number of jobs,
\* locks, calls and aborts.
THEOREM JobsMutualExclusion == Spec => []MutualExclusion
<1>1. TypeOK /\ LockInv /\ PhaseInv => MutualExclusion
  <2> SUFFICES ASSUME TypeOK, LockInv, PhaseInv, NEW i \in Jobs, NEW j \in Jobs,
                      state[i] = "RUNNING", state[j] = "RUNNING", i # j, Call[i].lock # None,
                      Call[i].lock = Call[j].lock
               PROVE  FALSE
    BY Zenon DEF MutualExclusion
  <2>1. Holding(i) /\ Holding(j)
    BY ZenonT(30) DEF PhaseInv, Phase, Terminal, Holding, TypeOK, PCs
  <2>2. lock[i] # None /\ lock[i] = lock[j]
    BY <2>1, ZenonT(30) DEF LockInv, ActiveInv, Active
  <2> QED
    BY <2>1, <2>2, Zenon DEF LockInv, HolderInv
<1> QED
  BY <1>1, TypeInvariance, LockInvariance, PhaseInvariance, PTL

\* set_state() never meets a state that its assertions refuse.
THEOREM JobsLegalTransitions == Spec => LegalTransitions
<1>1. TypeOK /\ LockInv /\ PhaseInv /\ [Next]_vars => [LegalStep]_vars
  <2> SUFFICES ASSUME TypeOK, PhaseInv, Next PROVE LegalStep
    OBVIOUS
  <2>1. ASSUME state' = state PROVE LegalStep
    BY <2>1, Zenon DEF LegalStep
  <2>2. ASSUME NEW j \in Jobs, NEW s, state' = [state EXCEPT ![j] = s],
               pc[j] = "receiving" \/ <<state[j], s>> \in Legal
        PROVE  LegalStep
    BY <2>2, Zenon DEF TypeOK, LegalStep
  <2>3. CASE Schedule
    BY <2>1, <2>3, Zenon DEF Schedule
  <2>4. ASSUME NEW j \in Jobs, CallOnLoop(j) \/ CallFromThread(j) \/ Callback(j) \/ Receive(j)
        PROVE  LegalStep
    BY <2>1, <2>4, Zenon DEF CallOnLoop, CallFromThread, Callback, Receive, add
  <2>5. ASSUME NEW j \in Jobs, Received(j) PROVE LegalStep
    BY <2>2, <2>5, ZenonT(30) DEF Received
  <2>6. ASSUME NEW j \in Jobs, JobStep(j) PROVE LegalStep
    <3> USE DEF set_state, Phase, PhaseInv, Legal, Terminal
    <3>1. CASE RunCheck(j)
      <4>1. state[j] = "WAITING"
        BY <3>1, ZenonT(30) DEF RunCheck
      <4> QED
        BY <2>1, <2>2, <3>1, <4>1, ZenonT(30) DEF RunCheck
    <3>2. CASE RunStart(j)
      <4>1. state[j] = "WAITING"
        BY <3>2, ZenonT(30) DEF RunStart
      <4> QED
        BY <2>2, <3>2, <4>1, ZenonT(30) DEF RunStart
    <3>3. CASE BodyReturn(j)
      <4>1. state[j] = "RUNNING"
        BY <3>3, Zenon DEF BodyReturn
      <4> QED
        BY <2>2, <3>3, <4>1, ZenonT(30) DEF BodyReturn
    <3>4. CASE RunResume(j)
      <4>1. outcome[j] # "result" => state[j] = "RUNNING"
        BY <3>4, Zenon DEF RunResume
      <4> QED
        BY <2>1, <2>2, <3>4, <4>1, ZenonT(30) DEF RunResume
    <3>5. CASE ~(RunCheck(j) \/ RunStart(j) \/ BodyReturn(j) \/ RunResume(j))
      BY <2>1, <2>6, <3>5, ZenonT(30) DEF JobStep, StartLogging, LoggingStarted, RunFuture, BodyStart, BodyRaise,
                              ClosePipes, Finish, Notified
    <3> QED
      BY <3>1, <3>2, <3>3, <3>4, <3>5, Zenon
  <2>7. ASSUME NEW j \in Jobs, AbortRead(j) \/ AbortStep(j) PROVE LegalStep
    BY <2>1, <2>7, ZenonT(30) DEF AbortRead, AbortStep, AbortReadState, AbortSet, CancelFuture, jobVars
  <2> QED
    BY <2>3, <2>4, <2>5, <2>6, <2>7, Zenon DEF Next
<1> QED
  BY <1>1, TypeInvariance, LockInvariance, PhaseInvariance, PTL DEF Spec, LegalTransitions

\* Why FinishedIsOver holds: _finished is set where the lock has been released, and a lock
\* object is locked only on behalf of a job that has not released it.
OverInv == /\ \A j \in Jobs : finished[j] => pc[j] \in {"notifying", "done"}
           /\ \A j \in Jobs : pc[j] \in {"notifying", "done"} /\ lock[j] # None => j \notin lock_jobs[lock[j]]
           /\ \A o \in Jobs : locked[o] => \E i \in Jobs : Holding(i) /\ lock[i] = o

\* A step that leaves lock objects alone, that lets go of no lock and ends no job.
LEMMA FrameKeepsOverInv ==
    ASSUME OverInv, UNCHANGED <<finished, lock, lock_jobs, locked>>,
           \A k \in Jobs : /\ Holding(k) => Holding(k)'
                           /\ (pc[k] \in {"notifying", "done"}) <=> (pc'[k] \in {"notifying", "done"})
    PROVE  OverInv'
BY ZenonT(30) DEF OverInv

\* release_lock and _finished.set are one step of run().
LEMMA FinishKeepsOverInv ==
    ASSUME TypeOK, LockInv, OverInv, NEW j \in Jobs, Finish(j)
    PROVE  OverInv'
<1>1. /\ pc[j] = "closed" /\ UNCHANGED lock
      /\ finished' = [finished EXCEPT ![j] = TRUE]
      /\ \E p \in {"done", "notifying"} : pc' = [pc EXCEPT ![j] = p]
  BY Zenon DEF Finish, Goto, release_lock, lockVars
<1>2. /\ \A k \in Jobs \ {j} : pc'[k] = pc[k] /\ finished'[k] = finished[k]
      /\ pc'[j] \in {"done", "notifying"}
  BY <1>1, ZenonT(120) DEF TypeOK
<1>3. \A k \in Jobs \ {j} : Holding(k) => Holding(k)'
  BY <1>2, ZenonT(30) DEF Holding
<1>4. \A k \in Jobs : finished'[k] => pc'[k] \in {"notifying", "done"}
  BY <1>2, Zenon DEF OverInv
<1>5. CASE lock[j] = None
  <2>1. UNCHANGED <<lock_jobs, locked>>
    BY <1>5, Zenon DEF Finish, release_lock, lockVars
  <2>2. \A k \in Jobs : pc'[k] \in {"notifying", "done"} /\ lock[k] # None => k \notin lock_jobs[lock[k]]
    BY <1>2, <1>5, Zenon DEF OverInv
  <2>3. \A o \in Jobs : locked[o] => \E i \in Jobs \ {j} : Holding(i) /\ lock[i] = o
    BY <1>5, JobsAssumption, Zenon DEF OverInv
  <2> QED
    BY <1>1, <1>3, <1>4, <2>1, <2>2, <2>3, ZenonT(30) DEF OverInv
<1>6. CASE lock[j] # None
  <2>1. /\ lock_jobs' = [lock_jobs EXCEPT ![lock[j]] = @ \ {j}]
        /\ locked' = [locked EXCEPT ![lock[j]] = FALSE]
    BY <1>6, Zenon DEF Finish, release_lock
  <2>2. \A k \in Jobs : pc'[k] \in {"notifying", "done"} /\ lock[k] # None => k \notin lock_jobs'[lock[k]]
    <3>1. \A k, o \in Jobs : k \in lock_jobs'[o] => k \in lock_jobs[o] /\ ~(k = j /\ o = lock[j])
      BY <1>6, <2>1, Zenon DEF TypeOK
    <3>2. \A k \in Jobs : lock[k] # None => lock[k] \in Jobs
      BY ZenonT(120) DEF TypeOK
    <3> QED
      BY <1>2, <3>1, <3>2, ZenonT(120) DEF OverInv
  <2>3. \A o \in Jobs : locked'[o] => locked[o] /\ o # lock[j]
    BY <2>1, ZenonT(120) DEF TypeOK
  <2>4. \A o \in Jobs : locked'[o] => \E i \in Jobs : Holding(i)' /\ lock[i] = o
    BY <1>3, <2>3, ZenonT(30) DEF OverInv
  <2> QED
    BY <1>1, <1>4, <2>2, <2>4, ZenonT(30) DEF OverInv
<1> QED
  BY <1>5, <1>6, Zenon

\* When wait() returns the job has a final state and its lock is not locked for it.
THEOREM JobsFinishedIsOver == Spec => []FinishedIsOver
<1>1. Init => OverInv
  BY Zenon DEF Init, OverInv
<1>2. TypeOK /\ LockInv /\ OverInv /\ [Next]_vars => OverInv'
  <2> SUFFICES ASSUME TypeOK, LockInv, OverInv, [Next]_vars PROVE OverInv'
    OBVIOUS
  <2>1. ASSUME UNCHANGED <<pc, finished, lock, lock_jobs, locked>> PROVE OverInv'
    BY <2>1, FrameKeepsOverInv, ZenonT(30) DEF Holding
  <2>2. ASSUME NEW j \in Jobs, NEW p \in PCs, pc' = [pc EXCEPT ![j] = p],
               UNCHANGED <<finished, lock, lock_jobs, locked>>,
               pc[j] \in {"notifying", "done"} <=> p \in {"notifying", "done"},
               Holding(j) => p \in {"logging", "ready", "checked", "started", "created", "body",
                                    "ended", "closing", "closed", "dead"}
        PROVE  OverInv'
    <3>1. /\ \A k \in Jobs \ {j} : pc'[k] = pc[k]
          /\ pc'[j] = p
      BY <2>2, Zenon DEF TypeOK
    <3>2. \A k \in Jobs : Holding(k) => Holding(k)'
      BY <2>2, <3>1, ZenonT(30) DEF Holding
    <3> QED
      BY <2>2, <3>1, <3>2, FrameKeepsOverInv, ZenonT(30)
  <2>3. CASE UNCHANGED vars
    BY <2>1, <2>3, Zenon DEF vars, jobVars, lockVars
  <2>4. CASE Schedule
    <3>1. CASE next_none
      BY <2>1, <2>4, <3>1, Zenon DEF Schedule, next_none
    <3>2. CASE next_found
      <4>1. PICK i \in DOMAIN queue : next_found!(i)
        BY <3>2, ZenonT(30) DEF next_found
      <4>a. queue[i] \in Jobs /\ pc[queue[i]] = "queued"
        BY DEF TypeOK, LockInv, QueueInv
      <4>2. PICK found \in Jobs : found = queue[i] /\ pc[found] = "queued"
        BY <4>a, Zenon
      <4>3. /\ locked' = IF lock[found] = None THEN locked ELSE [locked EXCEPT ![lock[found]] = TRUE]
            /\ pc' = [pc EXCEPT ![found] = "picked"]
            /\ UNCHANGED <<finished, lock, lock_jobs>>
        BY <2>4, <4>1, <4>2, Zenon DEF Schedule
      <4>4. /\ \A k \in Jobs \ {found} : pc'[k] = pc[k]
            /\ pc'[found] = "picked"
        BY <4>2, <4>3, Zenon DEF TypeOK
      <4>5. Holding(found)' /\ \A k \in Jobs : Holding(k) => Holding(k)'
        BY <4>2, <4>4, ZenonT(30) DEF Holding
      <4>6. \A o \in Jobs : locked'[o] => locked[o] \/ o = lock[found]
        BY <4>2, <4>3, ZenonT(120) DEF TypeOK
      <4>7. \A o \in Jobs : locked'[o] => \E k \in Jobs : Holding(k)' /\ lock[k] = o
        BY <4>2, <4>5, <4>6, ZenonT(30) DEF OverInv
      <4>8. \A k \in Jobs : pc'[k] \in {"notifying", "done"} <=> pc[k] \in {"notifying", "done"}
        BY <4>2, <4>4, Zenon
      <4> QED
        BY <4>3, <4>7, <4>8, ZenonT(30) DEF OverInv
    <3> QED
      BY <2>4, <3>1, <3>2, Zenon DEF Schedule
  <2>5. ASSUME NEW j \in Jobs, CallOnLoop(j) \/ Callback(j) PROVE OverInv'
    <3>1. /\ pc[j] \in {"new", "posted"}
          /\ UNCHANGED finished
          /\ \E p \in {"rejected", "merged", "queued"} : pc' = [pc EXCEPT ![j] = p]
          /\ UNCHANGED lockVars \/ (Call[j].lock # LockError /\ handle_lock(j))
      BY <2>5, ZenonT(30) DEF CallOnLoop, Callback, add, add_rejected, add_merged, add_queued
    <3>2. /\ \A k \in Jobs \ {j} : pc'[k] = pc[k]
          /\ pc'[j] \in {"rejected", "merged", "queued"}
      BY <3>1, Zenon DEF TypeOK
    <3>3. locked' = locked /\ \A k \in Jobs \ {j} : lock'[k] = lock[k]
      BY <3>1, HandleLock, ZenonT(30) DEF lockVars
    <3>4. \A k \in Jobs \ {j}, o \in Jobs : k \in lock_jobs'[o] => k \in lock_jobs[o]
      <4>1. CASE lock_jobs' = lock_jobs
        BY <4>1, Zenon
      <4>2. CASE lock_jobs' = [lock_jobs EXCEPT ![SharedLock(j)] = @ \cup {j}]
        BY <4>2, Zenon DEF TypeOK
      <4> QED
        BY <3>1, <4>1, <4>2, ZenonT(30) DEF lockVars, handle_lock
    <3>5. \A k \in Jobs \ {j} : lock[k] # None => lock[k] \in Jobs
      BY Zenon DEF TypeOK
    <3>6. ~Holding(j) /\ \A k \in Jobs \ {j} : Holding(k) => Holding(k)'
      BY <3>1, <3>2, ZenonT(30) DEF Holding
    <3>7. \A k \in Jobs : pc'[k] \in {"notifying", "done"} => k # j /\ pc[k] \in {"notifying", "done"}
      BY <3>2, Zenon
    <3>8. \A k \in Jobs : pc'[k] \in {"notifying", "done"} /\ lock'[k] # None => k \notin lock_jobs'[lock'[k]]
      BY <3>3, <3>4, <3>5, <3>7, ZenonT(30) DEF OverInv
    <3>9. \A o \in Jobs : locked'[o] => \E i \in Jobs : Holding(i)' /\ lock'[i] = o
      BY <3>3, <3>6, ZenonT(30) DEF OverInv
    <3>10. \A k \in Jobs : finished'[k] => pc'[k] \in {"notifying", "done"}
      BY <3>1, <3>2, Zenon DEF OverInv
    <3> QED
      BY <3>8, <3>9, <3>10, Zenon DEF OverInv
  <2>6. ASSUME NEW j \in Jobs, CallFromThread(j) \/ Receive(j) PROVE OverInv'
    BY <2>2, <2>6, ZenonT(30) DEF CallFromThread, Receive, lockVars, PCs, Holding
  <2>7. ASSUME NEW j \in Jobs, Received(j) PROVE OverInv'
    BY <2>2, <2>7, ZenonT(30) DEF Received, lockVars, PCs, Holding
  <2>8. ASSUME NEW j \in Jobs, Finish(j) PROVE OverInv'
    BY <2>8, FinishKeepsOverInv, Zenon
  <2>9. ASSUME NEW j \in Jobs, JobStep(j), ~Finish(j) PROVE OverInv'
    <3>1. PICK e \in RunEdges : pc[j] = e[1] /\ pc' = [pc EXCEPT ![j] = e[2]]
      BY <2>9, RunSteps, Zenon
    <3>2. UNCHANGED <<finished, lock, lock_jobs, locked>>
      <4>1. finished' = finished
        BY <2>9, ZenonT(30) DEF JobStep, StartLogging, LoggingStarted, RunCheck, RunStart, RunFuture,
           BodyStart, BodyReturn, BodyRaise, RunResume, ClosePipes, Notified
      <4> QED
        BY <2>9, <4>1, RunSteps, Zenon
    <3>3. /\ e[2] \in PCs
          /\ pc[j] \in {"notifying", "done"} <=> e[2] \in {"notifying", "done"}
          /\ Holding(j) => e[2] \in {"logging", "ready", "checked", "started", "created", "body",
                                     "ended", "closing", "closed", "dead"}
      BY <3>1 DEF RunEdges, Holding, PCs
    <3> QED
      BY <2>2, <3>1, <3>2, <3>3, ZenonT(30)
  <2>10. ASSUME NEW j \in Jobs, AbortRead(j) \/ AbortStep(j) PROVE OverInv'
    BY <2>1, <2>10, ZenonT(30) DEF AbortRead, AbortStep, AbortReadState, AbortSet, CancelFuture, jobVars, lockVars
  <2> QED
    BY <2>3, <2>4, <2>5, <2>6, <2>7, <2>8, <2>9, <2>10, Zenon DEF Next
<1>3. TypeOK /\ PhaseInv /\ OverInv => FinishedIsOver
  <2> SUFFICES ASSUME TypeOK, PhaseInv, OverInv, NEW j \in Jobs, finished[j]
               PROVE  /\ state[j] \in Terminal
                      /\ lock[j] # None => /\ j \notin lock_jobs[lock[j]]
                                           /\ locked[lock[j]] => \E i \in Jobs \ {j} : Holding(i) /\ lock[i] = lock[j]
    BY ZenonT(30) DEF FinishedIsOver
  <2>1. pc[j] \in {"notifying", "done"} /\ ~Holding(j)
    BY Zenon DEF OverInv, Holding
  <2>2. state[j] \in Terminal
    BY <2>1, Zenon DEF PhaseInv, Phase
  <2>3. lock[j] # None => lock[j] \in Jobs
    BY Zenon DEF TypeOK
  <2> QED
    BY <2>1, <2>2, <2>3, ZenonT(30) DEF OverInv
<1> QED
  BY <1>1, <1>2, <1>3, TypeInvariance, LockInvariance, PhaseInvariance, PTL DEF Spec

-----------------------------------------------------------------------------
(* JobsDeque                                                               *)

\* Taking position i from a sequence keeps the element of every other position.
LEMMA RemoveAtKeeps ==
    ASSUME NEW S, NEW s \in Seq(S), NEW i \in DOMAIN s, NEW k \in DOMAIN s, k # i
    PROVE  \E m \in DOMAIN RemoveAt(s, i) : RemoveAt(s, i)[m] = s[k]
<1> DEFINE r == RemoveAt(s, i)
<1>1. /\ Len(r) = Len(s) - 1 /\ r \in Seq(S) /\ Len(s) \in Nat
      /\ \A m \in 1..(Len(s) - 1) : r[m] = IF m < i THEN s[m] ELSE s[m + 1]
  BY RemoveAtProperties, LenProperties, Zenon
<1> HIDE DEF r
<1>2. DOMAIN r = 1..(Len(s) - 1) /\ i \in 1..Len(s) /\ k \in 1..Len(s)
  BY <1>1
<1>3. CASE k < i
  BY <1>1, <1>2, <1>3 DEF r
<1>4. CASE k > i
  <2>1. k - 1 \in DOMAIN r /\ ~(k - 1 < i) /\ (k - 1) + 1 = k
    BY <1>2, <1>4
  <2> QED
    BY <1>1, <1>2, <2>1, Zenon DEF r
<1>5. k < i \/ k > i
  BY <1>2
<1> QED
  BY <1>3, <1>4, <1>5, Zenon

\* JobsDeque.add drops no job that is not over, and JobsDeque.remove no other job.
LEMMA DequeKeeps ==
    ASSUME deque \in Seq(Jobs), NEW j \in Jobs, NEW k \in Jobs, Listed(k)
    PROVE  /\ deque_add(j) /\ state[k] \notin Terminal => Listed(k)'
           /\ deque_remove(j) /\ k # j => Listed(k)'
<1>1. PICK n \in DOMAIN deque : deque[n] = k
  BY Zenon DEF Listed
<1>2. ASSUME NEW s \in Seq(Jobs), NEW m \in DOMAIN s, s[m] = k, deque' = Append(s, j)
      PROVE  Listed(k)'
  <2>1. m \in DOMAIN deque' /\ deque'[m] = s[m]
    BY <1>2
  <2> QED
    BY <1>2, <2>1, Zenon DEF Listed
<1>3. ASSUME NEW i \in DOMAIN deque, i # n
      PROVE  /\ RemoveAt(deque, i) \in Seq(Jobs)
             /\ \E m \in DOMAIN RemoveAt(deque, i) : RemoveAt(deque, i)[m] = k
  BY <1>1, <1>3, RemoveAtKeeps, RemoveAtProperties, Zenon
<1>4. ASSUME deque_add(j), state[k] \notin Terminal PROVE Listed(k)'
  BY <1>1, <1>2, <1>3, <1>4, Zenon DEF deque_add
<1>5. ASSUME deque_remove(j), k # j PROVE Listed(k)'
  <2>1. CASE deque' = deque
    BY <1>1, <2>1, Zenon DEF Listed
  <2>2. CASE deque' # deque
    <3>1. PICK i \in DOMAIN deque : deque[i] = j /\ deque' = RemoveAt(deque, i)
      BY <1>5, <2>2, Zenon DEF deque_remove
    <3> QED
      BY <1>1, <1>3, <1>5, <3>1, Zenon DEF Listed
  <2> QED
    BY <2>1, <2>2, Zenon
<1> QED
  BY <1>4, <1>5, Zenon

\* JobsDeque.add puts the job it is given into the deque.
LEMMA DequeAdds ==
    ASSUME deque \in Seq(Jobs), NEW j \in Jobs, deque_add(j)
    PROVE  Listed(j)'
<1>1. PICK s \in Seq(Jobs) : deque' = Append(s, j)
  BY RemoveAtProperties, Zenon DEF deque_add
<1>2. Len(s) + 1 \in DOMAIN deque' /\ deque'[Len(s) + 1] = j
  BY <1>1
<1> QED
  BY <1>2, Zenon DEF Listed

\* A job that waits or runs can always be found in the deque.
THEOREM JobsLiveJobsAreListed == Spec => []LiveJobsAreListed
<1> DEFINE Live(k) == pc[k] = "queued" \/ (Holding(k) /\ state[k] \notin Terminal)
<1>1. Init => LiveJobsAreListed
  BY DEF Init, LiveJobsAreListed, Holding
<1>2. TypeOK /\ LockInv /\ PhaseInv /\ LiveJobsAreListed /\ [Next]_vars => LiveJobsAreListed'
  <2> SUFFICES ASSUME TypeOK, LockInv, PhaseInv, LiveJobsAreListed, [Next]_vars,
                      NEW k \in Jobs, Live(k)'
               PROVE  Listed(k)'
    BY ZenonT(30) DEF LiveJobsAreListed
  <2>1. Live(k) => Listed(k)
    BY ZenonT(30) DEF LiveJobsAreListed
  <2>2. ASSUME deque' = deque, Live(k) PROVE Listed(k)'
    BY <2>1, <2>2, Zenon DEF Listed
  <2>3. ASSUME deque' = deque, UNCHANGED <<pc, state>> PROVE Listed(k)'
    BY <2>2, <2>3, Zenon DEF Holding
  <2>4. ASSUME NEW j \in Jobs, deque_remove(j), Live(k), k # j PROVE Listed(k)'
    BY <2>1, <2>4, DequeKeeps, ZenonT(30) DEF TypeOK
  <2>5. CASE UNCHANGED vars
    BY <2>3, <2>5, Zenon DEF vars, jobVars, queueVars
  <2>6. CASE Schedule
    <3>1. Live(k)
      <4>1. CASE next_none
        BY <2>6, <4>1, ZenonT(30) DEF Schedule, next_none, Holding
      <4>2. CASE next_found
        <5>1. PICK i \in DOMAIN queue : pc' = [pc EXCEPT ![queue[i]] = "picked"]
          BY <4>2, ZenonT(30) DEF next_found
        <5>2. pc[queue[i]] = "queued"
          BY ZenonT(30) DEF LockInv, QueueInv
        <5> QED
          BY <2>6, <5>1, <5>2, ZenonT(30) DEF Schedule, Holding, TypeOK
      <4> QED
        BY <2>6, <4>1, <4>2, Zenon DEF Schedule
    <3> QED
      BY <2>2, <2>6, <3>1, Zenon DEF Schedule
  <2>7. ASSUME NEW j \in Jobs, CallOnLoop(j) \/ Callback(j) PROVE Listed(k)'
    <3>1. add(j) /\ state' = state
      BY <2>7, ZenonT(30) DEF CallOnLoop, Callback, add
    <3>2. CASE add_queued(j)
      <4>1. deque_add(j) /\ pc' = [pc EXCEPT ![j] = "queued"]
        BY <3>2, ZenonT(30) DEF add_queued
      <4>2. CASE k = j
        BY <4>1, <4>2, DequeAdds, Zenon DEF TypeOK
      <4>3. CASE k # j
        <5>1. pc'[k] = pc[k]
          BY <4>1, <4>3, Zenon DEF TypeOK
        <5>2. Live(k) /\ state[k] \notin Terminal
          BY <3>1, <5>1, ZenonT(30) DEF Holding, PhaseInv, Phase, Terminal
        <5> QED
          BY <2>1, <4>1, <5>2, DequeKeeps, Zenon DEF TypeOK
      <4> QED
        BY <4>2, <4>3, Zenon
    <3>3. CASE add_rejected(j) \/ add_merged(j)
      <4>1. /\ deque' = deque
            /\ pc'[j] \in {"rejected", "merged"}
            /\ \A i \in Jobs \ {j} : pc'[i] = pc[i]
        BY <3>3, ZenonT(120) DEF add_rejected, add_merged, queueVars, TypeOK
      <4>2. Live(k)
        BY <3>1, <4>1, ZenonT(30) DEF Holding
      <4> QED
        BY <2>2, <4>1, <4>2, ZenonT(30)
    <3> QED
      BY <3>1, <3>2, <3>3, Zenon DEF add
  <2>8. ASSUME NEW j \in Jobs, CallFromThread(j) \/ Receive(j) PROVE Listed(k)'
    <3>1. /\ deque' = deque /\ state' = state
          /\ pc'[j] \in {"posted", "receiving"}
          /\ \A i \in Jobs \ {j} : pc'[i] = pc[i]
      BY <2>8, ZenonT(120) DEF CallFromThread, Receive, queueVars, TypeOK
    <3>2. Live(k)
      BY <3>1, ZenonT(60) DEF Holding
    <3> QED
      BY <2>2, <3>1, <3>2, ZenonT(30)
  <2>9. ASSUME NEW j \in Jobs, Received(j) PROVE Listed(k)'
    <3>1. /\ deque' = Append(deque, j)
          /\ pc'[j] = "received"
          /\ \A i \in Jobs \ {j} : pc'[i] = pc[i] /\ state'[i] = state[i]
      BY <2>9, Zenon DEF Received, TypeOK
    <3>2. Live(k)
      BY <3>1, ZenonT(30) DEF Holding
    <3>3. PICK i \in DOMAIN deque : deque[i] = k
      BY <2>1, <3>2, ZenonT(30) DEF Listed
    <3>4. i \in DOMAIN deque' /\ deque'[i] = k
      <4>1. deque \in Seq(Jobs)
        BY ZenonT(30) DEF TypeOK
      <4> QED
        BY <3>1, <3>3, <4>1
    <3> QED
      BY <3>4, Zenon DEF Listed
  <2>10. ASSUME NEW j \in Jobs, JobStep(j) PROVE Listed(k)'
    <3> USE DEF Goto, set_state, queueVars
    <3>1. ASSUME NEW p, Holding(j), p # "queued", pc' = [pc EXCEPT ![j] = p],
                 state' = state \/ (\E s : state' = [state EXCEPT ![j] = s] /\ (s \in Terminal \/ state[j] = "WAITING")),
                 deque' = deque
          PROVE  Listed(k)'
      <4>1. Live(k)
        BY <3>1, ZenonT(120) DEF Holding, TypeOK, Terminal
      <4> QED
        BY <2>2, <3>1, <4>1, ZenonT(30)
    <3>2. ASSUME NEW p \in {"done", "notifying"}, pc' = [pc EXCEPT ![j] = p], state' = state,
                 deque' = deque \/ deque_remove(j)
          PROVE  Listed(k)'
      <4>1. k # j /\ Live(k)
        BY <3>2, Zenon DEF Holding, TypeOK
      <4> QED
        BY <2>2, <2>4, <3>2, <4>1, ZenonT(30)
    <3>3. CASE StartLogging(j)
      BY <3>1, <3>3, ZenonT(30) DEF StartLogging, Holding
    <3>4. CASE LoggingStarted(j)
      BY <3>1, <3>4, ZenonT(30) DEF LoggingStarted, Holding
    <3>5. CASE RunCheck(j)
      BY <3>1, <3>5, Zenon DEF RunCheck, Holding, Terminal
    <3>6. CASE RunStart(j)
      BY <3>1, <3>6, ZenonT(30) DEF RunStart, Holding, PhaseInv, Phase
    <3>7. CASE RunFuture(j)
      BY <3>1, <3>7, ZenonT(30) DEF RunFuture, Holding
    <3>8. CASE BodyStart(j)
      BY <3>1, <3>8, Zenon DEF BodyStart, Holding
    <3>9. CASE BodyReturn(j)
      BY <3>1, <3>9, ZenonT(30) DEF BodyReturn, Holding, Terminal
    <3>10. CASE BodyRaise(j)
      BY <3>1, <3>10, ZenonT(30) DEF BodyRaise, Holding
    <3>11. CASE RunResume(j)
      BY <3>1, <3>11, ZenonT(30) DEF RunResume, Holding, Terminal
    <3>12. CASE ClosePipes(j)
      BY <3>1, <3>12, ZenonT(30) DEF ClosePipes, Holding
    <3>13. CASE Finish(j)
      BY <3>2, <3>13, ZenonT(30) DEF Finish
    <3>14. CASE Notified(j)
      BY <3>2, <3>14, ZenonT(30) DEF Notified
    <3> QED
      BY <2>10, <3>3, <3>4, <3>5, <3>6, <3>7, <3>8, <3>9, <3>10, <3>11, <3>12, <3>13, <3>14, ZenonT(30) DEF JobStep
  <2>11. ASSUME NEW j \in Jobs, AbortRead(j) \/ AbortStep(j) PROVE Listed(k)'
    BY <2>3, <2>11, ZenonT(30) DEF AbortRead, AbortStep, AbortReadState, AbortSet, CancelFuture, jobVars, queueVars
  <2> QED
    BY <2>5, <2>6, <2>7, <2>8, <2>9, <2>10, <2>11, ZenonT(30) DEF Next
<1> QED
  BY <1>1, <1>2, TypeInvariance, LockInvariance, PhaseInvariance, PTL DEF Spec

-----------------------------------------------------------------------------
(* Audit messages                                                          *)

\* Why AuditedAtTheEnd holds: a job that was given to a caller has been queued, so it is
\* still to run; its callback is the last audited call that was given it; and run() leaves
\* out the callback only if no audited call was.
Outside == {"new", "posted", "rejected", "merged", "receiving", "received"}
GivenInv ==
    \A j \in Jobs : /\ pc[j] \in {"new", "posted"} => caller[j] \notin {"returned", "raised"}
                    /\ caller[j] = "returned" => ret[j] \in Jobs /\ pc[ret[j]] \notin Outside
PendingInv ==
    \A j \in Jobs : caller[j] = "returned" /\ Call[j].audit =>
          /\ on_finish_cb[ret[j]] # None
          /\ pc[ret[j]] = "done" => \E i \in audited : ret[i] = ret[j]
CallbackInv ==
    \A r \in Jobs : /\ on_finish_cb[r] # None => /\ caller[on_finish_cb[r]] = "returned"
                                                 /\ ret[on_finish_cb[r]] = r
                    /\ pc[r] = "notifying" => on_finish_cb[r] # None
LoggedInv ==
    \A i \in audited : caller[i] = "raised" \/ (caller[i] = "returned" /\ pc[ret[i]] = "done")
AuditInv == GivenInv /\ PendingInv /\ CallbackInv /\ LoggedInv

\* AuditInv survives every step that changes no call, ends no job, and calls back only where
\* there is a callback.
LEMMA FrameKeepsAuditInv ==
    ASSUME TypeOK, AuditInv, UNCHANGED callVars,
           \A k \in Jobs : /\ pc'[k] \in {"new", "posted"} => pc[k] \in {"new", "posted"}
                           /\ pc[k] \notin Outside => pc'[k] \notin Outside
                           /\ pc'[k] = "done" <=> pc[k] = "done"
                           /\ pc'[k] = "notifying" => pc[k] = "notifying" \/ on_finish_cb[k] # None
    PROVE  AuditInv'
<1>1. UNCHANGED <<caller, ret, on_finish_cb, audited>>
  BY Zenon DEF callVars
<1>2. audited \subseteq Jobs
  BY Zenon DEF TypeOK
<1>3. GivenInv'
  BY <1>1, Zenon DEF AuditInv, GivenInv
<1>4. PendingInv'
  BY <1>1, ZenonT(120) DEF AuditInv, GivenInv, PendingInv
<1>5. CallbackInv'
  BY <1>1, Zenon DEF AuditInv, CallbackInv
<1>6. LoggedInv'
  BY <1>1, <1>2, ZenonT(120) DEF AuditInv, GivenInv, LoggedInv
<1> QED
  BY <1>3, <1>4, <1>5, <1>6, Zenon DEF AuditInv

\* A step that moves run() elsewhere than to its callback or its end is such a step.
LEMMA MoveKeepsAuditInv ==
    ASSUME TypeOK, AuditInv, UNCHANGED callVars, NEW j \in Jobs,
           NEW p \in PCs \ {"new", "posted", "notifying", "done"},
           pc' = [pc EXCEPT ![j] = p], pc[j] # "done", pc[j] \notin Outside => p \notin Outside
    PROVE  AuditInv'
<1>1. pc \in [Jobs -> PCs]
  BY Zenon DEF TypeOK
<1>2. pc'[j] = p /\ \A k \in Jobs : k # j => pc'[k] = pc[k]
  BY <1>1, Zenon
<1> QED
  BY <1>2, FrameKeepsAuditInv, Zenon

\* JobsQueue.add: the job it returns is queued; a call that is refused is logged at once.
LEMMA AddKeepsAuditInv ==
    ASSUME TypeOK, LockInv, AuditInv, NEW j \in Jobs, pc[j] \in {"new", "posted"}, add(j)
    PROVE  AuditInv'
<1>1. /\ pc \in [Jobs -> PCs] /\ audited \subseteq Jobs
      /\ ret \in [Jobs -> Jobs \cup {None}]
      /\ caller \in [Jobs -> {"idle", "blocked", "returned", "raised"}]
      /\ on_finish_cb \in [Jobs -> Jobs \cup {None}]
      /\ queue \in Seq(Jobs)
  BY Zenon DEF TypeOK
<1>2. /\ caller[j] \notin {"returned", "raised"}
      /\ \A i \in Jobs : caller[i] = "returned" => ret[i] # j
      /\ \A i \in audited : i # j /\ i \in Jobs
  <2>1. pc[j] \in Outside
    BY Zenon DEF Outside
  <2> QED
    BY <1>1, <2>1, Zenon DEF AuditInv, GivenInv, LoggedInv
<1>3. \A r \in Jobs : on_finish_cb[r] # j
  BY <1>1, <1>2, JobsAssumption, ZenonT(120) DEF AuditInv, CallbackInv
<1>4. add_rejected(j) \/ add_merged(j) \/ add_queued(j)
  BY Zenon DEF add
<1>5. \A p : pc' = [pc EXCEPT ![j] = p] =>
            pc'[j] = p /\ \A k \in Jobs : k # j => pc'[k] = pc[k]
  BY <1>1, Zenon
<1>6. CASE add_rejected(j)
  <2>1. /\ pc' = [pc EXCEPT ![j] = "rejected"]
        /\ caller' = [caller EXCEPT ![j] = IF Call[j].thread THEN @ ELSE "raised"]
        /\ audited' = IF Call[j].audit THEN audited \cup {j} ELSE audited
        /\ UNCHANGED <<ret, on_finish_cb>>
    BY <1>6, Zenon DEF add_rejected, Raise
  <2>2. Call[j].audit => ~Call[j].thread
    BY JobsAssumption, Zenon
  <2>3. /\ pc'[j] = "rejected" /\ \A k \in Jobs : k # j => pc'[k] = pc[k]
        /\ \A k \in Jobs \ {j} : caller'[k] = caller[k]
        /\ caller'[j] # "returned"
        /\ Call[j].audit => caller'[j] = "raised"
    BY <1>1, <1>2, <1>5, <2>1, <2>2, Zenon
  <2>4. pc'[j] \notin {"new", "posted", "done", "notifying"}
    BY <2>3, Zenon
  <2>5. GivenInv'
    BY <1>2, <2>1, <2>3, <2>4, ZenonT(120) DEF AuditInv, GivenInv
  <2>6. \A i \in audited : i \in audited'
    BY <2>1, Zenon
  <2>7. PendingInv'
    <3> SUFFICES ASSUME NEW k \in Jobs, caller'[k] = "returned", Call[k].audit
                 PROVE  /\ on_finish_cb[ret[k]] # None
                        /\ pc'[ret[k]] = "done" => \E i \in audited' : ret[i] = ret[k]
      BY <2>1, Zenon DEF PendingInv
    <3>1. caller[k] = "returned"
      BY <2>3, Zenon
    <3>2. ret[k] \in Jobs /\ ret[k] # j /\ pc'[ret[k]] = pc[ret[k]]
      BY <1>2, <2>3, <3>1, Zenon DEF AuditInv, GivenInv
    <3> QED
      BY <2>6, <3>1, <3>2, Zenon DEF AuditInv, PendingInv
  <2>8. CallbackInv'
    <3>1. \A r \in Jobs : on_finish_cb[r] # None => caller'[on_finish_cb[r]] = caller[on_finish_cb[r]]
      BY <1>1, <1>3, <2>3, Zenon
    <3>2. \A r \in Jobs : pc'[r] = "notifying" => pc[r] = "notifying"
      BY <2>3, <2>4, Zenon
    <3> QED
      BY <2>1, <3>1, <3>2, ZenonT(120) DEF AuditInv, CallbackInv
  <2>9. LoggedInv'
    BY <1>1, <1>2, <2>1, <2>3, ZenonT(120) DEF AuditInv, GivenInv, LoggedInv
  <2> QED
    BY <2>5, <2>7, <2>8, <2>9, Zenon DEF AuditInv
<1>7. ASSUME NEW r \in Jobs, pc'[r] = "queued", Return(j, r), NEW p \in {"merged", "queued"},
             pc' = [pc EXCEPT ![j] = p], p = "queued" => r = j, r = j \/ pc[r] = "queued"
      PROVE  AuditInv'
  <2>1. /\ ret' = [ret EXCEPT ![j] = r]
        /\ caller' = [caller EXCEPT ![j] = "returned"]
        /\ on_finish_cb' = IF Call[j].audit THEN [on_finish_cb EXCEPT ![r] = j] ELSE on_finish_cb
        /\ UNCHANGED audited
    BY <1>7, Zenon DEF Return
  <2>2. /\ pc'[j] = p /\ \A k \in Jobs : k # j => pc'[k] = pc[k]
        /\ ret'[j] = r /\ \A k \in Jobs : k # j => ret'[k] = ret[k]
        /\ caller'[j] = "returned" /\ \A k \in Jobs : k # j => caller'[k] = caller[k]
        /\ Call[j].audit => on_finish_cb'[r] = j
        /\ ~Call[j].audit => on_finish_cb'[r] = on_finish_cb[r]
        /\ \A k \in Jobs : k # r => on_finish_cb'[k] = on_finish_cb[k]
    BY <1>1, <1>5, <1>7, <2>1, ZenonT(120)
  <2>3. p \notin {"new", "posted", "done", "notifying"} /\ pc'[r] \notin Outside /\ pc'[r] # "done"
    BY <1>7, Zenon DEF Outside
  <2>4. /\ \A k \in Jobs : pc[k] = "done" => k # j
        /\ \A k \in Jobs : caller[k] = "returned" => ret[k] \in Jobs /\ pc'[ret[k]] = pc[ret[k]]
    BY <1>2, <2>2, Zenon DEF AuditInv, GivenInv
  <2>5. GivenInv'
    BY <2>2, <2>3, <2>4, ZenonT(120) DEF AuditInv, GivenInv
  <2>6. j # None
    BY JobsAssumption, Zenon
  <2>7. PendingInv'
    <3>1. ASSUME NEW k \in Jobs, caller'[k] = "returned", Call[k].audit
          PROVE  on_finish_cb'[ret'[k]] # None
      <4>1. CASE k = j
        BY <2>2, <2>6, <3>1, <4>1, Zenon
      <4>2. CASE k # j
        <5>1. /\ caller[k] = "returned" /\ ret'[k] = ret[k] /\ ret[k] \in Jobs
              /\ on_finish_cb[ret[k]] # None
          BY <2>2, <2>4, <3>1, <4>2, ZenonT(120) DEF AuditInv, PendingInv
        <5>2. ret[k] = r \/ on_finish_cb'[ret[k]] = on_finish_cb[ret[k]]
          BY <2>2, <5>1, Zenon
        <5> QED
          BY <2>2, <2>6, <5>1, <5>2, ZenonT(120)
      <4> QED
        BY <4>1, <4>2, Zenon
    <3>2. ASSUME NEW k \in Jobs, caller'[k] = "returned", Call[k].audit, pc'[ret'[k]] = "done"
          PROVE  \E i \in audited' : ret'[i] = ret'[k]
      <4>1. k # j
        BY <2>2, <2>3, <3>2, Zenon
      <4>2. PICK i \in audited : ret[i] = ret[k]
        <5>1. caller[k] = "returned" /\ ret'[k] = ret[k]
          BY <2>2, <3>2, <4>1, Zenon
        <5>2. pc[ret[k]] = "done"
          BY <2>4, <3>2, <5>1, Zenon
        <5> QED
          BY <3>2, <5>1, <5>2, Zenon DEF AuditInv, PendingInv
      <4> QED
        BY <1>2, <2>1, <2>2, <4>1, <4>2, ZenonT(120)
    <3> QED
      BY <3>1, <3>2, Zenon DEF PendingInv
  <2>8. CallbackInv'
    <3> SUFFICES ASSUME NEW k \in Jobs
                 PROVE  /\ on_finish_cb'[k] # None => /\ caller'[on_finish_cb'[k]] = "returned"
                                                      /\ ret'[on_finish_cb'[k]] = k
                        /\ pc'[k] = "notifying" => on_finish_cb'[k] # None
      BY Zenon DEF CallbackInv
    <3>1. pc'[k] = "notifying" => pc[k] = "notifying"
      BY <2>2, <2>3, Zenon
    <3>2. CASE on_finish_cb'[k] = on_finish_cb[k]
      <4>1. on_finish_cb[k] # None => on_finish_cb[k] \in Jobs /\ on_finish_cb[k] # j
        BY <1>1, <1>3, Zenon
      <4>2. on_finish_cb[k] # None => /\ caller'[on_finish_cb[k]] = caller[on_finish_cb[k]]
                                     /\ ret'[on_finish_cb[k]] = ret[on_finish_cb[k]]
        BY <2>2, <4>1, Zenon
      <4> QED
        BY <3>1, <3>2, <4>2, Zenon DEF AuditInv, CallbackInv
    <3>3. CASE on_finish_cb'[k] # on_finish_cb[k]
      <4>1. k = r /\ on_finish_cb'[k] = j
        BY <2>2, <3>3, Zenon
      <4> QED
        BY <2>2, <2>6, <4>1, Zenon
    <3> QED
      BY <3>2, <3>3, Zenon
  <2>9. LoggedInv'
    <3> SUFFICES ASSUME NEW i \in audited
                 PROVE  caller'[i] = "raised" \/ (caller'[i] = "returned" /\ pc'[ret'[i]] = "done")
      BY <2>1, Zenon DEF LoggedInv
    <3>1. caller'[i] = caller[i] /\ ret'[i] = ret[i] /\ i \in Jobs
      BY <1>2, <2>2, Zenon
    <3>2. caller[i] = "raised" \/ (caller[i] = "returned" /\ pc[ret[i]] = "done")
      BY Zenon DEF AuditInv, LoggedInv
    <3> QED
      BY <2>4, <3>1, <3>2, Zenon
  <2> QED
    BY <2>5, <2>7, <2>8, <2>9, Zenon DEF AuditInv
<1>8. CASE add_merged(j)
  <2>1. PICK i \in DOMAIN queue : Return(j, queue[i])
    BY <1>8, Zenon DEF add_merged, shareable, queued_jobs
  <2>2. pc' = [pc EXCEPT ![j] = "merged"]
    BY <1>8, Zenon DEF add_merged
  <2>3. queue[i] \in Jobs /\ pc[queue[i]] = "queued" /\ queue[i] # j
    BY <1>1 DEF LockInv, QueueInv
  <2>4. pc'[queue[i]] = "queued"
    BY <1>5, <2>2, <2>3, Zenon
  <2> QED
    BY <1>7, <2>1, <2>2, <2>3, <2>4, Zenon
<1>9. CASE add_queued(j)
  <2>1. Return(j, j) /\ pc' = [pc EXCEPT ![j] = "queued"]
    BY <1>9, Zenon DEF add_queued
  <2> QED
    BY <1>5, <1>7, <2>1, Zenon
<1> QED
  BY <1>4, <1>6, <1>8, <1>9, Zenon

\* A job that has run to its end, in whatever way, has logged the audit message of a call
\* that was given it, and no message is logged before the outcome of its call is known,
\* whatever calls there are and however add() merges them.
THEOREM JobsAuditedAtTheEnd == Spec => []AuditedAtTheEnd
<1>1. Init => AuditInv
  <2> SUFFICES ASSUME Init PROVE AuditInv
    OBVIOUS
  <2>1. /\ audited = {}
        /\ \A j \in Jobs : caller[j] = "idle" /\ on_finish_cb[j] = None /\ pc[j] = "new"
    BY Zenon DEF Init
  <2> QED
    BY <2>1, Zenon DEF AuditInv, GivenInv, PendingInv, CallbackInv, LoggedInv
<1>2. TypeOK /\ LockInv /\ AuditInv /\ [Next]_vars => AuditInv'
  <2> SUFFICES ASSUME TypeOK, LockInv, AuditInv, [Next]_vars PROVE AuditInv'
    OBVIOUS
  <2>1. /\ pc \in [Jobs -> PCs] /\ audited \subseteq Jobs
        /\ caller \in [Jobs -> {"idle", "blocked", "returned", "raised"}]
        /\ on_finish_cb \in [Jobs -> Jobs \cup {None}]
        /\ queue \in Seq(Jobs)
    BY Zenon DEF TypeOK
  <2>2. CASE UNCHANGED <<pc, callVars>>
    BY <2>2, FrameKeepsAuditInv, Zenon
  <2>3. CASE Schedule
    <3>1. CASE next_found
      <4>1. PICK i \in DOMAIN queue : pc' = [pc EXCEPT ![queue[i]] = "picked"]
        BY <3>1, Zenon DEF next_found
      <4>2. queue[i] \in Jobs /\ pc[queue[i]] = "queued"
        BY <2>1 DEF LockInv, QueueInv
      <4>3. UNCHANGED callVars
        BY <2>3, Zenon DEF Schedule
      <4>4. "picked" \in PCs \ ({"new", "posted", "notifying", "done"} \cup Outside)
        BY Zenon DEF PCs, Outside
      <4> QED
        BY <4>1, <4>2, <4>3, <4>4, MoveKeepsAuditInv, Zenon
    <3> QED
      BY <2>2, <2>3, <3>1, Zenon DEF Schedule, next_none
  <2>4. ASSUME NEW j \in Jobs, CallOnLoop(j) \/ Callback(j) PROVE AuditInv'
    BY <2>4, AddKeepsAuditInv, Zenon DEF CallOnLoop, Callback
  <2>5. ASSUME NEW j \in Jobs, CallFromThread(j) PROVE AuditInv'
    <3>1. /\ pc[j] = "new"
          /\ pc' = [pc EXCEPT ![j] = "posted"]
          /\ caller' = [caller EXCEPT ![j] = "blocked"]
          /\ UNCHANGED <<ret, on_finish_cb, audited>>
      BY <2>5, Zenon DEF CallFromThread
    <3>2. /\ pc'[j] = "posted" /\ \A k \in Jobs : k # j => pc'[k] = pc[k]
          /\ caller'[j] = "blocked" /\ \A k \in Jobs : k # j => caller'[k] = caller[k]
      BY <2>1, <3>1, Zenon
    <3>3. /\ caller[j] \notin {"returned", "raised"}
          /\ \A i \in Jobs : caller[i] = "returned" => ret[i] \in Jobs \ {j}
      <4>1. pc[j] \in Outside /\ pc[j] \in {"new", "posted"}
        BY <3>1, Zenon DEF Outside
      <4> QED
        BY <4>1, Zenon DEF AuditInv, GivenInv
    <3>4. GivenInv'
      BY <3>1, <3>2, <3>3, ZenonT(120) DEF AuditInv, GivenInv
    <3>5. PendingInv'
      <4> SUFFICES ASSUME NEW k \in Jobs, caller'[k] = "returned", Call[k].audit
                   PROVE  /\ on_finish_cb[ret[k]] # None
                          /\ pc'[ret[k]] = "done" => \E i \in audited : ret[i] = ret[k]
        BY <3>1, ZenonT(120) DEF PendingInv
      <4>1. caller[k] = "returned"
        BY <3>2, Zenon
      <4>2. pc'[ret[k]] = pc[ret[k]]
        BY <3>2, <3>3, <4>1, Zenon
      <4> QED
        BY <4>1, <4>2, Zenon DEF AuditInv, PendingInv
    <3>6. CallbackInv'
      <4>1. \A r \in Jobs : on_finish_cb[r] # None => on_finish_cb[r] \in Jobs \ {j}
        BY <2>1, <3>3, ZenonT(120) DEF AuditInv, CallbackInv
      <4> QED
        BY <3>1, <3>2, <4>1, ZenonT(120) DEF AuditInv, CallbackInv
    <3>7. LoggedInv'
      BY <2>1, <3>1, <3>2, <3>3, ZenonT(120) DEF AuditInv, LoggedInv
    <3> QED
      BY <3>4, <3>5, <3>6, <3>7, Zenon DEF AuditInv
  <2>6. ASSUME NEW j \in Jobs, Receive(j) \/ Received(j) PROVE AuditInv'
    <3>1. /\ UNCHANGED callVars
          /\ \/ pc[j] = "new" /\ pc' = [pc EXCEPT ![j] = "receiving"]
             \/ pc[j] = "receiving" /\ pc' = [pc EXCEPT ![j] = "received"]
      BY <2>6, Zenon DEF Receive, Received
    <3>2. /\ "receiving" \in PCs \ {"new", "posted", "notifying", "done"}
          /\ "received" \in PCs \ {"new", "posted", "notifying", "done"}
          /\ "new" \in Outside \ {"done"} /\ "receiving" \in Outside \ {"done"}
      BY Zenon DEF PCs, Outside
    <3> QED
      BY <3>1, <3>2, MoveKeepsAuditInv, Zenon
  <2>8. ASSUME NEW j \in Jobs, Finish(j) PROVE AuditInv'
    <3>1. /\ pc[j] = "closed" /\ UNCHANGED callVars
          /\ \/ on_finish_cb[j] = None /\ pc' = [pc EXCEPT ![j] = "done"]
             \/ on_finish_cb[j] # None /\ pc' = [pc EXCEPT ![j] = "notifying"]
      BY <2>8, Zenon DEF Finish, Goto
    <3>2. CASE on_finish_cb[j] # None
      <4>1. pc'[j] = "notifying" /\ \A k \in Jobs : k # j => pc'[k] = pc[k]
        BY <2>1, <3>1, <3>2, Zenon
      <4>2. "notifying" \notin Outside
        BY Zenon DEF Outside
      <4> QED
        BY <3>1, <3>2, <4>1, <4>2, FrameKeepsAuditInv, Zenon
    <3>3. CASE on_finish_cb[j] = None
      <4>1. /\ pc'[j] = "done" /\ \A k \in Jobs : k # j => pc'[k] = pc[k]
            /\ UNCHANGED <<caller, ret, on_finish_cb, audited>>
        BY <2>1, <3>1, <3>3, Zenon DEF callVars
      <4>2. "done" \notin Outside /\ pc[j] # "done"
        BY <3>1, Zenon DEF Outside
      <4>3. GivenInv'
        BY <4>1, <4>2, Zenon DEF AuditInv, GivenInv
      <4>4. PendingInv'
        BY <3>3, <4>1, ZenonT(120) DEF AuditInv, GivenInv, PendingInv
      <4>5. CallbackInv'
        BY <4>1, ZenonT(120) DEF AuditInv, CallbackInv
      <4>6. LoggedInv'
        BY <2>1, <4>1, ZenonT(120) DEF AuditInv, GivenInv, LoggedInv
      <4> QED
        BY <4>3, <4>4, <4>5, <4>6, Zenon DEF AuditInv
    <3> QED
      BY <3>2, <3>3, Zenon
  <2>9. ASSUME NEW j \in Jobs, Notified(j) PROVE AuditInv'
    <3>1. /\ pc[j] = "notifying" /\ pc' = [pc EXCEPT ![j] = "done"]
          /\ audited' = audited \cup {on_finish_cb[j]}
          /\ UNCHANGED <<caller, ret, on_finish_cb>>
      BY <2>9, Zenon DEF Notified, Goto
    <3>2. pc'[j] = "done" /\ \A k \in Jobs : k # j => pc'[k] = pc[k]
      BY <2>1, <3>1, Zenon
    <3>3. /\ on_finish_cb[j] \in Jobs
          /\ caller[on_finish_cb[j]] = "returned" /\ ret[on_finish_cb[j]] = j
      BY <2>1, <3>1, ZenonT(120) DEF AuditInv, CallbackInv
    <3>4. "done" \notin Outside
      BY Zenon DEF Outside
    <3>5. GivenInv'
      BY <3>1, <3>2, <3>4, Zenon DEF AuditInv, GivenInv
    <3>6. PendingInv'
      <4>1. on_finish_cb[j] \in audited' /\ audited \subseteq audited'
        BY <3>1, Zenon
      <4> QED
        <5> SUFFICES ASSUME NEW k \in Jobs, caller[k] = "returned", Call[k].audit
                     PROVE  /\ on_finish_cb[ret[k]] # None
                            /\ pc'[ret[k]] = "done" => \E i \in audited' : ret[i] = ret[k]
          BY <3>1, ZenonT(120) DEF PendingInv
        <5>1. ret[k] \in Jobs
          BY Zenon DEF AuditInv, GivenInv
        <5>2. CASE ret[k] = j
          BY <3>3, <4>1, <5>2, Zenon DEF AuditInv, PendingInv
        <5>3. CASE ret[k] # j
          BY <3>2, <4>1, <5>1, <5>3, Zenon DEF AuditInv, PendingInv
        <5> QED
          BY <5>2, <5>3, Zenon
    <3>7. CallbackInv'
      BY <3>1, <3>2, ZenonT(120) DEF AuditInv, CallbackInv
    <3>8. LoggedInv'
      BY <2>1, <3>1, <3>2, <3>3, ZenonT(120) DEF AuditInv, GivenInv, LoggedInv
    <3> QED
      BY <3>5, <3>6, <3>7, <3>8, Zenon DEF AuditInv
  <2>10. ASSUME NEW j \in Jobs, JobStep(j), ~Finish(j), ~Notified(j) PROVE AuditInv'
    <3>1. UNCHANGED callVars
      BY <2>10, ZenonT(30) DEF JobStep, StartLogging, LoggingStarted, RunCheck, RunStart, RunFuture,
                    BodyStart, BodyReturn, BodyRaise, RunResume, ClosePipes
    <3>2. pc[j] # "notifying"
      BY <2>10, ZenonT(30) DEF JobStep, StartLogging, LoggingStarted, RunCheck, RunStart, RunFuture,
                    BodyStart, BodyReturn, BodyRaise, RunResume, ClosePipes
    <3>3. PICK e \in RunEdges : pc[j] = e[1] /\ pc' = [pc EXCEPT ![j] = e[2]]
      BY <2>10, RunSteps, Zenon
    <3>4. /\ e[2] \in PCs \ {"new", "posted", "notifying", "done"}
          /\ e[1] # "done" /\ e[2] \notin Outside
      BY <3>2, <3>3 DEF RunEdges, PCs, Outside
    <3> QED
      BY <3>1, <3>3, <3>4, MoveKeepsAuditInv, Zenon
  <2>11. ASSUME NEW j \in Jobs, AbortRead(j) \/ AbortStep(j) PROVE AuditInv'
    BY <2>2, <2>11, Zenon DEF AbortRead, AbortStep, AbortReadState, AbortSet, CancelFuture, jobVars
  <2> QED
    BY <2>2, <2>3, <2>4, <2>5, <2>6, <2>8, <2>9, <2>10, <2>11, Zenon DEF Next, vars, jobVars
<1>3. TypeOK /\ AuditInv => AuditedAtTheEnd
  BY Zenon DEF TypeOK, AuditInv, PendingInv, LoggedInv, AuditedAtTheEnd
<1> QED
  BY <1>1, <1>2, <1>3, TypeInvariance, LockInvariance, PTL DEF Spec

=============================================================================
