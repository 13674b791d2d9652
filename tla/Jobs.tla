-------------------------------- MODULE Jobs --------------------------------
(***************************************************************************)
(* The job subsystem of middlewared (job.py): JobsQueue and its scheduler, *)
(* the shared locks, JobsDeque, and the life of a Job from the call that   *)
(* creates it (Middleware._call_prepare, call_with_audit) to its audit     *)
(* message, with core.job_abort racing it from a worker thread.            *)
(*                                                                         *)
(* Code that runs on the event loop is atomic between two suspension       *)
(* points.  The one segment a worker thread can observe half way (the      *)
(* beginning of Job.run, against Job.abort) is split into its assignments; *)
(* `loop' says who is inside it and keeps every other coroutine out.       *)
(***************************************************************************)
EXTENDS Integers, FiniteSets, Sequences

CONSTANTS
    Jobs,      \* Job objects; each one is created by one call
    Locks,     \* lock names
    None,      \* Python's None
    LockError, \* "lock" is a callable that raises for the call's arguments
    Scheduler, \* the task that runs JobsQueue.run
    Call,      \* what each call asks for: method options, caller, origin
    maxlen,    \* JobsDeque.maxlen
    AbortTargets \* bound: the jobs somebody aborts, each of them once

Faults == {"start_logging", "close_pipes"}

Calls == [lock            : Locks \cup {None, LockError},
          lock_queue_size : Nat \cup {None},
          logs            : BOOLEAN,
          transient       : BOOLEAN,
          coroutine       : BOOLEAN,      \* iscoroutinefunction(job.method)
          user            : STRING \cup {None}, \* None: not a user session
          limited         : BOOLEAN,      \* credential_is_limited_to_own_jobs
          thread          : BOOLEAN,      \* call_sync from a worker thread
          audit           : BOOLEAN,      \* made through call_with_audit
          remote          : BOOLEAN,      \* copied from the other HA node
          faults          : SUBSET Faults]

ASSUME JobsAssumption ==
    /\ None \notin Jobs /\ None \notin Locks /\ None \notin {LockError, Scheduler} /\ None \notin Nat
    /\ LockError \notin Locks
    /\ Scheduler \notin Jobs
    /\ maxlen \in Nat
    /\ AbortTargets \subseteq Jobs
    /\ Call \in [Jobs -> Calls]
    /\ \A j \in Jobs : /\ Call[j].limited => Call[j].user # None
                       /\ Call[j].audit => ~Call[j].thread  \* call_with_audit is a coroutine

VARIABLES
    pc,            \* where the call and the task running Job.run are
    state,         \* Job.state
    outcome,       \* how Job.future ended
    finished,      \* Job._finished
    lock,          \* Job.lock; a JobSharedLock is named by the job that made it
    job_locks,     \* JobsQueue.job_locks
    lock_jobs,     \* JobSharedLock.jobs
    locked,        \* JobSharedLock.lock.locked()
    queue,         \* JobsQueue.queue
    queue_event,   \* JobsQueue.queue_event
    deque,         \* JobsDeque.__dict, oldest first
    aborted,       \* Job.aborted
    aborted_event, \* Job.aborted_event
    abort_pc,      \* where the worker thread in Job.abort is
    cancel_posted, \* future.cancel handed to call_soon_threadsafe
    cancelled,     \* Job.future has been cancelled while pending
    caller,        \* what the calling code has seen
    ret,           \* the Job it was given
    on_finish_cb,  \* Job.on_finish_cb: the call whose audit message it logs
    audited,       \* calls whose audit message has been logged
    loop           \* who is in the middle of a loop segment

lockVars  == <<lock, job_locks, lock_jobs, locked>>
abortVars == <<aborted, aborted_event, abort_pc, cancel_posted, cancelled>>
callVars  == <<caller, ret, on_finish_cb, audited>>
queueVars == <<queue, queue_event, deque>>
jobVars   == <<pc, state, outcome, finished>>
vars      == <<jobVars, lockVars, abortVars, callVars, queueVars, loop>>

States   == {"WAITING", "RUNNING", "SUCCESS", "FAILED", "ABORTED"}
Terminal == {"SUCCESS", "FAILED", "ABORTED"}

PCs == {"new", "posted", "rejected", "merged", "queued", "picked", "logging",
        "ready", "checked", "started", "created", "body", "ended", "closing",
        "closed", "notifying", "done", "dead", "receiving", "received"}

\* The job has been taken from the queue and release_lock has not been reached.
Holding(j) == pc[j] \in {"picked", "logging", "ready", "checked", "started",
                         "created", "body", "ended", "closing", "closed", "dead"}

\* Job.future is not None.
HasFuture(j) == pc[j] \in {"created", "body", "ended", "closing", "closed",
                           "notifying", "done"} /\ outcome[j] # "skipped"

TypeOK ==
    /\ pc \in [Jobs -> PCs]
    /\ state \in [Jobs -> States]
    /\ outcome \in [Jobs -> {"none", "result", "error", "cancelled", "skipped"}]
    /\ finished \in [Jobs -> BOOLEAN]
    /\ lock \in [Jobs -> Jobs \cup {None}]
    /\ job_locks \in [Locks -> Jobs \cup {None}]
    /\ lock_jobs \in [Jobs -> SUBSET Jobs]
    /\ locked \in [Jobs -> BOOLEAN]
    /\ queue \in Seq(Jobs)
    /\ queue_event \in {"set", "clear"}
    /\ deque \in Seq(Jobs)
    /\ aborted \in [Jobs -> BOOLEAN]
    /\ aborted_event \in [Jobs -> BOOLEAN]
    /\ abort_pc \in [Jobs -> {"idle", "no_future", "waiting", "returned"}]
    /\ cancel_posted \in [Jobs -> BOOLEAN]
    /\ cancelled \in [Jobs -> BOOLEAN]
    /\ caller \in [Jobs -> {"idle", "blocked", "returned", "raised"}]
    /\ ret \in [Jobs -> Jobs \cup {None}]
    /\ on_finish_cb \in [Jobs -> Jobs \cup {None}]
    /\ audited \subseteq Jobs
    /\ loop \in Jobs \cup {None, Scheduler}

Init ==
    /\ pc = [j \in Jobs |-> "new"]
    /\ state = [j \in Jobs |-> "WAITING"]
    /\ outcome = [j \in Jobs |-> "none"]
    /\ finished = [j \in Jobs |-> FALSE]
    /\ lock = [j \in Jobs |-> None]
    /\ job_locks = [l \in Locks |-> None]
    /\ lock_jobs = [j \in Jobs |-> {}]
    /\ locked = [j \in Jobs |-> FALSE]
    /\ queue = <<>>
    /\ queue_event = "clear"
    /\ deque = <<>>
    /\ aborted = [j \in Jobs |-> FALSE]
    /\ aborted_event = [j \in Jobs |-> FALSE]
    /\ abort_pc = [j \in Jobs |-> "idle"]
    /\ cancel_posted = [j \in Jobs |-> FALSE]
    /\ cancelled = [j \in Jobs |-> FALSE]
    /\ caller = [j \in Jobs |-> "idle"]
    /\ ret = [j \in Jobs |-> None]
    /\ on_finish_cb = [j \in Jobs |-> None]
    /\ audited = {}
    /\ loop = None

-----------------------------------------------------------------------------
(* JobsQueue.add and what it calls                                         *)

\* The lock object handle_lock finds or makes for the call.
SharedLock(j) ==
    LET name == Call[j].lock
    IN  IF name = None THEN None
        ELSE IF job_locks[name] = None THEN j ELSE job_locks[name]

\* The job joins the lock's jobs before add() has decided to keep it.
handle_lock(j) ==
    IF Call[j].lock = None
    THEN UNCHANGED lockVars
    ELSE /\ job_locks' = [job_locks EXCEPT ![Call[j].lock] = SharedLock(j)]
         /\ lock_jobs' = [lock_jobs EXCEPT ![SharedLock(j)] = @ \cup {j}]
         /\ lock' = [lock EXCEPT ![j] = SharedLock(j)]
         /\ UNCHANGED locked

\* Positions of the queued jobs whose lock "is" the lock of the call (None is None).
queued_jobs(j) == {i \in DOMAIN queue : lock[queue[i]] = SharedLock(j)}

already_running(j) ==
    /\ Call[j].lock_queue_size = 0
    /\ \E i \in DOMAIN deque : /\ state[deque[i]] = "RUNNING"
                               /\ lock[deque[i]] = SharedLock(j)

\* Mutant: off by one.
queue_full_late(j) ==
    /\ Call[j].lock_queue_size \notin {None, 0}
    /\ Cardinality(queued_jobs(j)) > Call[j].lock_queue_size

queue_full(j) ==
    /\ Call[j].lock_queue_size \notin {None, 0}
    /\ Cardinality(queued_jobs(j)) >= Call[j].lock_queue_size

\* Positions of the queued jobs the caller may be given instead of its own.
shareable(j) ==
    {i \in queued_jobs(j) : Call[j].limited => Call[queue[i]].user = Call[j].user}

\* The sequence without its i-th element.
RemoveAt(s, i) == SubSeq(s, 1, i - 1) \o SubSeq(s, i + 1, Len(s))

Listed(j) == \E i \in DOMAIN deque : deque[i] = j

\* Mutant: the oldest job goes, whatever its state.
deque_add_oldest(j) ==
    deque' = Append(IF Len(deque) > maxlen THEN Tail(deque) ELSE deque, j)

\* JobsDeque.add: past maxlen, the oldest job in a terminal state goes.
deque_add(j) ==
    LET over == {i \in DOMAIN deque : state[deque[i]] \in Terminal}
    IN  IF Len(deque) > maxlen /\ over # {}
        THEN \E i \in over : /\ \A k \in over : i <= k
                             /\ deque' = Append(RemoveAt(deque, i), j)
        ELSE deque' = Append(deque, j)

\* The call returns Job r; call_with_audit then sets r's callback without suspending.
Return(j, r) ==
    /\ ret' = [ret EXCEPT ![j] = r]
    /\ caller' = [caller EXCEPT ![j] = "returned"]
    /\ on_finish_cb' = IF Call[j].audit THEN [on_finish_cb EXCEPT ![r] = j]
                                        ELSE on_finish_cb
    /\ UNCHANGED audited

\* add() raises.  On the loop the caller gets the exception (and logs the failed
\* call); posted by a thread, the exception ends the callback before event.set().
Raise(j) ==
    /\ caller' = [caller EXCEPT ![j] = IF Call[j].thread THEN @ ELSE "raised"]
    /\ audited' = IF Call[j].audit THEN audited \cup {j} ELSE audited
    /\ UNCHANGED <<ret, on_finish_cb>>

add_rejected(j) ==
    /\ \/ /\ Call[j].lock = LockError
          /\ UNCHANGED lockVars
       \/ /\ Call[j].lock # LockError
          /\ already_running(j) \/ (queue_full(j) /\ shareable(j) = {})
          /\ handle_lock(j)
    /\ pc' = [pc EXCEPT ![j] = "rejected"]
    /\ Raise(j)
    /\ UNCHANGED queueVars

add_merged(j) ==
    /\ Call[j].lock # LockError
    /\ queue_full(j)
    /\ \E i \in shareable(j) : /\ \A k \in shareable(j) : k <= i
                               /\ Return(j, queue[i])
    /\ handle_lock(j)
    /\ pc' = [pc EXCEPT ![j] = "merged"]
    /\ UNCHANGED queueVars

add_queued(j) ==
    /\ Call[j].lock # LockError
    /\ ~already_running(j)
    /\ ~queue_full(j)
    /\ handle_lock(j)
    /\ deque_add(j)
    /\ queue' = Append(queue, j)
    /\ queue_event' = "set"
    /\ pc' = [pc EXCEPT ![j] = "queued"]
    /\ Return(j, j)

add(j) == /\ add_rejected(j) \/ add_merged(j) \/ add_queued(j)
          /\ UNCHANGED <<state, outcome, finished, abortVars, loop>>

\* Middleware._call_prepare: a coroutine calls add() itself ...
CallOnLoop(j) ==
    /\ loop = None
    /\ pc[j] = "new" /\ ~Call[j].thread /\ ~Call[j].remote
    /\ add(j)

\* ... a worker thread posts a callback that does, and waits for its event.
CallFromThread(j) ==
    /\ pc[j] = "new" /\ Call[j].thread /\ ~Call[j].remote
    /\ pc' = [pc EXCEPT ![j] = "posted"]
    /\ caller' = [caller EXCEPT ![j] = "blocked"]
    /\ UNCHANGED <<state, outcome, finished, lockVars, abortVars, ret,
                   on_finish_cb, audited, queueVars, loop>>

Callback(j) ==
    /\ loop = None
    /\ pc[j] = "posted"
    /\ add(j)

-----------------------------------------------------------------------------
(* JobsQueue.next, run, release_lock, receive                              *)

Runnable(j) == lock[j] # None => ~locked[lock[j]]

\* Mutant: any runnable job is taken.
next_found_any ==
    \E i \in DOMAIN queue :
        /\ Runnable(queue[i])
        /\ locked' = IF lock[queue[i]] = None THEN locked
                     ELSE [locked EXCEPT ![lock[queue[i]]] = TRUE]
        /\ queue' = RemoveAt(queue, i)
        /\ queue_event' = IF Len(queue) > 1 THEN "set" ELSE "clear"
        /\ pc' = [pc EXCEPT ![queue[i]] = "picked"]

\* The first runnable job is taken with its lock and a task is created for it.
\* Waiting for a set event and acquiring a free lock do not suspend, so the
\* scheduler keeps the loop until it has cleared the event.
next_found ==
    \E i \in DOMAIN queue :
        LET found == queue[i]
        IN  /\ Runnable(found)
            /\ \A k \in 1..(i - 1) : ~Runnable(queue[k])
            /\ locked' = IF lock[found] = None THEN locked
                         ELSE [locked EXCEPT ![lock[found]] = TRUE]
            /\ queue' = RemoveAt(queue, i)
            /\ queue_event' = IF Len(queue) > 1 THEN "set" ELSE "clear"
            /\ pc' = [pc EXCEPT ![found] = "picked"]

next_none ==
    /\ \A i \in DOMAIN queue : ~Runnable(queue[i])
    /\ queue_event' = "clear"
    /\ UNCHANGED <<queue, locked, pc>>

Schedule ==
    /\ loop \in {None, Scheduler}
    /\ queue_event = "set"
    /\ next_found \/ next_none
    /\ loop' = IF queue_event' = "set" THEN Scheduler ELSE None
    /\ UNCHANGED <<state, outcome, finished, lock, job_locks, lock_jobs, deque,
                   abortVars, callVars>>

\* Mutants: the lock object goes whatever jobs refer to it; the scheduler is not woken.
release_lock_drops(j) ==
    IF lock[j] = None
    THEN UNCHANGED <<lockVars, queue_event>>
    ELSE /\ lock_jobs' = [lock_jobs EXCEPT ![lock[j]] = @ \ {j}]
         /\ locked' = [locked EXCEPT ![lock[j]] = FALSE]
         /\ job_locks' = [job_locks EXCEPT ![Call[j].lock] = None]
         /\ queue_event' = "set"
         /\ UNCHANGED lock

release_lock_silent(j) ==
    IF lock[j] = None
    THEN UNCHANGED <<lockVars, queue_event>>
    ELSE /\ lock_jobs' = [lock_jobs EXCEPT ![lock[j]] = @ \ {j}]
         /\ locked' = [locked EXCEPT ![lock[j]] = FALSE]
         /\ job_locks' = IF lock_jobs[lock[j]] \subseteq {j}
                         THEN [job_locks EXCEPT ![Call[j].lock] = None]
                         ELSE job_locks
         /\ UNCHANGED <<lock, queue_event>>

\* The lock object goes when no job refers to it; the scheduler is woken.
release_lock(j) ==
    IF lock[j] = None
    THEN UNCHANGED <<lockVars, queue_event>>
    ELSE LET l == lock[j]
         IN  /\ lock_jobs' = [lock_jobs EXCEPT ![l] = @ \ {j}]
             /\ locked' = [locked EXCEPT ![l] = FALSE]
             /\ job_locks' = IF lock_jobs[l] \subseteq {j}
                             THEN [job_locks EXCEPT ![Call[j].lock] = None]
                             ELSE job_locks
             /\ queue_event' = "set"
             /\ UNCHANGED lock

\* JobsQueue.receive: the id is taken at once, the job is inserted after the
\* logs have been written; nothing is evicted.
Receive(j) ==
    /\ loop = None
    /\ pc[j] = "new" /\ Call[j].remote
    /\ pc' = [pc EXCEPT ![j] = "receiving"]
    /\ UNCHANGED <<state, outcome, finished, lockVars, abortVars, callVars, queueVars, loop>>

Received(j) ==
    /\ loop = None
    /\ pc[j] = "receiving"
    /\ pc' = [pc EXCEPT ![j] = "received"]
    /\ \E s \in Terminal : state' = [state EXCEPT ![j] = s]
    /\ deque' = Append(deque, j)
    /\ UNCHANGED <<outcome, finished, lockVars, abortVars, callVars, queue, queue_event, loop>>

-----------------------------------------------------------------------------
(* Job.run                                                                 *)

set_state(j, s) == state' = [state EXCEPT ![j] = s]

Goto(j, p) == pc' = [pc EXCEPT ![j] = p]

\* With "logs", the log file is opened in a worker thread outside run()'s try.
StartLogging(j) ==
    /\ loop = None
    /\ pc[j] = "picked" /\ Call[j].logs
    /\ Goto(j, "logging")
    /\ UNCHANGED <<state, outcome, finished, lockVars, abortVars, callVars, queueVars, loop>>

LoggingStarted(j) ==
    /\ pc[j] = "logging"
    /\ \/ Goto(j, "ready")
       \/ "start_logging" \in Call[j].faults /\ Goto(j, "dead")
    /\ UNCHANGED <<state, outcome, finished, lockVars, abortVars, callVars, queueVars, loop>>

\* run() reads self.aborted.  An aborted job never gets a future: CancelledError
\* makes it ABORTED and the finally clause suspends in __close_logs/__close_pipes.
RunCheck(j) ==
    /\ loop = None
    /\ pc[j] = IF Call[j].logs THEN "ready" ELSE "picked"
    /\ IF aborted[j]
       THEN /\ set_state(j, "ABORTED")
            /\ outcome' = [outcome EXCEPT ![j] = "skipped"]
            /\ Goto(j, "closing")
            /\ UNCHANGED loop
       ELSE /\ Goto(j, "checked")
            /\ loop' = j
            /\ UNCHANGED <<state, outcome>>
    /\ UNCHANGED <<finished, lockVars, abortVars, callVars, queueVars>>

RunStart(j) ==
    /\ pc[j] = "checked"
    /\ set_state(j, "RUNNING")
    /\ Goto(j, "started")
    /\ UNCHANGED <<outcome, finished, lockVars, abortVars, callVars, queueVars, loop>>

\* self.future is assigned and awaited: the loop is free again.
RunFuture(j) ==
    /\ pc[j] = "started"
    /\ Goto(j, "created")
    /\ loop' = None
    /\ UNCHANGED <<state, outcome, finished, lockVars, abortVars, callVars, queueVars>>

\* The task of __run_body gets its first turn, unless it was cancelled before it.
BodyStart(j) ==
    /\ loop = None
    /\ pc[j] = "created"
    /\ IF cancelled[j] THEN /\ Goto(j, "ended")
                            /\ outcome' = [outcome EXCEPT ![j] = "cancelled"]
                       ELSE /\ Goto(j, "body")
                            /\ UNCHANGED outcome
    /\ UNCHANGED <<state, finished, lockVars, abortVars, callVars, queueVars, loop>>

\* The method returns: set_result and SUCCESS are in the body's own task.
BodyReturn(j) ==
    /\ loop = None
    /\ pc[j] = "body"
    /\ outcome' = [outcome EXCEPT ![j] = "result"]
    /\ set_state(j, "SUCCESS")
    /\ Goto(j, "ended")
    /\ UNCHANGED <<finished, lockVars, abortVars, callVars, queueVars, loop>>

\* The method raises.  A coroutine gets CancelledError from its cancelled task; a
\* thread raises JobCancelledException when it sees aborted_event.
BodyRaise(j) ==
    /\ loop = None
    /\ pc[j] = "body"
    /\ \E e \in {"error", "cancelled"} :
          /\ e = "cancelled" => IF Call[j].coroutine THEN cancelled[j] ELSE aborted_event[j]
          /\ outcome' = [outcome EXCEPT ![j] = e]
    /\ Goto(j, "ended")
    /\ UNCHANGED <<state, finished, lockVars, abortVars, callVars, queueVars, loop>>

\* Mutants: every failure is taken for a cancellation; a cancelled future decides the
\* state even if the method has returned.
RunResume_aborted(j) ==
    /\ loop = None
    /\ pc[j] = "ended"
    /\ IF outcome[j] = "result" THEN UNCHANGED state ELSE set_state(j, "ABORTED")
    /\ Goto(j, "closing")
    /\ UNCHANGED <<outcome, finished, lockVars, abortVars, callVars, queueVars, loop>>

RunResume_cancelled(j) ==
    /\ loop = None
    /\ pc[j] = "ended"
    /\ \/ cancelled[j] /\ set_state(j, "ABORTED")
       \/ ~cancelled[j] /\ outcome[j] = "result" /\ UNCHANGED state
       \/ ~cancelled[j] /\ outcome[j] # "result" /\ set_state(j, "FAILED")
    /\ Goto(j, "closing")
    /\ UNCHANGED <<outcome, finished, lockVars, abortVars, callVars, queueVars, loop>>

\* run() wakes up with the body's outcome and enters its finally clause.
RunResume(j) ==
    /\ loop = None
    /\ pc[j] = "ended"
    /\ \/ outcome[j] = "result" /\ UNCHANGED state
       \/ outcome[j] = "error" /\ set_state(j, "FAILED")
       \/ outcome[j] = "cancelled" /\ set_state(j, "ABORTED")
    /\ Goto(j, "closing")
    /\ UNCHANGED <<outcome, finished, lockVars, abortVars, callVars, queueVars, loop>>

\* Mutant: _finished is set before the lock is released.
ClosePipes_finished(j) ==
    /\ pc[j] = "closing"
    /\ Goto(j, "closed")
    /\ finished' = [finished EXCEPT ![j] = TRUE]
    /\ UNCHANGED <<state, outcome, lockVars, abortVars, callVars, queueVars, loop>>

\* The worker thread has closed the log and the pipes; closing a pipe may raise,
\* which ends the finally clause there.
ClosePipes(j) ==
    /\ pc[j] = "closing"
    /\ \/ Goto(j, "closed")
       \/ "close_pipes" \in Call[j].faults /\ Goto(j, "dead")
    /\ UNCHANGED <<state, outcome, finished, lockVars, abortVars, callVars, queueVars, loop>>

\* A transient job leaves the deque at the very end of run().
deque_remove(j) ==
    IF Call[j].transient /\ Listed(j)
    THEN \E i \in DOMAIN deque : deque[i] = j /\ deque' = RemoveAt(deque, i)
    ELSE UNCHANGED deque

\* Mutant: the callback is called without a test for None.
Finish_notifies(j) ==
    /\ loop = None
    /\ pc[j] = "closed"
    /\ release_lock(j)
    /\ finished' = [finished EXCEPT ![j] = TRUE]
    /\ Goto(j, "notifying")
    /\ UNCHANGED <<state, outcome, queue, deque, abortVars, callVars, loop>>

\* Mutant: a job that was aborted is not reported.
Finish_unreported(j) ==
    /\ loop = None
    /\ pc[j] = "closed"
    /\ release_lock(j)
    /\ finished' = [finished EXCEPT ![j] = TRUE]
    /\ IF on_finish_cb[j] = None \/ state[j] = "ABORTED"
       THEN Goto(j, "done") /\ deque_remove(j)
       ELSE Goto(j, "notifying") /\ UNCHANGED deque
    /\ UNCHANGED <<state, outcome, queue, abortVars, callVars, loop>>

\* release_lock, _finished.set and call_on_finish_cb; without a callback the
\* coroutine runs to its end.
Finish(j) ==
    /\ loop = None
    /\ pc[j] = "closed"
    /\ release_lock(j)
    /\ finished' = [finished EXCEPT ![j] = TRUE]
    /\ IF on_finish_cb[j] = None
       THEN Goto(j, "done") /\ deque_remove(j)
       ELSE Goto(j, "notifying") /\ UNCHANGED deque
    /\ UNCHANGED <<state, outcome, queue, abortVars, callVars, loop>>

\* The callback has logged the audit message of the call that installed it.
Notified(j) ==
    /\ loop = None
    /\ pc[j] = "notifying"
    /\ audited' = audited \cup {on_finish_cb[j]}
    /\ Goto(j, "done")
    /\ deque_remove(j)
    /\ UNCHANGED <<state, outcome, finished, lockVars, abortVars, caller, ret,
                   on_finish_cb, queue, queue_event, loop>>

-----------------------------------------------------------------------------
(* Job.abort, called in a worker thread by core.job_abort                  *)

\* aborted_event is set and self.future is read.
AbortRead(j) ==
    /\ j \in AbortTargets /\ abort_pc[j] = "idle"
    /\ Listed(j)
    /\ aborted_event' = [aborted_event EXCEPT ![j] = TRUE]
    /\ IF HasFuture(j)
       THEN /\ cancel_posted' = [cancel_posted EXCEPT ![j] = @ \/ Call[j].coroutine]
            /\ abort_pc' = [abort_pc EXCEPT ![j] = "returned"]
       ELSE /\ abort_pc' = [abort_pc EXCEPT ![j] = "no_future"]
            /\ UNCHANGED cancel_posted
    /\ UNCHANGED <<jobVars, lockVars, aborted, cancelled, callVars, queueVars, loop>>

\* There was no future: self.state is read.
AbortReadState(j) ==
    /\ abort_pc[j] = "no_future"
    /\ abort_pc' = [abort_pc EXCEPT ![j] = IF state[j] = "WAITING" THEN "waiting" ELSE "returned"]
    /\ UNCHANGED <<jobVars, lockVars, aborted, aborted_event, cancel_posted, cancelled,
                   callVars, queueVars, loop>>

\* The job was WAITING: self.aborted is set.
AbortSet(j) ==
    /\ abort_pc[j] = "waiting"
    /\ aborted' = [aborted EXCEPT ![j] = TRUE]
    /\ abort_pc' = [abort_pc EXCEPT ![j] = "returned"]
    /\ UNCHANGED <<jobVars, lockVars, aborted_event, cancel_posted, cancelled,
                   callVars, queueVars, loop>>

\* The loop runs the posted future.cancel: nothing happens to a future that is done.
CancelFuture(j) ==
    /\ loop = None
    /\ cancel_posted[j]
    /\ cancel_posted' = [cancel_posted EXCEPT ![j] = FALSE]
    /\ cancelled' = [cancelled EXCEPT ![j] = @ \/ pc[j] \in {"created", "body"}]
    /\ UNCHANGED <<jobVars, lockVars, aborted, aborted_event, abort_pc, callVars, queueVars, loop>>

-----------------------------------------------------------------------------
JobStep(j) ==
    \/ StartLogging(j) \/ LoggingStarted(j) \/ RunCheck(j) \/ RunStart(j) \/ RunFuture(j)
    \/ BodyStart(j) \/ BodyReturn(j) \/ BodyRaise(j) \/ RunResume(j)
    \/ ClosePipes(j) \/ Finish(j) \/ Notified(j)

AbortStep(j) == AbortReadState(j) \/ AbortSet(j) \/ CancelFuture(j)

Next ==
    \/ Schedule
    \/ \E j \in Jobs :
          \/ CallOnLoop(j) \/ CallFromThread(j) \/ Callback(j)
          \/ Receive(j) \/ Received(j)
          \/ JobStep(j)
          \/ AbortRead(j) \/ AbortStep(j)

Spec == Init /\ [][Next]_vars

\* The event loop runs every ready callback in turn, worker threads are scheduled by
\* the system, and job methods are taken to end.  Nobody has to call or to abort.
Fairness ==
    /\ WF_vars(Schedule)
    /\ \A j \in Jobs : WF_vars(Callback(j)) /\ WF_vars(JobStep(j)) /\ WF_vars(AbortStep(j))

FairSpec == Spec /\ Fairness

-----------------------------------------------------------------------------
(* Correctness                                                             *)

\* JobSharedLock: "only one job can run at a time for this lock".  Two jobs that
\* are RUNNING never have the same lock name, whatever lock objects add() and
\* release_lock() have made and dropped under that name meanwhile.
MutualExclusion ==
    \A i, j \in Jobs :
        state[i] = "RUNNING" /\ state[j] = "RUNNING" /\ i # j /\ Call[i].lock # None
            => Call[i].lock # Call[j].lock

\* queue_event is never left cleared while next() could start a queued job: every
\* add() and release_lock() that makes one runnable wakes the scheduler.
NoLostWakeup ==
    (\E i \in DOMAIN queue : Runnable(queue[i])) => queue_event = "set"

\* Jobs that share a lock leave the queue in the order in which add() took them.
SameLock(i, j) == /\ Call[i].lock = Call[j].lock /\ Call[i].lock # None
                  /\ ~Call[i].remote /\ ~Call[j].remote
Begun(j) == pc[j] \notin {"new", "posted", "queued"}
StartedInOrder ==
    \A b \in DOMAIN deque : \A a \in 1..(b - 1) :
        Begun(deque[b]) /\ SameLock(deque[a], deque[b]) => Begun(deque[a])

\* The reason for MutualExclusion: an active job is registered with the lock object
\* that job_locks has under its lock's name, so release_lock() cannot drop that
\* object and a later call cannot make another one; of the jobs registered with a
\* lock object at most one has it.
Active(j) == pc[j] = "queued" \/ Holding(j)

QueueInv == /\ \A i \in DOMAIN queue : pc[queue[i]] = "queued"
            /\ \A i, k \in DOMAIN queue : i # k => queue[i] # queue[k]

FreshInv == \A j \in Jobs : pc[j] \in {"new", "posted"} =>
                /\ lock[j] = None
                /\ \A i \in Jobs : lock[i] # j
                /\ \A l \in Locks : job_locks[l] # j

NameInv == /\ \A l \in Locks : job_locks[l] # None => Call[job_locks[l]].lock = l
           /\ \A j \in Jobs : lock[j] # None =>
                 Call[j].lock \in Locks /\ Call[lock[j]].lock = Call[j].lock

ActiveInv == \A j \in Jobs : Active(j) /\ Call[j].lock # None =>
                /\ lock[j] # None
                /\ job_locks[Call[j].lock] = lock[j]
                /\ j \in lock_jobs[lock[j]]

HolderInv == /\ \A j \in Jobs : Holding(j) /\ lock[j] # None => locked[lock[j]]
             /\ \A i, j \in Jobs : Holding(i) /\ Holding(j) /\ i # j /\ lock[i] # None
                                      => lock[i] # lock[j]

LockInv == QueueInv /\ FreshInv /\ NameInv /\ ActiveInv /\ HolderInv

\* Where run() is decides the job's state: WAITING until its check of self.aborted,
\* SUCCESS from the body's own return, FAILED or ABORTED only once run() has resumed,
\* and RUNNING never outlives the finally clause's first suspension.
Phase(p, o) ==
    IF p \in {"started", "created", "body"} THEN {"RUNNING"}
    ELSE IF p = "ended" THEN IF o = "result" THEN {"SUCCESS"} ELSE {"RUNNING"}
    ELSE IF p \in {"closing", "closed", "notifying", "done", "received"} THEN Terminal
    ELSE IF p = "dead" THEN Terminal \cup {"WAITING"}
    ELSE {"WAITING"}
PhaseInv == \A j \in Jobs : state[j] \in Phase(pc[j], outcome[j])

\* A job that is not over can be found by core.get_jobs, core.job_abort and the
\* lock_queue_size = 0 test of add(): JobsDeque drops only jobs in a final state.
LiveJobsAreListed ==
    \A j \in Jobs : pc[j] = "queued" \/ (Holding(j) /\ state[j] \notin Terminal)
                        => Listed(j)

\* When wait() returns, the job has its final state and no longer has its lock, so
\* a caller that starts the same job again does not meet the old one.
FinishedIsOver ==
    \A j \in Jobs : finished[j] =>
        /\ state[j] \in Terminal
        /\ lock[j] # None => /\ j \notin lock_jobs[lock[j]]
                             /\ locked[lock[j]] => \E i \in Jobs \ {j} : Holding(i) /\ lock[i] = lock[j]

\* When every call for a lock has the same lock_queue_size n > 0, the queue never
\* holds more than n jobs for it.
LockQueueBounded ==
    \A l \in Locks, n \in 1..Cardinality(Jobs) :
        (\A j \in Jobs : Call[j].lock = l => Call[j].lock_queue_size = n)
            => Cardinality({i \in DOMAIN queue : Call[queue[i]].lock = l}) <= n

\* A job ends ABORTED only after somebody called abort() on it.
AbortedOnRequest ==
    \A j \in Jobs : state[j] = "ABORTED" /\ ~Call[j].remote => aborted_event[j]

\* No step makes set_state() fail its assertions: WAITING goes to RUNNING or ABORTED,
\* RUNNING to a final state, and a final state is never left.  (receive() creates
\* its job in its final state.)
Legal == {<<"WAITING", "RUNNING">>, <<"WAITING", "ABORTED">>} \cup ({"RUNNING"} \X Terminal)
LegalStep == \A j \in Jobs : state'[j] # state[j] /\ pc[j] # "receiving"
                                => <<state[j], state'[j]>> \in Legal
LegalTransitions == [][LegalStep]_vars

\* call_with_audit and call_on_finish_cb: a job that has run to its end, in whatever way,
\* has logged the audit message of a call that was given it (the last one: merging replaces
\* the callback), and none is logged before the outcome of the call is known.
AuditedAtTheEnd ==
    \A j \in Jobs : Call[j].audit =>
        /\ caller[j] = "returned" /\ pc[ret[j]] = "done" => \E i \in audited : ret[i] = ret[j]
        /\ j \in audited => caller[j] = "raised" \/ (caller[j] = "returned" /\ pc[ret[j]] = "done")

\* A call that was given a Job, its own or one already queued, can wait() for it: that
\* Job finishes.
CallsServed ==
    \A j \in Jobs : caller[j] = "returned" ~> (ret[j] # None /\ finished[ret[j]])

\* By lock name, the queue and the table of lock objects are the lock service of
\* LockService: one holder, first come first served, nobody kept waiting for a free lock.
LockHolder == [l \in Locks |->
                 IF \E j \in Jobs : Holding(j) /\ Call[j].lock = l
                 THEN CHOOSE j \in Jobs : Holding(j) /\ Call[j].lock = l
                 ELSE None]
Service == INSTANCE LockService WITH Wants <- [j \in Jobs |-> Call[j].lock],
                                     waiting <- queue, holder <- LockHolder
IsLockService == Service!Spec

-----------------------------------------------------------------------------
(* Statements of the documentation that the code does not keep             *)

\* The job decorator: "When the job is aborted, `asyncio.CancelledError` is raised
\* inside the job method": once abort() has returned, a coroutine that runs has been
\* cancelled or is about to be.
AbortTakesEffect ==
    \A j \in Jobs : abort_pc[j] = "returned" /\ Call[j].coroutine /\ pc[j] = "body"
                        => cancel_posted[j] \/ cancelled[j]

\* The job decorator: a call that lock_queue_size = 0 refuses "will raise an `EBUSY`
\* error": no caller stays blocked in _call_prepare.
CallersAnswered ==
    \A j \in Jobs : caller[j] = "blocked" ~> caller[j] # "blocked"

=============================================================================
