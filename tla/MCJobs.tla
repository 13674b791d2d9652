------------------------------- MODULE MCJobs -------------------------------
(* Small instances of Jobs for TLC: the calls of each run.                 *)
EXTENDS Jobs

\* A call for a coroutine job under lock "L", made on the loop by an administrator.
Base == [lock |-> "L", lock_queue_size |-> 1, logs |-> FALSE, transient |-> FALSE,
         coroutine |-> TRUE, user |-> "admin", limited |-> FALSE, thread |-> FALSE,
         audit |-> FALSE, remote |-> FALSE, faults |-> {}]

One   == 1..1
Two   == 1..2
Three == 1..3
Five  == 1..5

\* Two jobs under one lock that are aborted while a third call, from a thread, is
\* queued behind them or refused.
AbortCalls == << [Base EXCEPT !.logs = TRUE, !.faults = {"start_logging"}],
                 [Base EXCEPT !.coroutine = FALSE, !.audit = TRUE, !.faults = {"close_pipes"}],
                 [Base EXCEPT !.lock_queue_size = 0, !.thread = TRUE] >>

\* One lock with room for two waiting jobs and callers who may or may not share one, a
\* job copied from the other node and a call whose lock cannot be computed.
Base2 == [Base EXCEPT !.lock_queue_size = 2]
QueueCalls == << [Base2 EXCEPT !.user = "bob", !.limited = TRUE, !.audit = TRUE],
                 [Base2 EXCEPT !.audit = TRUE],
                 [Base2 EXCEPT !.user = "eve", !.limited = TRUE, !.thread = TRUE],
                 [Base EXCEPT !.remote = TRUE, !.lock = None],
                 [Base EXCEPT !.lock = LockError] >>

\* The fair run: a job that is aborted, one that is queued behind it, and one without a
\* lock that may overtake them.
FairCalls == << Base2, [Base2 EXCEPT !.coroutine = FALSE, !.audit = TRUE],
                [Base EXCEPT !.lock = None, !.lock_queue_size = None,
                             !.thread = TRUE, !.transient = TRUE] >>

\* Two calls for a lock without a queue, the second one from a worker thread.
BusyThreadCalls == << [Base EXCEPT !.lock_queue_size = 0],
                      [Base EXCEPT !.lock_queue_size = 0, !.thread = TRUE] >>

\* One call that is aborted.
OneCall == << Base >>

=============================================================================
