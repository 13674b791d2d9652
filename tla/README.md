# TLA+ models of middlewared

TLA+ specifications of the concurrent core of the TrueNAS middleware daemon
(`src/src/middlewared/middlewared`, paths below are relative to it), the TLC runs that
check them on small instances and the TLAPS proofs that hold for every instance.
`PROJECT.json` maps every definition to the lines it models and lists runs, mutants,
findings, hazards and theorems.

## The system

middlewared is one process with an asyncio event loop and pools of worker threads (and
a process pool). Clients (the UI, scripts, the other node of an HA pair) call methods of
*services* over WebSockets. Three things make it hard to get right:

* code on the loop is atomic only between two `await`s, and most handlers have several;
* methods that are not coroutines run in worker threads and share objects with the loop;
* sessions, jobs and event sources end independently of one another.

### Inventory

| part | state | operations | hard behaviour | properties wanted |
|---|---|---|---|---|
| Job queue (`job.py`: `JobsQueue`, `JobSharedLock`, `JobsDeque`) | queue, `job_locks`, `queue_event`, deque | `add`, `next`, `run`, `release_lock`, `receive` | lock objects are created and dropped under a name; calls are merged or refused at the queue's limit | one running job per lock name, order, no lost wake-up, no live job evicted |
| Job (`job.py`: `Job`) | state, future, `aborted`, `_finished`, `on_finish_cb` | `run`, `__run_body`, `set_state`, `abort`, `wait`, pipes and logs | `abort` runs in a thread against `run`; failures in `finally` | legal states, `wait` returns for a finished job only |
| Method calls (`main.py`: `_call_prepare`, `call_with_audit`) | pending callback, audit callback | call from the loop, call from a thread | the thread waits for an event that the loop sets | every caller is answered; every audited call is logged |
| Event sources (`event.py`, `common/event_source/manager.py`) | `idents`, `subscriptions`, `instances`, one task and thread per instance | `subscribe`, `unsubscribe`, `unsubscribe_app`, `process`, `cancel` | an instance is cancelled and recreated while it still shuts down | tables agree, everybody told once, instances end |
| WebSocket sessions (`api/base/server/ws_handler/rpc.py`, `apps/websocket_app.py`, `utils/lock.py`) | pending calls, subscriptions, soft/hard semaphore, callbacks | message, reply, close, logout | calls that outlive the connection | a closed session leaves nothing behind |
| Job pipes and file application (`pipe.py`, `apps/file_app.py`) | registered downloads with a timer, pipes | upload, download, cleanup | timer against client, reader against writer | files arrive whole; jobs and handlers end, whether the client comes or not |
| Sessions and tokens (`auth.py`, `plugins/auth.py`) | tokens, sessions | create, attach, expire, destroy | parent session ends first | a token outlives neither TTL nor parent |
| HA datastore replication (`plugins/failover_/datastore.py`, `remote.py`) | failure flag, retry threads, the copy on the standby | write, replicate, send, retry, receive | a call that times out is carried out later all the same | the copy is complete when nobody is flagged; a set flag is attended to |
| HA failover events (`plugins/failover_/event.py`) | current event, fenced, jobs | MASTER, BACKUP | events arrive while one is handled | never two conflicting events at work |
| HA job copies (`plugins/failover_/jobs_copy.py`) | send buffer | job events, send, receive | duplicates, lost connection | a finished job is copied once |
| Alerts (`plugins/alert`) | alerts per node and source, locks | run sources, one-shot create and delete, dismiss | source results against deletions | no resurrected, lost or doubled alert; clients catch up |
| Periodic snapshots and replication (`plugins/zettarepl.py`) | queues to and from a process, waiting jobs | run task, hold, observer messages | process dies, messages arrive early | every waiting job is released |
| Datastore, service framework, API adapters, templates, storage, sharing, directory services, network, applications, reporting, update, … | in SQLite, ZFS, systemd, other daemons | validation, rendering, external commands | mostly sequential | none for a model checker; see `components` in `PROJECT.json` |

## Modules

| module | what it is |
|---|---|
| `Jobs` | `JobsQueue`, shared locks, deque, `Job.run`, `Job.abort`, the two ways to call a job, audit callback |
| `LockService` | abstract specification of the queue: one holder per lock, first come first served, nobody is kept waiting for a free lock |
| `MCJobs`, `Jobs_*.cfg` | instances of `Jobs` |
| `JobsProofs` | theorems about `Jobs`: types, aborts, locks, states, the deque, the audit |
| `JobsSchedulerProofs` | theorems about the scheduler, and that `Jobs` implements the safety part of `LockService` |
| `EventSources` | `EventSourceManager`, `EventSource.process`/`cancel`, the sessions that subscribe |
| `MCEventSources`, `EventSources_*.cfg` | instances of `EventSources` |
| `EventSourcesProofs` | theorems about `EventSources` |
| `FailoverDatastore`, `FailoverDatastore_*.cfg` | replication of the database of an HA pair, and its instances |
| `FailoverDatastoreProofs` | theorems about `FailoverDatastore`: types, flag, queue, the copy |
| `Alerts`, `Alerts_service.cfg` | the alert service of one node, and its instance |
| `AlertsStepProofs`, `AlertsProofs` | types and what one step may do to an alert; the theorems about `Alerts` that rest on it |
| `FileJobs` | pipes, uploads, `core.download`, the download handler and its timer, the end of a job |
| `MCFileJobs`, `FileJobs_transfer.cfg` | instance of `FileJobs` |
| `FileJobsStepProofs`, `FileJobsProofs` | what one step may do to a pipe, a job, an upload and a download; the theorems about `FileJobs` |

Operators whose comment begins with *Mutant* are deliberately wrong variants of the
definition after them. They are used by no specification; each shows that some property
notices the mistake.

### Jobs

A job is named by the call that creates it, a `JobSharedLock` by the job for which
`handle_lock` made it. `Call[j]` is what the call asks for: the options of `@job`, the
caller, whether it comes from the loop, from a thread or (`receive`) from the other node,
and which of its file operations may fail.

`pc[j]` is the place the call, and then the task of `Job.run`, has reached:

| `pc` | code |
|---|---|
| `new`, `posted` | not called; the callback of `_call_prepare` is posted by a thread |
| `rejected`, `merged`, `queued` | the three ways `JobsQueue.add` ends |
| `picked`, `logging`, `ready` | taken by `next()`; `start_logging` in a thread; opened |
| `checked`, `started`, `created` | inside `run()`: `self.aborted` read, RUNNING set, `self.future` set |
| `body`, `ended` | `__run_body` runs; its task is done |
| `closing`, `closed` | the `finally` clause: logs and pipes |
| `notifying`, `done` | `call_on_finish_cb`; end |
| `dead` | an exception left `run()` before `release_lock` |
| `receiving`, `received` | `receive()` |

A segment between two suspension points is one action. Two refinements of that rule:
the start of `run()` is split at each assignment that `abort()` (a worker thread) reads,
with the variable `loop` keeping every other coroutine out of the way; and the
scheduler's loop, which does not suspend while `queue_event` is set, keeps `loop` in the
same way. `abort()` is split at its reads and writes.

`handle_lock` registers the job with the lock object even if `add` then merges or
refuses it; the model keeps that. `add_merged` follows the code's
`another_job.lock is job.lock`, for which None is None.

### EventSources

An `EventSource` object is named by the subscription that created it. The manager's
methods are atomic up to `cancel()`, which hands `_cancel_sync.set` to a worker thread
and waits; `waiter` says which task waits. `unsubscribe_app` is a loop over a snapshot
(`left`) that waits for each `cancel()` before it goes on. `Close` is the beginning of
the clean-up of a JSON-RPC connection: pending calls are cancelled, and work items that no
pool thread has begun may be cancelled with them (`lost`; a single-use thread runs its
item regardless, hence the choice). Sessions of the old API (`Legacy`) keep no list of
their calls. `Streams` are sources like `app.container_log_follow`, whose thread ends
only when the stream is closed.

`Verdict` is what `validate_arg()` makes of the argument: valid, `ValidationErrors`
(undone by `subscribe`), or another exception (not undone).

### FailoverDatastore

On either node whatever touches the database runs in a thread pool of one. `pc` is the
place that thread has reached on the active node: it waits for the standby inside
`execute_write` (`replicate`) or inside `send` (`ask`, `upload`, `receive`). `queue` holds
the work items of the standby's thread, `sql` where `failover.datastore.sql` of a write is.
A call that fails on the active node may be carried out on the standby all the same, at
once or later. `retry` has the threads of `set_failure`. A database is the sequence of
writes it has seen. `unflagged` is a history variable: the cases in which the code
knowingly, or unnoticed, leaves the copy behind without setting the flag; `InSync` is
about all the others.

### Alerts

`process_alerts`, `send_alerts`, `oneshot_create` and `oneshot_delete` are jobs under one
lock, so one `pc` is enough for them and `waiting` is their queue. `dismiss`, `restore`,
`flush_alerts` and `initialize` take no lock and come between any two of their steps.
`process_alerts` keeps `valid` to roll back to; `flush` says for each caller of
`flush_alerts` how far it is and which list object it iterates over (`stale` once
`self.alerts` has been replaced). `view` is what a client knows that follows the events of
`alert.list`. `deleted` and `doubt` are history variables. Lists are filtered with `Only`,
defined by where each element ends up, and a table becomes a list in any of its `Orders`:
both have properties that can be proved without induction, unlike `SelectSeq`.

### FileJobs

A pipe counts the chunks put into it and got from it, says whether its two sides are open
and who waits in `r.read()`: such a reader holds the lock of the `BufferedReader`, which
`r.close()` needs. One chunk is what a `BufferedWriter` holds, so `close()` of the writing
side may have to wait for room, and raises if nobody can read. A job is its `run()`, the
thread of its method and its place in `close_pipes`. `download[d]` has the call of
`core.download`, the timer that `register_job` starts and the request to the URL; `jobs` is
the table of `FileApplication`, which holds one timer per job. The semantics of `os.pipe`
and of Python's buffered files are external code, modelled from how they are used. Methods
are abstracted to writing or reading so many chunks; they may stop early, and only those
that are coroutines are cancelled by an abort.

## Runs

| run | question | states |
|---|---|---|
| `jobs_abort` | aborts from threads at every point of two jobs' lives, file failures, a third call | 257,390 |
| `jobs_queue` | sharing, refusing, eviction, order, wake-ups under contention | 184,252 |
| `jobs_fair` | does everybody get served; does the queue implement `LockService` | 90,595 |
| `sources_shared` | subscriptions, ends and closings in any order, with an instance still shutting down | 1,124,245 |
| `sources_fair` | do sessions close and abandoned sources end | 31,773 |
| `failover_replication` | does the standby have the database, and is a set flag cleared, when calls fail, time out or come late | 380,606 |
| `alerts_service` | what is lost, doubled, revived or never announced when jobs, dismissals, flushes, restarts and failovers interleave | 600,982 |
| `files_transfer` | do files arrive whole, and do jobs and handlers end, with timers, aborts and clients that leave | 33,333 |

Four runs show the code breaking a statement of its own documentation; the sentences are
quoted in `findings`:

* `jobs_doc_abort`: an abort between the check of `self.aborted` and the assignment of
  `self.future` is lost, and the coroutine runs to its end.
* `jobs_doc_ebusy`: when `add()` refuses a call posted by a thread, nobody sets the
  event the thread waits for.
* `sources_doc_lost`: closing the connection right after `core.unsubscribe` can cancel
  the work item that stops the source.
* `failover_doc_race`: a replicated query that has timed out runs on the standby after the
  whole database has been received there.

### What the properties leave out

Some properties are weaker than one would like because the code does what the stronger
form forbids. The models contain these behaviours:

* a merged call replaces the audit callback of the call before it; `AuditedAtTheEnd` is
  about the callback that is there at the end;
* with the default options the sixth queued call without a lock is given the job of
  another call, since `None is None`;
* a stream that is cancelled before it is open is never closed;
* the hourly flush writes an alert from a list that was replaced, after `oneshot_delete`
  has flushed, and `initialize()` takes it up again if it has read the table before that
  flush (both are `doubt`); going back to its copy, `process_alerts` undoes a dismissal
  (`Undoes`); an alert dismissed while it is being sent is announced after its removal; an
  alert created while `initialize(False)` waits is never announced;
* a call of `core.download` that ends before `register_job` leaves a job that nobody
  cancels; a second call for the same queued job adds a timer that can cut off a download
  begun through the first URL (`Alone`);
* the timer can fire while `download()` waits in `resp.prepare()`: the cleanup then closes
  the pipe of a download that has begun;
* between the two halves of `Pipe.close` a job can fail in `close_pipes`, before it
  releases its lock (`DiesBetweenCloses` says: only then);
* the pipe of a merged upload, and one added after `close_pipes`, is read by nobody
  (`Orphan`): a larger file blocks its handler.

### Bounds

Three calls are the least that make two lock objects under one name possible (one job
releases, one waits, one arrives); a queue limit of two with three callers reaches
merging, refusing and overtaking. `maxlen` is 1, so that the deque is over its limit
from the second job on. Each job is aborted at most once (`AbortTargets`). Three
subscriptions for one source are the least that have an old instance shutting down
while a new one gains a second subscriber; the fourth is refused. Each subscription is
asked for and given up at most once and each session closes once. The runs have no
constraint on top of that: they end because calls and subscriptions are used up, which
is why they do not check for deadlock.

`failover_replication`: three writes, one of them local, so that two replicated ones can
overtake each other; two retry threads, two faults, one send by another service.
`alerts_service`: one one-shot alert that users delete, one source (its failure is what it
reports), a queue of two jobs, three calls and one fault. No alert class of the repository
sets `expires_after`, so `Expiring` is empty; with an expiring alert the properties hold
as well (1,164,690 states).
`files_transfer`: downloads that are alone, shared by two calls and buffered; uploads of
one, two and three files with a limit of two; pipes that hold one chunk and files of up to
three. One job at a time (`MaxJobs`), since jobs do not meet in this module, and one of
the two URLs of the shared job is opened; with both opened the properties hold as well
(189,820 states, 11 minutes).

### Fairness

The specifications assume weak fairness of every step that the loop or a worker thread
takes: asyncio runs ready callbacks in order and the operating
system schedules threads. Job methods are taken to end, since nothing else in the queue
could make them. Nobody has to call, to abort, to unsubscribe or to disconnect, and an
event source need not end by itself (`RunReturns` has no fairness).

In `FailoverDatastore` faults are bounded, so the peer is reachable in the end, and a
failover event ends. In `Alerts` timers fire again, sources and services return, a node
that shuts down restarts. In `FileJobs` timers fire, a queued job gets its turn and a
client sends, receives or disconnects; nobody has to open the URL or to abort, and a
method need not fail.

## Proofs

For any number of jobs, locks, calls, options and aborts, `JobsProofs` proves

* `TypeInvariance`: `TypeOK`, with the strengthening `CallbackSet` (a job that waits for
  its callback has one, so that what is logged is a call);
* `LockInvariance`: `LockInv`, which is inductive together with `TypeOK`. It says why
  locks work although lock objects come and go: an active job (queued or holding) is
  registered with the very object that `job_locks` has under its lock's name
  (`ActiveInv`), hence `release_lock` cannot drop that object, hence no later call can
  make a second one; and of the jobs with one object at most one holds it (`HolderInv`).
  `FreshInv`, `NameInv` and `QueueInv` make it inductive;
* `PhaseInvariance`: `PhaseInv`, the state of a job at each place in `run()`;
* `JobsMutualExclusion`: two jobs with one lock name are never RUNNING together, from
  `LockInv` and `PhaseInv`;
* `JobsLegalTransitions`: no step violates the assertions of `set_state`, from `PhaseInv`;
* `JobsAbortedOnRequest`: only a job somebody asked to abort ends ABORTED, by `AbortInv`:
  whatever leads there comes after `aborted_event` is set;
* `JobsFinishedIsOver`: by `OverInv`, a lock object is locked only for a job that has not
  released it, and `_finished` is set after the release;
* `JobsLiveJobsAreListed`: a job that is not over is in the deque;
* `JobsAuditedAtTheEnd`: by `AuditInv`, a job that was given to a caller has been queued
  and is still to run (`GivenInv`), its callback is an audited call that was given it
  (`CallbackInv`), so `run()` leaves out the callback only if there was none
  (`PendingInv`), and nothing is logged before its outcome is known (`LoggedInv`).

`JobsSchedulerProofs` goes on with

* `JobsNoLostWakeup`: the scheduler is never asleep while a queued job could start;
* `JobsStartedInOrder`: by `OrderInv`, the queue has waiting jobs in the order of the
  deque, so `next()` cannot pass one over for a later one with its lock;
* `JobsLockQueueBounded`: where calls agree on `lock_queue_size` it bounds the queue;
* `JobsImplementLockService`: `Spec => Service!Safety`. The mapping takes `queue` for the
  waiting jobs and, for each lock, `LockHolder` for the one that holds it; `LockInv` makes
  that one unique (`HeldBy`). `Schedule` is the service's grant (`ScheduleIsGrant`: what
  `next()` finds is the first that waits for a free lock), the end of `run()` its release
  (`FinishIsRelease`), `add` its request, and everything else a stutter.

For any subscriptions, sessions and sources, `EventSourcesProofs` proves

* `EventSourcesTyped`, `ManagerInvariance` and `SubscribersToldOnce`, by the inductive invariant
  `TypeOK /\ ManagerInv /\ ToldOnce`: the types bound the number of notifications, that
  bound needs the tables to agree, and the tables agree because a live instance that was
  not cancelled is the one in the table;
* `SourcesOwnSubscribersOnly`: the action property behind the comment in `process()`;
* `SessionsLeaveNothing`: by `SessionInv`, every subscription of a closing session is
  still to be visited by its `unsubscribe_app`, and none of its calls can subscribe.

For any writes, threads and bounds, `FailoverDatastoreProofs` proves

* `TypeInvariance`; `FlagIsAttended`: while the flag is set somebody is about to clear it;
* `QueueInvariance`: a query becomes a work item once, and the one that the active node
  waits for comes after every `receive()`;
* `CopyInvariance` and from it `StandbyInSync`: `InSync` speaks of an idle thread only;
  `CopyInv` adds what the databases have in common in the middle of a replication or a
  send, and what a delayed `receive()` finds.

For any alerts, sources, queue and bounds, `AlertsStepProofs` and `AlertsProofs` prove

* `TypeCorrectness`, by `TypeInv`: the table stays finite, so that it can be made a list,
  and a flush that has begun is at a place of its list;
* `AlertsNoDuplicateMade` and `AlertsDismissalKept`, from the lemma `AlertsStep`: an alert
  after a step either was there before, no less dismissed, or has a fresh uuid for a key
  that had no alert, except where `process_alerts` goes back to its copy or
  `initialize()` reads the table;
* `AlertsOneShotKept`, by `OneShotInv`: the copy that a run of the sources goes back to has
  every one-shot alert of the list;
* `AlertsDeletedStaysDeleted`, by `DeletedInv`: no uuid is made twice (`BornInv`), so a
  deleted alert is in a list or in the copy only when in `doubt`, and `oneshot_delete`
  keeps the lock until its flush is over;
* `KnownInvariance`: what the policy takes as known has been told to clients or is about
  to be. `AnnounceInv` adds that results of `receive_alerts` are there until they are sent,
  and that no alert is both known and gone.

For any calls, jobs, files, chunks and capacity of pipes, `FileJobsStepProofs` states what
a step of anybody may do to one pipe (`PipeStep`), job, upload and download, and
`FileJobsProofs` proves from that

* `TypeInvariance` and `TypeCorrectness`: `TypeInv` adds to `TypeOK` that nothing is read
  that was not written, who created a job, and how far a call can be without its job;
* `WholeOutputs`, by `OutputInv`: the buffer of a closed writer is empty unless nobody
  could read, and what has been read to its end is not written or opened again;
* `BegunLeftAlone`, by `BegunInv`: a download that has begun has taken its job out of the
  table in which the timer looks for it;
* `DeathBetweenCloses`, by `HalfClosedInv`: a pipe that can be written and not read is in
  the middle of `Pipe.close`;
* `WholeUploads`, by `InputInv`: a pipe that `upload()` has closed has the whole file
  (`CopiedInv`), the pipes of a running method are open (`ReadableInv`), and a method asks
  for the next pipe only at the end of the one before (`PassedInv`).

The proofs assume `JobsAssumption`, `EventSourcesAssumption`, `FailoverDatastoreAssumption`,
`AlertsAssumption` and `FileJobsAssumption`: the types of the constants; that None and other
marks are distinct from what they stand beside (None is no job, lock or number); that a
caller limited to its own jobs is a user; that an audited call is made on the loop; that the
issues a source can report are finitely many; that a job either writes a file or reads some.

Only model-checked: the liveness properties, and of `IsLockService` its fairness (fairness
and `ENABLED` are outside the prover's reach).

Only proved, in no run: `PhaseInv` of `Jobs` and `QueueInv` of `FailoverDatastore`, on which
other theorems rest.

Two conventions: several fields of one record are updated as
`[f EXCEPT ![x] = [f[x] EXCEPT !.a = .., !.b = ..]]`, because tlapm 1.4.5 mistranslates two
updates at one index, and `@` inside a nested EXCEPT; and most leaves name Zenon, since in
modules of this length the translation of a simple leaf to SMT may run out of time. Leaves
that take seconds carry their own limit (`ZenonT(120)`, `SMTT(60)`), which leaves room for a
slower machine.

## Not modelled

Results, errors, progress and log text of jobs; `Job.wait` with a timeout; `Job.wrap`
and calls from one job to another (every plugin decides which); the events that
`set_state` sends; `_send_event` of the event source manager, which changes nothing; `InternalSubscriber`, which no code uses; ordinary
collections (`event_register`) and their subscribers. The parts of the inventory without
a module are listed in `PROJECT.json` with the reason.

Failover: the alert that `send()` deletes at its end, `hook_setup_ha`, the pair changing
roles. Alerts: classes with a `dismiss()` of their own, blocked sources, CHANGED events,
policies other than IMMEDIATELY, tickets, alert services. Files: parsing and authorization
of requests, the TTL of a token, jobs no longer in the deque, exceptions other than those
of pipes and connections.

Seen in the code and outside the models' properties: `handle_lock` leaves a refused or
merged job registered, so its lock object is kept (`LockInv` shows that exclusion does not
suffer); `wait(raise_error=True)` returns None for an aborted job; `_send_event` may
deliver an event after its subscriber was told that the subscription is over.

## Plan

In this order, each with its own module, runs and proofs:

1. `Sessions`: `RpcWebSocketApp` and `SoftHardSemaphore` (limits of concurrent and
   waiting calls, replies after close, callbacks), composed with the clean-up in
   `EventSources`. Theorem: the semaphore's counters match its holders.
2. `JobEvents`: the events of a job and its copy on the other node.
3. Tokens and sessions; zettarepl's job queue.
