------------------------- MODULE FailoverDatastore --------------------------
(***************************************************************************)
(* Replication of the configuration database from the active node of an HA *)
(* pair to the standby node (plugins/failover_/datastore.py).              *)
(*                                                                         *)
(* On either node everything that touches the database runs in a thread    *)
(* pool of one, the SQLite thread.  That of the active node waits for the  *)
(* standby inside datastore.execute_write; `pc' is the place it has        *)
(* reached, with "idle" between two of its work items.  A call of the      *)
(* other node that fails (timeout, lost connection) may or may not be      *)
(* carried out there all the same, at once or later.  A database is the    *)
(* sequence of writes it has seen; the pair keeps its roles.               *)
(***************************************************************************)
EXTENDS Integers, Sequences

CONSTANTS
    Writes,       \* datastore writes on the active node
    Local,        \* those with ha_sync=False
    Threads,      \* names for the threads that set_failure() starts
    None,
    Receive,      \* a call of failover.datastore.receive
    MaxFaults,    \* bound: failed calls and changes of a node's status
    MaxSends      \* bound: calls of send() and force_send() by other services

ASSUME FailoverDatastoreAssumption ==
    /\ Local \subseteq Writes
    /\ None \notin Writes \cup Seq(Writes)
    /\ Receive \notin Writes /\ Receive # None
    /\ {"direct", "set_failure"} \cap Threads = {}
    /\ MaxFaults \in Nat /\ MaxSends \in Nat

VARIABLES
    active,      \* the database of the active node
    standby,     \* the database of the standby node
    replicated,  \* FREENAS_DATABASE_REPLICATED on the standby node
    failure,     \* FailoverDatastoreService.failure on the active node
    pc,          \* where the SQLite thread of the active node is
    cur,         \* the write it replicates
    task,        \* who wants the database sent: set_failure(), a retry thread, a service
    sql,         \* where the standby node is in failover.datastore.sql of a write
    queue,       \* work items of the SQLite thread of the standby node
    reply,       \* how its last receive() ended
    retry,       \* where the threads in send_retry() are
    same_version,  \* both nodes run the same version of the system
    same_revision, \* both databases have the same alembic revision
    backup,      \* failover.status of the standby node is BACKUP
    in_progress, \* failover.in_progress on the active node
    faults,      \* how many faults there may still be
    sends,       \* how many sends other services may still ask for
    unflagged    \* history: why the copy may differ although failure is not set

dbVars      == <<active, standby, replicated>>
threadVars  == <<pc, cur, task>>
standbyVars == <<sql, queue, reply>>
versionVars == <<same_version, same_revision>>
envVars     == <<versionVars, backup, in_progress, faults, sends>>
vars        == <<dbVars, failure, threadVars, standbyVars, retry, envVars, unflagged>>

Items   == Writes \cup {Receive, None}   \* None: a cancelled work item
Reasons == {"local", "in_progress", "ignored", "not_backup", "not_master", "revision", "late"}

TypeOK ==
    /\ active \in Seq(Writes) /\ standby \in Seq(Writes)
    /\ replicated \in Seq(Writes) \cup {None}
    /\ failure \in BOOLEAN
    /\ pc \in {"idle", "replicate", "ask", "upload", "receive"}
    /\ cur \in Writes \cup {None}
    /\ task \in Threads \cup {"direct", "set_failure"}
    /\ sql \in [Writes -> {"none", "arrived", "queued", "done", "ignored", "lost"}]
    /\ queue \in Seq(Items)
    /\ reply \in {"ok", "error"}
    /\ retry \in [Threads -> {"none", "sleeping", "awake", "giving_up", "queued", "sending"}]
    /\ same_version \in BOOLEAN /\ same_revision \in BOOLEAN
    /\ backup \in BOOLEAN /\ in_progress \in BOOLEAN
    /\ faults \in 0..MaxFaults /\ sends \in 0..MaxSends
    /\ unflagged \subseteq Reasons

Init ==
    /\ active = <<>> /\ standby = <<>> /\ replicated = None
    /\ failure = FALSE
    /\ pc = "idle" /\ cur = None /\ task = "direct"
    /\ sql = [w \in Writes |-> "none"]
    /\ queue = <<>> /\ reply = "ok"
    /\ retry = [t \in Threads |-> "none"]
    /\ same_version \in BOOLEAN /\ same_revision \in BOOLEAN
    /\ backup = TRUE /\ in_progress = FALSE
    /\ faults = MaxFaults /\ sends = MaxSends
    /\ unflagged = {}

Fault == faults > 0 /\ faults' = faults - 1

-----------------------------------------------------------------------------
(* The active node: hook_datastore_execute_write and set_failure           *)

Written(w) == \E i \in DOMAIN active : active[i] = w

\* Mutant: a write during a send, which the hook sees flagged, does not wait for it.
Write_unblocked(w) ==
    /\ pc \in {"idle", "receive"} /\ failure /\ ~Written(w)
    /\ active' = Append(active, w)
    /\ UNCHANGED <<standby, replicated, failure, threadVars, standbyVars, retry, envVars, unflagged>>

\* execute_write and the tests at the beginning of its hook.
Write(w) ==
    /\ pc = "idle" /\ ~Written(w)
    /\ active' = Append(active, w)
    /\ \/ /\ w \in Local
          /\ unflagged' = unflagged \cup {"local"}
          /\ UNCHANGED <<pc, cur, sql>>
       \/ /\ w \notin Local /\ failure
          /\ UNCHANGED <<pc, cur, sql, unflagged>>
       \/ /\ w \notin Local /\ ~failure /\ in_progress
          /\ unflagged' = unflagged \cup {"in_progress"}
          /\ UNCHANGED <<pc, cur, sql>>
       \/ /\ w \notin Local /\ ~failure /\ ~in_progress
          /\ pc' = "replicate" /\ cur' = w
          /\ sql' = [sql EXCEPT ![w] = "arrived"]
          /\ UNCHANGED unflagged
    /\ UNCHANGED <<standby, replicated, failure, task, queue, reply, retry, envVars>>

\* The standby node has answered; it says nothing if it has ignored the query.
Replicated ==
    /\ pc = "replicate" /\ sql[cur] \in {"done", "ignored"}
    /\ pc' = "idle"
    /\ unflagged' = IF sql[cur] = "ignored" THEN unflagged \cup {"ignored"} ELSE unflagged
    /\ UNCHANGED <<dbVars, failure, cur, task, standbyVars, retry, envVars>>

\* set_failure() up to its call of the other node.
set_failure ==
    \/ /\ failure
       /\ pc' = "idle"
       /\ UNCHANGED <<failure, task>>
    \/ /\ ~failure
       /\ pc' = "ask" /\ task' = "set_failure"
       /\ failure' = TRUE

\* Mutant: the exception is only logged.
ReplicateFails_logged ==
    /\ pc = "replicate" /\ Fault
    /\ pc' = "idle"
    /\ UNCHANGED <<dbVars, failure, cur, task, standbyVars, retry, versionVars, backup, in_progress, sends, unflagged>>

\* The call has failed: it is lost on its way, cancelled (its work item stays in the
\* queue, where it is skipped) or still carried out.  set_failure() is called.
ReplicateFails ==
    /\ pc = "replicate" /\ Fault
    /\ \/ /\ sql[cur] \in {"arrived", "queued"}
          /\ sql' = [sql EXCEPT ![cur] = "lost"]
          /\ queue' = [i \in DOMAIN queue |-> IF queue[i] = cur THEN None ELSE queue[i]]
       \/ UNCHANGED <<sql, queue>>
    /\ set_failure
    /\ UNCHANGED <<dbVars, cur, reply, retry, versionVars, backup, in_progress, sends, unflagged>>

\* Another service calls force_send().
ForceSend ==
    /\ pc = "idle" /\ sends > 0
    /\ sends' = sends - 1
    /\ set_failure
    /\ UNCHANGED <<dbVars, cur, standbyVars, retry, versionVars, backup, in_progress, faults, unflagged>>

\* set_failure() asks the other node for its status: it sends the database if that is
\* BACKUP and gives up if it is not.
Ask ==
    /\ pc = "ask"
    /\ \/ /\ backup
          /\ pc' = "upload"
          /\ UNCHANGED <<failure, unflagged>>
       \/ /\ ~backup
          /\ pc' = "idle" /\ failure' = FALSE
          /\ unflagged' = unflagged \cup {"not_backup"}
    /\ UNCHANGED <<dbVars, cur, task, standbyVars, retry, envVars>>

\* Mutant: no thread is started.
raises_silent ==
    /\ pc' = "idle"
    /\ \/ task \in Threads /\ retry' = [retry EXCEPT ![task] = "sleeping"]
       \/ task \notin Threads /\ UNCHANGED retry

\* Mutant: the exception of send() ends the thread that called it.
raises_uncaught ==
    /\ pc' = "idle"
    /\ \/ /\ task = "set_failure"
          /\ \E t \in Threads : retry[t] = "none" /\ retry' = [retry EXCEPT ![t] = "sleeping"]
       \/ task \in Threads /\ retry' = [retry EXCEPT ![task] = "raised"]
       \/ task = "direct" /\ UNCHANGED retry

\* An exception in set_failure() starts a thread that tries again; one in send() called
\* by a retry thread is ignored there, and a service that called it gets it.
raises ==
    /\ pc' = "idle"
    /\ \/ /\ task = "set_failure"
          /\ \E t \in Threads : retry[t] = "none" /\ retry' = [retry EXCEPT ![t] = "sleeping"]
       \/ /\ task \in Threads
          /\ retry' = [retry EXCEPT ![task] = "sleeping"]
       \/ /\ task = "direct"
          /\ UNCHANGED retry

AskFails ==
    /\ pc = "ask" /\ Fault
    /\ raises
    /\ UNCHANGED <<dbVars, failure, cur, task, standbyVars, versionVars, backup, in_progress, sends, unflagged>>

-----------------------------------------------------------------------------
(* The active node: send and send_retry                                    *)

\* Another service calls send().
DirectSend ==
    /\ pc = "idle" /\ sends > 0
    /\ sends' = sends - 1
    /\ pc' = "upload" /\ task' = "direct"
    /\ UNCHANGED <<dbVars, failure, cur, standbyVars, retry, versionVars, backup, in_progress, faults, unflagged>>

\* The file has been uploaded and receive() is called.
Upload ==
    /\ pc = "upload"
    /\ replicated' = active
    /\ pc' = "receive"
    /\ queue' = Append(queue, Receive)
    /\ UNCHANGED <<active, standby, failure, cur, task, sql, reply, retry, envVars, unflagged>>

Receiving == \E i \in DOMAIN queue : queue[i] = Receive

\* Mutant: a retry thread does not clear the flag.
Sent_flagged ==
    /\ pc = "receive" /\ ~Receiving
    /\ \/ /\ reply = "ok"
          /\ pc' = "idle" /\ failure' = (failure /\ task \in Threads)
          /\ retry' = [t \in Threads |-> IF t = task THEN "sleeping" ELSE retry[t]]
       \/ /\ reply = "error"
          /\ raises
          /\ UNCHANGED failure
    /\ UNCHANGED <<dbVars, cur, task, standbyVars, envVars, unflagged>>

\* receive() has returned, or raised.
Sent ==
    /\ pc = "receive" /\ ~Receiving
    /\ \/ /\ reply = "ok"
          /\ pc' = "idle" /\ failure' = FALSE
          /\ retry' = [t \in Threads |-> IF t = task THEN "sleeping" ELSE retry[t]]
       \/ /\ reply = "error"
          /\ raises
          /\ UNCHANGED failure
    /\ UNCHANGED <<dbVars, cur, task, standbyVars, envVars, unflagged>>

UploadFails ==
    /\ pc = "upload" /\ Fault
    /\ replicated' \in {replicated, active}
    /\ raises
    /\ UNCHANGED <<active, standby, failure, cur, task, standbyVars, versionVars, backup, in_progress, sends, unflagged>>

ReceiveFails ==
    /\ pc = "receive" /\ Fault
    /\ \/ UNCHANGED queue
       \/ \E i \in DOMAIN queue :
              /\ queue[i] = Receive /\ \A j \in DOMAIN queue : j > i => queue[j] # Receive
              /\ queue' = [queue EXCEPT ![i] = None]
    /\ raises
    /\ UNCHANGED <<dbVars, failure, cur, task, sql, reply, versionVars, backup, in_progress, sends, unflagged>>

\* A retry thread wakes up: the database has been sent meanwhile, ...
RetryEnds(t) ==
    /\ retry[t] = "sleeping" /\ ~failure
    /\ retry' = [retry EXCEPT ![t] = "none"]
    /\ UNCHANGED <<dbVars, failure, threadVars, standbyVars, envVars, unflagged>>

\* ... or not;
RetryWakes(t) ==
    /\ retry[t] = "sleeping" /\ failure
    /\ retry' = [retry EXCEPT ![t] = "awake"]
    /\ UNCHANGED <<dbVars, failure, threadVars, standbyVars, envVars, unflagged>>

\* then it sleeps again during a failover event, ...
RetryDefers(t) ==
    /\ retry[t] = "awake" /\ in_progress
    /\ retry' = [retry EXCEPT ![t] = "sleeping"]
    /\ UNCHANGED <<dbVars, failure, threadVars, standbyVars, envVars, unflagged>>

\* ... has send() called in the SQLite thread of a node that is MASTER, ...
RetryQueues(t) ==
    /\ retry[t] = "awake" /\ ~in_progress
    /\ retry' = [retry EXCEPT ![t] = "queued"]
    /\ UNCHANGED <<dbVars, failure, threadVars, standbyVars, envVars, unflagged>>

RetrySends(t) ==
    /\ retry[t] = "queued" /\ pc = "idle"
    /\ retry' = [retry EXCEPT ![t] = "sending"]
    /\ pc' = "upload" /\ task' = t
    /\ UNCHANGED <<dbVars, failure, cur, standbyVars, envVars, unflagged>>

\* ... or gives up, if the status is not MASTER at the moment.
RetryGivesUp(t) ==
    /\ retry[t] = "awake" /\ ~in_progress /\ Fault
    /\ retry' = [retry EXCEPT ![t] = "giving_up"]
    /\ UNCHANGED <<dbVars, failure, threadVars, standbyVars, versionVars, backup, in_progress, sends, unflagged>>

RetryClears(t) ==
    /\ retry[t] = "giving_up"
    /\ retry' = [retry EXCEPT ![t] = "none"]
    /\ failure' = FALSE
    /\ \/ failure /\ unflagged' = unflagged \cup {"not_master"}
       \/ ~failure /\ UNCHANGED unflagged
    /\ UNCHANGED <<dbVars, threadVars, standbyVars, envVars>>

-----------------------------------------------------------------------------
(* The standby node                                                        *)

\* failover.datastore.sql compares versions and asks for the status of its node before
\* the query becomes a work item of the SQLite thread.
SqlCheck(w) ==
    /\ sql[w] = "arrived"
    /\ \/ /\ same_version /\ backup
          /\ sql' = [sql EXCEPT ![w] = "queued"]
          /\ queue' = Append(queue, w)
       \/ /\ ~same_version \/ ~backup
          /\ sql' = [sql EXCEPT ![w] = "ignored"]
          /\ UNCHANGED queue
    /\ UNCHANGED <<dbVars, failure, threadVars, reply, retry, envVars, unflagged>>

\* datastore.execute, unless it has been cancelled.
Execute ==
    /\ queue # <<>> /\ Head(queue) \in Writes
    /\ queue' = Tail(queue)
    /\ standby' = Append(standby, Head(queue))
    /\ sql' = [sql EXCEPT ![Head(queue)] = "done"]
    /\ unflagged' = IF pc = "replicate" /\ cur = Head(queue) THEN unflagged ELSE unflagged \cup {"late"}
    /\ UNCHANGED <<active, replicated, failure, threadVars, reply, retry, envVars>>

Cancelled ==
    /\ queue # <<>> /\ Head(queue) = None
    /\ queue' = Tail(queue)
    /\ UNCHANGED <<dbVars, failure, threadVars, sql, reply, retry, envVars, unflagged>>

\* receive(): without a file it raises, with another revision it does nothing.
receive ==
    /\ queue # <<>> /\ Head(queue) = Receive
    /\ queue' = Tail(queue)
    /\ \/ /\ replicated = None
          /\ reply' = "error"
          /\ UNCHANGED <<standby, replicated, unflagged>>
       \/ /\ replicated # None /\ ~same_revision
          /\ reply' = "ok"
          /\ unflagged' = unflagged \cup {"revision"}
          /\ UNCHANGED <<standby, replicated>>
       \/ /\ replicated # None /\ same_revision
          /\ reply' = "ok"
          /\ standby' = replicated /\ replicated' = None
          /\ unflagged' = IF replicated = active THEN {} ELSE unflagged
    /\ UNCHANGED <<active, failure, threadVars, sql, retry, envVars>>

-----------------------------------------------------------------------------
(* What happens around them                                                *)

StandbyStatus ==
    /\ \/ backup /\ Fault /\ backup' = FALSE
       \/ ~backup /\ backup' = TRUE /\ UNCHANGED faults
    /\ UNCHANGED <<dbVars, failure, threadVars, standbyVars, retry, versionVars, in_progress, sends, unflagged>>

FailoverBegins ==
    /\ ~in_progress /\ Fault
    /\ in_progress' = TRUE
    /\ UNCHANGED <<dbVars, failure, threadVars, standbyVars, retry, versionVars, backup, sends, unflagged>>

FailoverEnds ==
    /\ in_progress
    /\ in_progress' = FALSE
    /\ UNCHANGED <<dbVars, failure, threadVars, standbyVars, retry, versionVars, backup, faults, sends, unflagged>>

-----------------------------------------------------------------------------
SendStep     == Ask \/ AskFails \/ Upload \/ UploadFails \/ Sent \/ ReceiveFails
RetryStep(t) == RetryEnds(t) \/ RetryWakes(t) \/ RetryDefers(t) \/ RetryQueues(t) \/ RetrySends(t)
                    \/ RetryClears(t)

Next ==
    \/ \E w \in Writes : Write(w) \/ SqlCheck(w)
    \/ Replicated \/ ReplicateFails
    \/ ForceSend \/ DirectSend \/ SendStep
    \/ \E t \in Threads : RetryStep(t) \/ RetryGivesUp(t)
    \/ Execute \/ Cancelled \/ receive
    \/ StandbyStatus \/ FailoverBegins \/ FailoverEnds

Spec == Init /\ [][Next]_vars

\* Threads and tasks are scheduled and a failover event comes to an end.
FairSpec ==
    /\ Spec
    /\ WF_vars(Replicated \/ ReplicateFails) /\ WF_vars(SendStep)
    /\ WF_vars(Execute \/ Cancelled \/ receive) /\ WF_vars(FailoverEnds)
    /\ \A w \in Writes : WF_vars(SqlCheck(w))
    /\ \A t \in Threads : WF_vars(RetryStep(t))

-----------------------------------------------------------------------------
(* Correctness                                                             *)

\* The standby node runs every query at most once; the one that the active node waits for
\* comes after every receive().
QueueInv ==
    /\ \A i \in DOMAIN queue : queue[i] \in Writes => sql[queue[i]] = "queued"
    /\ \A i, k \in DOMAIN queue : queue[i] \in Writes /\ queue[i] = queue[k] => i = k
    /\ \A w \in Writes : sql[w] # "none" => Written(w)
    /\ pc = "replicate" =>
         /\ cur \in Writes
         /\ \A i, k \in DOMAIN queue : queue[i] = Receive /\ queue[k] = cur => i < k
         /\ sql[cur] = "done" => ~Receiving

\* The uploaded file is no newer than the database.
FileInv ==
    replicated # None => /\ Len(replicated) <= Len(active)
                         /\ pc = "replicate" => Len(replicated) < Len(active)

\* The file that receive() is called for is the database as it still is.
SendInv ==
    pc = "receive" => /\ replicated \in {None, active}
                      /\ ~Receiving /\ reply = "ok" /\ unflagged = {} => standby = active

\* What the nodes have in common while nothing is flagged: also in the middle of a
\* replication, and whatever a delayed receive() still finds.
AgreeInv ==
    ~failure /\ unflagged = {} =>
        /\ pc # "replicate" \/ sql[cur] = "done" => standby = active
        /\ pc = "replicate" /\ sql[cur] # "done" => active = Append(standby, cur)
        /\ pc # "receive" /\ Receiving /\ replicated # None => replicated = standby

\* Why the copy is good: of the file, of the send in progress and of the two databases.
CopyInv == FileInv /\ SendInv /\ AgreeInv

\* Whenever the SQLite thread of the active node is idle and the failure flag is clear,
\* the standby node has the same database, unless one of the listed things has happened
\* since the whole database was last sent.
InSync ==
    pc = "idle" /\ ~failure /\ unflagged = {} => standby = active

\* While the flag is set nothing is replicated, so somebody must be about to clear it:
\* set_failure() itself or a retry thread.
RetryAlive ==
    failure => \/ pc \in {"ask", "upload", "receive"} /\ task = "set_failure"
               \/ \E t \in Threads : retry[t] # "none"

\* Once faults have come to an end the flag is cleared: replication goes on.
FailureCleared == failure ~> ~failure

-----------------------------------------------------------------------------
(* A statement of the documentation that the code does not keep            *)

\* hook_datastore_execute_write blocks the SQLite thread "in order to avoid replication
\* query race conditions": while only queries have been run on the standby node, the last
\* one is the last one of the active node.
NoQueryRace ==
    pc = "idle" /\ ~failure /\ unflagged \subseteq {"late"} /\ active # <<>> =>
        standby # <<>> /\ standby[Len(standby)] = active[Len(active)]

=============================================================================
