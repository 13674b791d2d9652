------------------------------- MODULE Alerts -------------------------------
(***************************************************************************)
(* The alert service of one node (plugins/alert/alert.py).                 *)
(*                                                                         *)
(* process_alerts, send_alerts, oneshot_create and oneshot_delete are jobs *)
(* under one lock, taken in the order of their calls (module Jobs): `pc'   *)
(* is the place the running one has reached, "idle" between two of them.   *)
(* dismiss, restore, flush_alerts and initialize take no lock.  A step is  *)
(* what happens between two suspensions of a coroutine.  Alert services    *)
(* (mail and so on) are told whatever the clients are told.                *)
(***************************************************************************)
EXTENDS Integers, Sequences, FiniteSetsExt

CONSTANTS
    OneShots,     \* one-shot alerts: a class with the key of an instance
    UserDeleted,  \* those of a class with deleted_automatically=False
    Expiring,     \* those of a class with expires_after
    Sources,      \* alert sources
    Issues,       \* what check() of a source may report, on either node
    SendQueue,    \* lock_queue_size of send_alerts, the default of @job
    MaxBorn,      \* bound: uuids made for an alert of a source
    MaxOps,       \* bound: calls of clients and other services, flushes by the timer
    MaxFaults     \* bound: changes of the node's role, crashes

Failed == "failed"   \* AlertSourceRunFailedAlert
Keys   == OneShots \cup (Sources \X (Issues \cup {Failed}))
Uuids  == Keys \X (Nat \ {0})

ASSUME AlertsAssumption ==
    /\ UserDeleted \subseteq OneShots /\ Expiring \subseteq OneShots
    /\ OneShots \cap (Sources \X (Issues \cup {Failed})) = {}
    /\ Failed \notin Issues /\ IsFiniteSet(Issues)
    /\ SendQueue \in Nat \ {0} /\ MaxBorn \in Nat /\ MaxOps \in Nat /\ MaxFaults \in Nat

VARIABLES
    alerts,    \* self.alerts: the uuid of an alert names its key
    policy,    \* the uuids in last_key_value_alerts of the policy IMMEDIATELY
    view,      \* the uuids a client has that follows the events of alert.list
    db,        \* the uuids in the table system.alert
    born,      \* how many uuids were made for a key
    waiting,   \* the queue of jobs with the lock process_alerts
    pc,        \* where the running job is
    todo,      \* process_alerts: sources it has not come to
    valid,     \* process_alerts: valid_alerts
    gone, new, \* send_alerts: gone_alerts and new_alerts, not yet sent to clients
    flush,     \* where the callers of flush_alerts are
    init,      \* where initialize() is
    state,     \* system.state
    on_ready,  \* SEND_ALERTS_ON_READY
    ha,        \* the node is active or BACKUP, or a failover event is at work
    resets,    \* how many failover events have reset the alerts
    ops, faults, \* how many calls and faults there were
    deleted,   \* history: uuids whose oneshot_delete has flushed and ended
    doubt      \* history: uuids written from a list that had been replaced, or read
               \* from the table while their deletion waited to empty it

jobVars == <<waiting, pc, todo, valid, gone, new>>
sysVars == <<init, state, on_ready, ha, resets>>
envVars == <<ops, faults>>
history == <<deleted, doubt>>
vars    == <<alerts, policy, view, db, born, jobVars, flush, sysVars, envVars, history>>

Alert == [uuid : Uuids, dismissed : BOOLEAN]
Job   == [op : {"process", "send"}] \cup [op : {"create", "delete"}, key : OneShots]

KeyOf(a)   == a.uuid[1]
UuidsOf(s) == {a.uuid : a \in Range(s)}
KeysOf(s)  == {KeyOf(a) : a \in Range(s)}
Listed     == UuidsOf(alerts)

\* The elements of s that are in K, in their order.
Only(s, K) ==
    LET I == {i \in DOMAIN s : s[i] \in K}
    IN  [n \in 1..Cardinality(I) |-> s[CHOOSE i \in I : Cardinality({k \in I : k <= i}) = n]]

\* A list without the element at i, and the lists of a set in any order.
Without(s, i) == SubSeq(s, 1, i - 1) \o SubSeq(s, i + 1, Len(s))
Orders(S)     == Bijection(1..Cardinality(S), S)

\* The callers of flush_alerts: the timer, oneshot_delete, initialize(False).
Flushers == {"periodic", "delete", "reset"}
NoFlush  == [pc |-> "idle", at |-> 0, list |-> <<>>]

\* system.state is READY, and the node is neither BACKUP nor in a failover event.
should_run_or_send_alerts == state = "READY" /\ ha = "active"

-----------------------------------------------------------------------------
\* self.alerts becomes another list: a flush that iterates over it keeps the old one.
Replace(list) ==
    /\ alerts' = list
    /\ flush' = [f \in Flushers |-> IF flush[f].pc = "live"
                                    THEN [flush[f] EXCEPT !.pc = "stale", !.list = alerts]
                                    ELSE flush[f]]

\* The lock is free and the next job is of this kind.
Starts(op) == pc = "idle" /\ waiting # <<>> /\ Head(waiting).op = op

\* JobsQueue.add(send_alerts): a call too many is given the last of the jobs that wait.
CallSend(queue) == IF Len(queue) >= SendQueue THEN queue ELSE Append(queue, [op |-> "send"])

\* Mutant: an alert seen again is no longer dismissed.
handle_alert_undismissed(k) ==
    IF k \in KeysOf(alerts)
    THEN [alerts[Min({i \in DOMAIN alerts : KeyOf(alerts[i]) = k})] EXCEPT !.dismissed = FALSE]
    ELSE [uuid |-> <<k, born[k] + 1>>, dismissed |-> FALSE]

\* Mutant: an alert gets a new uuid whenever it is seen.
handle_alert_new(k) == [uuid |-> <<k, born[k] + 1>>, dismissed |-> FALSE]

\* Mutant: the first uuid is one that is never given.
handle_alert_zero(k) ==
    IF k \in KeysOf(alerts)
    THEN alerts[Min({i \in DOMAIN alerts : KeyOf(alerts[i]) = k})]
    ELSE [uuid |-> <<k, born[k]>>, dismissed |-> FALSE]

\* An alert that exists keeps its uuid and its dismissal, a new one gets a uuid.
handle_alert(k) ==
    IF k \in KeysOf(alerts)
    THEN alerts[Min({i \in DOMAIN alerts : KeyOf(alerts[i]) = k})]
    ELSE [uuid |-> <<k, born[k] + 1>>, dismissed |-> FALSE]

\* The keys get uuids unless they have one.
Bear(keys) ==
    born' = [k \in Keys |-> IF k \in keys \ KeysOf(alerts) THEN born[k] + 1 ELSE born[k]]

-----------------------------------------------------------------------------
\* process_alerts: the 60 second timer queues it unless a job is waiting.
ProcessTick ==
    /\ state # "BOOTING" /\ waiting = <<>>
    /\ waiting' = <<[op |-> "process"]>>
    /\ UNCHANGED <<alerts, policy, view, db, born, pc, todo, valid, gone, new, flush, sysVars, envVars, history>>

process_alerts ==
    /\ Starts("process")
    /\ waiting' = Tail(waiting)
    /\ \/ ~should_run_or_send_alerts /\ UNCHANGED <<pc, todo, valid>>
       \/ should_run_or_send_alerts /\ pc' = "sources" /\ todo' = Sources /\ valid' = alerts
    /\ UNCHANGED <<alerts, policy, view, db, born, gone, new, flush, sysVars, envVars, history>>

\* What check() of a source comes to: alerts, nothing, or an exception.
Reports(s) == UNION {Orders({s} \X I) : I \in (SUBSET Issues) \cup {{Failed}}}

\* One turn of the loop in __run_alerts.  The source is not due or not for this node; or
\* it is blocked and its alerts are taken again; or check() has returned.
run_source(s) ==
    LET mine   == {a \in Range(alerts) : KeyOf(a) \in {s} \X (Issues \cup {Failed})}
        others == Only(alerts, Range(alerts) \ mine)
    IN  /\ pc = "sources" /\ s \in todo
        /\ todo' = todo \ {s}
        /\ \/ UNCHANGED <<alerts, born, flush>>
           \/ Replace(others \o Only(alerts, mine)) /\ UNCHANGED born
           \/ \E found \in Reports(s) :
                 /\ \A k \in Range(found) \ KeysOf(alerts) : born[k] < MaxBorn
                 /\ Bear(Range(found))
                 /\ Replace(others \o [i \in DOMAIN found |-> handle_alert(found[i])])
        /\ UNCHANGED <<policy, view, db, waiting, pc, valid, gone, new, sysVars, envVars, history>>

expire_alerts ==
    /\ pc = "sources" /\ todo = {}
    /\ pc' = "recheck"
    /\ \E old \in SUBSET {u \in Listed : u[1] \in Expiring} :
          Replace(Only(alerts, {a \in Range(alerts) : a.uuid \notin old}))
    /\ UNCHANGED <<policy, view, db, born, waiting, todo, valid, gone, new, sysVars, envVars, history>>

\* Mutant: send_alerts is left to others.
process_alerts_ends_quiet ==
    /\ pc = "recheck" /\ pc' = "idle" /\ valid' = <<>>
    /\ \/ ~should_run_or_send_alerts /\ Replace(valid)
       \/ should_run_or_send_alerts /\ UNCHANGED <<alerts, flush>>
    /\ UNCHANGED <<policy, view, db, born, waiting, todo, gone, new, sysVars, envVars, history>>

\* The node must still be in charge: otherwise what the sources said is forgotten.
process_alerts_ends ==
    /\ pc = "recheck" /\ pc' = "idle" /\ valid' = <<>>
    /\ \/ ~should_run_or_send_alerts /\ Replace(valid) /\ UNCHANGED waiting
       \/ should_run_or_send_alerts /\ waiting' = CallSend(waiting) /\ UNCHANGED <<alerts, flush>>
    /\ UNCHANGED <<policy, view, db, born, todo, gone, new, sysVars, envVars, history>>

-----------------------------------------------------------------------------
send_alerts ==
    /\ Starts("send")
    /\ waiting' = Tail(waiting)
    /\ \/ state # "READY" /\ on_ready' = TRUE /\ UNCHANGED pc
       \/ state = "READY" /\ pc' = "receive" /\ UNCHANGED on_ready
    /\ UNCHANGED <<alerts, policy, view, db, born, todo, valid, gone, new, flush, init, state, ha, resets, envVars, history>>

\* AlertPolicy.receive_alerts; the key of IMMEDIATELY is the time of the call.
receive_alerts ==
    /\ pc = "receive" /\ pc' = "announce"
    /\ gone' = policy \ Listed
    /\ new' = Listed \ policy
    /\ policy' = Listed
    /\ UNCHANGED <<alerts, view, db, born, waiting, todo, valid, flush, sysVars, envVars, history>>

\* REMOVED and ADDED are sent when the alert services have been called.
announce ==
    /\ pc = "announce" /\ pc' = "idle"
    /\ view' = (view \ gone) \cup new
    /\ gone' = {} /\ new' = {}
    /\ UNCHANGED <<alerts, policy, db, born, waiting, todo, valid, flush, sysVars, envVars, history>>

-----------------------------------------------------------------------------
\* Mutant: the job does not take the lock.
oneshot_create_unlocked ==
    LET alert == handle_alert(Head(waiting).key)
    IN  /\ waiting # <<>> /\ Head(waiting).op = "create"
        /\ Bear({Head(waiting).key})
        /\ Replace(Append(Only(alerts, {a \in Range(alerts) : a.uuid # alert.uuid}), alert))
        /\ waiting' = CallSend(Tail(waiting))
        /\ UNCHANGED <<policy, view, db, pc, todo, valid, gone, new, sysVars, envVars, history>>

oneshot_create ==
    LET alert == handle_alert(Head(waiting).key)
    IN  /\ Starts("create")
        /\ Bear({Head(waiting).key})
        /\ Replace(Append(Only(alerts, {a \in Range(alerts) : a.uuid # alert.uuid}), alert))
        /\ waiting' = CallSend(Tail(waiting))
        /\ UNCHANGED <<policy, view, db, pc, todo, valid, gone, new, sysVars, envVars, history>>

\* Mutant: the table is left to the hourly flush.
oneshot_delete_unflushed ==
    LET left == {a \in Range(alerts) : KeyOf(a) # Head(waiting).key}
    IN  /\ Starts("delete")
        /\ alerts' = Only(alerts, left)
        /\ waiting' = IF alerts' = alerts THEN Tail(waiting) ELSE CallSend(Tail(waiting))
        /\ deleted' = deleted \cup (Listed \ UuidsOf(alerts'))
        /\ UNCHANGED <<policy, view, db, born, pc, todo, valid, gone, new, flush, sysVars, envVars, doubt>>

\* The alerts are removed from the list; if there were any, flush_alerts is called.
oneshot_delete ==
    LET left == {a \in Range(alerts) : KeyOf(a) # Head(waiting).key}
    IN  /\ Starts("delete")
        /\ waiting' = Tail(waiting)
        /\ alerts' = Only(alerts, left)
        /\ \/ alerts' = alerts /\ UNCHANGED <<pc, flush>>
           \/ /\ alerts' # alerts
              /\ pc' = "flush"
              /\ flush' = [flush EXCEPT !["delete"].pc = "called"]
        /\ deleted' = deleted \cup (Listed \ UuidsOf(alerts'))
        /\ UNCHANGED <<policy, view, db, born, todo, valid, gone, new, sysVars, envVars, doubt>>

-----------------------------------------------------------------------------
\* A call of a client or of another service, or the hourly timer.
Called == ops < MaxOps /\ ops' = ops + 1

\* flush_alerts: the hourly timer calls it.
FlushTick ==
    /\ Called /\ state # "BOOTING" /\ flush["periodic"].pc = "idle"
    /\ flush' = [flush EXCEPT !["periodic"].pc = "called"]
    /\ UNCHANGED <<alerts, policy, view, db, born, jobVars, sysVars, faults, history>>

\* What the callers of flush_alerts do next: oneshot_delete calls send_alerts and ends;
\* initialize() makes new policies, which take the alerts there are as known.
Returns(f) ==
    /\ \/ f = "periodic" /\ UNCHANGED <<waiting, pc, policy, init>>
       \/ /\ f = "delete" /\ pc = "flush" /\ pc' = "idle"
          /\ waiting' = CallSend(waiting) /\ UNCHANGED <<policy, init>>
       \/ f = "reset" /\ policy' = Listed /\ init' = "done" /\ UNCHANGED <<waiting, pc>>
    /\ flush' = [flush EXCEPT ![f] = NoFlush]
    /\ UNCHANGED <<alerts, view, born, todo, valid, gone, new, state, on_ready, ha, resets, envVars>>

\* On the BACKUP node the table is left alone.
flush_skipped(f) ==
    /\ flush[f].pc = "called" /\ ha # "active"
    /\ Returns(f)
    /\ deleted' = IF f = "delete" THEN deleted \ db ELSE deleted
    /\ UNCHANGED <<db, doubt>>

\* The table is emptied and the iteration over self.alerts begins.
flush_begins(f) ==
    /\ flush[f].pc = "called" /\ ha # "backup"
    /\ db' = {}
    /\ flush' = [flush EXCEPT ![f] = [flush[f] EXCEPT !.pc = "live", !.at = 1]]
    /\ UNCHANGED <<alerts, policy, view, born, jobVars, sysVars, envVars, history>>

\* The list a flush goes through: self.alerts, or the list it was when the flush began.
Iterated(f) == IF flush[f].pc = "stale" THEN flush[f].list ELSE alerts

flush_inserts(f) ==
    /\ flush[f].pc \in {"live", "stale"} /\ flush[f].at <= Len(Iterated(f))
    /\ LET u == Iterated(f)[flush[f].at].uuid
       IN  db' = db \cup {u} /\ doubt' = doubt \cup ({u} \ Listed)
    /\ flush' = [flush EXCEPT ![f].at = @ + 1]
    /\ UNCHANGED <<alerts, policy, view, born, jobVars, sysVars, envVars, deleted>>

flush_ends(f) ==
    /\ flush[f].pc \in {"live", "stale"} /\ flush[f].at > Len(Iterated(f))
    /\ Returns(f)
    /\ UNCHANGED <<db, history>>

flush_alerts(f) == flush_skipped(f) \/ flush_begins(f) \/ flush_inserts(f) \/ flush_ends(f)

-----------------------------------------------------------------------------
\* Another service calls oneshot_create or oneshot_delete (lock_queue_size=None).
CallJob(op, k) ==
    /\ Called
    /\ waiting' = Append(waiting, [op |-> op, key |-> k])
    /\ UNCHANGED <<alerts, policy, view, db, born, pc, todo, valid, gone, new, flush, sysVars, faults, history>>

\* __alert_by_uuid: the first one.
IndexOf(u) == Min({i \in DOMAIN alerts : alerts[i].uuid = u})

\* Mutant: the policies are not told of the removal.
dismiss_known(u) ==
    /\ Called /\ u \in Listed
    /\ \/ /\ u[1] \in UserDeleted
          /\ alerts' = Without(alerts, IndexOf(u))
          /\ view' = view \ {u}
       \/ /\ u[1] \notin UserDeleted
          /\ alerts' = [alerts EXCEPT ![IndexOf(u)].dismissed = TRUE]
          /\ UNCHANGED view
    /\ UNCHANGED <<policy, db, born, jobVars, flush, sysVars, faults, history>>

\* A one-shot alert that nobody else deletes is removed, and clients are told; any other
\* alert is marked.
dismiss(u) ==
    /\ Called /\ u \in Listed
    /\ \/ /\ u[1] \in UserDeleted
          /\ alerts' = Without(alerts, IndexOf(u))
          /\ policy' = policy \ {u}
          /\ view' = view \ {u}
       \/ /\ u[1] \notin UserDeleted
          /\ alerts' = [alerts EXCEPT ![IndexOf(u)].dismissed = TRUE]
          /\ UNCHANGED <<policy, view>>
    /\ UNCHANGED <<db, born, jobVars, flush, sysVars, faults, history>>

restore(u) ==
    /\ Called /\ u \in Listed
    /\ alerts' = [alerts EXCEPT ![IndexOf(u)].dismissed = FALSE]
    /\ UNCHANGED <<policy, view, db, born, jobVars, flush, sysVars, faults, history>>

-----------------------------------------------------------------------------
\* initialize() when middlewared starts.  The table is read; rows with one uuid are one
\* alert; load() of a one-shot class may drop some.  Clients connect when it is done.
initialize ==
    /\ init = "load" /\ init' = "done"
    /\ \E dropped \in SUBSET {u \in db : u[1] \in OneShots} :
          \E rows \in Orders(db \ dropped) : \E marked \in SUBSET (db \ dropped) :
             alerts' = alerts \o [i \in DOMAIN rows |-> [uuid |-> rows[i], dismissed |-> rows[i] \in marked]]
    /\ policy' = UuidsOf(alerts')
    /\ view' = UuidsOf(alerts')
    /\ doubt' = doubt \cup (UuidsOf(alerts') \cap deleted)
    /\ UNCHANGED <<db, born, jobVars, flush, state, on_ready, ha, resets, envVars, deleted>>

\* The event system.ready, with _event_system.
Ready ==
    /\ state = "BOOTING" /\ init = "done"
    /\ state' = "READY"
    /\ waiting' = IF on_ready THEN CallSend(waiting) ELSE waiting
    /\ UNCHANGED <<alerts, policy, view, db, born, pc, todo, valid, gone, new, flush, init, on_ready, ha, resets, envVars, history>>

Fault == faults < MaxFaults /\ faults' = faults + 1

ShutDown ==
    /\ Fault /\ state = "READY"
    /\ state' = "SHUTTING_DOWN"
    /\ UNCHANGED <<alerts, policy, view, db, born, jobVars, flush, init, on_ready, ha, resets, ops, history>>

\* middlewared ends, in a shutdown or abruptly, and starts again with an empty list.
Restart ==
    /\ \/ state = "SHUTTING_DOWN" /\ UNCHANGED faults
       \/ Fault
    /\ alerts' = <<>> /\ policy' = {} /\ view' = {}
    /\ waiting' = <<>> /\ pc' = "idle" /\ todo' = {} /\ valid' = <<>> /\ gone' = {} /\ new' = {}
    /\ flush' = [f \in Flushers |-> NoFlush]
    /\ init' = "load" /\ state' = "BOOTING" /\ on_ready' = FALSE
    /\ deleted' = IF pc = "flush" THEN deleted \ db ELSE deleted
    /\ UNCHANGED <<db, born, ha, resets, ops, doubt>>

\* vrrp_backup on the active node, vrrp_master on the other one (the event is ignored when
\* the pools are already imported).
FailoverBegins ==
    /\ Fault
    /\ \/ ha = "active" /\ ha' = "leaving"
       \/ ha = "backup" /\ ha' = "taking"
    /\ UNCHANGED <<alerts, policy, view, db, born, jobVars, flush, init, state, on_ready, resets, ops, history>>

\* vrrp_master calls initialize(False).
initialize_reset ==
    /\ ha = "taking" /\ init = "done" /\ resets < MaxFaults
    /\ resets' = resets + 1
    /\ init' = "reset"
    /\ alerts' = <<>>
    /\ flush' = [f \in Flushers |-> CASE f = "reset" -> [NoFlush EXCEPT !.pc = "called"]
                                      [] flush[f].pc = "live" -> [flush[f] EXCEPT !.pc = "stale", !.list = alerts]
                                      [] OTHER -> flush[f]]
    /\ UNCHANGED <<policy, view, db, born, jobVars, state, on_ready, ha, envVars, history>>

FailoverEnds ==
    /\ \/ ha = "leaving" /\ ha' = "backup"
       \/ ha = "taking" /\ init # "reset" /\ ha' \in {"active", "backup"}
    /\ UNCHANGED <<alerts, policy, view, db, born, jobVars, flush, init, state, on_ready, resets, envVars, history>>

-----------------------------------------------------------------------------
Init ==
    /\ alerts = <<>> /\ policy = {} /\ view = {} /\ db = {}
    /\ born = [k \in Keys |-> 0]
    /\ waiting = <<>> /\ pc = "idle" /\ todo = {} /\ valid = <<>> /\ gone = {} /\ new = {}
    /\ flush = [f \in Flushers |-> NoFlush]
    /\ init = "load" /\ state = "BOOTING" /\ on_ready = FALSE /\ ha \in {"active", "backup"}
    /\ resets = 0 /\ ops = 0 /\ faults = 0
    /\ deleted = {} /\ doubt = {}

\* A step of the job that has the lock, or the start of the next one.
JobStep ==
    \/ process_alerts \/ (\E s \in Sources : run_source(s)) \/ expire_alerts \/ process_alerts_ends
    \/ send_alerts \/ receive_alerts \/ announce
    \/ oneshot_create \/ oneshot_delete

Next ==
    \/ ProcessTick \/ FlushTick \/ JobStep
    \/ \E f \in Flushers : flush_alerts(f)
    \/ \E op \in {"create", "delete"}, k \in OneShots : CallJob(op, k)
    \/ \E u \in Listed : dismiss(u) \/ restore(u)
    \/ initialize \/ Ready \/ ShutDown \/ Restart
    \/ FailoverBegins \/ initialize_reset \/ FailoverEnds

Spec == Init /\ [][Next]_vars

\* The loop runs what is ready and timers fire again and again; alert sources, services
\* and failover events come to an end, and a shutdown ends the process.
Fairness ==
    /\ WF_vars(JobStep) /\ WF_vars(ProcessTick)
    /\ \A f \in Flushers : WF_vars(flush_alerts(f))
    /\ WF_vars(initialize) /\ WF_vars(Ready) /\ WF_vars(FailoverEnds)
    /\ WF_vars(state = "SHUTTING_DOWN" /\ Restart)

FairSpec == Spec /\ Fairness

-----------------------------------------------------------------------------
TypeOK ==
    /\ alerts \in Seq(Alert) /\ valid \in Seq(Alert)
    /\ policy \subseteq Uuids /\ view \subseteq Uuids /\ db \subseteq Uuids
    /\ gone \subseteq Uuids /\ new \subseteq Uuids /\ deleted \subseteq Uuids /\ doubt \subseteq Uuids
    /\ born \in [Keys -> Nat]
    /\ waiting \in Seq(Job)
    /\ pc \in {"idle", "sources", "recheck", "receive", "announce", "flush"}
    /\ todo \subseteq Sources
    /\ flush \in [Flushers -> [pc : {"idle", "called", "live", "stale"}, at : Nat, list : Seq(Alert)]]
    /\ init \in {"load", "done", "reset"}
    /\ state \in {"BOOTING", "READY", "SHUTTING_DOWN"} /\ on_ready \in BOOLEAN
    /\ ha \in {"active", "leaving", "backup", "taking"}
    /\ resets \in 0..MaxFaults /\ ops \in 0..MaxOps /\ faults \in 0..MaxFaults

\* What the policy IMMEDIATELY takes as known has been told to clients or is about to be:
\* otherwise receive_alerts would never report it (until a failover resets the policies).
KnownIsShown == resets = 0 => policy \ new \subseteq view

\* An alert that oneshot_delete has deleted is in the table only because a flush wrote it
\* from a list that had been replaced, or because initialize() read the table when the flush
\* of the deletion had not yet emptied it: the flush in oneshot_delete keeps every other
\* alert it deletes from coming back at the next boot.
DeletedStaysDeleted ==
    db \cap deleted \subseteq doubt \/ flush["delete"].pc = "called"

\* A run of the sources, its undoing and the creation of another alert lose no one-shot
\* alert, although they replace the whole list and process_alerts goes back to a copy.
OneShotKept ==
    [][ (\E s \in Sources : run_source(s)) \/ process_alerts_ends \/ oneshot_create
        => KeysOf(alerts) \cap OneShots \subseteq KeysOf(alerts') ]_vars

\* process_alerts is about to go back to its copy.
Undoes == pc = "recheck" /\ ~should_run_or_send_alerts

\* "No duplicate alert will be created" (oneshot_create): an alert that is there gets no
\* second uuid, whether a source reports it again or a service creates it again.
NoDuplicateMade ==
    [][ init' = init /\ ~Undoes => \A u \in UuidsOf(alerts') : u[1] \in KeysOf(alerts) => u \in Listed ]_vars

\* A dismissal lasts until restore() as long as the alert does, unless process_alerts
\* goes back to its copy or middlewared restarts.
DismissalKept ==
    [][ init' = init /\ ~(\E u \in Listed : restore(u)) /\ ~Undoes
        => \A b \in Range(alerts') : b.uuid \in Listed /\ ~b.dismissed
              => \E a \in Range(alerts) : a.uuid = b.uuid /\ ~a.dismissed ]_vars

\* On a node in charge clients catch up again and again, whatever was created before the
\* system was ready, not queued because too many jobs waited, or undone in a failover
\* event: they have been told of every alert there is, and of the end of every other alert
\* that the policy knew.
ClientsCatchUp ==
    []<>(ha = "backup" \/ resets > 0 \/ (Listed \subseteq view /\ policy \subseteq Listed))

=============================================================================
