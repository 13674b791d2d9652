---------------------------- MODULE EventSources ----------------------------
(***************************************************************************)
(* EventSourceManager (common/event_source/manager.py), the life of an     *)
(* EventSource (event.py) and the WebSocket sessions that subscribe to it. *)
(*                                                                         *)
(* The manager's methods run on the event loop and suspend in one place:   *)
(* EventSource.cancel() hands _cancel_sync.set to a worker thread and      *)
(* waits for it.  An EventSource object is named by the subscription that  *)
(* created it.  Nothing depends on the order in which unsubscribe_app      *)
(* visits the subscriptions of a session, so it is left open.              *)
(***************************************************************************)
EXTENDS Integers, FiniteSets

CONSTANTS
    Idents,       \* subscriptions; every one has an ident of its own (uuid4)
    Apps,         \* WebSocket sessions
    Keys,         \* event sources with their arguments: "name:arg"
    None,
    App,          \* the session that asks for a subscription
    Key,          \* the event source it asks for
    Verdict,      \* what validate_arg() makes of the argument of a key
    Streams,      \* keys of app.container_log_follow, which overrides cancel()
    Legacy,       \* sessions of the old WebSocket API, which keep no pending_tasks
    Unsubscribing, \* bound: the subscriptions given up with core.unsubscribe
    LoggingOut,   \* bound: the sessions that call auth.logout, one call at a time
    Closing       \* bound: the sessions that are closed

ASSUME EventSourcesAssumption ==
    /\ None \notin Idents
    /\ App \in [Idents -> Apps] /\ Key \in [Idents -> Keys]
    /\ Verdict \in [Keys -> {"valid", "invalid", "raises"}]
    /\ Streams \subseteq Keys /\ Legacy \subseteq Apps
    /\ Unsubscribing \subseteq Idents /\ LoggingOut \subseteq Apps /\ Closing \subseteq Apps

\* The tasks that can wait in EventSource.cancel(): a call of core.subscribe or
\* core.unsubscribe, and the two places that call unsubscribe_app.
Loops == [kind : {"logout", "close"}, app : Apps]
Tasks == [kind : {"call"}, app : Apps] \cup Loops

VARIABLES
    idents,        \* EventSourceManager.idents
    subscriptions, \* EventSourceManager.subscriptions
    instances,     \* EventSourceManager.instances
    call,          \* where the core.subscribe call for an ident is
    told,          \* how often the subscriber has been sent notify_unsubscribed
    process,       \* where the task of EventSource.process is
    canceled,      \* EventSource._canceled
    cancel_sync,   \* EventSource._cancel_sync and the work item that sets it
    waiter,        \* the task that waits for that work item
    left,          \* what unsubscribe_app has still to visit
    session        \* where RpcWebSocketHandler.process is

managerVars == <<idents, subscriptions, instances, told>>
sourceVars  == <<process, canceled, cancel_sync, waiter>>
vars        == <<managerVars, sourceVars, call, left, session>>

Live == {"running", "streaming", "finishing"}

TypeOK ==
    /\ idents \subseteq Idents
    /\ subscriptions \in [Keys -> SUBSET Idents]
    /\ instances \in [Keys -> Idents \cup {None}]
    /\ call \in [Idents -> {"idle", "requested", "subscribed", "raised", "dropped"}]
    /\ told \in [Idents -> 0..1]
    /\ process \in [Idents -> {"none", "ended"} \cup Live]
    /\ canceled \in [Idents -> BOOLEAN]
    /\ cancel_sync \in [Idents -> {"clear", "queued", "set", "lost"}]
    /\ waiter \in [Idents -> Tasks \cup {None}]
    /\ left \in [Loops -> SUBSET Idents]
    /\ session \in [Apps -> {"open", "closing", "unsubscribing", "closed"}]

Init ==
    /\ idents = {}
    /\ subscriptions = [k \in Keys |-> {}]
    /\ instances = [k \in Keys |-> None]
    /\ call = [i \in Idents |-> "idle"]
    /\ told = [i \in Idents |-> 0]
    /\ process = [i \in Idents |-> "none"]
    /\ canceled = [i \in Idents |-> FALSE]
    /\ cancel_sync = [i \in Idents |-> "clear"]
    /\ waiter = [i \in Idents |-> None]
    /\ left = [t \in Loops |-> {}]
    /\ session = [a \in Apps |-> "open"]

-----------------------------------------------------------------------------
(* EventSourceManager                                                      *)

\* Mutant: only coroutines are told.
cancel_loop_only(p, t) ==
    /\ canceled' = [canceled EXCEPT ![p] = TRUE]
    /\ UNCHANGED <<cancel_sync, waiter>>

\* EventSource.cancel, up to its suspension; t is the task that calls it.
cancel(p, t) ==
    /\ canceled' = [canceled EXCEPT ![p] = TRUE]
    /\ cancel_sync' = [cancel_sync EXCEPT ![p] = "queued"]
    /\ waiter' = [waiter EXCEPT ![p] = t]

\* Mutants: the ident stays in the table; the cancelled instance does.
unsubscribe_get_ident(i, t) ==
    LET k == Key[i]
    IN  /\ told' = [told EXCEPT ![i] = @ + 1]
        /\ subscriptions' = [subscriptions EXCEPT ![k] = @ \ {i}]
        /\ IF subscriptions[k] = {i}
           THEN /\ instances' = [instances EXCEPT ![k] = None]
                /\ cancel(instances[k], t)
           ELSE UNCHANGED <<instances, canceled, cancel_sync, waiter>>
        /\ UNCHANGED <<idents, process>>

unsubscribe_get_instance(i, t) ==
    LET k == Key[i]
    IN  /\ idents' = idents \ {i}
        /\ told' = [told EXCEPT ![i] = @ + 1]
        /\ subscriptions' = [subscriptions EXCEPT ![k] = @ \ {i}]
        /\ IF subscriptions[k] = {i}
           THEN cancel(instances[k], t)
           ELSE UNCHANGED <<canceled, cancel_sync, waiter>>
        /\ UNCHANGED <<instances, process>>

\* The subscription goes; with the last one of a source goes its instance.
unsubscribe(i, t) ==
    LET k == Key[i]
    IN  /\ idents' = idents \ {i}
        /\ told' = [told EXCEPT ![i] = @ + 1]
        /\ subscriptions' = [subscriptions EXCEPT ![k] = @ \ {i}]
        /\ IF subscriptions[k] = {i}
           THEN /\ instances' = [instances EXCEPT ![k] = None]
                /\ cancel(instances[k], t)
           ELSE UNCHANGED <<instances, canceled, cancel_sync, waiter>>
        /\ UNCHANGED process

\* There is an instance for the key: it is used.
subscribe_reuse(i) ==
    /\ instances[Key[i]] # None
    /\ idents' = idents \cup {i}
    /\ subscriptions' = [subscriptions EXCEPT ![Key[i]] = @ \cup {i}]
    /\ call' = [call EXCEPT ![i] = "subscribed"]
    /\ UNCHANGED <<instances, told, sourceVars>>

\* A new instance is created and its argument validated, which does not suspend.  An
\* exception that is not ValidationErrors leaves the instance without a task.
subscribe_new(i) ==
    LET k == Key[i]
    IN  /\ instances[k] = None /\ Verdict[k] # "invalid"
        /\ idents' = idents \cup {i}
        /\ subscriptions' = [subscriptions EXCEPT ![k] = @ \cup {i}]
        /\ instances' = [instances EXCEPT ![k] = i]
        /\ process' = [process EXCEPT ![i] = IF Verdict[k] = "valid" THEN "running" ELSE "none"]
        /\ call' = [call EXCEPT ![i] = IF Verdict[k] = "valid" THEN "subscribed" ELSE "raised"]
        /\ UNCHANGED <<told, canceled, cancel_sync, waiter>>

\* With ValidationErrors the new subscription is undone and the new instance cancelled.
subscribe_invalid(i) ==
    LET k == Key[i]
    IN  /\ instances[k] = None /\ Verdict[k] = "invalid"
        /\ told' = [told EXCEPT ![i] = @ + 1]
        /\ subscriptions[k] = {}
        /\ cancel(i, [kind |-> "call", app |-> App[i]])
        /\ call' = [call EXCEPT ![i] = "subscribed"]
        /\ UNCHANGED <<idents, subscriptions, instances, process>>

\* The session receives a core.subscribe call and creates a task for it.
Request(i) ==
    /\ call[i] = "idle" /\ session[App[i]] = "open"
    /\ call' = [call EXCEPT ![i] = "requested"]
    /\ UNCHANGED <<managerVars, sourceVars, left, session>>

Subscribe(i) ==
    /\ call[i] = "requested"
    /\ subscribe_reuse(i) \/ subscribe_new(i) \/ subscribe_invalid(i)
    /\ UNCHANGED <<left, session>>

\* core.unsubscribe; an ident that is gone is ignored.
Unsubscribe(i) ==
    /\ i \in Unsubscribing /\ i \in idents
    /\ call[i] = "subscribed" /\ session[App[i]] = "open"
    /\ unsubscribe(i, [kind |-> "call", app |-> App[i]])
    /\ UNCHANGED <<call, left, session>>

-----------------------------------------------------------------------------
(* EventSource                                                             *)

\* run() is over because the source has ended or failed ...
RunReturns(p) ==
    /\ process[p] \in {"running", "streaming"}
    /\ process' = [process EXCEPT ![p] = "finishing"]
    /\ UNCHANGED <<managerVars, canceled, cancel_sync, waiter, call, left, session>>

\* ... or because run_sync() sees _cancel_sync, which a stream of logs never looks at.
RunStops(p) ==
    /\ process[p] = "running" /\ Key[p] \notin Streams
    /\ cancel_sync[p] = "set"
    /\ process' = [process EXCEPT ![p] = "finishing"]
    /\ UNCHANGED <<managerVars, canceled, cancel_sync, waiter, call, left, session>>

\* The container's logs have been opened.
StreamOpens(p) ==
    /\ process[p] = "running" /\ Key[p] \in Streams
    /\ process' = [process EXCEPT ![p] = "streaming"]
    /\ UNCHANGED <<managerVars, canceled, cancel_sync, waiter, call, left, session>>

\* Mutant: they are forgotten without being told.
unsubscribe_all_silent(k) ==
    /\ idents' = idents \ subscriptions[k]
    /\ instances' = [instances EXCEPT ![k] = None]
    /\ subscriptions' = [subscriptions EXCEPT ![k] = {}]
    /\ UNCHANGED told

\* Everybody who has subscribed to the key is told and forgotten, the instance with them.
unsubscribe_all(k) ==
    /\ idents' = idents \ subscriptions[k]
    /\ told' = [i \in Idents |-> IF i \in subscriptions[k] THEN told[i] + 1 ELSE told[i]]
    /\ instances' = [instances EXCEPT ![k] = None]
    /\ subscriptions' = [subscriptions EXCEPT ![k] = {}]

\* Mutant: _canceled is not looked at.
ProcessEnd_always(p) ==
    /\ process[p] = "finishing"
    /\ process' = [process EXCEPT ![p] = "ended"]
    /\ unsubscribe_all(Key[p])
    /\ UNCHANGED <<canceled, cancel_sync, waiter, call, left, session>>

\* on_finish() is over: unsubscribe_all, unless the instance has been cancelled.
ProcessEnd(p) ==
    /\ process[p] = "finishing"
    /\ process' = [process EXCEPT ![p] = "ended"]
    /\ IF canceled[p] THEN UNCHANGED managerVars ELSE unsubscribe_all(Key[p])
    /\ UNCHANGED <<canceled, cancel_sync, waiter, call, left, session>>

\* A worker thread runs _cancel_sync.set.
SetCancelSync(p) ==
    /\ cancel_sync[p] = "queued"
    /\ cancel_sync' = [cancel_sync EXCEPT ![p] = "set"]
    /\ UNCHANGED <<managerVars, process, canceled, waiter, call, left, session>>

\* cancel() returns; for a stream of logs it closes the stream first if there is one.
CancelReturns(p) ==
    /\ waiter[p] # None /\ cancel_sync[p] = "set"
    /\ waiter' = [waiter EXCEPT ![p] = None]
    /\ process' = [process EXCEPT ![p] =
                     IF @ = "streaming" THEN "finishing" ELSE @]
    /\ UNCHANGED <<managerVars, canceled, cancel_sync, call, left, session>>

-----------------------------------------------------------------------------
(* Sessions                                                                *)

Own(a) == {i \in idents : App[i] = a}

\* auth.logout calls unsubscribe_app.
Logout(a) ==
    LET t == [kind |-> "logout", app |-> a]
    IN  /\ a \in LoggingOut /\ session[a] = "open"
        /\ left[t] = {} /\ \A p \in Idents : waiter[p] # t
        /\ left' = [left EXCEPT ![t] = Own(a)]
        /\ UNCHANGED <<managerVars, sourceVars, call, session>>

\* Mutant: an ident that is gone raises and ends the session's clean-up.
UnsubscribeApp_keyerror(t) ==
    /\ \A p \in Idents : waiter[p] # t
    /\ \E i \in left[t] : /\ i \in idents
                          /\ left' = [left EXCEPT ![t] = @ \ {i}]
                          /\ unsubscribe(i, t)
    /\ UNCHANGED <<call, session>>

\* One turn of unsubscribe_app, which waits for cancel() before the next one.
UnsubscribeApp(t) ==
    /\ \A p \in Idents : waiter[p] # t
    /\ \E i \in left[t] :
          /\ left' = [left EXCEPT ![t] = @ \ {i}]
          /\ IF i \in idents THEN unsubscribe(i, t)
                             ELSE UNCHANGED <<managerVars, sourceVars>>
    /\ UNCHANGED <<call, session>>

\* Mutant: the calls that are pending are left alone.
Close_keeps_calls(a) ==
    /\ a \in Closing /\ session[a] = "open"
    /\ session' = [session EXCEPT ![a] = "closing"]
    /\ UNCHANGED <<managerVars, sourceVars, call, left>>

\* The connection is closed: the pending calls are cancelled and gathered.  A work item
\* that no thread of the pool has begun is cancelled with the call that waits for it; a
\* single-use thread runs it all the same.
Close(a) ==
    /\ a \in Closing /\ session[a] = "open"
    /\ session' = [session EXCEPT ![a] = "closing"]
    /\ IF a \in Legacy
       THEN UNCHANGED <<call, left, cancel_sync, waiter>>
       ELSE LET mine == {p \in Idents : waiter[p] # None /\ waiter[p].app = a}
            IN  /\ call' = [i \in Idents |-> IF App[i] = a /\ call[i] = "requested"
                                             THEN "dropped" ELSE call[i]]
                /\ left' = [left EXCEPT ![[kind |-> "logout", app |-> a]] = {}]
                /\ \E lost \in SUBSET {p \in mine : cancel_sync[p] = "queued"} :
                      cancel_sync' = [p \in Idents |-> IF p \in lost THEN "lost" ELSE cancel_sync[p]]
                /\ waiter' = [p \in Idents |-> IF p \in mine THEN None ELSE waiter[p]]
    /\ UNCHANGED <<managerVars, process, canceled>>

\* The CLOSE callbacks have run: unsubscribe_app begins, and then the session goes.
CloseUnsubscribes(a) ==
    /\ session[a] = "closing"
    /\ session' = [session EXCEPT ![a] = "unsubscribing"]
    /\ left' = [left EXCEPT ![[kind |-> "close", app |-> a]] = Own(a)]
    /\ UNCHANGED <<managerVars, sourceVars, call>>

Closed(a) ==
    LET t == [kind |-> "close", app |-> a]
    IN  /\ session[a] = "unsubscribing"
        /\ left[t] = {} /\ \A p \in Idents : waiter[p] # t
        /\ session' = [session EXCEPT ![a] = "closed"]
        /\ UNCHANGED <<managerVars, sourceVars, call, left>>

-----------------------------------------------------------------------------
SourceStep(p) == RunStops(p) \/ StreamOpens(p) \/ ProcessEnd(p) \/ SetCancelSync(p) \/ CancelReturns(p)
SessionStep(a) == CloseUnsubscribes(a) \/ Closed(a)

Next ==
    \/ \E i \in Idents : Request(i) \/ Subscribe(i) \/ Unsubscribe(i) \/ RunReturns(i) \/ SourceStep(i)
    \/ \E a \in Apps : Logout(a) \/ Close(a) \/ SessionStep(a)
    \/ \E t \in Loops : UnsubscribeApp(t)

Spec == Init /\ [][Next]_vars

\* Worker threads are scheduled by the system and tasks by the event loop; sources need
\* not end by themselves, and nobody has to call or to disconnect.
FairSpec ==
    /\ Spec
    /\ \A i \in Idents : /\ WF_vars(Subscribe(i)) /\ WF_vars(RunStops(i)) /\ WF_vars(StreamOpens(i))
                         /\ WF_vars(ProcessEnd(i)) /\ WF_vars(SetCancelSync(i)) /\ WF_vars(CancelReturns(i))
    /\ \A a \in Apps : WF_vars(SessionStep(a))
    /\ \A t \in Loops : WF_vars(UnsubscribeApp(t))

-----------------------------------------------------------------------------
(* Correctness                                                             *)

\* The manager's three tables agree, so that neither idents.remove, instances.pop nor
\* idents.pop can raise; the instance in the table is the only one of its key that has
\* not been cancelled and has not ended.
TablesAgree ==
    /\ \A i \in Idents, k \in Keys : i \in subscriptions[k] <=> i \in idents /\ Key[i] = k
    /\ \A k \in Keys : subscriptions[k] = {} <=> instances[k] = None
ManagerInv ==
    /\ TablesAgree
    /\ \A k \in Keys, p \in Idents :
          instances[k] = p => /\ Key[p] = k /\ ~canceled[p] /\ process[p] # "ended"
                              /\ call[p] \in {"subscribed", "raised"}
    /\ \A p \in Idents : process[p] \in Live /\ ~canceled[p] => instances[Key[p]] = p
    /\ \A i \in Idents : call[i] \in {"idle", "requested", "dropped"} =>
          i \notin idents /\ told[i] = 0 /\ process[i] = "none" /\ ~canceled[i]

\* A subscriber is told exactly once that its subscription is over, whoever ends it: the
\* client, the session's end, a bad argument or the source itself.
ToldOnce ==
    \A i \in Idents : told[i] = IF call[i] \in {"subscribed", "raised"} /\ i \notin idents THEN 1 ELSE 0

\* process(): an instance that ends does not unsubscribe the "new subscribers that were
\* added to the new event source instance while the cancelled event source instance was
\* shutting down".
EndStep ==
    \A p \in Idents : process[p] = "finishing" /\ process'[p] = "ended" /\ idents' # idents
                          => instances[Key[p]] = p /\ instances'[Key[p]] = None
OwnSubscribersOnly == [][EndStep]_vars

\* A JSON-RPC session that has gone has left nothing behind in the manager.
ClosedSessionsAreGone ==
    \A a \in Apps \ Legacy : session[a] = "closed" => Own(a) = {}

\* Once its last subscriber has left, a source ends.
CancelledSourcesEnd ==
    \A p \in Idents : canceled[p] ~> process[p] \notin Live

\* The handler of a closed connection gets to its end.
SessionsClose ==
    \A a \in Apps : session[a] = "closing" ~> session[a] = "closed"

-----------------------------------------------------------------------------
(* Statements of the documentation that the code does not keep             *)

\* process(): "The event source is explicitly cancelled if and only if all subscribers
\* are gone": with the sessions of all its subscribers closed, a source has been told.
CancelledWhenAlone ==
    \A p \in Idents :
        (process[p] \in Live /\ (\A i \in Idents : call[i] # "idle" => session[App[i]] = "closed"))
            ~> (process[p] \notin Live \/ cancel_sync[p] = "set")

=============================================================================
