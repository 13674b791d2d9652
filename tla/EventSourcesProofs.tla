------------------------- MODULE EventSourcesProofs -------------------------
(* Proofs about EventSources, for any subscriptions, sessions and sources. *)
EXTENDS EventSources, TLAPS

\* The inductive invariant: the types need ToldOnce, which needs the tables to agree.
Inv == TypeOK /\ ManagerInv /\ ToldOnce

\* unsubscribe() keeps the invariant for a subscription that is in the table, whichever
\* task calls it.
LEMMA UnsubscribeKeepsInv ==
    ASSUME Inv, NEW i \in idents, NEW t \in Tasks, unsubscribe(i, t), call' = call,
           left' \in [Loops -> SUBSET Idents], session' = session
    PROVE  Inv'
<1> DEFINE k == Key[i]
<1>1. i \in Idents /\ k \in Keys /\ i \in subscriptions[k] /\ told[i] = 0
      /\ call[i] \notin {"idle", "requested", "dropped"}
  BY EventSourcesAssumption DEF Inv, TypeOK, ManagerInv, TablesAgree, ToldOnce
<1>2. /\ idents' = idents \ {i}
      /\ told' = [told EXCEPT ![i] = told[i] + 1]
      /\ subscriptions' = [subscriptions EXCEPT ![k] = subscriptions[k] \ {i}]
      /\ process' = process
  BY DEF unsubscribe
<1>3. CASE subscriptions[k] # {i}
  <2>1. UNCHANGED <<instances, canceled, cancel_sync, waiter>>
    BY <1>3 DEF unsubscribe
  <2>2. TypeOK'
    BY <1>1, <1>2, <2>1 DEF Inv, TypeOK
  <2>3. TablesAgree'
    BY <1>1, <1>2, <1>3, <2>1 DEF Inv, TypeOK, ManagerInv, TablesAgree
  <2>4. ManagerInv'
    BY <1>1, <1>2, <2>1, <2>3 DEF Inv, TypeOK, ManagerInv
  <2>5. ToldOnce'
    BY <1>1, <1>2 DEF Inv, TypeOK, ToldOnce
  <2> QED
    BY <2>2, <2>4, <2>5 DEF Inv
<1>4. CASE subscriptions[k] = {i}
  <2> DEFINE p == instances[k]
  <2>1. p \in Idents /\ p # None /\ Key[p] = k
    BY <1>1, <1>4, EventSourcesAssumption DEF Inv, TypeOK, ManagerInv, TablesAgree
  <2>2. /\ instances' = [instances EXCEPT ![k] = None]
        /\ canceled' = [canceled EXCEPT ![p] = TRUE]
        /\ cancel_sync' = [cancel_sync EXCEPT ![p] = "queued"]
        /\ waiter' = [waiter EXCEPT ![p] = t]
    BY <1>4 DEF unsubscribe, cancel
  <2> HIDE DEF p
  <2>3. TypeOK'
    BY <1>1, <1>2, <2>1, <2>2 DEF Inv, TypeOK
  <2>4. TablesAgree'
    BY <1>1, <1>2, <1>4, <2>2, EventSourcesAssumption DEF Inv, TypeOK, ManagerInv, TablesAgree
  <2>5. \A n \in Keys, q \in Idents : instances'[n] = q => n # k /\ instances[n] = q /\ q # p
    BY <1>1, <2>1, <2>2, EventSourcesAssumption DEF Inv, TypeOK, ManagerInv
  <2>6. \A q \in Idents : q # p => canceled'[q] = canceled[q]
    BY <2>1, <2>2 DEF Inv, TypeOK
  <2>7. \A q \in Idents : process'[q] \in Live /\ ~canceled'[q] => instances'[Key[q]] = q
    BY <1>1, <1>2, <2>1, <2>2, EventSourcesAssumption DEF Inv, TypeOK, ManagerInv, p
  <2>0. call[p] \in {"subscribed", "raised"}
    BY <1>1, <2>1 DEF Inv, ManagerInv, p
  <2>8. \A j \in Idents : call[j] \in {"idle", "requested", "dropped"} =>
           j \notin idents' /\ told'[j] = 0 /\ process'[j] = "none" /\ ~canceled'[j]
    BY <1>1, <1>2, <2>0, <2>1, <2>2 DEF Inv, TypeOK, ManagerInv
  <2>9. ManagerInv'
    BY <1>2, <2>4, <2>5, <2>6, <2>7, <2>8 DEF Inv, ManagerInv
  <2>10. ToldOnce'
    BY <1>1, <1>2 DEF Inv, TypeOK, ToldOnce
  <2> QED
    BY <2>3, <2>9, <2>10 DEF Inv
<1> QED
  BY <1>3, <1>4

\* Every step of the manager, of a source or of a session keeps the invariant.
THEOREM InvInvariance == Spec => []Inv
<1>1. Init => Inv
  BY EventSourcesAssumption DEF Init, Inv, TypeOK, ManagerInv, TablesAgree, ToldOnce, Live
<1>2. Inv /\ [Next]_vars => Inv'
  <2> SUFFICES ASSUME Inv, [Next]_vars PROVE Inv'
    OBVIOUS
  <2> USE DEF Inv
  <2>1. CASE UNCHANGED vars
    BY <2>1 DEF vars, managerVars, sourceVars, TypeOK, ManagerInv, TablesAgree, ToldOnce
  <2>2. ASSUME NEW i \in Idents, Request(i) PROVE Inv'
    <3>1. /\ call' = [call EXCEPT ![i] = "requested"] /\ call[i] = "idle"
          /\ UNCHANGED <<managerVars, sourceVars, left, session>>
      BY <2>2 DEF Request
    <3>2. TypeOK'
      BY <3>1 DEF TypeOK, managerVars, sourceVars
    <3>3. ManagerInv' /\ ToldOnce'
      BY <3>1, EventSourcesAssumption DEF TypeOK, ManagerInv, TablesAgree, ToldOnce, managerVars, sourceVars
    <3> QED
      BY <3>2, <3>3
  <2>3. ASSUME NEW i \in Idents, Subscribe(i) PROVE Inv'
    <3> DEFINE k == Key[i]
    <3>1. /\ call[i] = "requested" /\ k \in Keys
          /\ i \notin idents /\ told[i] = 0 /\ process[i] = "none" /\ ~canceled[i]
          /\ UNCHANGED <<left, session>>
          /\ \A n \in Keys : instances[n] # i
      BY <2>3, EventSourcesAssumption DEF Subscribe, TypeOK, ManagerInv
    <3>2. CASE subscribe_reuse(i)
      <4>1. /\ instances[k] # None
            /\ idents' = idents \cup {i}
            /\ subscriptions' = [subscriptions EXCEPT ![k] = subscriptions[k] \cup {i}]
            /\ call' = [call EXCEPT ![i] = "subscribed"]
            /\ UNCHANGED <<instances, told, sourceVars>>
        BY <3>2 DEF subscribe_reuse
      <4>2. TypeOK'
        BY <3>1, <4>1 DEF TypeOK, sourceVars
      <4>3. TablesAgree'
        BY <3>1, <4>1 DEF TypeOK, ManagerInv, TablesAgree
      <4>4. ManagerInv' /\ ToldOnce'
        BY <3>1, <4>1, <4>3 DEF TypeOK, ManagerInv, ToldOnce, sourceVars
      <4> QED
        BY <4>2, <4>4
    <3>3. CASE subscribe_new(i)
      <4>1. /\ instances[k] = None
            /\ idents' = idents \cup {i}
            /\ subscriptions' = [subscriptions EXCEPT ![k] = subscriptions[k] \cup {i}]
            /\ instances' = [instances EXCEPT ![k] = i]
            /\ UNCHANGED <<told, canceled, cancel_sync, waiter>>
        BY <3>3 DEF subscribe_new
      <4>2. \E s \in {"running", "none"}, c \in {"subscribed", "raised"} :
               process' = [process EXCEPT ![i] = s] /\ call' = [call EXCEPT ![i] = c]
        BY <3>3, ZenonT(120) DEF subscribe_new
      <4>3. TypeOK'
        BY <3>1, <4>1, <4>2 DEF TypeOK, Live
      <4>4. TablesAgree'
        BY <3>1, <4>1, EventSourcesAssumption DEF TypeOK, ManagerInv, TablesAgree
      <4>5. \A n \in Keys, p \in Idents : instances'[n] = p =>
               /\ Key[p] = n /\ ~canceled'[p] /\ process'[p] # "ended"
               /\ call'[p] \in {"subscribed", "raised"}
        BY <3>1, <4>1, <4>2 DEF TypeOK, ManagerInv
      <4>6. \A p \in Idents : process'[p] \in Live /\ ~canceled'[p] => instances'[Key[p]] = p
        BY <3>1, <4>1, <4>2, EventSourcesAssumption DEF TypeOK, ManagerInv
      <4>7. \A j \in Idents : call'[j] \in {"idle", "requested", "dropped"} =>
               j \notin idents' /\ told'[j] = 0 /\ process'[j] = "none" /\ ~canceled'[j]
        BY <3>1, <4>1, <4>2 DEF TypeOK, ManagerInv
      <4>8. ManagerInv'
        BY <4>4, <4>5, <4>6, <4>7 DEF ManagerInv
      <4>9. ToldOnce'
        BY <3>1, <4>1, <4>2 DEF TypeOK, ToldOnce
      <4> QED
        BY <4>3, <4>8, <4>9
    <3>4. CASE subscribe_invalid(i)
      <4>1. /\ told' = [told EXCEPT ![i] = told[i] + 1]
            /\ canceled' = [canceled EXCEPT ![i] = TRUE]
            /\ cancel_sync' = [cancel_sync EXCEPT ![i] = "queued"]
            /\ waiter' = [waiter EXCEPT ![i] = [kind |-> "call", app |-> App[i]]]
            /\ call' = [call EXCEPT ![i] = "subscribed"]
            /\ UNCHANGED <<idents, subscriptions, instances, process>>
        BY <3>4 DEF subscribe_invalid, cancel
      <4>2. [kind |-> "call", app |-> App[i]] \in Tasks
        BY EventSourcesAssumption DEF Tasks
      <4>3. TypeOK'
        BY <3>1, <4>1, <4>2 DEF TypeOK
      <4>4. ManagerInv'
        BY <3>1, <4>1 DEF TypeOK, ManagerInv, TablesAgree, Live
      <4>5. ToldOnce'
        BY <3>1, <4>1 DEF TypeOK, ToldOnce
      <4> QED
        BY <4>3, <4>4, <4>5
    <3> QED
      BY <2>3, <3>2, <3>3, <3>4 DEF Subscribe
  <2>4. ASSUME NEW i \in Idents, Unsubscribe(i) PROVE Inv'
    <3>1. /\ i \in idents /\ unsubscribe(i, [kind |-> "call", app |-> App[i]])
          /\ UNCHANGED <<call, left, session>>
      BY <2>4 DEF Unsubscribe
    <3>2. [kind |-> "call", app |-> App[i]] \in Tasks /\ left' \in [Loops -> SUBSET Idents]
      BY <3>1, EventSourcesAssumption DEF Tasks, TypeOK
    <3> QED
      BY <3>1, <3>2, UnsubscribeKeepsInv
  <2>5. ASSUME NEW p \in Idents, RunReturns(p) \/ RunStops(p) \/ StreamOpens(p) PROVE Inv'
    <3>1. /\ process[p] \in {"running", "streaming"}
          /\ \E s \in {"streaming", "finishing"} : process' = [process EXCEPT ![p] = s]
          /\ UNCHANGED <<managerVars, canceled, cancel_sync, waiter, call, left, session>>
      BY <2>5 DEF RunReturns, RunStops, StreamOpens
    <3>2. TypeOK'
      BY <3>1 DEF TypeOK, Live, managerVars
    <3>3. ManagerInv' /\ ToldOnce'
      BY <3>1 DEF TypeOK, ManagerInv, TablesAgree, ToldOnce, Live, managerVars
    <3> QED
      BY <3>2, <3>3
  <2>6. ASSUME NEW p \in Idents, ProcessEnd(p) PROVE Inv'
    <3> DEFINE k == Key[p]
    <3>1. /\ process[p] = "finishing" /\ k \in Keys
          /\ process' = [process EXCEPT ![p] = "ended"]
          /\ UNCHANGED <<canceled, cancel_sync, waiter, call, left, session>>
      BY <2>6, EventSourcesAssumption DEF ProcessEnd
    <3>2. CASE canceled[p]
      <4>1. UNCHANGED managerVars
        BY <2>6, <3>2 DEF ProcessEnd
      <4>2. TypeOK'
        BY <3>1, <4>1 DEF TypeOK, managerVars
      <4>3. ManagerInv' /\ ToldOnce'
        BY <3>1, <3>2, <4>1 DEF TypeOK, ManagerInv, TablesAgree, ToldOnce, Live, managerVars
      <4> QED
        BY <4>2, <4>3
    <3>3. CASE ~canceled[p]
      <4>1. /\ idents' = idents \ subscriptions[k]
            /\ told' = [i \in Idents |-> IF i \in subscriptions[k] THEN told[i] + 1 ELSE told[i]]
            /\ instances' = [instances EXCEPT ![k] = None]
            /\ subscriptions' = [subscriptions EXCEPT ![k] = {}]
        BY <2>6, <3>3 DEF ProcessEnd, unsubscribe_all
      <4>2. instances[k] = p
        BY <3>1, <3>3 DEF ManagerInv, Live
      <4>3. \A i \in subscriptions[k] : i \in idents /\ told[i] = 0
                                        /\ call[i] \notin {"idle", "requested", "dropped"}
        BY <3>1 DEF TypeOK, ManagerInv, TablesAgree, ToldOnce
      <4>4. TypeOK'
        BY <3>1, <4>1, <4>3 DEF TypeOK
      <4>5. TablesAgree'
        BY <3>1, <4>1 DEF TypeOK, ManagerInv, TablesAgree
      <4>6. \A n \in Keys, q \in Idents : instances'[n] = q => n # k /\ instances[n] = q /\ q # p
        BY <3>1, <4>1, EventSourcesAssumption DEF TypeOK, ManagerInv
      <4>7. \A q \in Idents : process'[q] \in Live /\ ~canceled'[q] => instances'[Key[q]] = q
        <5> SUFFICES ASSUME NEW q \in Idents, process'[q] \in Live, ~canceled'[q]
                     PROVE  instances'[Key[q]] = q
          OBVIOUS
        <5>1. q # p /\ process[q] \in Live /\ ~canceled[q]
          BY <3>1 DEF TypeOK, Live
        <5>2. instances[Key[q]] = q /\ Key[q] \in Keys
          BY <5>1, EventSourcesAssumption DEF ManagerInv
        <5>3. Key[q] # k
          BY <4>2, <5>1, <5>2
        <5> QED
          BY <4>1, <5>2, <5>3 DEF TypeOK
      <4>8. \A j \in Idents : call'[j] \in {"idle", "requested", "dropped"} =>
               j \notin idents' /\ told'[j] = 0 /\ process'[j] = "none" /\ ~canceled'[j]
        BY <3>1, <4>1, <4>3 DEF TypeOK, ManagerInv
      <4>9. ManagerInv'
        BY <3>1, <4>5, <4>6, <4>7, <4>8 DEF TypeOK, ManagerInv
      <4>10. ToldOnce'
        BY <3>1, <4>1, <4>3 DEF TypeOK, ToldOnce
      <4> QED
        BY <4>4, <4>9, <4>10
    <3> QED
      BY <3>2, <3>3
  <2>7. ASSUME NEW p \in Idents, SetCancelSync(p) PROVE Inv'
    BY <2>7 DEF SetCancelSync, TypeOK, ManagerInv, TablesAgree, ToldOnce, managerVars
  <2>8. ASSUME NEW p \in Idents, CancelReturns(p) PROVE Inv'
    <3>1. /\ waiter' = [waiter EXCEPT ![p] = None]
          /\ process' = process \/ (process[p] = "streaming" /\ process' = [process EXCEPT ![p] = "finishing"])
          /\ UNCHANGED <<managerVars, canceled, cancel_sync, call, left, session>>
      BY <2>8, ZenonT(120) DEF CancelReturns, TypeOK
    <3>2. TypeOK'
      BY <3>1 DEF TypeOK, Live, managerVars
    <3>3. ManagerInv' /\ ToldOnce'
      BY <3>1 DEF TypeOK, ManagerInv, TablesAgree, ToldOnce, Live, managerVars
    <3> QED
      BY <3>2, <3>3
  <2>9. ASSUME NEW a \in Apps, Logout(a) \/ CloseUnsubscribes(a) \/ Closed(a) PROVE Inv'
    <3>1. /\ UNCHANGED <<managerVars, sourceVars, call>>
          /\ left' = left \/ \E t \in Loops : left' = [left EXCEPT ![t] = Own(a)]
          /\ session' = session \/ \E s \in {"unsubscribing", "closed"} : session' = [session EXCEPT ![a] = s]
      BY <2>9 DEF Logout, CloseUnsubscribes, Closed, Loops
    <3>2. Own(a) \subseteq Idents
      BY DEF Own, TypeOK
    <3>3. TypeOK'
      BY <3>1, <3>2 DEF TypeOK, managerVars, sourceVars
    <3>4. ManagerInv' /\ ToldOnce'
      BY <3>1 DEF ManagerInv, TablesAgree, ToldOnce, managerVars, sourceVars
    <3> QED
      BY <3>3, <3>4
  <2>10. ASSUME NEW a \in Apps, Close(a) PROVE Inv'
    <3>1. /\ session' = [session EXCEPT ![a] = "closing"]
          /\ UNCHANGED <<managerVars, process, canceled>>
      BY <2>10 DEF Close
    <3>2. CASE a \in Legacy
      <4>1. UNCHANGED <<call, left, cancel_sync, waiter>>
        BY <2>10, <3>2 DEF Close
      <4> QED
        BY <3>1, <4>1 DEF TypeOK, ManagerInv, TablesAgree, ToldOnce, managerVars
    <3>3. CASE a \notin Legacy
      <4>1. /\ \A i \in Idents : call'[i] = call[i] \/ (call[i] = "requested" /\ call'[i] = "dropped")
            /\ TypeOK'
        BY <2>10, <3>1, <3>3 DEF Close, TypeOK, managerVars
      <4>2. ManagerInv' /\ ToldOnce'
        BY <3>1, <4>1, ZenonT(120) DEF ManagerInv, TablesAgree, ToldOnce, managerVars
      <4> QED
        BY <4>1, <4>2
    <3> QED
      BY <3>2, <3>3
  <2>11. ASSUME NEW t \in Loops, UnsubscribeApp(t) PROVE Inv'
    <3>1. PICK i \in left[t] : /\ left' = [left EXCEPT ![t] = left[t] \ {i}]
                               /\ IF i \in idents THEN unsubscribe(i, t)
                                                  ELSE UNCHANGED <<managerVars, sourceVars>>
      BY <2>11, ZenonT(120) DEF UnsubscribeApp
    <3>2. UNCHANGED <<call, session>> /\ left' \in [Loops -> SUBSET Idents] /\ t \in Tasks
      BY <2>11, <3>1 DEF UnsubscribeApp, TypeOK, Tasks
    <3>3. CASE i \in idents
      BY <3>1, <3>2, <3>3, UnsubscribeKeepsInv
    <3>4. CASE i \notin idents
      <4>1. UNCHANGED <<managerVars, sourceVars, call, session>>
        BY <3>1, <3>2, <3>4, ZenonT(120)
      <4>2. TypeOK'
        BY <3>2, <4>1, ZenonT(120) DEF TypeOK, managerVars, sourceVars
      <4>3. ManagerInv' /\ ToldOnce'
        BY <4>1, ZenonT(120) DEF ManagerInv, TablesAgree, ToldOnce, managerVars, sourceVars
      <4> QED
        BY <4>2, <4>3, ZenonT(120)
    <3> QED
      BY <3>3, <3>4
  <2> QED
    BY <2>1, <2>2, <2>3, <2>4, <2>5, <2>6, <2>7, <2>8, <2>9, <2>10, <2>11 DEF Next, SourceStep, SessionStep
<1> QED
  BY <1>1, <1>2, PTL DEF Spec

\* The manager's tables are well typed and agree in every reachable state, and no two
\* instances of a source are in use at the same time.
THEOREM ManagerInvariance == Spec => [](TypeOK /\ ManagerInv)
  BY InvInvariance, PTL DEF Inv

\* Identifiers, subscriptions and instances keep their types whatever subscribers do.
THEOREM EventSourcesTyped == Spec => []TypeOK
  BY InvInvariance, PTL DEF Inv

\* Every subscriber is told exactly once that its subscription is over.
THEOREM SubscribersToldOnce == Spec => []ToldOnce
  BY InvInvariance, PTL DEF Inv

\* An instance that ends unsubscribes nobody but its own subscribers.
THEOREM SourcesOwnSubscribersOnly == Spec => OwnSubscribersOnly
<1>1. Inv /\ [Next]_vars => [EndStep]_vars
  <2> SUFFICES ASSUME Inv, Next, NEW p \in Idents, process[p] = "finishing", process'[p] = "ended",
                      idents' # idents
               PROVE  instances[Key[p]] = p /\ instances'[Key[p]] = None
    BY DEF EndStep
  <2>1. ASSUME NEW q \in Idents, ProcessEnd(q)
        PROVE  instances[Key[p]] = p /\ instances'[Key[p]] = None
    <3>1. p = q /\ ~canceled[q]
      BY <2>1 DEF ProcessEnd, Inv, TypeOK, managerVars
    <3>2. instances' = [instances EXCEPT ![Key[p]] = None]
      BY <2>1, <3>1 DEF ProcessEnd, unsubscribe_all
    <3> QED
      BY <3>1, <3>2, EventSourcesAssumption DEF Inv, TypeOK, ManagerInv, Live
  <2>2. ASSUME NEW q \in Idents,
               Request(q) \/ RunReturns(q) \/ RunStops(q) \/ StreamOpens(q) \/ SetCancelSync(q) \/ CancelReturns(q)
        PROVE  FALSE
    BY <2>2 DEF Request, RunReturns, RunStops, StreamOpens, SetCancelSync, CancelReturns, managerVars
  <2>3. ASSUME NEW q \in Idents, Subscribe(q) \/ Unsubscribe(q) PROVE FALSE
    <3>1. process' = process \/ \E s \in {"running", "none"} : process' = [process EXCEPT ![q] = s]
      BY <2>3 DEF Subscribe, subscribe_reuse, subscribe_new, subscribe_invalid, Unsubscribe, unsubscribe,
                  sourceVars
    <3> QED
      BY <3>1 DEF Inv, TypeOK
  <2>4. ASSUME NEW a \in Apps, Logout(a) \/ Close(a) \/ CloseUnsubscribes(a) \/ Closed(a) PROVE FALSE
    BY <2>4 DEF Logout, Close, CloseUnsubscribes, Closed, managerVars
  <2>5. ASSUME NEW t \in Loops, UnsubscribeApp(t) PROVE FALSE
    BY <2>5 DEF UnsubscribeApp, unsubscribe, sourceVars
  <2> QED
    BY <2>1, <2>2, <2>3, <2>4, <2>5 DEF Next, SourceStep, SessionStep
<1> QED
  BY <1>1, InvInvariance, PTL DEF Spec, OwnSubscribersOnly

\* What makes a closed session leave nothing behind: none of its calls can subscribe any
\* more, and unsubscribe_app has still to visit whatever it has in the table.
CloseTask(a) == [kind |-> "close", app |-> a]
SessionInv ==
    \A a \in Apps \ Legacy :
        /\ session[a] # "open" => \A i \in Idents : App[i] = a => call[i] # "requested"
        /\ session[a] = "unsubscribing" => Own(a) \subseteq left[CloseTask(a)]
        /\ session[a] = "closed" => Own(a) = {}

\* SessionInv is kept by a step that subscribes nobody, lets no call through, moves no
\* session and takes out of `left' only what leaves the table.
LEMMA FrameKeepsSessionInv ==
    ASSUME Inv, SessionInv, session' = session, idents' \subseteq idents,
           \A i \in Idents : call'[i] = "requested" => call[i] = "requested" \/ session[App[i]] = "open",
           \A a \in Apps : left[CloseTask(a)] \ left'[CloseTask(a)] \subseteq Idents \ idents'
    PROVE  SessionInv'
  BY DEF SessionInv, Own

\* When the handler of a JSON-RPC session has run to its end, the manager holds no
\* subscription of that session.
THEOREM SessionsLeaveNothing == Spec => []ClosedSessionsAreGone
<1>1. Init => SessionInv
  BY DEF Init, SessionInv
<1>2. Inv /\ SessionInv /\ [Next]_vars => SessionInv'
  <2> SUFFICES ASSUME Inv, SessionInv, [Next]_vars PROVE SessionInv'
    OBVIOUS
  <2>1. CASE UNCHANGED vars
    BY <2>1, FrameKeepsSessionInv DEF vars, managerVars
  <2>2. ASSUME NEW i \in Idents, Request(i) PROVE SessionInv'
    BY <2>2, FrameKeepsSessionInv DEF Request, managerVars, Inv, TypeOK
  <2>3. ASSUME NEW i \in Idents, Subscribe(i) PROVE SessionInv'
    <3>1. /\ call[i] = "requested" /\ UNCHANGED <<left, session>>
          /\ idents' \subseteq idents \cup {i}
          /\ \E c \in {"subscribed", "raised"} : call' = [call EXCEPT ![i] = c]
      BY <2>3 DEF Subscribe, subscribe_reuse, subscribe_new, subscribe_invalid
    <3>2. App[i] \in Legacy \/ session[App[i]] = "open"
      BY <3>1, EventSourcesAssumption DEF SessionInv
    <3> QED
      BY <3>1, <3>2 DEF SessionInv, Own, Inv, TypeOK
  <2>4. ASSUME NEW i \in Idents, Unsubscribe(i) PROVE SessionInv'
    BY <2>4, FrameKeepsSessionInv DEF Unsubscribe, unsubscribe
  <2>5. ASSUME NEW p \in Idents, RunReturns(p) \/ SourceStep(p) PROVE SessionInv'
    <3>1. UNCHANGED <<call, left, session>> /\ idents' \subseteq idents
      BY <2>5 DEF SourceStep, RunReturns, RunStops, StreamOpens, ProcessEnd, SetCancelSync,
                  CancelReturns, unsubscribe_all, managerVars
    <3> QED
      BY <3>1, FrameKeepsSessionInv
  <2>6. ASSUME NEW a \in Apps, Logout(a) PROVE SessionInv'
    <3>1. /\ UNCHANGED <<idents, call, session>>
          /\ left' = [left EXCEPT ![[kind |-> "logout", app |-> a]] = Own(a)]
      BY <2>6 DEF Logout, managerVars
    <3>2. \A b \in Apps : left'[CloseTask(b)] = left[CloseTask(b)]
      BY <3>1 DEF CloseTask, Loops, Inv, TypeOK
    <3> QED
      BY <3>1, <3>2, FrameKeepsSessionInv
  <2>7. ASSUME NEW a \in Apps, Close(a) PROVE SessionInv'
    <3>1. session' = [session EXCEPT ![a] = "closing"] /\ idents' = idents
      BY <2>7 DEF Close, managerVars
    <3>2. CASE a \in Legacy
      <4>1. UNCHANGED <<call, left>>
        BY <2>7, <3>2 DEF Close
      <4> QED
        BY <3>1, <3>2, <4>1 DEF SessionInv, Own, Inv, TypeOK
    <3>3. CASE a \notin Legacy
      <4>1. /\ call' = [i \in Idents |-> IF App[i] = a /\ call[i] = "requested" THEN "dropped" ELSE call[i]]
            /\ left' = [left EXCEPT ![[kind |-> "logout", app |-> a]] = {}]
        BY <2>7, <3>3 DEF Close
      <4>2. \A b \in Apps : left'[CloseTask(b)] = left[CloseTask(b)]
        BY <4>1 DEF CloseTask, Loops, Inv, TypeOK
      <4>3. \A i \in Idents : /\ call'[i] = "requested" => call[i] = "requested"
                              /\ App[i] = a => call'[i] # "requested"
        BY <4>1
      <4> QED
        BY <3>1, <4>2, <4>3 DEF SessionInv, Own, Inv, TypeOK
    <3> QED
      BY <3>2, <3>3
  <2>8. ASSUME NEW a \in Apps, CloseUnsubscribes(a) PROVE SessionInv'
    <3>1. /\ session[a] = "closing" /\ session' = [session EXCEPT ![a] = "unsubscribing"]
          /\ UNCHANGED <<idents, call>>
          /\ left' = [left EXCEPT ![CloseTask(a)] = Own(a)]
      BY <2>8 DEF CloseUnsubscribes, managerVars, CloseTask
    <3>2. /\ left'[CloseTask(a)] = Own(a)
          /\ \A b \in Apps : b # a => left'[CloseTask(b)] = left[CloseTask(b)]
      BY <3>1, ZenonT(120) DEF CloseTask, Loops, Inv, TypeOK
    <3> QED
      BY <3>1, <3>2, ZenonT(120) DEF SessionInv, Own, Inv, TypeOK
  <2>9. ASSUME NEW a \in Apps, Closed(a) PROVE SessionInv'
    <3>1. /\ session[a] = "unsubscribing" /\ session' = [session EXCEPT ![a] = "closed"]
          /\ UNCHANGED <<idents, call, left>> /\ left[CloseTask(a)] = {}
      BY <2>9 DEF Closed, managerVars, CloseTask
    <3> QED
      BY <3>1 DEF SessionInv, Own, Inv, TypeOK
  <2>10. ASSUME NEW t \in Loops, UnsubscribeApp(t) PROVE SessionInv'
    <3>1. PICK i \in left[t] : /\ left' = [left EXCEPT ![t] = left[t] \ {i}]
                               /\ IF i \in idents THEN unsubscribe(i, t)
                                                  ELSE UNCHANGED <<managerVars, sourceVars>>
      BY <2>10, ZenonT(120) DEF UnsubscribeApp
    <3>2. UNCHANGED <<call, session>> /\ idents' = idents \ {i} /\ i \in Idents
      BY <2>10, <3>1 DEF UnsubscribeApp, unsubscribe, managerVars, Inv, TypeOK
    <3>3. \A a \in Apps : left[CloseTask(a)] \ left'[CloseTask(a)] \subseteq {i}
      BY <3>1 DEF CloseTask, Loops, Inv, TypeOK
    <3> QED
      BY <3>2, <3>3, FrameKeepsSessionInv
  <2> QED
    BY <2>1, <2>2, <2>3, <2>4, <2>5, <2>6, <2>7, <2>8, <2>9, <2>10 DEF Next, SessionStep
<1>3. SessionInv => ClosedSessionsAreGone
  BY DEF SessionInv, ClosedSessionsAreGone
<1> QED
  BY <1>1, <1>2, <1>3, InvInvariance, PTL DEF Spec

=============================================================================
