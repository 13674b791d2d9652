---------------------------- MODULE AlertsProofs ----------------------------
(***************************************************************************)
(* What holds of the alert service for any alerts, sources, calls and      *)
(* faults: alerts are neither doubled nor shown again, one-shot alerts are *)
(* kept, deleted ones stay deleted, and what the policy of alert.py takes  *)
(* as known has been told.                                                 *)
(***************************************************************************)
EXTENDS AlertsStepProofs

\* "No duplicate alert will be created": an alert that is there gets no second uuid from
\* a source, from oneshot_create or from anything else but a copy or the table.
THEOREM AlertsNoDuplicateMade == Spec => NoDuplicateMade
<1>1. ASSUME TypeInv, [Next]_vars, init' = init, ~Undoes, NEW b \in Range(alerts'), KeyOf(b) \in KeysOf(alerts)
      PROVE  b.uuid \in Listed
  <2>1. ~initialize
    BY <1>1, Zenon DEF initialize
  <2>2. Follows(b)
    BY <1>1, <2>1, AlertsStep, Zenon
  <2> QED
    BY <1>1, <2>2, Zenon DEF Follows, Fresh, Listed, UuidsOf
<1>2. TypeInv /\ [Next]_vars
      => [init' = init /\ ~Undoes => \A u \in UuidsOf(alerts') : u[1] \in KeysOf(alerts) => u \in Listed]_vars
  BY <1>1, Zenon DEF UuidsOf, KeyOf
<1> QED
  BY <1>2, TypeInvariance, PTL DEF Spec, NoDuplicateMade

\* A dismissal lasts as long as the alert does: what a source reports again, or a service
\* creates again, is dismissed still.
THEOREM AlertsDismissalKept == Spec => DismissalKept
<1>1. ASSUME TypeInv, [Next]_vars, init' = init, ~(\E u \in Listed : restore(u)), ~Undoes,
             NEW b \in Range(alerts'), b.uuid \in Listed, ~b.dismissed
      PROVE  \E a \in Range(alerts) : a.uuid = b.uuid /\ ~a.dismissed
  <2>1. ~initialize
    BY <1>1, Zenon DEF initialize
  <2>2. Follows(b)
    BY <1>1, <2>1, AlertsStep, Zenon
  <2>3. KeyOf(b) \in KeysOf(alerts)
    BY <1>1 DEF Listed, UuidsOf, KeysOf, KeyOf
  <2>4. b \in Range(alerts)
    BY <1>1, <2>2, <2>3, Zenon DEF Follows, Fresh
  <2> QED
    BY <1>1, <2>4, Zenon
<1>2. TypeInv /\ [Next]_vars
      => [init' = init /\ ~(\E u \in Listed : restore(u)) /\ ~Undoes
          => \A b \in Range(alerts') : b.uuid \in Listed /\ ~b.dismissed
                => \E a \in Range(alerts) : a.uuid = b.uuid /\ ~a.dismissed]_vars
  BY <1>1, Zenon
<1> QED
  BY <1>2, TypeInvariance, PTL DEF Spec, DismissalKept

-----------------------------------------------------------------------------
(* One-shot alerts                                                         *)

\* Why OneShotKept holds: sources run only after initialize(), which alone could add an
\* alert beside the lock, and since they began no one-shot alert has been added to those
\* that the copy has.
OneShotInv ==
    /\ init = "load" => state = "BOOTING"
    /\ pc \in {"sources", "recheck"} => init # "load" /\ KeysOf(alerts) \cap OneShots \subseteq KeysOf(valid)

\* A step that adds no one-shot alert and leaves the copy alone keeps OneShotInv.
LEMMA FrameKeepsOneShotInv ==
    ASSUME OneShotInv,
           pc' \in {"sources", "recheck"}
           => /\ pc \in {"sources", "recheck"} /\ UNCHANGED valid
              /\ KeysOf(alerts') \cap OneShots \subseteq KeysOf(alerts),
           init' = "load" => init = "load" /\ state' = state
    PROVE  OneShotInv'
BY Zenon DEF OneShotInv, KeysOf

\* Every step keeps OneShotInv.
LEMMA StepKeepsOneShotInv ==
    ASSUME TypeInv, OneShotInv, [Next]_vars
    PROVE  OneShotInv'
<1> USE DEF jobVars, sysVars, envVars, history
<1>0. TypeOK
  BY Zenon DEF TypeInv
<1>a. UNCHANGED alerts => KeysOf(alerts') \cap OneShots \subseteq KeysOf(alerts)
  BY Zenon DEF KeysOf
<1>1. CASE process_alerts
  BY <1>1, Zenon DEF process_alerts, should_run_or_send_alerts, Starts, OneShotInv, KeysOf
<1>2. ASSUME NEW s \in Sources, run_source(s) PROVE OneShotInv'
  <2>1. UNCHANGED <<pc, valid, init, state>> /\ pc = "sources"
    BY <1>2, Zenon DEF run_source
  <2>2. KeysOf(alerts') \cap OneShots \subseteq KeysOf(alerts)
    BY <1>0, <1>2, SourceAlerts, Zenon DEF KeysOf
  <2> QED
    BY <2>1, <2>2, FrameKeepsOneShotInv
<1>3. CASE expire_alerts
  <2>1. UNCHANGED <<valid, init, state>> /\ pc = "sources" /\ pc' = "recheck"
    BY <1>3, Zenon DEF expire_alerts
  <2>2. KeysOf(alerts') \cap OneShots \subseteq KeysOf(alerts)
    BY <1>0, <1>3, FewerAlerts, Zenon DEF KeysOf
  <2> QED
    BY <2>1, <2>2, FrameKeepsOneShotInv
<1>4. ASSUME NEW u \in Listed, dismiss(u) \/ restore(u) PROVE OneShotInv'
  <2>1. UNCHANGED <<pc, valid, init, state>>
    BY <1>4, Zenon DEF dismiss, restore
  <2>2. KeysOf(alerts') \subseteq KeysOf(alerts)
    BY <1>0, <1>4, DismissAlerts, RestoreAlerts, Zenon DEF KeysOf, KeyOf
  <2> QED
    BY <2>1, <2>2, FrameKeepsOneShotInv
<1>5. CASE initialize
  <2>1. init = "load" /\ init' = "done" /\ UNCHANGED pc
    BY <1>5, Zenon DEF initialize
  <2> QED
    BY <2>1 DEF OneShotInv
<1>6. CASE Restart
  BY <1>6, Zenon DEF Restart, OneShotInv
<1>7. CASE initialize_reset
  <2>1. UNCHANGED <<pc, valid>> /\ init' = "reset" /\ alerts' = <<>>
    BY <1>7, Zenon DEF initialize_reset
  <2> QED
    BY <2>1, FrameKeepsOneShotInv DEF KeysOf, Range
<1>8. CASE ShutDown
  BY <1>8, Zenon DEF ShutDown, OneShotInv, KeysOf
<1>9. CASE Ready
  BY <1>9, Zenon DEF Ready, OneShotInv, KeysOf
<1>10. ASSUME NEW f \in Flushers, flush_alerts(f) PROVE OneShotInv'
  <2>1. UNCHANGED <<alerts, valid, state>> /\ pc' \in {pc, "idle"} /\ init' \in {init, "done"}
    BY <1>10, Zenon DEF flush_alerts, flush_skipped, flush_begins, flush_inserts, flush_ends, Returns
  <2> QED
    BY <1>a, <2>1, FrameKeepsOneShotInv, Zenon
<1>11. CASE process_alerts_ends \/ oneshot_create \/ oneshot_delete \/ send_alerts \/ receive_alerts \/ announce
  <2>1. pc' \notin {"sources", "recheck"} /\ UNCHANGED <<init, state>>
    BY <1>11, Zenon DEF process_alerts_ends, oneshot_create, oneshot_delete, send_alerts, receive_alerts, announce, Starts
  <2> QED
    BY <2>1, FrameKeepsOneShotInv, Zenon
<1>12. CASE UNCHANGED <<alerts, pc, valid, init, state>>
  BY <1>a, <1>12, FrameKeepsOneShotInv, Zenon
<1> QED
  BY <1>1, <1>2, <1>3, <1>4, <1>5, <1>6, <1>7, <1>8, <1>9, <1>10, <1>11, <1>12, ZenonT(120)
     DEF Next, JobStep, ProcessTick, FlushTick, CallJob, FailoverBegins, FailoverEnds, vars

\* A run of the sources, its undoing in a failover and the creation of another alert lose
\* no one-shot alert.
THEOREM AlertsOneShotKept == Spec => OneShotKept
<1> DEFINE Kept == (\E s \in Sources : run_source(s)) \/ process_alerts_ends \/ oneshot_create
                   => KeysOf(alerts) \cap OneShots \subseteq KeysOf(alerts')
<1>1. Init => OneShotInv
  BY Zenon DEF Init, OneShotInv
<1>2. TypeInv /\ OneShotInv /\ [Next]_vars => OneShotInv'
  BY StepKeepsOneShotInv, Zenon
<1>3. TypeInv /\ OneShotInv /\ [Next]_vars => [Kept]_vars
  <2> SUFFICES ASSUME TypeInv, OneShotInv PROVE Kept
    OBVIOUS
  <2>0. TypeOK
    BY Zenon DEF TypeInv
  <2>1. ASSUME NEW s \in Sources, run_source(s) PROVE KeysOf(alerts) \cap OneShots \subseteq KeysOf(alerts')
    BY <2>0, <2>1, SourceAlerts DEF KeysOf
  <2>2. CASE process_alerts_ends
    <3>1. pc = "recheck" /\ (alerts' = valid \/ alerts' = alerts)
      BY <2>2, Zenon DEF process_alerts_ends, Replace
    <3> QED
      BY <3>1, Zenon DEF OneShotInv, KeysOf
  <2>3. CASE oneshot_create
    BY <2>0, <2>3, CreateAlerts
  <2> QED
    BY <2>1, <2>2, <2>3, Zenon
<1> QED
  BY <1>1, <1>2, <1>3, TypeInvariance, PTL DEF Spec, OneShotKept

-----------------------------------------------------------------------------
(* Deleted alerts                                                          *)

\* The uuids that are somewhere in the service were all made.
Written(f) == UuidsOf(flush[f].list)
Seen       == Listed \cup UuidsOf(valid) \cup db \cup deleted \cup UNION {Written(f) : f \in Flushers}
BornInv    == \A u \in Seen : u[2] <= born[u[1]]

\* Why DeletedStaysDeleted holds: a new alert has a uuid that was never deleted, so a deleted
\* alert is in a list only when it is in doubt; a copy of the list exists only while the
\* sources run, and oneshot_delete keeps the lock until its flush returns.
DeletedInv ==
    /\ BornInv
    /\ (Listed \cup UuidsOf(valid)) \cap deleted \subseteq doubt
    /\ pc \notin {"sources", "recheck"} => valid = <<>>
    /\ flush["delete"].pc # "idle" => pc = "flush"
    /\ DeletedStaysDeleted

\* Where the alerts of a list, of the copy, of a flush and of the history come from.
LEMMA Sourced ==
    ASSUME TypeInv, [Next]_vars
    PROVE  /\ valid' \in {valid, alerts, <<>>}
           /\ deleted' \subseteq deleted \cup Listed
           /\ db' \subseteq db \cup Listed \cup UNION {Written(f) : f \in Flushers}
           /\ \A f \in Flushers : flush'[f].list \in {flush[f].list, alerts, <<>>}
<1> USE DEF jobVars, sysVars, envVars, history
<1> DEFINE Kept == \A f \in Flushers : flush'[f].list \in {flush[f].list, alerts, <<>>}
           Goal == /\ valid' \in {valid, alerts, <<>>}
                   /\ deleted' \subseteq deleted \cup Listed
                   /\ db' \subseteq db \cup Listed \cup UNION {Written(f) : f \in Flushers}
                   /\ Kept
<1> SUFFICES Goal
  OBVIOUS
<1>0. flush \in [Flushers -> FlushState] /\ \A f \in Flushers : flush[f] \in FlushState
  BY Zenon DEF TypeInv, TypeOK, FlushState
<1>a. UNCHANGED flush => Kept
  OBVIOUS
<1>b. ASSUME NEW list, Replace(list) PROVE Kept
  <2> TAKE f \in Flushers
  <2>1. flush'[f] = flush[f] \/ flush'[f] = [flush[f] EXCEPT !.pc = "stale", !.list = alerts]
    BY <1>b, Zenon DEF Replace
  <2>2. [flush[f] EXCEPT !.pc = "stale", !.list = alerts].list = alerts
    BY <1>0 DEF FlushState
  <2> QED
    BY <2>1, <2>2, Zenon
<1>c. ASSUME NEW f \in Flushers, flush' = [flush EXCEPT ![f].pc = "called"] PROVE Kept
  BY <1>0, <1>c, Zenon DEF FlushState
<1>1. ASSUME NEW s \in Sources, run_source(s) PROVE Goal
  <2>1. UNCHANGED <<valid, deleted, db>> /\ (UNCHANGED flush \/ \E list : Replace(list))
    BY <1>1, Zenon DEF run_source
  <2> HIDE DEF Kept
  <2> QED
    BY <1>a, <1>b, <2>1, Zenon
<1>2. CASE expire_alerts \/ oneshot_create
  <2>1. UNCHANGED <<valid, deleted, db>> /\ \E list : Replace(list)
    BY <1>2, Zenon DEF expire_alerts, oneshot_create
  <2> HIDE DEF Kept
  <2> QED
    BY <1>b, <2>1, Zenon
<1>3. CASE process_alerts_ends
  <2>1. valid' = <<>> /\ UNCHANGED <<deleted, db>> /\ (UNCHANGED flush \/ \E list : Replace(list))
    BY <1>3, Zenon DEF process_alerts_ends
  <2> HIDE DEF Kept
  <2> QED
    BY <1>a, <1>b, <2>1
<1>4. CASE oneshot_delete
  <2>1. /\ UNCHANGED <<valid, db>> /\ deleted' = deleted \cup (Listed \ UuidsOf(alerts'))
        /\ UNCHANGED flush \/ flush' = [flush EXCEPT !["delete"].pc = "called"]
    BY <1>4, Zenon DEF oneshot_delete
  <2>2. Kept
    BY <1>a, <1>c, <2>1, Zenon DEF Flushers
  <2> HIDE DEF Kept
  <2> QED
    BY <2>1, <2>2, Zenon
<1>5. CASE process_alerts
  BY <1>5, Zenon DEF process_alerts
<1>6. CASE FlushTick
  <2>1. UNCHANGED <<valid, deleted, db>> /\ flush' = [flush EXCEPT !["periodic"].pc = "called"]
    BY <1>6, Zenon DEF FlushTick
  <2>2. Kept
    BY <1>c, <2>1, Zenon DEF Flushers
  <2> HIDE DEF Kept
  <2> QED
    BY <2>1, <2>2
<1>7. ASSUME NEW f \in Flushers, flush_alerts(f) PROVE Goal
  <2>1. UNCHANGED valid /\ deleted' \subseteq deleted
    BY <1>7, Zenon DEF flush_alerts, flush_skipped, flush_begins, flush_inserts, flush_ends, Returns
  <2>2. CASE flush_skipped(f) \/ flush_ends(f)
    <3>1. UNCHANGED db /\ flush' = [flush EXCEPT ![f] = NoFlush]
      BY <2>2 DEF flush_skipped, flush_ends, Returns
    <3>2. Kept
      BY <1>0, <3>1, Zenon DEF NoFlush
    <3> HIDE DEF Kept
    <3> QED
      BY <2>1, <3>1, <3>2, ZenonT(120)
  <2>3. CASE flush_begins(f)
    <3>1. db' = {} /\ flush' = [flush EXCEPT ![f] = [flush[f] EXCEPT !.pc = "live", !.at = 1]]
      BY <2>3 DEF flush_begins
    <3>2. Kept
      BY <1>0, <3>1, Zenon DEF FlushState
    <3> HIDE DEF Kept
    <3> QED
      BY <2>1, <3>1, <3>2, Zenon
  <2>4. CASE flush_inserts(f)
    <3>1. PICK a \in Range(Iterated(f)) : db' = db \cup {a.uuid}
      BY <2>4, Inserted
    <3>2. a.uuid \in Listed \cup Written(f)
      BY <3>1 DEF Iterated, Listed, Written, UuidsOf
    <3>3. flush' = [flush EXCEPT ![f] = [flush[f] EXCEPT !.at = flush[f].at + 1]]
      BY <1>0, <2>4, Zenon DEF flush_inserts
    <3>4. Kept
      BY <1>0, <3>3 DEF FlushState
    <3> HIDE DEF Kept
    <3> QED
      BY <2>1, <3>1, <3>2, <3>4, Zenon
  <2> HIDE DEF Goal
  <2> QED
    BY <1>7, <2>2, <2>3, <2>4 DEF flush_alerts
<1>8. CASE Restart
  <2>1. valid' = <<>> /\ UNCHANGED db /\ deleted' \subseteq deleted /\ flush' = [f \in Flushers |-> NoFlush]
    BY <1>8, Zenon DEF Restart
  <2> QED
    BY <2>1, Zenon DEF NoFlush
<1>9. CASE initialize_reset
  <2>1. UNCHANGED <<valid, db, deleted>>
    BY <1>9, Zenon DEF initialize_reset
  <2>2. Kept
    <3> TAKE f \in Flushers
    <3>1. \/ flush'[f] = [NoFlush EXCEPT !.pc = "called"] \/ flush'[f] = flush[f]
          \/ flush'[f] = [flush[f] EXCEPT !.pc = "stale", !.list = alerts]
      BY <1>9, ResetFlush, Zenon
    <3>2. /\ [flush[f] EXCEPT !.pc = "stale", !.list = alerts].list = alerts
          /\ [NoFlush EXCEPT !.pc = "called"].list = <<>>
      BY <1>0, Zenon DEF FlushState, NoFlush
    <3> QED
      BY <3>1, <3>2, Zenon
  <2> HIDE DEF Kept
  <2> QED
    BY <2>1, <2>2
<1>10. CASE UNCHANGED <<valid, deleted, db, flush>>
  <2> HIDE DEF Kept
  <2> QED
    BY <1>a, <1>10, Zenon
<1>11. CASE initialize
  <2>1. UNCHANGED <<valid, deleted, db, flush>>
    BY <1>11, Zenon DEF initialize
  <2> QED
    BY <1>10, <2>1
<1>12. ASSUME NEW u \in Listed, dismiss(u) \/ restore(u) PROVE UNCHANGED <<valid, deleted, db, flush>>
  BY <1>12, Zenon DEF dismiss, restore
<1> HIDE DEF Goal
<1> QED
  BY <1>1, <1>2, <1>3, <1>4, <1>5, <1>6, <1>7, <1>8, <1>9, <1>10, <1>11, <1>12, ZenonT(120)
     DEF Next, JobStep, ProcessTick, send_alerts, receive_alerts, announce, CallJob, Ready, ShutDown,
         FailoverBegins, FailoverEnds, vars

\* Every uuid in the service was made, and every step keeps it so.
LEMMA StepKeepsBorn ==
    ASSUME TypeInv, BornInv, [Next]_vars
    PROVE  BornInv'
<1>0. /\ TypeOK /\ IsFiniteSet(db) /\ born \in [Keys -> Nat] /\ TypeInv'
      /\ born' \in [Keys -> Nat]
  BY StepKeepsType, Zenon DEF TypeInv, TypeOK
<1>1. \A k \in Keys : born'[k] >= born[k]
  BY AlertsStep, Zenon
<1>2. ASSUME NEW u \in Uuids, u[2] <= born[u[1]] PROVE u[2] <= born'[u[1]]
  <2>1. u[1] \in Keys /\ u[2] \in Nat
    BY Zenon DEF Uuids
  <2> QED
    BY <1>0, <1>1, <1>2, <2>1
<1>3. Seen \subseteq Uuids
  <2>1. Listed \subseteq Uuids /\ UuidsOf(valid) \subseteq Uuids /\ db \subseteq Uuids /\ deleted \subseteq Uuids
    BY <1>0, UuidsTyped DEF TypeOK, Listed
  <2>2. \A f \in Flushers : flush[f].list \in Seq(Alert)
    BY <1>0, Zenon DEF TypeOK
  <2>3. \A f \in Flushers : Written(f) \subseteq Uuids
    BY <2>2, UuidsTyped DEF Written
  <2> QED
    BY <2>1, <2>3, Zenon DEF Seen
<1>4. ASSUME NEW u \in Seen PROVE u[2] <= born'[u[1]]
  BY <1>2, <1>3, <1>4, Zenon DEF BornInv
<1>5. ASSUME NEW b \in Range(alerts') PROVE b.uuid \in Seen \/ b.uuid[2] <= born'[b.uuid[1]]
  <2>1. CASE Follows(b)
    <3>1. CASE Fresh(b) /\ born'[KeyOf(b)] = born[KeyOf(b)] + 1
      <4>1. b \in Alert
        BY <1>0, UuidsTyped, Zenon DEF TypeInv, TypeOK
      <4>2. KeyOf(b) \in Keys /\ b.uuid = <<KeyOf(b), born[KeyOf(b)] + 1>>
        BY <3>1, <4>1 DEF Fresh, Alert, Uuids, KeyOf
      <4>3. b.uuid[1] = KeyOf(b) /\ b.uuid[2] = born[KeyOf(b)] + 1
        BY <4>2
      <4> QED
        BY <1>0, <3>1, <4>2, <4>3
    <3> QED
      BY <2>1, <3>1 DEF Follows, Seen, Listed, UuidsOf
  <2>2. CASE process_alerts_ends /\ Undoes /\ alerts' = valid
    BY <2>2, Zenon DEF Seen, UuidsOf
  <2>3. CASE initialize
    <3>1. UuidsOf(alerts') \subseteq Listed \cup db
      BY <1>0, <2>3, InitializeAlerts, Zenon
    <3> QED
      BY <3>1, Zenon DEF Seen, UuidsOf
  <2> QED
    BY <2>1, <2>2, <2>3, AlertsStep, Zenon
<1>6. ASSUME NEW u \in Seen' PROVE u \in Seen \/ u \in UuidsOf(alerts')
  <2>1. CASE u \in UuidsOf(valid')
    BY <2>1, Sourced DEF Seen, Listed, UuidsOf, Range
  <2>2. CASE u \in deleted' \/ u \in db'
    BY <2>2, Sourced, Zenon DEF Seen
  <2>3. ASSUME NEW f \in Flushers, u \in UuidsOf(flush'[f].list) PROVE u \in Seen
    <3>1. UuidsOf(flush'[f].list) \in {Written(f), Listed, {}}
      BY Sourced DEF Written, Listed, UuidsOf, Range
    <3> QED
      BY <2>3, <3>1, Zenon DEF Seen
  <2> QED
    BY <1>6, <2>1, <2>2, <2>3 DEF Seen, Listed, Written
<1> QED
  BY <1>4, <1>5, <1>6 DEF BornInv, UuidsOf

\* What is in doubt stays in doubt, and only oneshot_delete deletes.
LEMMA HistoryStep ==
    ASSUME [Next]_vars
    PROVE  doubt \subseteq doubt' /\ (oneshot_delete \/ deleted' \subseteq deleted)
<1> USE DEF jobVars, sysVars, envVars, history
<1>1. ASSUME NEW f \in Flushers, flush_alerts(f) PROVE doubt \subseteq doubt' /\ deleted' \subseteq deleted
  BY <1>1, Zenon DEF flush_alerts, flush_skipped, flush_begins, flush_inserts, flush_ends
<1>2. CASE initialize
  <2>1. doubt' = doubt \cup (UuidsOf(alerts') \cap deleted) /\ UNCHANGED deleted
    BY <1>2, Zenon DEF initialize
  <2> QED
    BY <2>1, Zenon
<1>3. ASSUME NEW u \in Listed, dismiss(u) \/ restore(u) PROVE UNCHANGED history
  BY <1>3, Zenon DEF dismiss, restore
<1>4. CASE JobStep
  <2>1. ASSUME NEW s \in Sources, run_source(s) PROVE UNCHANGED history
    BY <2>1, Zenon DEF run_source
  <2>2. CASE expire_alerts \/ oneshot_create
    BY <2>2, Zenon DEF expire_alerts, oneshot_create
  <2>3. CASE oneshot_delete
    <3>1. UNCHANGED doubt
      BY <2>3, Zenon DEF oneshot_delete
    <3> QED
      BY <2>3, <3>1, Zenon
  <2> QED
    BY <1>4, <2>1, <2>2, <2>3, Zenon DEF JobStep, process_alerts, process_alerts_ends, send_alerts, receive_alerts, announce
<1>5. CASE initialize_reset
  BY <1>5, Zenon DEF initialize_reset
<1> QED
  BY <1>1, <1>2, <1>3, <1>4, <1>5, ZenonT(120) DEF Next, ProcessTick, FlushTick, CallJob, Ready, ShutDown, Restart,
     FailoverBegins, FailoverEnds, vars

\* Every step keeps the rest of DeletedInv: what is in a list and deleted is in doubt.
LEMMA StepKeepsDoubt ==
    ASSUME TypeInv, DeletedInv, [Next]_vars
    PROVE  (UuidsOf(alerts') \cup UuidsOf(valid')) \cap deleted' \subseteq doubt'
<1> USE DEF jobVars, sysVars, envVars, history
<1>0. /\ TypeOK /\ born \in [Keys -> Nat] /\ deleted \subseteq Seen /\ TypeInv'
      /\ (Listed \cup UuidsOf(valid)) \cap deleted \subseteq doubt
  BY StepKeepsType, ZenonT(120) DEF TypeInv, TypeOK, DeletedInv, Seen
<1>1. doubt \subseteq doubt' /\ (oneshot_delete \/ deleted' \subseteq deleted)
  BY HistoryStep, Zenon
<1>2. UuidsOf(valid') \subseteq Listed \cup UuidsOf(valid)
  BY Sourced DEF Listed, UuidsOf, Range
<1>3. CASE deleted' \subseteq deleted
  <2>1. ASSUME NEW b \in Range(alerts'), b.uuid \in deleted, ~initialize
        PROVE  b.uuid \in doubt
    <3>1. CASE Follows(b)
      <4>1. CASE Fresh(b)
        <5>1. b \in Alert /\ b.uuid[2] <= born[b.uuid[1]]
          BY <1>0, <2>1, UuidsTyped, Zenon DEF TypeInv, TypeOK, DeletedInv, BornInv
        <5>2. KeyOf(b) \in Keys /\ b.uuid = <<KeyOf(b), born[KeyOf(b)] + 1>>
          BY <4>1, <5>1 DEF Fresh, Alert, Uuids, KeyOf
        <5>3. b.uuid[1] = KeyOf(b) /\ b.uuid[2] = born[KeyOf(b)] + 1
          BY <5>2
        <5> QED
          BY <1>0, <5>1, <5>2, <5>3
      <4> QED
        BY <1>0, <2>1, <3>1, <4>1 DEF Follows, Listed, UuidsOf
    <3>2. CASE alerts' = valid
      BY <1>0, <2>1, <3>2, Zenon DEF UuidsOf
    <3> QED
      BY <2>1, <3>1, <3>2, AlertsStep, Zenon
  <2>2. CASE initialize
    <3>1. doubt' = doubt \cup (UuidsOf(alerts') \cap deleted)
      BY <2>2, Zenon DEF initialize
    <3> QED
      BY <1>0, <1>2, <1>3, <3>1, Zenon
  <2>3. CASE ~initialize
    <3>1. UuidsOf(alerts') \cap deleted \subseteq doubt
      BY <2>1, <2>3 DEF UuidsOf
    <3> QED
      BY <1>0, <1>1, <1>2, <1>3, <3>1
  <2> QED
    BY <2>2, <2>3
<1>4. CASE oneshot_delete
  <2>1. pc = "idle" /\ UNCHANGED valid /\ deleted' = deleted \cup (Listed \ UuidsOf(alerts'))
    BY <1>4, Zenon DEF oneshot_delete, Starts
  <2>2. UuidsOf(valid') = {}
    BY <2>1 DEF DeletedInv, UuidsOf, Range
  <2>3. UuidsOf(alerts') \subseteq Listed
    BY <1>0, <1>4, FewerAlerts, Zenon DEF Listed, UuidsOf
  <2> QED
    BY <1>0, <1>1, <2>1, <2>2, <2>3, ZenonT(120)
<1> QED
  BY <1>1, <1>3, <1>4, ZenonT(120)

\* The flush of oneshot_delete: who touches it.
LEMMA DeleteFlush ==
    ASSUME TypeInv, [Next]_vars
    PROVE  \/ flush'["delete"].pc = flush["delete"].pc /\ (pc = "flush" => pc' = "flush")
           \/ flush["delete"].pc = "live" /\ flush'["delete"].pc = "stale" /\ (pc = "flush" => pc' = "flush")
           \/ oneshot_delete /\ flush'["delete"].pc = "called" /\ pc' = "flush"
           \/ flush_alerts("delete")
           \/ Restart
<1> USE DEF jobVars, sysVars, envVars, history
<1> DEFINE Same == flush'["delete"].pc = flush["delete"].pc
           Old  == flush["delete"].pc = "live" /\ flush'["delete"].pc = "stale"
<1>0. "delete" \in Flushers /\ flush \in [Flushers -> FlushState] /\ flush["delete"] \in FlushState
  BY DEF TypeInv, TypeOK, FlushState, Flushers
<1>a. [flush["delete"] EXCEPT !.pc = "stale", !.list = alerts].pc = "stale"
  BY <1>0, Zenon DEF FlushState
<1>b. ASSUME NEW list, Replace(list) PROVE Same \/ Old
  <2>1. flush'["delete"] = IF flush["delete"].pc = "live"
                           THEN [flush["delete"] EXCEPT !.pc = "stale", !.list = alerts] ELSE flush["delete"]
    BY <1>0, <1>b, Zenon DEF Replace
  <2> QED
    BY <1>a, <2>1, Zenon
<1>1. ASSUME NEW s \in Sources, run_source(s) PROVE (Same \/ Old) /\ UNCHANGED pc
  <2>1. UNCHANGED pc /\ (UNCHANGED flush \/ \E list : Replace(list))
    BY <1>1, Zenon DEF run_source
  <2> QED
    BY <1>b, <2>1
<1>2. CASE expire_alerts \/ process_alerts_ends \/ oneshot_create
  <2>1. pc # "flush" /\ (UNCHANGED flush \/ \E list : Replace(list))
    BY <1>2, Zenon DEF expire_alerts, process_alerts_ends, oneshot_create, Starts
  <2> QED
    BY <1>b, <2>1
<1>3. CASE oneshot_delete
  <2>1. /\ pc = "idle"
        /\ UNCHANGED flush \/ (pc' = "flush" /\ flush' = [flush EXCEPT !["delete"].pc = "called"])
    BY <1>3, Zenon DEF oneshot_delete, Starts
  <2> QED
    BY <1>0, <1>3, <2>1, Zenon DEF FlushState
<1>4. CASE process_alerts \/ send_alerts \/ receive_alerts \/ announce
  <2>1. pc # "flush" /\ UNCHANGED flush
    BY <1>4, Zenon DEF process_alerts, send_alerts, receive_alerts, announce, Starts
  <2> QED
    BY <2>1, Zenon
<1>5. CASE FlushTick
  <2>1. UNCHANGED pc /\ flush' = [flush EXCEPT !["periodic"].pc = "called"]
    BY <1>5, Zenon DEF FlushTick
  <2> QED
    BY <1>0, <2>1
<1>6. ASSUME NEW f \in Flushers, flush_alerts(f), f # "delete" PROVE Same /\ UNCHANGED pc
  <2>1. UNCHANGED pc /\ \E r : flush' = [flush EXCEPT ![f] = r]
    <3>1. CASE flush_skipped(f) \/ flush_ends(f)
      BY <1>6, <3>1, Zenon DEF flush_skipped, flush_ends, Returns
    <3>2. CASE flush_begins(f)
      BY <3>2, Zenon DEF flush_begins
    <3>3. CASE flush_inserts(f)
      BY <3>3, Zenon DEF flush_inserts
    <3> QED
      BY <1>6, <3>1, <3>2, <3>3 DEF flush_alerts
  <2> QED
    BY <1>0, <1>6, <2>1, Zenon
<1>7. CASE initialize_reset
  <2>1. UNCHANGED pc /\ flush'["delete"] = CASE "delete" = "reset" -> [NoFlush EXCEPT !.pc = "called"]
                                             [] flush["delete"].pc = "live" -> [flush["delete"] EXCEPT !.pc = "stale", !.list = alerts]
                                             [] OTHER -> flush["delete"]
    BY <1>0, <1>7, Zenon DEF initialize_reset
  <2> QED
    BY <1>a, <2>1, Zenon
<1>8. CASE initialize
  <2>1. UNCHANGED <<pc, flush>>
    BY <1>8, Zenon DEF initialize
  <2> QED
    BY <2>1
<1>9. ASSUME NEW u \in Listed, dismiss(u) \/ restore(u) PROVE UNCHANGED <<pc, flush>>
  BY <1>9, Zenon DEF dismiss, restore
<1> HIDE DEF Old
<1> QED
  BY <1>1, <1>2, <1>3, <1>4, <1>5, <1>6, <1>7, <1>8, <1>9, ZenonT(120)
     DEF Old, Next, JobStep, ProcessTick, CallJob, Ready, ShutDown, FailoverBegins, FailoverEnds, vars

\* The copy is dropped when the sources have run.
LEMMA StepKeepsCopy ==
    ASSUME TypeInv, DeletedInv, [Next]_vars
    PROVE  pc' \notin {"sources", "recheck"} => valid' = <<>>
<1> USE DEF jobVars, sysVars, envVars, history
<1>0. pc \notin {"sources", "recheck"} => valid = <<>>
  BY DEF DeletedInv
<1>1. CASE process_alerts
  BY <1>0, <1>1, Zenon DEF process_alerts, Starts
<1>2. CASE process_alerts_ends \/ Restart
  BY <1>2, Zenon DEF process_alerts_ends, Restart
<1>3. CASE pc' = pc /\ UNCHANGED valid
  BY <1>0, <1>3
<1>4. CASE expire_alerts \/ (\E s \in Sources : run_source(s))
  <2>1. pc' \in {"sources", "recheck"}
    BY <1>4, Zenon DEF expire_alerts, run_source
  <2> QED
    BY <2>1, Zenon
<1>5. CASE send_alerts \/ receive_alerts \/ announce \/ oneshot_create \/ oneshot_delete
  <2>1. pc \notin {"sources", "recheck"} /\ UNCHANGED valid
    BY <1>5, Zenon DEF send_alerts, receive_alerts, announce, oneshot_create, oneshot_delete, Starts
  <2> QED
    BY <1>0, <2>1
<1>6. ASSUME NEW f \in Flushers, flush_alerts(f) PROVE pc' \notin {"sources", "recheck"} => valid' = <<>>
  <2>1. UNCHANGED valid /\ (UNCHANGED pc \/ pc = "flush")
    BY <1>6 DEF flush_alerts, flush_skipped, flush_begins, flush_inserts, flush_ends, Returns
  <2> QED
    BY <1>0, <2>1, ZenonT(120)
<1>7. CASE initialize \/ initialize_reset
  <2>1. UNCHANGED <<pc, valid>>
    BY <1>7, Zenon DEF initialize, initialize_reset
  <2> QED
    BY <1>3, <2>1, Zenon
<1>8. ASSUME NEW u \in Listed, dismiss(u) \/ restore(u) PROVE UNCHANGED <<pc, valid>>
  BY <1>8, Zenon DEF dismiss, restore
<1> QED
  BY <1>1, <1>2, <1>3, <1>4, <1>5, <1>6, <1>7, <1>8, ZenonT(120)
     DEF Next, JobStep, ProcessTick, FlushTick, CallJob, Ready, ShutDown, FailoverBegins, FailoverEnds, vars

\* oneshot_delete keeps the lock until its flush returns.
LEMMA StepKeepsLock ==
    ASSUME TypeInv, DeletedInv, [Next]_vars
    PROVE  flush'["delete"].pc # "idle" => pc' = "flush"
<1>0. /\ flush["delete"].pc # "idle" => pc = "flush"
      /\ "delete" \in Flushers /\ flush \in [Flushers -> FlushState]
  BY Zenon DEF DeletedInv, TypeInv, TypeOK, FlushState, Flushers
<1>1. CASE flush_alerts("delete")
  <2>1. flush["delete"].pc # "idle"
    BY <1>1, Zenon DEF flush_alerts, flush_skipped, flush_begins, flush_inserts, flush_ends
  <2>2. UNCHANGED pc \/ flush' = [flush EXCEPT !["delete"] = NoFlush]
    BY <1>1, Zenon DEF flush_alerts, flush_skipped, flush_begins, flush_inserts, flush_ends, Returns, jobVars
  <2> QED
    BY <1>0, <2>1, <2>2 DEF NoFlush
<1>2. CASE Restart
  BY <1>0, <1>2 DEF Restart, NoFlush
<1> QED
  BY <1>0, <1>1, <1>2, DeleteFlush

\* A deleted alert that is in the table is in doubt, or the table is about to be emptied.
LEMMA StepKeepsDeleted ==
    ASSUME TypeInv, DeletedInv, [Next]_vars
    PROVE  db' \cap deleted' \subseteq doubt' \/ flush'["delete"].pc = "called"
<1> USE DEF jobVars, sysVars, envVars, history
<1> DEFINE Goal == db' \cap deleted' \subseteq doubt' \/ flush'["delete"].pc = "called"
<1> SUFFICES Goal
  OBVIOUS
<1>0. /\ db \cap deleted \subseteq doubt \/ flush["delete"].pc = "called"
      /\ flush["delete"].pc # "idle" => pc = "flush"
      /\ Listed \cap deleted \subseteq doubt
      /\ "delete" \in Flushers /\ flush \in [Flushers -> FlushState]
  BY Zenon DEF DeletedInv, DeletedStaysDeleted, TypeInv, TypeOK, FlushState, Flushers
<1>1. doubt \subseteq doubt' /\ (oneshot_delete \/ deleted' \subseteq deleted)
  BY HistoryStep, Zenon
<1>2. CASE Restart
  <2>1. UNCHANGED <<db, doubt>> /\ deleted' = IF pc = "flush" THEN deleted \ db ELSE deleted
    BY <1>2, Zenon DEF Restart
  <2> QED
    BY <1>0, <2>1, Zenon
<1>3. CASE oneshot_delete
  <2>1. /\ UNCHANGED <<db, doubt>> /\ deleted' = deleted \cup (Listed \ UuidsOf(alerts'))
        /\ \/ alerts' = alerts /\ UNCHANGED flush
           \/ flush' = [flush EXCEPT !["delete"].pc = "called"]
    BY <1>3, Zenon DEF oneshot_delete
  <2>2. CASE alerts' = alerts /\ UNCHANGED flush
    <3>1. Listed \ UuidsOf(alerts') = {}
      BY <2>2 DEF Listed
    <3> QED
      BY <1>0, <2>1, <2>2, <3>1, Zenon
  <2>3. CASE flush' = [flush EXCEPT !["delete"].pc = "called"]
    BY <1>0, <2>3 DEF FlushState
  <2> QED
    BY <2>1, <2>2, <2>3
<1>4. ASSUME NEW f \in Flushers, flush_alerts(f) PROVE Goal
  <2>1. CASE flush_begins(f)
    BY <2>1 DEF flush_begins
  <2>2. CASE flush_inserts(f)
    <3>1. PICK u : db' = db \cup {u} /\ doubt' = doubt \cup ({u} \ Listed)
      BY <2>2, Zenon DEF flush_inserts
    <3>2. UNCHANGED deleted /\ flush[f].pc # "called"
      BY <2>2 DEF flush_inserts
    <3>3. CASE db \cap deleted \subseteq doubt
      BY <1>0, <3>1, <3>2, <3>3
    <3>4. CASE flush["delete"].pc = "called"
      <4>1. f # "delete"
        BY <3>2, <3>4
      <4>2. \E r : flush' = [flush EXCEPT ![f] = r]
        BY <2>2, Zenon DEF flush_inserts
      <4> QED
        BY <1>0, <3>4, <4>1, <4>2, ZenonT(120)
    <3> QED
      BY <1>0, <3>3, <3>4, Zenon
  <2>3. CASE flush_skipped(f) \/ flush_ends(f)
    <3>1. /\ UNCHANGED <<db, doubt>> /\ flush' = [flush EXCEPT ![f] = NoFlush]
          /\ f # "delete" => UNCHANGED deleted
          /\ f = "delete" => deleted' = deleted \ db \/ (UNCHANGED deleted /\ flush[f].pc # "called")
      BY <2>3 DEF flush_skipped, flush_ends, Returns
    <3>2. CASE f # "delete"
      <4>1. flush'["delete"] = flush["delete"]
        BY <1>0, <3>1, <3>2, Zenon
      <4> QED
        BY <1>0, <3>1, <3>2, <4>1
    <3>3. CASE f = "delete"
      BY <1>0, <3>1, <3>3
    <3> QED
      BY <3>2, <3>3, ZenonT(120)
  <2> HIDE DEF Goal
  <2> QED
    BY <1>4, <2>1, <2>2, <2>3, ZenonT(120) DEF flush_alerts
<1>5. CASE ~Restart /\ ~oneshot_delete /\ ~\E f \in Flushers : flush_alerts(f)
  <2>1. UNCHANGED db
    <3>1. ASSUME NEW s \in Sources, run_source(s) PROVE UNCHANGED db
      BY <3>1, Zenon DEF run_source
    <3>2. CASE expire_alerts \/ oneshot_create \/ initialize \/ initialize_reset
      BY <3>2, Zenon DEF expire_alerts, oneshot_create, initialize, initialize_reset
    <3>3. ASSUME NEW u \in Listed, dismiss(u) \/ restore(u) PROVE UNCHANGED db
      BY <3>3, Zenon DEF dismiss, restore
    <3> QED
      BY <1>5, <3>1, <3>2, <3>3, ZenonT(120)
         DEF Next, JobStep, process_alerts, process_alerts_ends, send_alerts, receive_alerts, announce,
             ProcessTick, FlushTick, CallJob, Ready, ShutDown, FailoverBegins, FailoverEnds, vars
  <2>2. flush["delete"].pc = "called" => flush'["delete"].pc = "called"
    BY <1>0, <1>5, DeleteFlush
  <2> QED
    BY <1>0, <1>1, <1>5, <2>1, <2>2
<1> HIDE DEF Goal
<1> QED
  BY <1>2, <1>3, <1>4, <1>5, Zenon

\* The flush in oneshot_delete keeps what it deletes from coming back at the next boot,
\* unless a flush of a replaced list, or a boot that overtakes it, brings it back.
THEOREM AlertsDeletedStaysDeleted == Spec => []DeletedStaysDeleted
<1>1. Init => DeletedInv
  <2> SUFFICES ASSUME Init PROVE DeletedInv
    OBVIOUS
  <2>1. \A f \in Flushers : flush[f].pc = "idle" /\ flush[f].list = <<>>
    BY Zenon DEF Init, NoFlush
  <2>2. Seen = {} /\ Listed = {} /\ UuidsOf(valid) = {}
    BY <2>1 DEF Init, Seen, Listed, Written, UuidsOf, Range
  <2> QED
    BY <2>1, <2>2 DEF Init, DeletedInv, BornInv, DeletedStaysDeleted, Flushers
<1>2. TypeInv /\ DeletedInv /\ [Next]_vars => DeletedInv'
  <2> SUFFICES ASSUME TypeInv, DeletedInv, [Next]_vars PROVE DeletedInv'
    OBVIOUS
  <2>1. BornInv'
    BY StepKeepsBorn, Zenon DEF DeletedInv
  <2> QED
    BY <2>1, StepKeepsDoubt, StepKeepsCopy, StepKeepsLock, StepKeepsDeleted, Zenon DEF DeletedInv, DeletedStaysDeleted, Listed
<1>3. DeletedInv => DeletedStaysDeleted
  BY Zenon DEF DeletedInv
<1> QED
  BY <1>1, <1>2, <1>3, TypeInvariance, PTL DEF Spec

-----------------------------------------------------------------------------
(* What clients have been told                                             *)

\* Why KnownIsShown holds: the results of receive_alerts are there until they are sent and
\* no longer; send_alerts gets to them only after initialize(), which fills the list of a
\* client; an alert is not both known and gone; only a reset by a failover event makes new
\* policies.
AnnounceInv ==
    /\ resets \in Nat
    /\ flush = [f \in Flushers |-> flush[f]]
    /\ flush["reset"].pc # "idle" => resets # 0
    /\ init = "load" => state = "BOOTING" /\ pc \notin {"receive", "announce"}
    /\ pc # "announce" => new = {} /\ gone = {}
    /\ resets = 0 => policy \cap gone = {}
    /\ KnownIsShown

\* A step that leaves the policy, the clients and what is to be sent alone keeps AnnounceInv
\* if it does not touch the flush of initialize(False) while it is idle.
LEMMA FrameKeepsAnnounceInv ==
    ASSUME AnnounceInv, UNCHANGED <<policy, view, gone, new, resets>>,
           flush' = [f \in Flushers |-> flush'[f]],
           flush["reset"].pc = "idle" => flush'["reset"].pc = "idle",
           init' = "load" => init = "load" /\ state' = state,
           pc' \in {"receive", "announce"} => pc' = pc \/ (pc' = "receive" /\ state = "READY"),
           pc = "announce" => pc' = pc
    PROVE  AnnounceInv'
BY Zenon DEF AnnounceInv, KnownIsShown

\* self.alerts becomes another list: the flush of initialize(False) stays idle.
LEMMA ReplaceKeepsIdle ==
    ASSUME NEW list, Replace(list)
    PROVE  /\ flush' = [f \in Flushers |-> flush'[f]]
           /\ flush["reset"].pc = "idle" => flush'["reset"].pc = "idle"
BY Zenon DEF Replace, Flushers

\* What the policy IMMEDIATELY takes as known has been told to clients or is about to be,
\* whatever is created, dismissed, reported, flushed or restarted while send_alerts waits.
THEOREM KnownInvariance == Spec => []KnownIsShown
<1> USE DEF jobVars, sysVars, envVars, history
<1>1. Init => AnnounceInv
  BY DEF Init, AnnounceInv, KnownIsShown, Flushers, NoFlush
<1>2. AnnounceInv /\ [Next]_vars => AnnounceInv'
  <2> SUFFICES ASSUME AnnounceInv, [Next]_vars PROVE AnnounceInv'
    OBVIOUS
  <2>0. flush = [f \in Flushers |-> flush[f]]
    BY Zenon DEF AnnounceInv
  <2>1. CASE ProcessTick
    BY <2>0, <2>1, FrameKeepsAnnounceInv, Zenon DEF ProcessTick
  <2>2. CASE process_alerts
    BY <2>0, <2>2, FrameKeepsAnnounceInv, ZenonT(120) DEF process_alerts, Starts
  <2>3. ASSUME NEW s \in Sources, run_source(s) PROVE AnnounceInv'
    <3>1. /\ pc = "sources"
          /\ UNCHANGED <<policy, view, gone, new, resets, pc, init, state>>
          /\ UNCHANGED flush \/ \E list : Replace(list)
      BY <2>3, ZenonT(120) DEF run_source
    <3> QED
      BY <2>0, <3>1, FrameKeepsAnnounceInv, ReplaceKeepsIdle
  <2>4. CASE expire_alerts
    <3>1. /\ pc = "sources" /\ pc' = "recheck" /\ \E list : Replace(list)
          /\ UNCHANGED <<policy, view, gone, new, resets, init, state>>
      BY <2>4 DEF expire_alerts
    <3> QED
      BY <3>1, FrameKeepsAnnounceInv, ReplaceKeepsIdle, ZenonT(120)
  <2>5. CASE process_alerts_ends
    <3>1. /\ pc = "recheck" /\ pc' = "idle" /\ (UNCHANGED flush \/ Replace(valid))
          /\ UNCHANGED <<policy, view, gone, new, resets, init, state>>
      BY <2>5, Zenon DEF process_alerts_ends
    <3> QED
      BY <2>0, <3>1, FrameKeepsAnnounceInv, ReplaceKeepsIdle
  <2>6. CASE send_alerts
    BY <2>0, <2>6, FrameKeepsAnnounceInv DEF send_alerts, Starts
  <2>7. CASE receive_alerts
    BY <2>7, Zenon DEF receive_alerts, AnnounceInv, KnownIsShown
  <2>8. CASE announce
    BY <2>8, Zenon DEF announce, AnnounceInv, KnownIsShown
  <2>9. CASE oneshot_create
    <3>1. /\ \E list : Replace(list)
          /\ UNCHANGED <<policy, view, gone, new, resets, pc, init, state>>
      BY <2>9, Zenon DEF oneshot_create
    <3> QED
      BY <3>1, FrameKeepsAnnounceInv, ReplaceKeepsIdle
  <2>10. CASE oneshot_delete
    <3>1. /\ pc = "idle" /\ pc' \in {"idle", "flush"}
          /\ UNCHANGED <<policy, view, gone, new, resets, init, state>>
          /\ UNCHANGED flush \/ flush' = [flush EXCEPT !["delete"].pc = "called"]
      BY <2>10 DEF oneshot_delete, Starts
    <3>2. /\ flush' = [f \in Flushers |-> flush'[f]]
          /\ flush'["reset"] = flush["reset"]
      BY <2>0, <3>1 DEF Flushers
    <3> QED
      BY <3>1, <3>2, FrameKeepsAnnounceInv, Zenon
  <2>11. CASE FlushTick
    <3>1. /\ flush' = [f \in Flushers |-> flush'[f]]
          /\ flush'["reset"] = flush["reset"]
      BY <2>0, <2>11, ZenonT(120) DEF FlushTick, Flushers
    <3> QED
      BY <2>11, <3>1, FrameKeepsAnnounceInv, Zenon DEF FlushTick
  <2>12. ASSUME NEW f \in Flushers, flush_alerts(f) PROVE AnnounceInv'
    <3>1. /\ flush[f].pc # "idle"
          /\ \/ Returns(f)
             \/ /\ UNCHANGED <<policy, view, gone, new, resets, pc, init, state>>
                /\ \E r : flush' = [flush EXCEPT ![f] = r]
      <4>1. CASE flush_skipped(f)
        BY <4>1, Zenon DEF flush_skipped
      <4>2. CASE flush_begins(f)
        BY <4>2, Zenon DEF flush_begins
      <4>3. CASE flush_inserts(f)
        BY <4>3, Zenon DEF flush_inserts
      <4>4. CASE flush_ends(f)
        BY <4>4 DEF flush_ends
      <4> QED
        BY <2>12, <4>1, <4>2, <4>3, <4>4, Zenon DEF flush_alerts
    <3>2. /\ flush' = [g \in Flushers |-> flush'[g]]
          /\ f # "reset" => flush'["reset"] = flush["reset"]
      BY <2>0, <3>1, Zenon DEF Returns, Flushers
    <3>3. flush["reset"].pc = "idle" => flush'["reset"].pc = "idle"
      BY <3>1, <3>2, Zenon
    <3>4. CASE f = "reset" /\ Returns(f)
      <4>1. /\ resets # 0 /\ init' = "done"
            /\ UNCHANGED <<view, gone, new, resets, pc>>
        BY <3>1, <3>4 DEF Returns, AnnounceInv
      <4> QED
        BY <3>2, <4>1 DEF AnnounceInv, KnownIsShown
    <3>5. CASE f # "reset" /\ Returns(f)
      <4>1. /\ UNCHANGED <<policy, view, gone, new, resets, init, state>>
            /\ pc' = pc \/ (pc = "flush" /\ pc' = "idle")
        BY <3>5 DEF Returns
      <4> QED
        BY <3>2, <3>3, <4>1, FrameKeepsAnnounceInv, ZenonT(120)
    <3> QED
      BY <3>1, <3>2, <3>3, <3>4, <3>5, FrameKeepsAnnounceInv
  <2>13. ASSUME NEW op \in {"create", "delete"}, NEW k \in OneShots, CallJob(op, k) PROVE AnnounceInv'
    BY <2>0, <2>13, FrameKeepsAnnounceInv DEF CallJob
  <2>14. ASSUME NEW u \in Listed, dismiss(u) PROVE AnnounceInv'
    BY <2>14, Zenon DEF dismiss, AnnounceInv, KnownIsShown
  <2>15. ASSUME NEW u \in Listed, restore(u) PROVE AnnounceInv'
    BY <2>0, <2>15, FrameKeepsAnnounceInv DEF restore
  <2>16. CASE initialize
    BY <2>16, Zenon DEF initialize, AnnounceInv, KnownIsShown
  <2>17. CASE Ready
    BY <2>17, Zenon DEF Ready, AnnounceInv, KnownIsShown
  <2>18. CASE ShutDown
    BY <2>18 DEF ShutDown, AnnounceInv, KnownIsShown
  <2>19. CASE Restart
    BY <2>19 DEF Restart, AnnounceInv, KnownIsShown, Flushers, NoFlush
  <2>20. CASE FailoverBegins
    BY <2>0, <2>20, FrameKeepsAnnounceInv, Zenon DEF FailoverBegins
  <2>21. CASE initialize_reset
    BY <2>21 DEF initialize_reset, AnnounceInv, KnownIsShown, Flushers
  <2>22. CASE FailoverEnds
    BY <2>0, <2>22, FrameKeepsAnnounceInv DEF FailoverEnds
  <2>23. CASE UNCHANGED vars
    BY <2>23, Zenon DEF vars, AnnounceInv, KnownIsShown
  <2> QED
    BY <2>1, <2>2, <2>3, <2>4, <2>5, <2>6, <2>7, <2>8, <2>9, <2>10, <2>11, <2>12, <2>13, <2>14, <2>15,
       <2>16, <2>17, <2>18, <2>19, <2>20, <2>21, <2>22, <2>23 DEF Next, JobStep
<1>3. AnnounceInv => KnownIsShown
  BY Zenon DEF AnnounceInv
<1> QED
  BY <1>1, <1>2, <1>3, PTL DEF Spec

=============================================================================
