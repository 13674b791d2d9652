---------------------- MODULE FailoverDatastoreProofs -----------------------
(* Theorems about FailoverDatastore for any writes, threads and faults.    *)
EXTENDS FailoverDatastore, SequenceTheorems, TLAPS

-----------------------------------------------------------------------------
(* Types                                                                   *)

\* Work items are added at the end, taken from the front and cancelled in place.
LEMMA ItemsFacts ==
    ASSUME NEW S, NEW s \in Seq(S)
    PROVE  /\ \A x \in S : Append(s, x) \in Seq(S)
           /\ s # <<>> => Head(s) \in S /\ Tail(s) \in Seq(S)
           /\ \A f \in [DOMAIN s -> S] : f \in Seq(S)
OBVIOUS

\* An exception in send() leaves every thread in one of the places of send_retry().
LEMMA RaisesType ==
    ASSUME TypeOK, raises
    PROVE  /\ pc' = "idle"
           /\ retry' \in [Threads -> {"none", "sleeping", "awake", "giving_up", "queued", "sending"}]
<1>1. retry \in [Threads -> {"none", "sleeping", "awake", "giving_up", "queued", "sending"}]
  BY DEF TypeOK
<1> QED
  BY <1>1 DEF raises

\* The number of faults is bounded.
LEMMA FaultType ==
    ASSUME TypeOK, Fault
    PROVE  faults' \in 0..MaxFaults
BY FailoverDatastoreAssumption DEF TypeOK, Fault

\* set_failure() waits for the other node or returns.
LEMMA SetFailureType ==
    ASSUME TypeOK, set_failure
    PROVE  /\ failure' \in BOOLEAN
           /\ pc' \in {"idle", "ask"}
           /\ task' \in Threads \cup {"direct", "set_failure"}
<1>1. failure' \in BOOLEAN
  BY ZenonT(30) DEF TypeOK, set_failure
<1> QED
  BY <1>1 DEF TypeOK, set_failure

\* Every step of the model keeps the types of the variables.
THEOREM TypeInvariance == Spec => []TypeOK
<1> USE DEF dbVars, threadVars, standbyVars, versionVars, envVars
<1>1. Init => TypeOK
  <2> SUFFICES ASSUME Init PROVE TypeOK
    OBVIOUS
  <2>1. faults \in 0..MaxFaults /\ sends \in 0..MaxSends
    BY FailoverDatastoreAssumption DEF Init
  <2>2. active \in Seq(Writes) /\ standby \in Seq(Writes) /\ queue \in Seq(Items)
    BY DEF Init
  <2> QED
    BY <2>1, <2>2, ZenonT(30) DEF Init, TypeOK, Reasons
<1>2. TypeOK /\ [Next]_vars => TypeOK'
  <2> SUFFICES ASSUME TypeOK, [Next]_vars PROVE TypeOK'
    OBVIOUS
  <2>1. CASE UNCHANGED vars
    BY <2>1 DEF TypeOK, vars
  <2>2. ASSUME NEW w \in Writes, Write(w) PROVE TypeOK'
    <3>1. Append(active, w) \in Seq(Writes)
      BY ItemsFacts DEF TypeOK
    <3>2. active' \in Seq(Writes)
      BY <2>2, <3>1, ZenonT(30) DEF Write
    <3> QED
      BY <2>2, <3>2, ZenonT(120) DEF Write, TypeOK, Reasons
  <2>3. ASSUME NEW w \in Writes, SqlCheck(w) PROVE TypeOK'
    <3>1. queue \in Seq(Items) /\ w \in Items
      BY DEF TypeOK, Items
    <3>2. Append(queue, w) \in Seq(Items)
      BY <3>1, ItemsFacts
    <3>3. queue' \in Seq(Items)
      BY <2>3, <3>1, <3>2, ZenonT(30) DEF SqlCheck
    <3> QED
      BY <2>3, <3>3, SMTT(60) DEF SqlCheck, TypeOK
  <2>4. CASE Replicated
    BY <2>4 DEF Replicated, TypeOK, Reasons
  <2>5. CASE ReplicateFails
    <3>1. queue' \in Seq(Items)
      <4>1. queue \in Seq(Items) /\ None \in Items
        BY DEF TypeOK, Items
      <4>2. [i \in DOMAIN queue |-> IF queue[i] = cur THEN None ELSE queue[i]] \in Seq(Items)
        BY <4>1, ItemsFacts
      <4> QED
        BY <2>5, <4>1, <4>2, ZenonT(30) DEF ReplicateFails
    <3>2. sql' \in [Writes -> {"none", "arrived", "queued", "done", "ignored", "lost"}]
      BY <2>5, ZenonT(120) DEF ReplicateFails, TypeOK
    <3>3. faults' \in 0..MaxFaults
      BY <2>5, FaultType DEF ReplicateFails
    <3> QED
      BY <2>5, <3>1, <3>2, <3>3, SetFailureType, ZenonT(120) DEF ReplicateFails, TypeOK
  <2>6. CASE ForceSend
    <3>1. sends' \in 0..MaxSends
      BY <2>6, FailoverDatastoreAssumption DEF ForceSend, TypeOK
    <3> QED
      BY <2>6, <3>1, SetFailureType, ZenonT(120) DEF ForceSend, TypeOK
  <2>7. CASE DirectSend
    <3>1. sends' \in 0..MaxSends
      BY <2>7, FailoverDatastoreAssumption DEF DirectSend, TypeOK
    <3> QED
      BY <2>7, <3>1, ZenonT(120) DEF DirectSend, TypeOK
  <2>8. CASE SendStep
    <3>1. CASE Ask
      BY <3>1, ZenonT(120) DEF Ask, TypeOK, Reasons
    <3>2. CASE AskFails
      BY <3>2, RaisesType, FaultType, ZenonT(120) DEF AskFails, TypeOK
    <3>3. CASE Upload
      <4>1. queue \in Seq(Items) /\ Receive \in Items
        BY DEF TypeOK, Items
      <4>2. Append(queue, Receive) \in Seq(Items)
        BY <4>1, ItemsFacts
      <4> QED
        BY <3>3, <4>2, ZenonT(120) DEF Upload, TypeOK
    <3>4. CASE UploadFails
      <4>1. replicated' \in Seq(Writes) \cup {None}
        BY <3>4, ZenonT(30) DEF UploadFails, TypeOK
      <4>2. /\ faults' \in 0..MaxFaults /\ pc' = "idle"
            /\ retry' \in [Threads -> {"none", "sleeping", "awake", "giving_up", "queued", "sending"}]
        BY <3>4, RaisesType, FaultType DEF UploadFails, raises
      <4> QED
        BY <3>4, <4>1, <4>2, ZenonT(120) DEF UploadFails, TypeOK
    <3>5. CASE Sent
      <4>1. pc' = "idle" /\ failure' \in BOOLEAN
        BY <3>5, ZenonT(30) DEF Sent, raises, TypeOK
      <4>2. retry' \in [Threads -> {"none", "sleeping", "awake", "giving_up", "queued", "sending"}]
        <5>1. CASE raises
          BY <5>1, RaisesType
        <5>2. CASE retry' = [t \in Threads |-> IF t = task THEN "sleeping" ELSE retry[t]]
          BY <5>2 DEF TypeOK
        <5> QED
          BY <3>5, <5>1, <5>2 DEF Sent
      <4> QED
        BY <3>5, <4>1, <4>2, ZenonT(120) DEF Sent, TypeOK
    <3>6. CASE ReceiveFails
      <4>1. queue' \in Seq(Items)
        <5>1. queue \in Seq(Items) /\ None \in Items
          BY DEF TypeOK, Items
        <5>2. \A i \in DOMAIN queue : [queue EXCEPT ![i] = None] \in Seq(Items)
          BY <5>1, ItemsFacts
        <5> QED
          BY <3>6, <5>1, <5>2, ZenonT(30) DEF ReceiveFails
      <4> QED
        BY <3>6, <4>1, RaisesType, FaultType, ZenonT(120) DEF ReceiveFails, TypeOK
    <3> QED
      BY <2>8, <3>1, <3>2, <3>3, <3>4, <3>5, <3>6 DEF SendStep
  <2>9. ASSUME NEW t \in Threads, RetryStep(t) \/ RetryGivesUp(t) PROVE TypeOK'
    <3>1. retry' \in [Threads -> {"none", "sleeping", "awake", "giving_up", "queued", "sending"}]
      BY <2>9, SMTT(60) DEF RetryStep, RetryEnds, RetryWakes, RetryDefers, RetryQueues, RetrySends, RetryClears,
                  RetryGivesUp, TypeOK
    <3>2. CASE RetryEnds(t) \/ RetryWakes(t) \/ RetryDefers(t) \/ RetryQueues(t)
      BY <3>1, <3>2, SMTT(60) DEF RetryEnds, RetryWakes, RetryDefers, RetryQueues, TypeOK
    <3>3. CASE RetrySends(t)
      BY <3>1, <3>3 DEF RetrySends, TypeOK
    <3>4. CASE RetryClears(t)
      <4>1. failure' \in BOOLEAN /\ unflagged' \subseteq Reasons
        BY <3>4, ZenonT(30) DEF RetryClears, TypeOK, Reasons
      <4> QED
        BY <3>1, <3>4, <4>1 DEF RetryClears, TypeOK
    <3>5. CASE RetryGivesUp(t)
      BY <3>1, <3>5, FaultType DEF RetryGivesUp, TypeOK
    <3> QED
      BY <2>9, <3>2, <3>3, <3>4, <3>5 DEF RetryStep
  <2>10. CASE Execute
    <3>1. Head(queue) \in Writes /\ Tail(queue) \in Seq(Items)
      BY <2>10, ItemsFacts DEF Execute, TypeOK
    <3>2. Append(standby, Head(queue)) \in Seq(Writes)
      BY <3>1, ItemsFacts DEF TypeOK
    <3>3. sql' \in [Writes -> {"none", "arrived", "queued", "done", "ignored", "lost"}]
      BY <2>10, <3>1 DEF Execute, TypeOK
    <3>4. standby' \in Seq(Writes) /\ queue' \in Seq(Items)
      BY <2>10, <3>1, <3>2, ZenonT(30) DEF Execute
    <3>5. unflagged' \subseteq Reasons
      BY <2>10 DEF Execute, TypeOK, Reasons
    <3> QED
      BY <2>10, <3>1, <3>2, <3>3, <3>4, <3>5 DEF Execute, TypeOK
  <2>11. CASE Cancelled
    <3>1. Tail(queue) \in Seq(Items)
      BY <2>11, ItemsFacts DEF Cancelled, TypeOK
    <3> QED
      BY <2>11, <3>1, SMT, ZenonT(300) DEF Cancelled, TypeOK
  <2>12. CASE receive
    <3>1. Tail(queue) \in Seq(Items)
      BY <2>12, ItemsFacts DEF receive, TypeOK
    <3>2. /\ standby' \in Seq(Writes) /\ replicated' \in Seq(Writes) \cup {None}
          /\ queue' \in Seq(Items) /\ unflagged' \subseteq Reasons
      BY <2>12, <3>1, ZenonT(30) DEF receive, TypeOK, Reasons
    <3> QED
      BY <2>12, <3>1, <3>2 DEF receive, TypeOK
  <2>13. CASE StandbyStatus \/ FailoverBegins
    <3>1. faults' \in 0..MaxFaults
      BY <2>13, FaultType DEF StandbyStatus, FailoverBegins, TypeOK
    <3>2. backup' \in BOOLEAN /\ in_progress' \in BOOLEAN
      BY <2>13, ZenonT(30) DEF StandbyStatus, FailoverBegins, TypeOK
    <3> QED
      BY <2>13, <3>1, <3>2 DEF StandbyStatus, FailoverBegins, TypeOK
  <2>14. CASE FailoverEnds
    BY <2>14, ZenonT(120) DEF FailoverEnds, TypeOK
  <2> QED
    BY <2>1, <2>2, <2>3, <2>4, <2>5, <2>6, <2>7, <2>8, <2>9, <2>10, <2>11, <2>12, <2>13, <2>14 DEF Next
<1> QED
  BY <1>1, <1>2, PTL DEF Spec

-----------------------------------------------------------------------------
(* The flag                                                                *)

\* An exception in send() leaves a thread behind that tries again, unless another service
\* had called it; then those that were there are still there.
LEMMA RaisesRetries ==
    ASSUME TypeOK, raises
    PROVE  /\ task # "direct" => \E t \in Threads : retry'[t] # "none"
           /\ \A t \in Threads : retry[t] # "none" => retry'[t] # "none"
BY DEF raises, TypeOK

\* The flag is never set without somebody about to clear it, however often calls fail.
THEOREM FlagIsAttended == Spec => []RetryAlive
<1> USE DEF dbVars, threadVars, standbyVars, versionVars, envVars
<1>1. Init => RetryAlive
  BY DEF Init, RetryAlive
<1>2. TypeOK /\ RetryAlive /\ [Next]_vars => RetryAlive'
  <2> SUFFICES ASSUME TypeOK, RetryAlive, [Next]_vars, failure'
               PROVE  \/ pc' \in {"ask", "upload", "receive"} /\ task' = "set_failure"
                      \/ \E t \in Threads : retry'[t] # "none"
    BY DEF RetryAlive
  <2>1. CASE UNCHANGED <<failure, retry, pc, task>>
    BY <2>1 DEF RetryAlive
  <2>2. ASSUME NEW w \in Writes, Write(w) PROVE RetryAlive'
    BY <2>2 DEF Write, RetryAlive
  <2>3. CASE Replicated
    BY <2>3 DEF Replicated, RetryAlive
  <2>4. CASE ReplicateFails \/ ForceSend
    BY <2>4, ZenonT(120) DEF ReplicateFails, ForceSend, set_failure, RetryAlive
  <2>5. CASE DirectSend
    BY <2>5 DEF DirectSend, RetryAlive
  <2>6. CASE SendStep
    <3>1. CASE Ask
      BY <3>1, ZenonT(120) DEF Ask, RetryAlive, TypeOK
    <3>2. CASE Upload
      BY <3>2 DEF Upload, RetryAlive
    <3>3. CASE raises /\ failure' = failure
      BY <3>3, RaisesRetries DEF RetryAlive
    <3> QED
      BY <2>6, <3>1, <3>2, <3>3, ZenonT(120) DEF SendStep, AskFails, UploadFails, ReceiveFails, Sent
  <2>7. ASSUME NEW t \in Threads, RetryStep(t) \/ RetryGivesUp(t) PROVE RetryAlive'
    BY <2>7, ZenonT(120) DEF RetryStep, RetryEnds, RetryWakes, RetryDefers, RetryQueues, RetrySends, RetryClears,
                RetryGivesUp, RetryAlive, TypeOK
  <2> QED
    BY <2>1, <2>2, <2>3, <2>4, <2>5, <2>6, <2>7, ZenonT(120)
    DEF Next, vars, SqlCheck, Execute, Cancelled, receive, StandbyStatus, FailoverBegins, FailoverEnds, RetryAlive
<1> QED
  BY <1>1, <1>2, TypeInvariance, PTL DEF Spec

-----------------------------------------------------------------------------
(* The queue of the standby node                                           *)

\* Taking the first work item, or cancelling some, leaves the others in their order.
LEMMA QueueShrinks ==
    ASSUME TypeOK, QueueInv, NEW d \in {0, 1},
           \A i \in DOMAIN queue' : i + d \in DOMAIN queue /\ queue'[i] \in {queue[i + d], None},
           queue' \in Seq(Items)
    PROVE  /\ \A i \in DOMAIN queue' : queue'[i] \in Writes =>
                 /\ i + d \in DOMAIN queue
                 /\ queue'[i] = queue[i + d]
                 /\ sql[queue'[i]] = "queued"
           /\ \A i, k \in DOMAIN queue' : queue'[i] \in Writes /\ queue'[i] = queue'[k] => i = k
           /\ Receiving' => Receiving
           /\ \A w \in Writes :
                 (\A i, k \in DOMAIN queue : queue[i] = Receive /\ queue[k] = w => i < k)
                 => \A i, k \in DOMAIN queue' : queue'[i] = Receive /\ queue'[k] = w => i < k
<1>1. None \notin Writes /\ None # Receive
  BY FailoverDatastoreAssumption
<1>2. \A i \in DOMAIN queue' : i \in Int /\ d \in Int
  BY DEF TypeOK
<1>3. \A i \in DOMAIN queue' : queue'[i] # None => i + d \in DOMAIN queue /\ queue'[i] = queue[i + d]
  OBVIOUS
<1>4. \A i \in DOMAIN queue' : queue'[i] \in Writes =>
         i + d \in DOMAIN queue /\ queue'[i] = queue[i + d] /\ sql[queue'[i]] = "queued"
  <2> SUFFICES ASSUME NEW i \in DOMAIN queue', queue'[i] \in Writes
               PROVE  i + d \in DOMAIN queue /\ queue'[i] = queue[i + d] /\ sql[queue'[i]] = "queued"
    OBVIOUS
  <2>1. i + d \in DOMAIN queue /\ queue'[i] = queue[i + d]
    BY <1>1, <1>3
  <2> QED
    BY <2>1 DEF QueueInv
<1>5. ASSUME NEW i \in DOMAIN queue', NEW k \in DOMAIN queue', queue'[i] \in Writes, queue'[i] = queue'[k]
      PROVE  i = k
  <2>1. i + d \in DOMAIN queue /\ k + d \in DOMAIN queue /\ queue[i + d] \in Writes /\ queue[i + d] = queue[k + d]
    BY <1>4, <1>5
  <2>2. i + d = k + d
    BY <2>1 DEF QueueInv
  <2> QED
    BY <1>2, <2>2
<1>6. Receiving' => Receiving
  BY <1>1, <1>3, ZenonT(30) DEF Receiving
<1>7. ASSUME NEW w \in Writes,
             \A i, k \in DOMAIN queue : queue[i] = Receive /\ queue[k] = w => i < k,
             NEW i \in DOMAIN queue', NEW k \in DOMAIN queue', queue'[i] = Receive, queue'[k] = w
      PROVE  i < k
  <2>1. i + d < k + d
    BY <1>1, <1>3, <1>7
  <2> QED
    BY <1>2, <2>1
<1> QED
  BY <1>4, <1>5, <1>6, <1>7

\* The work item taken from the queue is its first one.
LEMMA PopFacts ==
    ASSUME TypeOK, queue # <<>>, queue' = Tail(queue)
    PROVE  /\ 1 \in DOMAIN queue /\ Head(queue) = queue[1]
           /\ \A i \in DOMAIN queue' : i + 1 \in DOMAIN queue /\ queue'[i] = queue[i + 1]
           /\ \A i \in DOMAIN queue : i # 1 => i - 1 \in DOMAIN queue' /\ queue'[i - 1] = queue[i]
           /\ queue' \in Seq(Items)
BY SMTT(60) DEF TypeOK

\* The work item added to the queue is its last one.
LEMMA PushFacts ==
    ASSUME TypeOK, NEW x \in Items, queue' = Append(queue, x)
    PROVE  /\ DOMAIN queue' = DOMAIN queue \cup {Len(queue) + 1}
           /\ queue'[Len(queue) + 1] = x
           /\ \A i \in DOMAIN queue : i \in Int /\ i < Len(queue) + 1 /\ queue'[i] = queue[i]
           /\ queue' \in Seq(Items)
BY DEF TypeOK

\* Steps that leave the queue, the queries and the database alone, and begin no
\* replication, keep QueueInv.
LEMMA FrameKeepsQueueInv ==
    ASSUME QueueInv, UNCHANGED <<queue, sql, active>>, pc' = "replicate" => pc = "replicate" /\ cur' = cur
    PROVE  QueueInv'
BY ZenonT(30) DEF QueueInv, Written, Receiving

\* Work items that are taken from the queue or cancelled, while nothing begins, keep
\* QueueInv; so does the query taken with them that is then done.
LEMMA ShrinkKeepsQueueInv ==
    ASSUME TypeOK, QueueInv, NEW d \in {0, 1},
           \A i \in DOMAIN queue' : i + d \in DOMAIN queue /\ queue'[i] \in {queue[i + d], None},
           queue' \in Seq(Items),
           UNCHANGED <<sql, active>>, pc' = "replicate" => pc = "replicate" /\ cur' = cur
    PROVE  QueueInv'
<1>1. /\ \A i \in DOMAIN queue' : queue'[i] \in Writes => sql'[queue'[i]] = "queued"
      /\ \A i, k \in DOMAIN queue' : queue'[i] \in Writes /\ queue'[i] = queue'[k] => i = k
      /\ Receiving' => Receiving
  BY QueueShrinks
<1>2. \A w \in Writes : sql'[w] # "none" => Written(w)'
  BY DEF QueueInv, Written
<1>3. ASSUME pc' = "replicate"
      PROVE  /\ cur' \in Writes
             /\ \A i, k \in DOMAIN queue' : queue'[i] = Receive /\ queue'[k] = cur' => i < k
             /\ sql'[cur'] = "done" => ~Receiving'
  <2>1. /\ cur' = cur /\ cur \in Writes
        /\ \A i, k \in DOMAIN queue : queue[i] = Receive /\ queue[k] = cur => i < k
        /\ sql[cur] = "done" => ~Receiving
    BY <1>3 DEF QueueInv
  <2>2. \A i, k \in DOMAIN queue' : queue'[i] = Receive /\ queue'[k] = cur => i < k
    BY <2>1, QueueShrinks, SMTT(60)
  <2> QED
    BY <1>1, <2>1, <2>2
<1> QED
  BY <1>1, <1>2, <1>3 DEF QueueInv

\* A query becomes a work item once, and it runs before the active node asks for more.
THEOREM QueueInvariance == Spec => []QueueInv
<1> USE DEF dbVars, threadVars, standbyVars, versionVars, envVars
<1>1. Init => QueueInv
  BY DEF Init, QueueInv
<1>2. TypeOK /\ TypeOK' /\ QueueInv /\ [Next]_vars => QueueInv'
  <2> SUFFICES ASSUME TypeOK, TypeOK', QueueInv, [Next]_vars PROVE QueueInv'
    OBVIOUS
  <2>0. Receive \notin Writes /\ None \notin Writes /\ None # Receive
    BY FailoverDatastoreAssumption
  <2>1. CASE UNCHANGED <<queue, sql, active>> /\ (pc' = "replicate" => pc = "replicate" /\ cur' = cur)
    BY <2>1, FrameKeepsQueueInv
  <2>2. ASSUME NEW w \in Writes, Write(w) PROVE QueueInv'
    <3>1. /\ \A v \in Writes : Written(v) => Written(v)'
          /\ Written(w)' /\ ~Written(w)
      <4>1. active \in Seq(Writes) /\ active' = Append(active, w) /\ ~Written(w)
        BY <2>2 DEF Write, TypeOK
      <4>2. /\ DOMAIN active' = DOMAIN active \cup {Len(active) + 1}
            /\ active'[Len(active) + 1] = w
            /\ \A i \in DOMAIN active : active'[i] = active[i]
        BY <4>1
      <4> QED
        BY <4>1, <4>2, ZenonT(30) DEF Written
    <3>2. queue' = queue /\ pc = "idle"
      BY <2>2 DEF Write
    <3>3. CASE UNCHANGED sql /\ pc' # "replicate"
      BY <3>1, <3>2, <3>3 DEF QueueInv, Receiving
    <3>4. CASE sql' = [sql EXCEPT ![w] = "arrived"] /\ cur' = w
      <4>1. \A i \in DOMAIN queue : queue[i] # w
        BY <3>1 DEF QueueInv
      <4>2. \A v \in Writes : v # w => sql'[v] = sql[v]
        BY <3>4 DEF TypeOK
      <4>3. sql'[w] = "arrived"
        BY <3>4 DEF TypeOK
      <4> QED
        BY <3>1, <3>2, <3>4, <4>1, <4>2, <4>3 DEF QueueInv
    <3> QED
      BY <2>2, <3>2, <3>3, <3>4 DEF Write
  <2>3. ASSUME NEW w \in Writes, SqlCheck(w) PROVE QueueInv'
    <3>1. \A v \in Writes : v # w => sql'[v] = sql[v]
      BY <2>3 DEF SqlCheck, TypeOK
    <3>2. \A i \in DOMAIN queue : queue[i] # w
      BY <2>3 DEF SqlCheck, QueueInv
    <3>3. active' = active /\ pc' = pc /\ cur' = cur /\ sql'[w] \in {"queued", "ignored"}
      BY <2>3 DEF SqlCheck, TypeOK
    <3>4. \A v \in Writes : sql'[v] # "none" => Written(v)'
      BY <2>3, <3>1, <3>3 DEF QueueInv, Written, SqlCheck
    <3>5. CASE queue' = queue
      BY <3>1, <3>2, <3>3, <3>4, <3>5, ZenonT(30) DEF QueueInv, Receiving
    <3>6. CASE queue' = Append(queue, w) /\ sql'[w] = "queued"
      <4>1. /\ DOMAIN queue' = DOMAIN queue \cup {Len(queue) + 1}
            /\ queue'[Len(queue) + 1] = w
            /\ \A i \in DOMAIN queue : i \in Int /\ i < Len(queue) + 1 /\ queue'[i] = queue[i]
        BY <3>6, PushFacts DEF Items
      <4>2. \A i \in DOMAIN queue' : queue'[i] \in Writes => sql'[queue'[i]] = "queued"
        BY <3>1, <3>2, <3>6, <4>1 DEF QueueInv
      <4>3. \A i, k \in DOMAIN queue' : queue'[i] \in Writes /\ queue'[i] = queue'[k] => i = k
        BY <3>2, <4>1 DEF QueueInv
      <4>4. Receiving' => Receiving
        BY <2>0, <4>1 DEF Receiving
      <4>5. ASSUME pc' = "replicate"
            PROVE  /\ cur' \in Writes
                   /\ \A i, k \in DOMAIN queue' : queue'[i] = Receive /\ queue'[k] = cur' => i < k
                   /\ sql'[cur'] = "done" => ~Receiving'
        <5>1. cur' \in Writes /\ (sql'[cur'] = "done" => ~Receiving')
          BY <3>1, <3>3, <3>6, <4>4, <4>5 DEF QueueInv
        <5>2. \A i, k \in DOMAIN queue : queue[i] = Receive /\ queue[k] = cur' => i < k
          BY <3>3, <4>5 DEF QueueInv
        <5> QED
          BY <2>0, <4>1, <5>1, <5>2
      <4> QED
        BY <3>4, <4>2, <4>3, <4>5 DEF QueueInv
    <3> QED
      BY <2>3, <3>5, <3>6 DEF SqlCheck, TypeOK
  <2>4. CASE ReplicateFails
    <3>1. pc' # "replicate" /\ active' = active /\ pc = "replicate" /\ cur \in Writes
      BY <2>4 DEF ReplicateFails, set_failure, QueueInv
    <3>2. CASE UNCHANGED <<sql, queue>>
      BY <3>1, <3>2, FrameKeepsQueueInv
    <3>3. CASE /\ sql[cur] \in {"arrived", "queued"}
               /\ sql' = [sql EXCEPT ![cur] = "lost"]
               /\ queue' = [i \in DOMAIN queue |-> IF queue[i] = cur THEN None ELSE queue[i]]
      <4>1. \A v \in Writes : v # cur => sql'[v] = sql[v]
        BY <3>3 DEF TypeOK
      <4>2. /\ DOMAIN queue' = DOMAIN queue
            /\ \A i \in DOMAIN queue : queue'[i] \in Writes => queue'[i] = queue[i] /\ queue[i] # cur
        BY <2>0, <3>3, ZenonT(30)
      <4>3. \A i \in DOMAIN queue' : queue'[i] \in Writes => sql'[queue'[i]] = "queued"
        BY <4>1, <4>2 DEF QueueInv
      <4>4. \A i, k \in DOMAIN queue' : queue'[i] \in Writes /\ queue'[i] = queue'[k] => i = k
        BY <4>2 DEF QueueInv
      <4>5. \A v \in Writes : sql'[v] # "none" => Written(v)'
        BY <3>1, <3>3, <4>1 DEF QueueInv, Written
      <4> QED
        BY <3>1, <4>3, <4>4, <4>5 DEF QueueInv
    <3> QED
      BY <2>4, <3>2, <3>3 DEF ReplicateFails
  <2>5. CASE Upload
    <3>1. pc' = "receive" /\ UNCHANGED <<sql, active>> /\ queue' = Append(queue, Receive)
      BY <2>5 DEF Upload
    <3>2. /\ DOMAIN queue' = DOMAIN queue \cup {Len(queue) + 1}
          /\ queue'[Len(queue) + 1] = Receive
          /\ \A i \in DOMAIN queue : queue'[i] = queue[i]
      BY <3>1, PushFacts DEF Items
    <3> QED
      BY <2>0, <3>1, <3>2 DEF QueueInv, Written
  <2>6. CASE ReceiveFails
    <3>1. pc' # "replicate" /\ UNCHANGED <<sql, active>>
      BY <2>6 DEF ReceiveFails, raises
    <3>2. /\ \A i \in DOMAIN queue' : i + 0 \in DOMAIN queue /\ queue'[i] \in {queue[i + 0], None}
      BY <2>6 DEF ReceiveFails, TypeOK
    <3>3. queue' \in Seq(Items)
      BY DEF TypeOK
    <3> QED
      BY <3>1, <3>2, <3>3, ShrinkKeepsQueueInv
  <2>7. CASE Execute
    <3> DEFINE w == Head(queue)
    <3>1. /\ 1 \in DOMAIN queue /\ w = queue[1] /\ w \in Writes
          /\ \A i \in DOMAIN queue' : i + 1 \in DOMAIN queue /\ queue'[i] = queue[i + 1]
          /\ queue' \in Seq(Items)
      BY <2>7, PopFacts DEF Execute
    <3>2. sql' = [sql EXCEPT ![w] = "done"] /\ UNCHANGED <<active, pc, cur>>
      BY <2>7 DEF Execute
    <3> HIDE DEF w
    <3>3. \A v \in Writes : v # w => sql'[v] = sql[v]
      BY <3>2 DEF TypeOK
    <3>4. /\ \A i \in DOMAIN queue' : queue'[i] \in Writes => sql[queue'[i]] = "queued"
          /\ \A i, k \in DOMAIN queue' : queue'[i] \in Writes /\ queue'[i] = queue'[k] => i = k
          /\ Receiving' => Receiving
      BY <3>1, QueueShrinks
    <3>5. \A i \in DOMAIN queue' : queue'[i] # w
      <4> SUFFICES ASSUME NEW i \in DOMAIN queue', queue'[i] = w PROVE FALSE
        OBVIOUS
      <4>1. i + 1 \in DOMAIN queue /\ queue[i + 1] = queue[1] /\ i \in Nat \ {0}
        BY <3>1, SMTT(60) DEF TypeOK
      <4>2. i + 1 = 1
        BY <3>1, <4>1 DEF QueueInv
      <4> QED
        BY <4>1, <4>2
    <3>6. \A v \in Writes : sql'[v] # "none" => Written(v)'
      BY <3>1, <3>2, <3>3 DEF QueueInv, Written
    <3>7. ASSUME pc' = "replicate"
          PROVE  /\ cur' \in Writes
                 /\ \A i, k \in DOMAIN queue' : queue'[i] = Receive /\ queue'[k] = cur' => i < k
                 /\ sql'[cur'] = "done" => ~Receiving'
      <4>1. /\ cur' = cur /\ cur \in Writes
            /\ \A i, k \in DOMAIN queue : queue[i] = Receive /\ queue[k] = cur => i < k
            /\ sql[cur] = "done" => ~Receiving
        BY <3>2, <3>7 DEF QueueInv
      <4>2. \A i, k \in DOMAIN queue' : queue'[i] = Receive /\ queue'[k] = cur => i < k
        BY <3>1, <4>1, QueueShrinks
      <4>3. CASE cur = w
        <5>1. ~Receiving
          BY <2>0, <3>1, <4>1, <4>3 DEF Receiving, TypeOK
        <5> QED
          BY <3>4, <4>1, <4>2, <5>1
      <4>4. CASE cur # w
        BY <3>3, <3>4, <4>1, <4>2, <4>4
      <4> QED
        BY <4>3, <4>4
    <3> QED
      BY <3>3, <3>4, <3>5, <3>6, <3>7 DEF QueueInv
  <2>8. CASE Cancelled \/ receive
    <3>1. queue # <<>> /\ queue' = Tail(queue) /\ UNCHANGED <<sql, active, pc, cur>>
      BY <2>8 DEF Cancelled, receive
    <3> QED
      BY <3>1, PopFacts, ShrinkKeepsQueueInv
  <2>9. CASE Replicated \/ ForceSend \/ DirectSend \/ Ask \/ AskFails \/ UploadFails \/ Sent
    BY <2>1, <2>9 DEF Replicated, ForceSend, set_failure, DirectSend, Ask, AskFails, raises, UploadFails, Sent
  <2>10. ASSUME NEW t \in Threads, RetryStep(t) \/ RetryGivesUp(t) PROVE QueueInv'
    BY <2>1, <2>10 DEF RetryStep, RetryEnds, RetryWakes, RetryDefers, RetryQueues, RetrySends, RetryClears,
                       RetryGivesUp
  <2>11. CASE StandbyStatus \/ FailoverBegins \/ FailoverEnds \/ UNCHANGED vars
    BY <2>1, <2>11 DEF StandbyStatus, FailoverBegins, FailoverEnds, vars
  <2> QED
    BY <2>2, <2>3, <2>4, <2>5, <2>6, <2>7, <2>8, <2>9, <2>10, <2>11 DEF Next, SendStep
<1> QED
  BY <1>1, <1>2, TypeInvariance, PTL DEF Spec

-----------------------------------------------------------------------------
(* The copy on the standby node                                            *)

\* Steps that leave the databases, the queue and the SQLite thread alone, and clear the
\* flag only with a note, keep CopyInv.
LEMMA FrameKeepsCopyInv ==
    ASSUME CopyInv, UNCHANGED <<active, standby, replicated, queue, reply, sql, pc, cur>>,
           unflagged' = {} => unflagged = {},
           ~failure' /\ unflagged' = {} => ~failure
    PROVE  CopyInv'
<1>1. Receiving' = Receiving
  BY DEF Receiving
<1> QED
  BY <1>1, ZenonT(30) DEF CopyInv, FileInv, SendInv, AgreeInv

\* So do the steps of set_failure() and the calls of send().
LEMMA AskingKeepsCopyInv ==
    ASSUME CopyInv, UNCHANGED <<active, standby, replicated, queue>>,
           pc \in {"idle", "ask"}, pc' \in {"idle", "ask", "upload"},
           ~failure' /\ unflagged' = {} => ~failure /\ unflagged = {}
    PROVE  CopyInv'
<1>1. Receiving' = Receiving
  BY DEF Receiving
<1> QED
  BY <1>1 DEF CopyInv, FileInv, SendInv, AgreeInv

\* The two databases agree at every step of a write, of its replication and of a send.
THEOREM CopyInvariance == Spec => []CopyInv
<1> USE DEF dbVars, threadVars, standbyVars, versionVars, envVars
<1>1. Init => CopyInv
  BY DEF Init, CopyInv, FileInv, SendInv, AgreeInv, Receiving
<1>2. TypeOK /\ QueueInv /\ CopyInv /\ [Next]_vars => CopyInv'
  <2> SUFFICES ASSUME TypeOK, QueueInv, CopyInv, [Next]_vars PROVE CopyInv'
    OBVIOUS
  <2>0. /\ Receive \notin Writes /\ None \notin Writes /\ None # Receive
        /\ None \notin Seq(Writes)
    BY FailoverDatastoreAssumption
  <2>1. ASSUME NEW w \in Writes, Write(w) PROVE CopyInv'
    <3>1. /\ pc = "idle" /\ active' = Append(active, w)
          /\ UNCHANGED <<standby, replicated, queue, failure>>
          /\ pc' \in {"idle", "replicate"}
      BY <2>1 DEF Write
    <3>2. Len(active') = Len(active) + 1 /\ Len(active) \in Nat
      BY <3>1 DEF TypeOK
    <3>3. FileInv'
      <4>1. replicated # None => Len(replicated) \in Nat
        BY DEF TypeOK
      <4> QED
        BY <3>1, <3>2, <4>1 DEF CopyInv, FileInv
    <3>4. SendInv'
      BY <3>1 DEF SendInv
    <3>5. CASE w \in Local \/ failure \/ in_progress
      <4>1. failure' \/ unflagged' # {}
        BY <2>1, <3>5, ZenonT(120) DEF Write
      <4> QED
        BY <3>3, <3>4, <4>1 DEF CopyInv, AgreeInv
    <3>6. CASE ~(w \in Local \/ failure \/ in_progress)
      <4>1. pc' = "replicate" /\ cur' = w /\ sql'[w] = "arrived" /\ unflagged' = unflagged
        BY <2>1, <3>6 DEF Write, TypeOK
      <4>2. Receiving' = Receiving
        BY <3>1 DEF Receiving
      <4>3. unflagged = {} => standby = active /\ (Receiving /\ replicated # None => replicated = standby)
        BY <3>1, <3>6 DEF CopyInv, AgreeInv
      <4> QED
        BY <3>1, <3>3, <3>4, <4>1, <4>2, <4>3 DEF CopyInv, AgreeInv
    <3> QED
      BY <3>5, <3>6
  <2>2. ASSUME NEW w \in Writes, SqlCheck(w) PROVE CopyInv'
    <3>1. UNCHANGED <<active, standby, replicated, failure, pc, cur, reply, unflagged>>
      BY <2>2 DEF SqlCheck
    <3>2. Receiving' = Receiving
      <4>1. CASE queue' = queue
        BY <4>1 DEF Receiving
      <4>2. CASE queue' = Append(queue, w)
        <5>1. /\ DOMAIN queue' = DOMAIN queue \cup {Len(queue) + 1}
              /\ queue'[Len(queue) + 1] = w
              /\ \A i \in DOMAIN queue : queue'[i] = queue[i]
          BY <4>2, PushFacts DEF Items
        <5> QED
          BY <2>0, <5>1, ZenonT(30) DEF Receiving
      <4> QED
        BY <2>2, <4>1, <4>2 DEF SqlCheck
    <3>3. pc = "replicate" => (sql'[cur] = "done" <=> sql[cur] = "done")
      BY <2>2 DEF SqlCheck, QueueInv, TypeOK
    <3> QED
      BY <3>1, <3>2, <3>3, ZenonT(30) DEF CopyInv, FileInv, SendInv, AgreeInv
  <2>3. CASE Replicated
    <3>1. /\ pc = "replicate" /\ pc' = "idle"
          /\ UNCHANGED <<active, standby, replicated, queue, failure>>
          /\ unflagged' = {} => unflagged = {} /\ sql[cur] = "done"
      BY <2>3 DEF Replicated
    <3>2. Receiving' = Receiving
      BY <3>1 DEF Receiving
    <3> QED
      BY <3>1, <3>2, ZenonT(30) DEF CopyInv, FileInv, SendInv, AgreeInv
  <2>4. CASE ReplicateFails
    <3>1. /\ failure' = TRUE /\ pc' \in {"idle", "ask"}
          /\ UNCHANGED <<active, replicated>>
      BY <2>4, ZenonT(30) DEF ReplicateFails, set_failure, TypeOK
    <3> QED
      BY <3>1, ZenonT(30) DEF CopyInv, FileInv, SendInv, AgreeInv
  <2>5. CASE ForceSend \/ DirectSend \/ Ask \/ AskFails
    BY <2>5, AskingKeepsCopyInv DEF ForceSend, set_failure, DirectSend, Ask, AskFails, raises
  <2>6. CASE Upload
    <3>1. /\ pc = "upload" /\ pc' = "receive" /\ replicated' = active
          /\ UNCHANGED <<active, standby, failure, unflagged>>
          /\ queue' = Append(queue, Receive)
      BY <2>6 DEF Upload
    <3>2. Receiving'
      BY <3>1, PushFacts DEF Receiving, Items
    <3>3. Len(active) <= Len(active)
      BY DEF TypeOK
    <3> QED
      BY <3>1, <3>2, <3>3, ZenonT(30) DEF CopyInv, FileInv, SendInv, AgreeInv
  <2>7. CASE UploadFails
    <3>1. /\ pc = "upload" /\ pc' = "idle" /\ replicated' \in {replicated, active}
          /\ UNCHANGED <<active, standby, failure, unflagged, queue>>
      BY <2>7 DEF UploadFails, raises
    <3>2. Receiving' = Receiving
      BY <3>1 DEF Receiving
    <3>3. Len(active) <= Len(active)
      BY DEF TypeOK
    <3>4. FileInv'
      BY <3>1, <3>2, <3>3 DEF CopyInv, FileInv
    <3>5. SendInv'
      BY <3>1, <3>2 DEF CopyInv, SendInv
    <3>6. AgreeInv'
      BY <3>1, <3>2 DEF CopyInv, AgreeInv
    <3> QED
      BY <3>4, <3>5, <3>6 DEF CopyInv
  <2>8. CASE Sent
    <3>1. /\ pc = "receive" /\ pc' = "idle" /\ ~Receiving
          /\ UNCHANGED <<active, standby, replicated, unflagged, queue>>
          /\ ~failure' => ~failure \/ reply = "ok"
      BY <2>8 DEF Sent, raises
    <3>2. ~Receiving'
      BY <3>1 DEF Receiving
    <3> QED
      BY <3>1, <3>2, ZenonT(30) DEF CopyInv, FileInv, SendInv, AgreeInv
  <2>9. CASE ReceiveFails
    <3>1. /\ pc = "receive" /\ pc' = "idle"
          /\ UNCHANGED <<active, standby, replicated, unflagged, failure>>
      BY <2>9 DEF ReceiveFails, raises
    <3> QED
      BY <3>1, ZenonT(30) DEF CopyInv, FileInv, SendInv, AgreeInv
  <2>10. ASSUME NEW t \in Threads, RetryStep(t) \/ RetryGivesUp(t) PROVE CopyInv'
    <3>1. CASE RetrySends(t)
      BY <3>1, AskingKeepsCopyInv DEF RetrySends
    <3>2. CASE RetryClears(t)
      <4>1. unflagged' = {} => unflagged = {} /\ ~failure
        BY <3>2, ZenonT(30) DEF RetryClears
      <4> QED
        BY <3>2, <4>1, FrameKeepsCopyInv DEF RetryClears
    <3> QED
      BY <2>10, <3>1, <3>2, FrameKeepsCopyInv
      DEF RetryStep, RetryEnds, RetryWakes, RetryDefers, RetryQueues, RetryGivesUp
  <2>11. CASE Execute
    <3> DEFINE w == Head(queue)
    <3>1. /\ UNCHANGED <<active, replicated, failure, pc, cur, reply>>
          /\ standby' = Append(standby, w) /\ sql' = [sql EXCEPT ![w] = "done"]
          /\ unflagged' = IF pc = "replicate" /\ cur = w THEN unflagged ELSE unflagged \cup {"late"}
      BY <2>11 DEF Execute
    <3>2. /\ 1 \in DOMAIN queue /\ w = queue[1] /\ w \in Writes
          /\ \A i \in DOMAIN queue' : i + 1 \in DOMAIN queue /\ queue'[i] = queue[i + 1]
      BY <2>11, PopFacts DEF Execute
    <3> HIDE DEF w
    <3>3. FileInv'
      BY <3>1, ZenonT(30) DEF CopyInv, FileInv
    <3>4. CASE pc = "replicate" /\ cur = w
      <4>1. ~Receiving'
        <5>1. ~Receiving
          BY <2>0, <3>2, <3>4 DEF QueueInv, Receiving, TypeOK
        <5> QED
          BY <3>2, <5>1, ZenonT(30) DEF Receiving
      <4>2. sql[w] = "queued" /\ sql'[w] = "done"
        BY <3>1, <3>2 DEF QueueInv, TypeOK
      <4>3. ~failure /\ unflagged = {} => active = standby'
        BY <3>1, <3>4, <4>2 DEF CopyInv, AgreeInv
      <4> QED
        BY <3>1, <3>3, <3>4, <4>1, <4>2, <4>3 DEF CopyInv, SendInv, AgreeInv
    <3>5. CASE ~(pc = "replicate" /\ cur = w)
      <4>1. unflagged' # {}
        BY <3>1, <3>5
      <4> QED
        BY <3>1, <3>3, <4>1, ZenonT(30) DEF CopyInv, SendInv, AgreeInv
    <3> QED
      BY <3>4, <3>5
  <2>12. CASE Cancelled
    <3>1. /\ UNCHANGED <<active, standby, replicated, failure, pc, cur, sql, reply, unflagged>>
          /\ queue # <<>> /\ queue' = Tail(queue) /\ Head(queue) = None
      BY <2>12 DEF Cancelled
    <3>2. Receiving' = Receiving
      <4>1. /\ 1 \in DOMAIN queue /\ queue[1] = None
            /\ \A i \in DOMAIN queue' : i + 1 \in DOMAIN queue /\ queue'[i] = queue[i + 1]
            /\ \A i \in DOMAIN queue : i # 1 => i - 1 \in DOMAIN queue' /\ queue'[i - 1] = queue[i]
        BY <3>1, PopFacts
      <4>2. Receiving' => Receiving
        BY <4>1, ZenonT(120) DEF Receiving
      <4>3. Receiving => Receiving'
        <5> SUFFICES ASSUME NEW i \in DOMAIN queue, queue[i] = Receive PROVE Receiving'
          BY DEF Receiving
        <5>1. i - 1 \in DOMAIN queue' /\ queue'[i - 1] = Receive
          BY <2>0, <4>1
        <5> QED
          BY <5>1, ZenonT(30) DEF Receiving
      <4> QED
        BY <4>2, <4>3, ZenonT(30) DEF Receiving
    <3> QED
      BY <3>1, <3>2, ZenonT(30) DEF CopyInv, FileInv, SendInv, AgreeInv
  <2>13. CASE receive
    <3>1. /\ UNCHANGED <<active, failure, pc, cur, sql>>
          /\ queue # <<>> /\ queue' = Tail(queue) /\ Head(queue) = Receive
      BY <2>13 DEF receive
    <3>2. /\ Receiving
          /\ Receiving' => Receiving
      <4>1. /\ 1 \in DOMAIN queue /\ queue[1] = Receive
            /\ \A i \in DOMAIN queue' : i + 1 \in DOMAIN queue /\ queue'[i] = queue[i + 1]
        BY <3>1, PopFacts
      <4> QED
        BY <4>1, ZenonT(30) DEF Receiving
    <3>3. CASE replicated = None
      <4>1. UNCHANGED <<standby, replicated, unflagged>> /\ reply' = "error"
        BY <2>13, <3>3, ZenonT(30) DEF receive
      <4> QED
        BY <3>1, <3>3, <4>1, ZenonT(30) DEF CopyInv, FileInv, SendInv, AgreeInv
    <3>4. CASE replicated # None /\ ~same_revision
      <4>1. UNCHANGED <<standby, replicated>> /\ unflagged' # {}
        BY <2>13, <3>4 DEF receive
      <4> QED
        BY <3>1, <4>1, ZenonT(30) DEF CopyInv, FileInv, SendInv, AgreeInv
    <3>5. CASE replicated # None /\ same_revision
      <4>1. /\ standby' = replicated /\ replicated' = None
            /\ unflagged' = IF replicated = active THEN {} ELSE unflagged
        BY <2>13, <3>5 DEF receive
      <4>2. FileInv'
        BY <4>1 DEF FileInv
      <4>3. SendInv'
        BY <3>1, <3>5, <4>1 DEF CopyInv, SendInv
      <4>4. CASE pc = "replicate"
        <5>1. replicated # active
          BY <3>5, <4>4 DEF CopyInv, FileInv, TypeOK
        <5>2. sql[cur] # "done"
          BY <3>2, <4>4 DEF QueueInv
        <5> QED
          BY <3>1, <3>2, <3>5, <4>1, <4>2, <4>3, <4>4, <5>1, <5>2, ZenonT(30) DEF CopyInv, AgreeInv
      <4>5. CASE pc = "receive"
        BY <3>1, <3>5, <4>1, <4>2, <4>3, <4>5 DEF CopyInv, SendInv, AgreeInv
      <4>6. CASE pc \notin {"replicate", "receive"}
        <5>1. ~failure' /\ unflagged' = {} => standby' = active
          BY <3>1, <3>2, <3>5, <4>1, <4>6 DEF CopyInv, AgreeInv
        <5> QED
          BY <3>1, <4>1, <4>2, <4>3, <4>6, <5>1 DEF CopyInv, AgreeInv
      <4> QED
        BY <4>4, <4>5, <4>6
    <3> QED
      BY <3>3, <3>4, <3>5
  <2>14. CASE StandbyStatus \/ FailoverBegins \/ FailoverEnds \/ UNCHANGED vars
    BY <2>14, FrameKeepsCopyInv DEF StandbyStatus, FailoverBegins, FailoverEnds, vars
  <2> QED
    BY <2>1, <2>2, <2>3, <2>4, <2>5, <2>6, <2>7, <2>8, <2>9, <2>10, <2>11, <2>12, <2>13, <2>14 DEF Next, SendStep
<1> QED
  BY <1>1, <1>2, TypeInvariance, QueueInvariance, PTL DEF Spec

\* The standby node has the database of the active node whenever that is at rest, has not
\* set its flag and nothing is noted that the code knowingly leaves to the next send().
THEOREM StandbyInSync == Spec => []InSync
<1>1. CopyInv => InSync
  BY DEF CopyInv, AgreeInv, InSync
<1> QED
  BY <1>1, CopyInvariance, PTL

=============================================================================
