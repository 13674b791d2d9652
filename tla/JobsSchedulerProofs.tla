------------------------ MODULE JobsSchedulerProofs -------------------------
(* The scheduler: wakeups, order, lock_queue_size and the lock service,    *)
(* for every set of jobs, locks and calls.                                 *)
EXTENDS JobsProofs, FiniteSetTheorems

\* The scheduler is woken by every step that makes a queued job runnable.
THEOREM JobsNoLostWakeup == Spec => []NoLostWakeup
<1>1. Init => NoLostWakeup
  BY DEF Init, NoLostWakeup
<1>2. TypeOK /\ LockInv /\ NoLostWakeup /\ [Next]_vars => NoLostWakeup'
  <2> SUFFICES ASSUME TypeOK, LockInv, NoLostWakeup, [Next]_vars PROVE NoLostWakeup'
    OBVIOUS
  <2>1. ASSUME UNCHANGED <<queue, queue_event, lock, locked>> PROVE NoLostWakeup'
    BY <2>1, Zenon DEF NoLostWakeup, Runnable
  <2>2. ASSUME queue_event' = "set" PROVE NoLostWakeup'
    BY <2>2 DEF NoLostWakeup
  <2>3. CASE UNCHANGED vars
    BY <2>1, <2>3, Zenon DEF vars, queueVars, lockVars
  <2>4. CASE Schedule
    <3>1. CASE next_none
      BY <2>4, <3>1, Zenon DEF Schedule, next_none, NoLostWakeup, Runnable
    <3>2. CASE next_found
      <4>1. PICK i \in DOMAIN queue : next_found!(i)
        BY <3>2, ZenonT(30) DEF next_found
      <4>2. queue' = RemoveAt(queue, i) /\ queue_event' = IF Len(queue) > 1 THEN "set" ELSE "clear"
        BY <4>1, Zenon
      <4>3. Len(queue') = Len(queue) - 1 /\ queue' \in Seq(Jobs) /\ Len(queue) \in Nat
        BY <4>2, RemoveAtProperties, SMTT(30) DEF TypeOK
      <4>4. CASE Len(queue) > 1
        BY <2>2, <4>2, <4>4, Zenon
      <4>5. CASE ~(Len(queue) > 1)
        <5>1. DOMAIN queue' = {}
          BY <4>3, <4>5
        <5> QED
          BY <5>1 DEF NoLostWakeup
      <4> QED
        BY <4>4, <4>5
    <3> QED
      BY <2>4, <3>1, <3>2 DEF Schedule
  <2>5. ASSUME NEW j \in Jobs, CallOnLoop(j) \/ Callback(j) PROVE NoLostWakeup'
    <3>1. pc[j] \in {"new", "posted"} /\ add(j)
      BY <2>5, Zenon DEF CallOnLoop, Callback
    <3>2. CASE add_queued(j)
      BY <2>2, <3>2, Zenon DEF add_queued
    <3>3. CASE add_rejected(j) \/ add_merged(j)
      <4>1. UNCHANGED <<queue, queue_event>>
        BY <3>3, Zenon DEF add_rejected, add_merged, queueVars
      <4>2. locked' = locked /\ \A k \in Jobs \ {j} : lock'[k] = lock[k]
        <5>1. CASE Call[j].lock = LockError
          BY <3>3, <5>1, ZenonT(30) DEF add_rejected, add_merged, lockVars
        <5>2. CASE Call[j].lock # LockError
          BY <3>1, <3>3, <5>2, HandleLock, ZenonT(120) DEF add_rejected, add_merged
        <5> QED
          BY <5>1, <5>2, SMTT(30)
      <4>3. \A i \in DOMAIN queue : queue[i] \in Jobs \ {j}
        BY <3>1 DEF LockInv, QueueInv, TypeOK
      <4> QED
        BY <4>1, <4>2, <4>3 DEF NoLostWakeup, Runnable
    <3> QED
      BY <3>1, <3>2, <3>3, Zenon DEF add
  <2>6. ASSUME NEW j \in Jobs, CallFromThread(j) \/ Receive(j) \/ Received(j) PROVE NoLostWakeup'
    BY <2>1, <2>6, ZenonT(30) DEF CallFromThread, Receive, Received, lockVars, queueVars
  <2>7. ASSUME NEW j \in Jobs, Finish(j) PROVE NoLostWakeup'
    <3>1. CASE lock[j] = None
      BY <2>1, <2>7, <3>1, ZenonT(30) DEF Finish, release_lock, lockVars
    <3>2. CASE lock[j] # None
      BY <2>2, <2>7, <3>2, ZenonT(30) DEF Finish, release_lock
    <3> QED
      BY <3>1, <3>2
  <2>8. ASSUME NEW j \in Jobs, JobStep(j), ~Finish(j) PROVE NoLostWakeup'
    BY <2>1, <2>8, RunSteps, Zenon
  <2>9. ASSUME NEW j \in Jobs, AbortRead(j) \/ AbortStep(j) PROVE NoLostWakeup'
    BY <2>1, <2>9, ZenonT(30) DEF AbortRead, AbortStep, AbortReadState, AbortSet, CancelFuture, lockVars, queueVars
  <2> QED
    BY <2>3, <2>4, <2>5, <2>6, <2>7, <2>8, <2>9, ZenonT(120) DEF Next
<1> QED
  BY <1>1, <1>2, TypeInvariance, LockInvariance, PTL DEF Spec

-----------------------------------------------------------------------------
(* The order in which jobs with one lock leave the queue                   *)

In(s, x) == \E a \in DOMAIN s : s[a] = x
Before(s, x, y) == \E a, b \in DOMAIN s : a < b /\ s[a] = x /\ s[b] = y

\* Taking an element from a sequence adds nothing and keeps the order of the others.
LEMMA RemoveAtOrder ==
    ASSUME NEW S, NEW s \in Seq(S), NEW i \in DOMAIN s, NEW x, NEW y
    PROVE  /\ In(RemoveAt(s, i), x) => In(s, x)
           /\ In(s, x) /\ x # s[i] => In(RemoveAt(s, i), x)
           /\ Before(RemoveAt(s, i), x, y) => Before(s, x, y)
           /\ Before(s, x, y) /\ x # s[i] /\ y # s[i] => Before(RemoveAt(s, i), x, y)
<1> DEFINE r == RemoveAt(s, i)
           n == Len(s)
<1>1. /\ Len(r) = n - 1 /\ r \in Seq(S)
      /\ \A m \in 1..(n - 1) : r[m] = IF m < i THEN s[m] ELSE s[m + 1]
  BY RemoveAtProperties, Zenon
<1>2. /\ DOMAIN r = 1..(n - 1) /\ DOMAIN s = 1..n /\ n \in Nat /\ i \in 1..n
  BY <1>1
<1>3. \A m \in DOMAIN r : \E a \in DOMAIN s : r[m] = s[a] /\ a = IF m < i THEN m ELSE m + 1
  BY <1>1, <1>2
<1>4. \A a \in DOMAIN s \ {i} : \E m \in DOMAIN r : r[m] = s[a] /\ m = IF a < i THEN a ELSE a - 1
  <2> SUFFICES ASSUME NEW a \in DOMAIN s \ {i}
               PROVE  \E m \in DOMAIN r : r[m] = s[a] /\ m = IF a < i THEN a ELSE a - 1
    OBVIOUS
  <2>1. CASE a < i
    BY <1>1, <1>2, <2>1
  <2>2. CASE a > i
    <3>1. a - 1 \in 1..(n - 1) /\ ~(a - 1 < i) /\ (a - 1) + 1 = a
      BY <1>2, <2>2
    <3> QED
      BY <1>1, <1>2, <2>2, <3>1
  <2> QED
    BY <1>2, <2>1, <2>2
<1> HIDE DEF r, n
<1>5. In(r, x) => In(s, x)
  BY <1>3, Zenon DEF In
<1>6. In(s, x) /\ x # s[i] => In(r, x)
  BY <1>4 DEF In
<1>7. ASSUME Before(r, x, y) PROVE Before(s, x, y)
  <2>1. PICK a, b \in DOMAIN r : a < b /\ r[a] = x /\ r[b] = y
    BY <1>7 DEF Before
  <2>2. PICK c \in DOMAIN s : r[a] = s[c] /\ c = IF a < i THEN a ELSE a + 1
    BY <1>3, Zenon
  <2>3. PICK d \in DOMAIN s : r[b] = s[d] /\ d = IF b < i THEN b ELSE b + 1
    BY <1>3, Zenon
  <2>4. c < d
    BY <1>2, <2>1, <2>2, <2>3
  <2> QED
    BY <2>1, <2>2, <2>3, <2>4 DEF Before
<1>8. ASSUME Before(s, x, y), x # s[i], y # s[i] PROVE Before(r, x, y)
  <2>1. PICK a, b \in DOMAIN s : a < b /\ s[a] = x /\ s[b] = y
    BY <1>8 DEF Before
  <2>2. PICK c \in DOMAIN r : r[c] = s[a] /\ c = IF a < i THEN a ELSE a - 1
    BY <1>4, <1>8, <2>1, ZenonT(120)
  <2>3. PICK d \in DOMAIN r : r[d] = s[b] /\ d = IF b < i THEN b ELSE b - 1
    BY <1>4, <1>8, <2>1
  <2>4. c < d
    BY <1>2, <1>8, <2>1, <2>2, <2>3
  <2> QED
    BY <2>1, <2>2, <2>3, <2>4, ZenonT(120) DEF Before
<1> QED
  BY <1>5, <1>6, <1>7, <1>8, ZenonT(120) DEF r

\* An appended element comes after all others.
LEMMA AppendOrder ==
    ASSUME NEW s \in Seq(Jobs), NEW e \in Jobs, NEW x, NEW y
    PROVE  /\ In(Append(s, e), x) <=> In(s, x) \/ x = e
           /\ Before(Append(s, e), x, y) <=> Before(s, x, y) \/ (In(s, x) /\ y = e)
<1> DEFINE r == Append(s, e)
<1>1. /\ DOMAIN r = 1..(Len(s) + 1) /\ DOMAIN s = 1..Len(s) /\ Len(s) \in Nat
      /\ \A i \in 1..Len(s) : r[i] = s[i]
      /\ r[Len(s) + 1] = e
  BY AppendFacts
<1> HIDE DEF r
<1>2. In(r, x) <=> In(s, x) \/ x = e
  BY <1>1 DEF In
<1>3. Before(r, x, y) => Before(s, x, y) \/ (In(s, x) /\ y = e)
  BY <1>1 DEF In, Before
<1>4. Before(s, x, y) => Before(r, x, y)
  BY <1>1 DEF Before
<1>5. In(s, x) /\ y = e => Before(r, x, y)
  BY <1>1 DEF In, Before
<1> QED
  BY <1>2, <1>3, <1>4, <1>5, ZenonT(120) DEF r

\* Why StartedInOrder holds: the queue has the waiting jobs in the order of the deque, so a
\* job that next() passes over for a later one with the same lock would be runnable too.
Early(j) == pc[j] \in {"new", "posted", "rejected", "merged", "receiving"}
OrderInv ==
    /\ \A i \in Jobs : In(deque, i) => ~Early(i)
    /\ \A i \in Jobs : pc[i] = "queued" => In(queue, i)
    /\ \A i, j \in Jobs : Before(deque, i, j) /\ pc[i] = "queued" /\ pc[j] = "queued" => Before(queue, i, j)
    /\ \A i, j \in Jobs : Before(deque, i, j) /\ SameLock(i, j) /\ pc[i] = "queued" => pc[j] = "queued"

\* A step that neither queues nor picks a job keeps OrderInv, also when it takes a job from
\* the deque.
LEMMA FrameKeepsOrderInv ==
    ASSUME OrderInv, queue' = queue,
           \A i, j \in Jobs : /\ In(deque', i) => In(deque, i)
                              /\ Before(deque', i, j) => Before(deque, i, j),
           \A i \in Jobs : /\ ~Early(i) => ~Early(i)'
                           /\ (pc'[i] = "queued") <=> (pc[i] = "queued")
    PROVE  OrderInv'
BY ZenonT(30) DEF OrderInv, SameLock

\* JobsDeque.add appends the job after what it leaves in the deque.
LEMMA DequeOrder ==
    ASSUME deque \in Seq(Jobs), NEW j \in Jobs
    PROVE  /\ deque_add(j) => \E s \in Seq(Jobs) :
                 /\ deque' = Append(s, j)
                 /\ \A x, y \in Jobs : (In(s, x) => In(deque, x)) /\ (Before(s, x, y) => Before(deque, x, y))
           /\ deque_remove(j) =>
                 \A x, y \in Jobs : (In(deque', x) => In(deque, x)) /\ (Before(deque', x, y) => Before(deque, x, y))
<1>1. \A i \in DOMAIN deque :
         /\ RemoveAt(deque, i) \in Seq(Jobs)
         /\ \A x, y \in Jobs : /\ In(RemoveAt(deque, i), x) => In(deque, x)
                               /\ Before(RemoveAt(deque, i), x, y) => Before(deque, x, y)
  BY RemoveAtOrder, RemoveAtProperties, ZenonT(30)
<1>2. ASSUME deque_add(j)
      PROVE  \E s \in Seq(Jobs) :
                 /\ deque' = Append(s, j)
                 /\ \A x, y \in Jobs : (In(s, x) => In(deque, x)) /\ (Before(s, x, y) => Before(deque, x, y))
  <2>1. CASE deque' = Append(deque, j)
    BY <2>1, Zenon
  <2>2. CASE \E i \in DOMAIN deque : deque' = Append(RemoveAt(deque, i), j)
    BY <1>1, <2>2, ZenonT(30)
  <2> QED
    BY <1>2, <2>1, <2>2, ZenonT(30) DEF deque_add
<1>3. ASSUME deque_remove(j)
      PROVE  \A x, y \in Jobs : (In(deque', x) => In(deque, x)) /\ (Before(deque', x, y) => Before(deque, x, y))
  <2>1. CASE deque' = deque
    BY <2>1
  <2>2. CASE \E i \in DOMAIN deque : deque' = RemoveAt(deque, i)
    BY <1>1, <2>2, ZenonT(30)
  <2> QED
    BY <1>3, <2>1, <2>2, ZenonT(120) DEF deque_remove
<1> QED
  BY <1>2, <1>3, ZenonT(30)

\* next() takes the first of the waiting jobs with a lock.
LEMMA PickKeepsOrderInv ==
    ASSUME TypeOK, LockInv, OrderInv, Schedule
    PROVE  OrderInv'
<1>0. deque' = deque
  BY DEF Schedule
<1>1. CASE next_none
  <2>1. UNCHANGED <<queue, pc>>
    BY <1>1, Zenon DEF next_none
  <2> QED
    BY <1>0, <2>1, FrameKeepsOrderInv, ZenonT(30) DEF Early
<1>2. CASE next_found
  <2>1. PICK n \in DOMAIN queue : next_found!(n)
    BY <1>2, ZenonT(30) DEF next_found
  <2>a. queue[n] \in Jobs /\ pc[queue[n]] = "queued" /\ queue \in Seq(Jobs)
    BY DEF TypeOK, LockInv, QueueInv
  <2>2. PICK f \in Jobs : f = queue[n] /\ pc[f] = "queued"
    BY <2>a
  <2>3. /\ \A k \in Jobs \ {f} : pc'[k] = pc[k]
        /\ pc'[f] = "picked"
    BY <2>1, <2>2, Zenon DEF TypeOK
  <2>4. \A x, y \in Jobs \ {f} : /\ In(queue, x) => In(queue', x)
                                 /\ Before(queue, x, y) => Before(queue', x, y)
    BY <2>1, <2>2, <2>a, RemoveAtOrder, ZenonT(120)
  <2>5. \A i \in Jobs : In(deque', i) => ~Early(i)'
    BY <1>0, <2>2, <2>3, ZenonT(120) DEF OrderInv, Early
  <2>6. ASSUME NEW i \in Jobs, Before(deque, i, f), SameLock(i, f), pc[i] = "queued", i # f
        PROVE  FALSE
    <3>1. Before(queue, i, f)
      BY <2>2, <2>6, ZenonT(120) DEF OrderInv
    <3>2. PICK a, b \in DOMAIN queue : a < b /\ queue[a] = i /\ queue[b] = f
      BY <3>1 DEF Before
    <3>3. b = n
      BY <2>2, <3>2 DEF LockInv, QueueInv
    <3>4. a \in 1..(n - 1)
      BY <2>a, <3>2, <3>3
    <3>5. Runnable(f) /\ ~Runnable(i)
      BY <2>1, <2>2, <3>2, <3>4, ZenonT(120)
    <3>6. lock[i] = lock[f] /\ lock[f] # None
      BY <2>2, <2>6, ZenonT(120) DEF SameLock, LockInv, ActiveInv, Active
    <3> QED
      BY <3>5, <3>6 DEF Runnable
  <2>7. \A i, j \in Jobs : Before(deque, i, j) /\ SameLock(i, j) /\ pc'[i] = "queued" => pc'[j] = "queued"
    BY <2>3, <2>6, ZenonT(30) DEF OrderInv
  <2>8. \A i \in Jobs : pc'[i] = "queued" => i # f /\ pc[i] = "queued"
    BY <2>3, Zenon
  <2> QED
    BY <1>0, <2>4, <2>5, <2>7, <2>8, ZenonT(120) DEF OrderInv, SameLock
<1> QED
  BY <1>1, <1>2, Zenon DEF Schedule

\* add() puts the job behind all others.
LEMMA AddKeepsOrderInv ==
    ASSUME TypeOK, LockInv, OrderInv, NEW j \in Jobs, pc[j] \in {"new", "posted"}, add(j)
    PROVE  OrderInv'
<1>1. CASE add_rejected(j) \/ add_merged(j)
  <2>1. /\ UNCHANGED <<queue, deque>>
        /\ pc'[j] \in {"rejected", "merged"}
        /\ \A i \in Jobs \ {j} : pc'[i] = pc[i]
    BY <1>1, ZenonT(120) DEF add_rejected, add_merged, queueVars, TypeOK
  <2>2. \A i \in Jobs : /\ ~Early(i) => ~Early(i)'
                        /\ (pc'[i] = "queued") <=> (pc[i] = "queued")
    BY <2>1 DEF Early
  <2> QED
    BY <2>1, <2>2, FrameKeepsOrderInv, ZenonT(120)
<1>2. CASE add_queued(j)
  <2>1. /\ deque_add(j) /\ queue' = Append(queue, j)
        /\ pc' = [pc EXCEPT ![j] = "queued"]
    BY <1>2, ZenonT(30) DEF add_queued
  <2>2. pc'[j] = "queued" /\ \A i \in Jobs \ {j} : pc'[i] = pc[i]
    BY <2>1, Zenon DEF TypeOK
  <2>3. queue \in Seq(Jobs) /\ deque \in Seq(Jobs)
    BY Zenon DEF TypeOK
  <2>4. PICK s \in Seq(Jobs) :
            /\ deque' = Append(s, j)
            /\ \A x, y \in Jobs : (In(s, x) => In(deque, x)) /\ (Before(s, x, y) => Before(deque, x, y))
    BY <2>1, <2>3, DequeOrder, SMTT(60)
  <2>5. \A x, y \in Jobs : /\ In(deque', x) => In(s, x) \/ x = j
                           /\ Before(deque', x, y) => Before(s, x, y) \/ (In(s, x) /\ y = j)
    BY <2>4, AppendOrder, Zenon
  <2>6. \A x, y \in Jobs : /\ In(queue', x) <=> In(queue, x) \/ x = j
                           /\ Before(queue', x, y) <=> Before(queue, x, y) \/ (In(queue, x) /\ y = j)
    BY <2>1, <2>3, AppendOrder
  <2>7. ~In(s, j) /\ \A x, y \in Jobs : Before(s, x, y) => In(s, x) /\ In(s, y)
    <3>1. Early(j)
      BY DEF Early
    <3>2. \A x, y \in Jobs : Before(s, x, y) => In(s, x) /\ In(s, y)
      BY ZenonT(30) DEF Before, In
    <3> QED
      BY <2>4, <3>1, <3>2, ZenonT(120) DEF OrderInv
  <2>8. \A i \in Jobs : In(deque', i) => ~Early(i)'
    BY <2>2, <2>4, <2>5, ZenonT(120) DEF OrderInv, Early
  <2>9. \A i \in Jobs : pc'[i] = "queued" => In(queue', i)
    BY <2>2, <2>6, ZenonT(30) DEF OrderInv
  <2>10. \A x, y \in Jobs : Before(deque', x, y) =>
            \/ Before(deque, x, y) /\ x # j /\ y # j
            \/ x # j /\ y = j
    BY <2>4, <2>5, <2>7, ZenonT(120)
  <2>11. \A x, y \in Jobs : Before(deque', x, y) /\ pc'[x] = "queued" /\ pc'[y] = "queued" => Before(queue', x, y)
    BY <2>2, <2>6, <2>9, <2>10, ZenonT(120) DEF OrderInv
  <2>12. \A x, y \in Jobs : Before(deque', x, y) /\ SameLock(x, y) /\ pc'[x] = "queued" => pc'[y] = "queued"
    BY <2>2, <2>10, ZenonT(30) DEF OrderInv
  <2> QED
    BY <2>8, <2>9, <2>11, <2>12, ZenonT(120) DEF OrderInv, SameLock
<1> QED
  BY <1>1, <1>2 DEF add

\* Of two jobs with one lock the one that was called first starts first.
THEOREM JobsStartedInOrder == Spec => []StartedInOrder
<1>1. Init => OrderInv
  BY DEF Init, OrderInv, In, Before
<1>2. TypeOK /\ LockInv /\ AbortInv /\ OrderInv /\ [Next]_vars => OrderInv'
  <2> SUFFICES ASSUME TypeOK, LockInv, AbortInv, OrderInv, [Next]_vars PROVE OrderInv'
    OBVIOUS
  <2>1. ASSUME UNCHANGED <<queue, deque, pc>> PROVE OrderInv'
    BY <2>1, FrameKeepsOrderInv, ZenonT(30) DEF Early
  <2>2. ASSUME NEW j \in Jobs, NEW p \in PCs, pc' = [pc EXCEPT ![j] = p], UNCHANGED queue,
               p # "queued" /\ pc[j] # "queued",
               Early(j) \/ p \notin {"new", "posted", "rejected", "merged", "receiving"},
               deque' = deque \/ deque_remove(j)
        PROVE  OrderInv'
    <3>1. \A i \in Jobs : /\ ~Early(i) => ~Early(i)'
                          /\ (pc'[i] = "queued") <=> (pc[i] = "queued")
      BY <2>2, Zenon DEF TypeOK, Early
    <3>2. \A x, y \in Jobs : (In(deque', x) => In(deque, x)) /\ (Before(deque', x, y) => Before(deque, x, y))
      <4>1. deque \in Seq(Jobs)
        BY DEF TypeOK
      <4> QED
        BY <2>2, <4>1, DequeOrder, ZenonT(120)
    <3> QED
      BY <2>2, <3>1, <3>2, FrameKeepsOrderInv, ZenonT(120)
  <2>3. CASE UNCHANGED vars
    BY <2>1, <2>3 DEF vars, jobVars, queueVars
  <2>4. CASE Schedule
    BY <2>4, PickKeepsOrderInv, Zenon
  <2>5. ASSUME NEW j \in Jobs, CallOnLoop(j) \/ Callback(j) PROVE OrderInv'
    BY <2>5, AddKeepsOrderInv DEF CallOnLoop, Callback
  <2>6. ASSUME NEW j \in Jobs, CallFromThread(j) \/ Receive(j) PROVE OrderInv'
    BY <2>2, <2>6, ZenonT(120) DEF CallFromThread, Receive, queueVars, PCs, Early
  <2>7. ASSUME NEW j \in Jobs, Received(j) PROVE OrderInv'
    <3>1. /\ pc[j] = "receiving" /\ Call[j].remote /\ UNCHANGED queue
          /\ deque' = Append(deque, j) /\ deque \in Seq(Jobs)
          /\ pc'[j] = "received" /\ \A i \in Jobs \ {j} : pc'[i] = pc[i]
      BY <2>7 DEF Received, AbortInv, TypeOK
    <3>2. \A x, y \in Jobs : /\ In(deque', x) => In(deque, x) \/ x = j
                             /\ Before(deque', x, y) => Before(deque, x, y) \/ y = j
      BY <3>1, AppendOrder
    <3>3. \A i \in Jobs : In(deque', i) => ~Early(i)'
      BY <3>1, <3>2, ZenonT(30) DEF OrderInv, Early
    <3>4. \A i \in Jobs : pc'[i] = "queued" => i # j /\ pc[i] = "queued"
      BY <3>1, Zenon
    <3>5. \A x, y \in Jobs : Before(deque', x, y) /\ pc'[x] = "queued" /\ pc'[y] = "queued" => Before(queue, x, y)
      BY <3>2, <3>4, ZenonT(30) DEF OrderInv
    <3>6. \A x, y \in Jobs : Before(deque', x, y) /\ SameLock(x, y) /\ pc'[x] = "queued" => pc'[y] = "queued"
      <4>1. \A x \in Jobs : ~SameLock(x, j)
        BY <3>1 DEF SameLock
      <4> QED
        BY <3>1, <3>2, <3>4, <4>1, ZenonT(120) DEF OrderInv
    <3> QED
      BY <3>1, <3>3, <3>4, <3>5, <3>6, ZenonT(120) DEF OrderInv, SameLock
  <2>8. ASSUME NEW j \in Jobs, Finish(j) PROVE OrderInv'
    BY <2>2, <2>8, ZenonT(120) DEF Finish, Goto, PCs
  <2>9. ASSUME NEW j \in Jobs, JobStep(j), ~Finish(j) PROVE OrderInv'
    <3>1. PICK e \in RunEdges : pc[j] = e[1] /\ pc' = [pc EXCEPT ![j] = e[2]]
      BY <2>9, RunSteps, ZenonT(120)
    <3>2. /\ e[2] \in PCs /\ e[2] # "queued" /\ pc[j] # "queued"
          /\ e[2] \notin {"new", "posted", "rejected", "merged", "receiving"}
      BY <3>1 DEF RunEdges, PCs
    <3>3. queue' = queue
      BY <2>9, RunSteps
    <3>4. deque' = deque \/ deque_remove(j)
      BY <2>9, ZenonT(120) DEF JobStep, StartLogging, LoggingStarted, RunCheck, RunStart, RunFuture,
         BodyStart, BodyReturn, BodyRaise, RunResume, ClosePipes, Notified, queueVars
    <3> QED
      BY <2>2, <3>1, <3>2, <3>3, <3>4, ZenonT(120)
  <2>10. ASSUME NEW j \in Jobs, AbortRead(j) \/ AbortStep(j) PROVE OrderInv'
    BY <2>1, <2>10, ZenonT(120) DEF AbortRead, AbortStep, AbortReadState, AbortSet, CancelFuture, jobVars, queueVars
  <2> QED
    BY <2>3, <2>4, <2>5, <2>6, <2>7, <2>8, <2>9, <2>10 DEF Next
<1>3. TypeOK /\ OrderInv => StartedInOrder
  <2> SUFFICES ASSUME TypeOK, OrderInv, NEW b \in DOMAIN deque, NEW a \in 1..(b - 1),
                      Begun(deque[b]), SameLock(deque[a], deque[b])
               PROVE  Begun(deque[a])
    BY DEF StartedInOrder
  <2>1. a \in DOMAIN deque /\ a < b /\ deque[a] \in Jobs /\ deque[b] \in Jobs
    BY DEF TypeOK
  <2>2. Before(deque, deque[a], deque[b]) /\ In(deque, deque[a])
    BY <2>1, ZenonT(30) DEF Before, In
  <2>3. ~Early(deque[a]) /\ (pc[deque[a]] = "queued" => pc[deque[b]] = "queued")
    BY <2>1, <2>2, ZenonT(120) DEF OrderInv
  <2> QED
    BY <2>3, ZenonT(120) DEF Early, Begun
<1> QED
  BY <1>1, <1>2, <1>3, TypeInvariance, LockInvariance, AbortInvariance, PTL DEF Spec

-----------------------------------------------------------------------------
(* lock_queue_size                                                         *)

Wanting(l) == {i \in DOMAIN queue : Call[queue[i]].lock = l}

\* A job that is taken from the queue leaves no more jobs for a lock than there were.
LEMMA TakenFromQueue ==
    ASSUME queue \in Seq(Jobs), NEW l, NEW n \in DOMAIN queue, queue' = RemoveAt(queue, n)
    PROVE  Cardinality(Wanting(l)') <= Cardinality(Wanting(l))
<1>1. /\ DOMAIN queue = 1..Len(queue) /\ Len(queue) \in Nat
      /\ DOMAIN queue' = 1..(Len(queue) - 1)
      /\ \A m \in 1..(Len(queue) - 1) : queue'[m] = IF m < n THEN queue[m] ELSE queue[m + 1]
  <2>1. /\ queue' \in Seq(Jobs) /\ Len(queue') = Len(queue) - 1
        /\ \A m \in 1..(Len(queue) - 1) : queue'[m] = IF m < n THEN queue[m] ELSE queue[m + 1]
    BY RemoveAtProperties, Zenon
  <2> QED
    BY <2>1
<1> DEFINE W == Wanting(l)
           V == Wanting(l)'
           g == [m \in V |-> IF m < n THEN m ELSE m + 1]
<1>2. W \in SUBSET (1..Len(queue)) /\ IsFiniteSet(1..Len(queue))
  <2>1. W \subseteq DOMAIN queue
    BY ZenonT(120) DEF Wanting
  <2>2. IsFiniteSet(1..Len(queue))
    BY <1>1, FS_Interval
  <2> QED
    BY <1>1, <2>1, <2>2, ZenonT(120)
<1>3. IsFiniteSet(W)
  BY <1>2, FS_Subset, ZenonT(120)
<1>4. g \in [V -> W]
  BY <1>1 DEF Wanting
<1>5. ASSUME NEW a \in V, NEW b \in V, g[a] = g[b] PROVE a = b
  <2>1. a \in Int /\ b \in Int /\ n \in Int
    BY <1>1 DEF Wanting
  <2> QED
    BY <1>5, <2>1
<1>6. g \in Injection(V, W)
  <2> HIDE DEF g, V, W
  <2> QED
    BY <1>4, <1>5, ZenonT(120) DEF Injection, IsInjective
<1> QED
  BY <1>3, <1>6, FS_Injection, ZenonT(120)

\* A lock_queue_size that all calls for a lock agree on bounds the queue for that lock.
THEOREM JobsLockQueueBounded == Spec => []LockQueueBounded
<1> DEFINE Agreed(l, n) == \A j \in Jobs : Call[j].lock = l => Call[j].lock_queue_size = n
           Bounded == \A l \in Locks, n \in Nat \ {0} : Agreed(l, n) => Cardinality(Wanting(l)) <= n
<1>1. Init => Bounded
  <2> SUFFICES ASSUME Init, NEW l \in Locks, NEW n \in Nat \ {0} PROVE Cardinality(Wanting(l)) <= n
    OBVIOUS
  <2>1. Wanting(l) = {}
    BY DEF Init, Wanting
  <2> QED
    BY <2>1, FS_EmptySet
<1>2. TypeOK /\ LockInv /\ Bounded /\ [Next]_vars => Bounded'
  <2> SUFFICES ASSUME TypeOK, LockInv, Bounded, [Next]_vars,
                      NEW l \in Locks, NEW n \in Nat \ {0}, Agreed(l, n)
               PROVE  Cardinality(Wanting(l)') <= n
    BY ZenonT(30)
  <2>1. queue \in Seq(Jobs) /\ Cardinality(Wanting(l)) <= n
    BY Zenon DEF TypeOK
  <2>2. ASSUME queue' = queue PROVE Cardinality(Wanting(l)') <= n
    BY <2>1, <2>2 DEF Wanting
  <2>3. CASE UNCHANGED vars
    BY <2>2, <2>3, Zenon DEF vars, queueVars
  <2>a. IsFiniteSet(Wanting(l)) /\ Cardinality(Wanting(l)) \in Nat
    <3>1. Wanting(l) \in SUBSET (1..Len(queue)) /\ IsFiniteSet(1..Len(queue))
      <4>1. DOMAIN queue = 1..Len(queue) /\ Len(queue) \in Int
        BY <2>1
      <4>2. IsFiniteSet(1..Len(queue))
        BY <4>1, FS_Interval
      <4> QED
        BY <4>1, <4>2, Zenon DEF Wanting
    <3> QED
      BY <3>1, FS_Subset, FS_CardinalityType, ZenonT(120)
  <2>4. CASE Schedule
    <3>1. CASE next_none
      BY <2>2, <3>1, ZenonT(120) DEF next_none
    <3>2. CASE next_found
      <4>1. PICK i \in DOMAIN queue : queue' = RemoveAt(queue, i)
        BY <3>2, Zenon DEF next_found
      <4>2. Cardinality(Wanting(l)') <= Cardinality(Wanting(l))
        BY <2>1, <4>1, TakenFromQueue
      <4>3. Wanting(l)' \in SUBSET (1..Len(queue')) /\ IsFiniteSet(1..Len(queue'))
        <5>1. queue' \in Seq(Jobs)
          BY <2>1, <4>1, RemoveAtProperties, ZenonT(120)
        <5>2. DOMAIN queue' = 1..Len(queue') /\ Len(queue') \in Int
          BY <5>1
        <5>3. IsFiniteSet(1..Len(queue'))
          BY <5>2, FS_Interval
        <5> QED
          BY <5>2, <5>3 DEF Wanting
      <4>4. Cardinality(Wanting(l)') \in Nat
        BY <4>3, FS_Subset, FS_CardinalityType, ZenonT(120)
      <4> QED
        BY <2>1, <2>a, <4>2, <4>4
    <3> QED
      BY <2>4, <3>1, <3>2, ZenonT(120) DEF Schedule
  <2>5. ASSUME NEW j \in Jobs, CallOnLoop(j) \/ Callback(j) PROVE Cardinality(Wanting(l)') <= n
    <3>1. CASE add_rejected(j) \/ add_merged(j)
      BY <2>2, <3>1 DEF add_rejected, add_merged, queueVars
    <3>2. CASE add_queued(j)
      <4>1. queue' = Append(queue, j) /\ ~queue_full(j)
        BY <3>2 DEF add_queued
      <4>2. /\ DOMAIN queue' = 1..(Len(queue) + 1) /\ DOMAIN queue = 1..Len(queue) /\ Len(queue) \in Nat
            /\ \A i \in 1..Len(queue) : queue'[i] = queue[i]
            /\ queue'[Len(queue) + 1] = j
        BY <2>1, <4>1, AppendFacts
      <4>3. CASE Call[j].lock # l
        <5>1. Wanting(l)' = Wanting(l)
          BY <4>2, <4>3 DEF Wanting
        <5> QED
          BY <2>1, <5>1, ZenonT(120)
      <4>4. CASE Call[j].lock = l
        <5>1. Wanting(l)' = Wanting(l) \cup {Len(queue) + 1} /\ Len(queue) + 1 \notin Wanting(l)
          BY <4>2, <4>4 DEF Wanting
        <5>2. Cardinality(Wanting(l)') = Cardinality(Wanting(l)) + 1
          BY <2>a, <5>1, FS_AddElement, ZenonT(120)
        <5>3. Call[j].lock_queue_size = n /\ n \notin {None, 0} /\ l # None
          BY <4>4, JobsAssumption
        <5>4. \A i \in DOMAIN queue : lock[queue[i]] = SharedLock(j) <=> Call[queue[i]].lock = l
          <6> SUFFICES ASSUME NEW i \in DOMAIN queue
                       PROVE  lock[queue[i]] = SharedLock(j) <=> Call[queue[i]].lock = l
            OBVIOUS
          <6>1. queue[i] \in Jobs /\ Active(queue[i]) /\ pc[queue[i]] = "queued"
            BY <2>1 DEF LockInv, QueueInv, Active
          <6>2. ASSUME Call[queue[i]].lock = l PROVE lock[queue[i]] = SharedLock(j)
            <7>1. lock[queue[i]] # None /\ job_locks[l] = lock[queue[i]]
              BY <5>3, <6>1, <6>2, ZenonT(120) DEF LockInv, ActiveInv
            <7> QED
              BY <4>4, <5>3, <7>1, ZenonT(120) DEF SharedLock
          <6>3. ASSUME lock[queue[i]] = SharedLock(j) PROVE Call[queue[i]].lock = l
            <7>1. pc[j] \in {"new", "posted"}
              BY <2>5, ZenonT(120) DEF CallOnLoop, Callback
            <7>2. lock[queue[i]] # j
              BY <6>1, <7>1 DEF LockInv, FreshInv
            <7>3. job_locks[l] # None /\ lock[queue[i]] = job_locks[l]
              BY <4>4, <5>3, <6>3, <7>2 DEF SharedLock
            <7>4. Call[job_locks[l]].lock = l
              BY <7>3 DEF LockInv, NameInv
            <7>5. Call[lock[queue[i]]].lock = Call[queue[i]].lock
              BY <6>1, <7>3, Zenon DEF LockInv, NameInv
            <7> QED
              BY <7>3, <7>4, <7>5
          <6> QED
            BY <6>2, <6>3, ZenonT(120)
        <5>5. queued_jobs(j) = Wanting(l)
          BY <5>4, ZenonT(120) DEF queued_jobs, Wanting
        <5>6. ~(Cardinality(Wanting(l)) >= n)
          BY <4>1, <5>3, <5>5 DEF queue_full
        <5> QED
          BY <2>a, <5>2, <5>6
      <4> QED
        BY <4>3, <4>4, ZenonT(120)
    <3> QED
      BY <2>5, <3>1, <3>2 DEF CallOnLoop, Callback, add
  <2>6. ASSUME NEW j \in Jobs, CallFromThread(j) \/ Receive(j) \/ Received(j) PROVE queue' = queue
    BY <2>6, ZenonT(30) DEF CallFromThread, Receive, Received, queueVars
  <2>7. ASSUME NEW j \in Jobs, JobStep(j) PROVE queue' = queue
    BY <2>7, RunSteps, ZenonT(30) DEF Finish
  <2>8. ASSUME NEW j \in Jobs, AbortRead(j) \/ AbortStep(j) PROVE queue' = queue
    BY <2>8, ZenonT(30) DEF AbortRead, AbortStep, AbortReadState, AbortSet, CancelFuture, queueVars
  <2> QED
    BY <2>2, <2>3, <2>4, <2>5, <2>6, <2>7, <2>8, ZenonT(120) DEF Next
<1>3. Bounded => LockQueueBounded
  <2> SUFFICES ASSUME Bounded, NEW l \in Locks, NEW n \in 1..Cardinality(Jobs), Agreed(l, n)
               PROVE  Cardinality(Wanting(l)) <= n
    BY Zenon DEF LockQueueBounded, Wanting
  <2>1. n \in Nat \ {0}
    OBVIOUS
  <2> QED
    BY <2>1, Zenon
<1> QED
  BY <1>1, <1>2, <1>3, TypeInvariance, LockInvariance, PTL DEF Spec

-----------------------------------------------------------------------------
(* The lock service                                                        *)

\* LockHolder names the one job that holds a lock, and None if there is none.
HeldBy == \A l \in Locks :
             /\ \A j \in Jobs : Holding(j) /\ Call[j].lock = l => LockHolder[l] = j
             /\ (\A j \in Jobs : Holding(j) => Call[j].lock # l) => LockHolder[l] = None

\* release_lock and get_lock: the lock invariant leaves at most one holder to a lock.
LEMMA HoldersAreUnique == TypeOK /\ LockInv => HeldBy
<1> SUFFICES ASSUME TypeOK, LockInv, NEW l \in Locks
             PROVE  /\ \A j \in Jobs : Holding(j) /\ Call[j].lock = l => LockHolder[l] = j
                    /\ (\A j \in Jobs : Holding(j) => Call[j].lock # l) => LockHolder[l] = None
  BY Zenon DEF HeldBy
<1>1. ASSUME NEW i \in Jobs, NEW j \in Jobs, Holding(i), Holding(j),
             Call[i].lock = l, Call[j].lock = l
      PROVE  i = j
  <2>1. lock[i] # None /\ lock[i] = job_locks[l] /\ lock[j] = job_locks[l]
    BY <1>1, JobsAssumption DEF LockInv, ActiveInv, Active
  <2> QED
    BY <1>1, <2>1, ZenonT(120) DEF LockInv, HolderInv
<1> HIDE DEF Holding
<1>2. ASSUME NEW j \in Jobs, Holding(j), Call[j].lock = l PROVE LockHolder[l] = j
  <2> DEFINE h == CHOOSE i \in Jobs : Holding(i) /\ Call[i].lock = l
  <2>1. h \in Jobs /\ Holding(h) /\ Call[h].lock = l
    BY <1>2, Zenon
  <2>2. LockHolder[l] = h
    BY <1>2, Zenon DEF LockHolder
  <2> HIDE DEF h
  <2> QED
    BY <1>1, <1>2, <2>1, <2>2, Zenon
<1>3. ASSUME \A j \in Jobs : Holding(j) => Call[j].lock # l PROVE LockHolder[l] = None
  BY <1>3, Zenon DEF LockHolder
<1> QED
  BY <1>2, <1>3, Zenon

\* A step that leaves the holders alone leaves the service's holders alone.
LEMMA HeldBySame ==
    ASSUME HeldBy, HeldBy', \A j \in Jobs : Holding(j)' <=> Holding(j)
    PROVE  LockHolder' = LockHolder
<1>1. ASSUME NEW l \in Locks PROVE LockHolder'[l] = LockHolder[l]
  <2>1. CASE \E j \in Jobs : Holding(j) /\ Call[j].lock = l
    BY <2>1, Zenon DEF HeldBy
  <2>2. CASE \A j \in Jobs : Holding(j) => Call[j].lock # l
    BY <2>2, Zenon DEF HeldBy
  <2> QED
    BY <2>1, <2>2
<1> QED
  BY <1>1, Zenon DEF LockHolder

\* If it leaves the queue alone too, it is a stuttering step of the service.
LEMMA FrameIsStutter ==
    ASSUME HeldBy, HeldBy', UNCHANGED queue, \A j \in Jobs : Holding(j)' <=> Holding(j)
    PROVE  [Service!Next]_(Service!lockVars)
  BY HeldBySame DEF Service!lockVars

\* A job that is queued or holds its lock wants one that exists, or none; its lock object is
\* the one that has that name.
LEMMA WantedLock ==
    ASSUME TypeOK, LockInv, NEW j \in Jobs, Active(j)
    PROVE  \/ Call[j].lock = None /\ lock[j] = None
           \/ /\ Call[j].lock \in Locks
              /\ lock[j] # None /\ lock[j] = job_locks[Call[j].lock]
  BY JobsAssumption DEF LockInv, ActiveInv, NameInv

\* Two functions that differ at one point at most.
LEMMA OneChange ==
    ASSUME NEW S, NEW f, NEW g, f = [x \in S |-> f[x]], g = [x \in S |-> g[x]],
           NEW a \in S, \A x \in S : x # a => g[x] = f[x]
    PROVE  g = [f EXCEPT ![a] = g[a]]
  OBVIOUS

\* What comes before a place of a queue is a place of the queue.
LEMMA PlacesBefore ==
    ASSUME NEW n \in Nat, NEW i \in 1..n
    PROVE  \A k \in 1..(i - 1) : k \in 1..n
  OBVIOUS

\* JobsQueue.next hands the lock to the first that wants it: jobs that want the same lock
\* are runnable or blocked together, and a free lock has no holder.
LEMMA ScheduleIsGrant ==
    ASSUME TypeOK, LockInv, HeldBy, HeldBy', next_found
    PROVE  Service!Next
<1>1. PICK i \in DOMAIN queue :
         /\ Runnable(queue[i])
         /\ \A k \in 1..(i - 1) : ~Runnable(queue[k])
         /\ queue' = RemoveAt(queue, i)
         /\ pc' = [pc EXCEPT ![queue[i]] = "picked"]
  BY ZenonT(30) DEF next_found
<1>2. i \in 1..Len(queue) /\ Len(queue) \in Nat /\ DOMAIN queue = 1..Len(queue)
  BY DEF TypeOK
<1>3. \A k \in DOMAIN queue : queue[k] \in Jobs /\ Active(queue[k])
  BY DEF TypeOK, LockInv, QueueInv, Active
<1>4. Service!First(i)
  <2>1. \A k \in 1..(i - 1) : k \in DOMAIN queue
    BY <1>2, PlacesBefore, ZenonT(120)
  <2>2. ASSUME NEW k \in 1..(i - 1), Call[queue[k]].lock = Call[queue[i]].lock
        PROVE  FALSE
    <3>1. lock[queue[k]] = lock[queue[i]]
      BY <1>3, <2>1, <2>2, WantedLock, JobsAssumption, ZenonT(120)
    <3> QED
      BY <1>1, <3>1, ZenonT(120) DEF Runnable
  <2> QED
    BY <1>3, <2>1, <2>2, ZenonT(120) DEF Service!First
<1>5. Service!Take(i)
  BY <1>1, Zenon DEF Service!Take, RemoveAt
<1>6. pc[queue[i]] = "queued" /\ queue[i] \in Jobs
  BY <1>3, ZenonT(120) DEF LockInv, QueueInv
<1>7. \A j \in Jobs : Holding(j)' <=> Holding(j) \/ j = queue[i]
  BY <1>1, <1>6 DEF Holding, TypeOK
<1>8. CASE Call[queue[i]].lock = None
  <2>1. ASSUME NEW l \in Locks PROVE LockHolder'[l] = LockHolder[l]
    <3>1. CASE \E j \in Jobs : Holding(j) /\ Call[j].lock = l
      BY <1>7, <3>1, ZenonT(120) DEF HeldBy
    <3>2. CASE \A j \in Jobs : Holding(j) => Call[j].lock # l
      BY <1>7, <1>8, <3>2, JobsAssumption DEF HeldBy
    <3> QED
      BY <3>1, <3>2
  <2>2. LockHolder' = LockHolder
    BY <2>1, ZenonT(120) DEF LockHolder
  <2>3. Service!Serve
    BY <1>4, <1>5, <1>6, <1>8, <2>2 DEF Service!Serve
  <2> QED
    BY <2>3, ZenonT(120) DEF Service!Next
<1>9. CASE Call[queue[i]].lock # None
  <2> DEFINE l == Call[queue[i]].lock
  <2>1. l \in Locks /\ lock[queue[i]] # None /\ lock[queue[i]] = job_locks[l]
    BY <1>3, <1>9, WantedLock
  <2>2. \A j \in Jobs : Holding(j) => Call[j].lock # l
    <3> SUFFICES ASSUME NEW j \in Jobs, Holding(j), Call[j].lock = l PROVE FALSE
      OBVIOUS
    <3>1. lock[j] = lock[queue[i]]
      BY <1>9, <2>1, WantedLock DEF Active
    <3> QED
      BY <1>1, <2>1, <3>1, ZenonT(120) DEF Runnable, LockInv, HolderInv
  <2>3. LockHolder[l] = None /\ LockHolder'[l] = queue[i]
    BY <1>6, <1>7, <2>1, <2>2, ZenonT(120) DEF HeldBy
  <2>4. ASSUME NEW m \in Locks, m # l PROVE LockHolder'[m] = LockHolder[m]
    <3>1. CASE \E j \in Jobs : Holding(j) /\ Call[j].lock = m
      BY <1>7, <3>1, Zenon DEF HeldBy
    <3>2. CASE \A j \in Jobs : Holding(j) => Call[j].lock # m
      BY <1>7, <2>4, <3>2 DEF HeldBy
    <3> QED
      BY <3>1, <3>2, ZenonT(120)
  <2>5. LockHolder' = [LockHolder EXCEPT ![l] = queue[i]]
    <3>1. /\ LockHolder = [m \in Locks |-> LockHolder[m]]
          /\ LockHolder' = [m \in Locks |-> LockHolder'[m]]
      BY Zenon DEF LockHolder
    <3> QED
      BY <2>1, <2>3, <2>4, <3>1, OneChange, ZenonT(120)
  <2>6. Service!Grant(l)
    BY <1>4, <1>5, <1>6, <2>3, <2>5, ZenonT(120) DEF Service!Grant
  <2> QED
    BY <2>1, <2>6, ZenonT(120) DEF Service!Next
<1> QED
  BY <1>8, <1>9, Zenon

\* The end of Job.run gives the lock back, if the job has one.
LEMMA FinishIsRelease ==
    ASSUME TypeOK, LockInv, HeldBy, HeldBy', NEW j \in Jobs, Finish(j)
    PROVE  [Service!Next]_(Service!lockVars)
<1>1. /\ UNCHANGED queue /\ pc[j] = "closed"
      /\ pc' = [pc EXCEPT ![j] = "done"] \/ pc' = [pc EXCEPT ![j] = "notifying"]
  BY Zenon DEF Finish, Goto
<1>2. Holding(j) /\ \A i \in Jobs : Holding(i)' <=> Holding(i) /\ i # j
  BY <1>1 DEF Holding, TypeOK
<1>3. ASSUME NEW l \in Locks, l # Call[j].lock PROVE LockHolder'[l] = LockHolder[l]
  <2>1. CASE \E i \in Jobs : Holding(i) /\ Call[i].lock = l
    BY <1>2, <1>3, <2>1, ZenonT(120) DEF HeldBy
  <2>2. CASE \A i \in Jobs : Holding(i) => Call[i].lock # l
    BY <1>2, <2>2 DEF HeldBy
  <2> QED
    BY <2>1, <2>2, Zenon
<1>4. CASE Call[j].lock \notin Locks
  <2>1. LockHolder' = LockHolder
    BY <1>3, <1>4 DEF LockHolder
  <2> QED
    BY <1>1, <2>1, ZenonT(120) DEF Service!lockVars
<1>5. CASE Call[j].lock \in Locks
  <2> DEFINE l == Call[j].lock
  <2>1. LockHolder[l] = j
    BY <1>2, <1>5, ZenonT(120) DEF HeldBy
  <2>2. \A i \in Jobs : Holding(i)' => Call[i].lock # l
    BY <1>2, <1>5, <2>1 DEF HeldBy
  <2>3. LockHolder'[l] = None
    BY <1>5, <2>2, Zenon DEF HeldBy
  <2>4. LockHolder' = [LockHolder EXCEPT ![l] = None]
    <3>1. /\ LockHolder = [m \in Locks |-> LockHolder[m]]
          /\ LockHolder' = [m \in Locks |-> LockHolder'[m]]
      BY Zenon DEF LockHolder
    <3> QED
      BY <1>3, <1>5, <2>3, <3>1, OneChange, ZenonT(120)
  <2>5. Service!Release(l)
    BY <1>1, <2>1, <2>4, JobsAssumption, ZenonT(120) DEF Service!Release
  <2> QED
    BY <1>5, <2>5, Zenon DEF Service!Next
<1> QED
  BY <1>4, <1>5

\* Every step of the queue, of its jobs and of the threads that abort them is a step of the
\* lock service or leaves it alone: the lock objects that add() and release_lock() make and
\* drop never give a lock name to two jobs, nor to a job that came after another that waits.
THEOREM JobsImplementLockService == Spec => Service!Safety
<1>1. TypeOK /\ LockInv /\ Init => Service!Init
  <2> SUFFICES ASSUME TypeOK, LockInv, Init PROVE Service!Init
    OBVIOUS
  <2>1. \A j \in Jobs : ~Holding(j)
    BY Zenon DEF Init, Holding
  <2>2. \A l \in Locks : LockHolder[l] = None
    BY <2>1, HoldersAreUnique DEF HeldBy
  <2>3. LockHolder = [l \in Locks |-> None]
    BY <2>2 DEF LockHolder
  <2> QED
    BY <2>3, Zenon DEF Init, Service!Init
<1>2. /\ TypeOK /\ LockInv /\ HeldBy /\ HeldBy' /\ [Next]_vars
      => [Service!Next]_(Service!lockVars)
  <2> SUFFICES ASSUME TypeOK, LockInv, HeldBy, HeldBy', [Next]_vars
               PROVE  [Service!Next]_(Service!lockVars)
    OBVIOUS
  <2>1. CASE UNCHANGED <<pc, queue>>
    BY <2>1, FrameIsStutter DEF Holding
  <2>2. ASSUME NEW j \in Jobs, NEW p, pc' = [pc EXCEPT ![j] = p], UNCHANGED queue, ~Holding(j),
               p \in {"rejected", "merged", "posted", "receiving", "received", "done"}
        PROVE  [Service!Next]_(Service!lockVars)
    BY <2>2, FrameIsStutter, ZenonT(120) DEF Holding, TypeOK
  <2>3. CASE Schedule
    BY <2>1, <2>3, ScheduleIsGrant DEF Schedule, next_none
  <2>4. ASSUME NEW j \in Jobs, CallOnLoop(j) \/ Callback(j)
        PROVE  [Service!Next]_(Service!lockVars)
    <3>1. ~Holding(j) /\ add(j)
      BY <2>4, Zenon DEF CallOnLoop, Callback, Holding
    <3>2. CASE add_queued(j)
      <4>1. queue' = Append(queue, j) /\ pc' = [pc EXCEPT ![j] = "queued"]
        BY <3>2 DEF add_queued
      <4>2. \A i \in Jobs : Holding(i)' <=> Holding(i)
        BY <3>1, <4>1, ZenonT(120) DEF Holding, TypeOK
      <4>3. LockHolder' = LockHolder
        BY <4>2, HeldBySame
      <4> QED
        BY <4>1, <4>3 DEF Service!Next, Service!Request
    <3>3. CASE add_rejected(j) \/ add_merged(j)
      BY <2>2, <3>1, <3>3 DEF add_rejected, add_merged, queueVars
    <3> QED
      BY <3>1, <3>2, <3>3, ZenonT(120) DEF add
  <2>5. ASSUME NEW j \in Jobs, CallFromThread(j) \/ Receive(j) \/ Received(j)
        PROVE  [Service!Next]_(Service!lockVars)
    BY <2>2, <2>5, ZenonT(120) DEF CallFromThread, Receive, Received, Holding, queueVars
  <2>6. ASSUME NEW j \in Jobs, Finish(j) PROVE [Service!Next]_(Service!lockVars)
    BY <2>6, FinishIsRelease
  <2>7. ASSUME NEW j \in Jobs, JobStep(j), ~Finish(j) PROVE [Service!Next]_(Service!lockVars)
    <3>1. UNCHANGED queue
      BY <2>7, RunSteps, ZenonT(120)
    <3>2. PICK e \in RunEdges : pc[j] = e[1] /\ pc' = [pc EXCEPT ![j] = e[2]]
      BY <2>7, RunSteps
    <3>3. \A i \in Jobs : Holding(i)' <=> Holding(i)
      BY <3>2 DEF RunEdges, Holding, TypeOK
    <3> QED
      BY <3>1, <3>3, FrameIsStutter, ZenonT(120)
  <2>8. ASSUME NEW j \in Jobs, AbortRead(j) \/ AbortStep(j) PROVE [Service!Next]_(Service!lockVars)
    BY <2>1, <2>8, Zenon DEF AbortRead, AbortStep, AbortReadState, AbortSet, CancelFuture, jobVars, queueVars
  <2> QED
    BY <2>1, <2>3, <2>4, <2>5, <2>6, <2>7, <2>8, ZenonT(120) DEF Next, vars, jobVars, queueVars
<1> QED
  BY <1>1, <1>2, HoldersAreUnique, TypeInvariance, LockInvariance, PTL DEF Spec, Service!Safety

=============================================================================
