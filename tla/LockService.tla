---------------------------- MODULE LockService ----------------------------
(***************************************************************************)
(* What the job queue promises about locks, without lock objects, events   *)
(* or tasks: each lock name has one holder at most, the jobs that want it  *)
(* get it first come first served, and neither a free lock somebody wants  *)
(* nor a job that wants no lock is kept waiting for ever.                  *)
(***************************************************************************)
EXTENDS Integers, Sequences

CONSTANTS Jobs, Locks, None,
          Wants    \* Wants[j]: the lock job j needs, or None

VARIABLES waiting, \* the jobs that have asked and not been served, in order of arrival
          holder   \* holder[l]: the job that has lock l, or None

lockVars == <<waiting, holder>>

Init == /\ waiting = <<>>
        /\ holder = [l \in Locks |-> None]

Request(j) == /\ waiting' = Append(waiting, j)
              /\ UNCHANGED holder

\* Nobody who came earlier wants the same.
First(i) == \A k \in 1..(i - 1) : Wants[waiting[k]] # Wants[waiting[i]]

Take(i) == waiting' = SubSeq(waiting, 1, i - 1) \o SubSeq(waiting, i + 1, Len(waiting))

Grant(l) == \E i \in DOMAIN waiting : /\ Wants[waiting[i]] = l /\ First(i)
                                      /\ holder[l] = None
                                      /\ holder' = [holder EXCEPT ![l] = waiting[i]]
                                      /\ Take(i)

\* A job that needs no lock.
Serve == \E i \in DOMAIN waiting : /\ Wants[waiting[i]] = None /\ First(i)
                                   /\ Take(i)
                                   /\ UNCHANGED holder

Release(l) == /\ holder[l] # None
              /\ holder' = [holder EXCEPT ![l] = None]
              /\ UNCHANGED waiting

Next == \/ \E j \in Jobs : Request(j)
        \/ \E l \in Locks : Grant(l) \/ Release(l)
        \/ Serve

Safety == Init /\ [][Next]_lockVars

Spec == Safety /\ WF_lockVars(Serve) /\ \A l \in Locks : WF_lockVars(Grant(l))

============================================================================
