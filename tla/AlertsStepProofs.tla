-------------------------- MODULE AlertsStepProofs --------------------------
(***************************************************************************)
(* The lists of the alert service, its types, and what one step may do to  *)
(* an alert, for any alerts, sources, calls and faults.                    *)
(***************************************************************************)
EXTENDS Alerts, FiniteSetTheorems, SequenceTheorems, TLAPS

-----------------------------------------------------------------------------
(* Lists                                                                   *)

\* The elements of a finite set of numbers are counted 1, 2, ... in their order.
LEMMA Ranks ==
    ASSUME NEW I \in SUBSET Nat, IsFiniteSet(I)
    PROVE  LET r(i) == Cardinality({k \in I : k <= i})
           IN  /\ Cardinality(I) \in Nat
               /\ \A i \in I : r(i) \in 1..Cardinality(I)
               /\ \A i, j \in I : r(i) = r(j) => i = j
               /\ \A n \in 1..Cardinality(I) : \E i \in I : r(i) = n
<1> DEFINE upto(i) == {k \in I : k <= i}
           r(i)    == Cardinality(upto(i))
           f       == [i \in I |-> r(i)]
           c       == Cardinality(I)
<1>1. c \in Nat
  BY FS_CardinalityType, Zenon
<1>2. ASSUME NEW i \in I
      PROVE  IsFiniteSet(upto(i)) /\ r(i) \in 1..c
  <2>1. IsFiniteSet(upto(i)) /\ r(i) <= c
    BY FS_Subset, Zenon
  <2>2. r(i) \in Nat /\ r(i) # 0
    <3>1. i \in upto(i)
      OBVIOUS
    <3> HIDE DEF upto
    <3> QED
      BY <2>1, <3>1, FS_CardinalityType, FS_EmptySet, Zenon
  <2> QED
    BY <1>1, <2>1, <2>2
<1>3. ASSUME NEW i \in I, NEW j \in I, i < j
      PROVE  r(i) # r(j)
  <2>1. j \in upto(j) /\ j \notin upto(i) /\ i \in Nat /\ j \in Nat
    BY <1>3
  <2>2. ASSUME NEW k \in upto(i) PROVE k \in upto(j)
    <3>1. k \in I /\ k \in Nat /\ k <= i
      OBVIOUS
    <3>2. k <= j
      BY <1>3, <2>1, <3>1
    <3> QED
      BY <3>1, <3>2, Zenon
  <2> HIDE DEF upto
  <2> QED
    BY <1>2, <2>1, <2>2, FS_Subset, Zenon
<1>4. \A i, j \in I : r(i) = r(j) => i = j
  <2> HIDE DEF r
  <2> QED
    BY <1>3
<1>5. f \in Injection(I, 1..c)
  <2> HIDE DEF r
  <2> QED
    BY <1>2, <1>4, Zenon DEF Injection, IsInjective
<1>6. IsFiniteSet(1..c) /\ Cardinality(1..c) = c
  BY <1>1, FS_Interval
<1>7. f \in Surjection(I, 1..c)
  <2> HIDE DEF f, c
  <2> QED
    BY <1>5, <1>6, FS_Injection, Zenon DEF c
<1>8. \A n \in 1..c : \E i \in I : r(i) = n
  <2> HIDE DEF r
  <2> QED
    BY <1>7, Zenon DEF Surjection
<1> QED
  BY <1>1, <1>2, <1>4, <1>8, Zenon

\* What Only keeps of a list.
LEMMA OnlyProperties ==
    ASSUME NEW S, NEW s \in Seq(S), NEW K
    PROVE  /\ Only(s, K) \in Seq(S)
           /\ Range(Only(s, K)) = Range(s) \cap K
<1> DEFINE I    == {i \in DOMAIN s : s[i] \in K}
           c    == Cardinality(I)
           r(i) == Cardinality({k \in I : k <= i})
           p(n) == CHOOSE i \in I : r(i) = n
<1>1. I \in SUBSET Nat /\ IsFiniteSet(I)
  <2>1. DOMAIN s = 1..Len(s) /\ Len(s) \in Nat
    OBVIOUS
  <2>2. IsFiniteSet(1..Len(s)) /\ I \in SUBSET (1..Len(s))
    BY <2>1, FS_Interval
  <2> QED
    BY <2>1, <2>2, FS_Subset
<1>2. /\ c \in Nat
      /\ \A i \in I : r(i) \in 1..c
      /\ \A i, j \in I : r(i) = r(j) => i = j
      /\ \A n \in 1..c : \E i \in I : r(i) = n
  <2> HIDE DEF I
  <2> QED
    BY <1>1, Ranks, Zenon
<1>3. Only(s, K) = [n \in 1..c |-> s[p(n)]]
  BY Zenon DEF Only
<1>4. \A i \in I : i \in DOMAIN s /\ s[i] \in K /\ s[i] \in S
  OBVIOUS
<1> HIDE DEF I, c, r
<1>5. \A n \in 1..c : p(n) \in I /\ r(p(n)) = n
  BY <1>2, Zenon
<1>6. \A i \in I : p(r(i)) = i
  BY <1>2, <1>5, Zenon
<1> HIDE DEF p
<1>7. Only(s, K) \in Seq(S)
  <2>1. [n \in 1..c |-> s[p(n)]] \in [1..c -> S]
    BY <1>4, <1>5, Zenon
  <2> QED
    BY <1>2, <1>3, <2>1, SeqDef
<1>8. Range(Only(s, K)) \subseteq Range(s) \cap K
  BY <1>3, <1>4, <1>5 DEF Range
<1>9. ASSUME NEW x \in Range(s), x \in K PROVE x \in Range(Only(s, K))
  <2>1. PICK i \in I : s[i] = x
    BY <1>9, Zenon DEF Range, I
  <2>2. r(i) \in 1..c /\ s[p(r(i))] = x
    BY <1>2, <1>6, <2>1, Zenon
  <2> QED
    BY <1>3, <2>2, Zenon DEF Range
<1> QED
  BY <1>7, <1>8, <1>9, Zenon

\* The elements of lists that are put together.
LEMMA Joined ==
    ASSUME NEW S, NEW s \in Seq(S), NEW t \in Seq(S)
    PROVE  s \o t \in Seq(S) /\ Range(s \o t) = Range(s) \cup Range(t)
<1>1. /\ s \o t \in Seq(S)
      /\ Len(s \o t) = Len(s) + Len(t)
      /\ \A i \in 1..(Len(s) + Len(t)) : (s \o t)[i] = IF i <= Len(s) THEN s[i] ELSE t[i - Len(s)]
  BY ConcatProperties, Zenon
<1>2. /\ DOMAIN s = 1..Len(s) /\ DOMAIN t = 1..Len(t) /\ DOMAIN (s \o t) = 1..(Len(s) + Len(t))
      /\ Len(s) \in Nat /\ Len(t) \in Nat
  BY <1>1
<1>3. ASSUME NEW x \in Range(s \o t) PROVE x \in Range(s) \cup Range(t)
  <2>1. PICK i \in 1..(Len(s) + Len(t)) : x = (s \o t)[i]
    BY <1>2, <1>3, Zenon DEF Range
  <2>2. CASE i <= Len(s)
    BY <1>1, <1>2, <2>1, <2>2 DEF Range
  <2>3. CASE ~(i <= Len(s))
    <3>1. i - Len(s) \in 1..Len(t)
      BY <1>2, <2>1, <2>3
    <3> QED
      BY <1>1, <1>2, <2>1, <2>3, <3>1, Zenon DEF Range
  <2> QED
    BY <2>2, <2>3, Zenon
<1>4. ASSUME NEW x \in Range(s) PROVE x \in Range(s \o t)
  <2>1. PICK i \in 1..Len(s) : x = s[i]
    BY <1>2, <1>4, Zenon DEF Range
  <2>2. i \in 1..(Len(s) + Len(t)) /\ i <= Len(s)
    BY <1>2, <2>1
  <2> QED
    BY <1>1, <1>2, <2>1, <2>2, Zenon DEF Range
<1>5. ASSUME NEW x \in Range(t) PROVE x \in Range(s \o t)
  <2>1. PICK i \in 1..Len(t) : x = t[i]
    BY <1>2, <1>5, Zenon DEF Range
  <2>2. /\ i + Len(s) \in 1..(Len(s) + Len(t)) /\ ~(i + Len(s) <= Len(s))
        /\ (i + Len(s)) - Len(s) = i
    BY <1>2, <2>1
  <2>3. (s \o t)[i + Len(s)] = x
    BY <1>1, <2>1, <2>2, Zenon
  <2> QED
    BY <1>2, <2>2, <2>3, Zenon DEF Range
<1> QED
  BY <1>1, <1>3, <1>4, <1>5, Zenon

\* The elements of a list, and of one with an element more.
LEMMA Appended ==
    ASSUME NEW S, NEW s \in Seq(S), NEW e \in S
    PROVE  /\ Append(s, e) \in Seq(S) /\ Range(Append(s, e)) = Range(s) \cup {e}
           /\ Range(s) \subseteq S
<1>1. DOMAIN s = 1..Len(s) /\ Len(s) \in Nat
  OBVIOUS
<1>2. /\ Append(s, e) \in Seq(S) /\ DOMAIN Append(s, e) = 1..(Len(s) + 1)
      /\ \A i \in 1..Len(s) : Append(s, e)[i] = s[i]
      /\ Append(s, e)[Len(s) + 1] = e
  BY <1>1, AppendProperties
<1>3. 1..(Len(s) + 1) = 1..Len(s) \cup {Len(s) + 1}
  BY <1>1
<1>4. Range(Append(s, e)) = Range(s) \cup {e}
  BY <1>1, <1>2, <1>3 DEF Range
<1>5. Range(s) \subseteq S
  BY <1>1 DEF Range
<1> QED
  BY <1>2, <1>4, <1>5, Zenon

\* list.remove takes nothing but what it removes.
LEMMA WithoutOne ==
    ASSUME NEW S, NEW s \in Seq(S), NEW i \in DOMAIN s
    PROVE  Without(s, i) \in Seq(S) /\ Range(Without(s, i)) \subseteq Range(s)
<1> DEFINE a == SubSeq(s, 1, i - 1)
           b == SubSeq(s, i + 1, Len(s))
<1>1. i \in 1..Len(s) /\ Len(s) \in Nat /\ DOMAIN s = 1..Len(s)
  BY LenProperties, Zenon
<1>2. /\ a \in Seq(S)
      /\ Len(a) = i - 1
      /\ \A k \in 1..(i - 1) : a[k] = s[k]
  BY <1>1, SubSeqProperties
<1>3. /\ b \in Seq(S)
      /\ Len(b) = Len(s) - i
      /\ \A k \in 1..(Len(s) - i) : b[k] = s[i + k]
  BY <1>1, SubSeqProperties, SMTT(60)
<1>4. Without(s, i) = a \o b
  BY Zenon DEF Without
<1> HIDE DEF a, b
<1>5. Range(a) \subseteq Range(s)
  <2>1. \A k \in 1..(i - 1) : k \in DOMAIN s
    BY <1>1
  <2>2. DOMAIN a = 1..(i - 1)
    BY <1>2
  <2> QED
    BY <1>2, <2>1, <2>2, Zenon DEF Range
<1>6. Range(b) \subseteq Range(s)
  <2>1. \A k \in 1..(Len(s) - i) : i + k \in DOMAIN s
    BY <1>1
  <2>2. DOMAIN b = 1..(Len(s) - i)
    BY <1>3
  <2> QED
    BY <1>3, <2>1, <2>2, Zenon DEF Range
<1>7. a \o b \in Seq(S) /\ Range(a \o b) = Range(a) \cup Range(b)
  BY <1>2, <1>3, Joined
<1> QED
  BY <1>4, <1>5, <1>6, <1>7, Zenon

\* The first of the alerts that pass a test: __alert_by_uuid and the search by key.
LEMMA FirstIndex ==
    ASSUME NEW T \in SUBSET Nat, T # {}
    PROVE  Min(T) \in T
<1>1. \E x \in T : \A y \in T : ~(<<y, x>> \in OpToRel(<, Nat))
  BY WFMin, NatLessThanWellFounded, Zenon
<1>2. PICK x \in T : \A y \in T : ~(y < x)
  BY <1>1, Zenon DEF OpToRel
<1>3. \A y \in T : x <= y
  BY <1>2
<1> QED
  BY <1>3, Zenon DEF Min

-----------------------------------------------------------------------------
(* What the operations do to the list                                      *)

\* __alert_by_uuid finds the alert.
LEMMA Indexed ==
    ASSUME alerts \in Seq(Alert), NEW u \in Listed
    PROVE  IndexOf(u) \in DOMAIN alerts /\ alerts[IndexOf(u)].uuid = u
<1> DEFINE T == {i \in DOMAIN alerts : alerts[i].uuid = u}
<1>1. DOMAIN alerts = 1..Len(alerts) /\ Len(alerts) \in Nat
  OBVIOUS
<1>2. T \in SUBSET Nat /\ T # {}
  BY <1>1 DEF Listed, UuidsOf, Range
<1>3. Min(T) \in T
  BY <1>2, FirstIndex, Zenon
<1>4. IndexOf(u) = Min(T)
  BY <1>2, Zenon DEF IndexOf
<1> QED
  BY <1>1, <1>3, <1>4, Zenon

\* What makes an alert of this step a new one.
Fresh(b) == /\ KeyOf(b) \notin KeysOf(alerts)
            /\ b.uuid = <<KeyOf(b), born[KeyOf(b)] + 1>> /\ ~b.dismissed

\* handle_alert: the alert that exists, as it is, or a new one.
LEMMA Handled ==
    ASSUME alerts \in Seq(Alert), born \in [Keys -> Nat], NEW k \in Keys
    PROVE  /\ handle_alert(k) \in Alert /\ KeyOf(handle_alert(k)) = k
           /\ \/ k \in KeysOf(alerts) /\ handle_alert(k) \in Range(alerts)
              \/ k \notin KeysOf(alerts) /\ Fresh(handle_alert(k))
<1> DEFINE T == {i \in DOMAIN alerts : KeyOf(alerts[i]) = k}
<1>1. DOMAIN alerts = 1..Len(alerts) /\ Len(alerts) \in Nat
  OBVIOUS
<1>2. CASE k \in KeysOf(alerts)
  <2>1. T \in SUBSET Nat /\ T # {}
    BY <1>1, <1>2 DEF KeysOf, Range
  <2>2. Min(T) \in T
    BY <2>1, FirstIndex, Zenon
  <2>3. handle_alert(k) = alerts[Min(T)]
    BY <1>2, <2>1, Zenon DEF handle_alert
  <2>4. Min(T) \in DOMAIN alerts /\ KeyOf(alerts[Min(T)]) = k
    BY <1>1, <2>2, Zenon
  <2> HIDE DEF T
  <2> QED
    BY <1>2, <2>3, <2>4 DEF Range
<1>3. CASE k \notin KeysOf(alerts)
  <2>1. handle_alert(k) = [uuid |-> <<k, born[k] + 1>>, dismissed |-> FALSE]
    BY <1>3, Zenon DEF handle_alert
  <2>2. handle_alert(k) \in Alert
    BY <2>1 DEF Alert, Uuids
  <2>3. KeyOf(handle_alert(k)) = k
    BY <2>1 DEF KeyOf
  <2> QED
    BY <1>3, <2>1, <2>2, <2>3 DEF Fresh
<1> QED
  BY <1>2, <1>3, Zenon

\* What check() reports is a list of keys of the source.
LEMMA Reported ==
    ASSUME NEW s \in Sources, NEW found \in Reports(s)
    PROVE  /\ DOMAIN found = 1..Len(found) /\ Len(found) \in Nat
           /\ \A i \in DOMAIN found : found[i] \in {s} \X (Issues \cup {Failed})
<1>1. PICK J \in (SUBSET Issues) \cup {{Failed}} : found \in Orders({s} \X J)
  BY Zenon DEF Reports
<1>2. IsFiniteSet(J) /\ J \subseteq Issues \cup {Failed}
  BY <1>1, AlertsAssumption, FS_Subset, FS_Singleton, Zenon
<1>3. IsFiniteSet({s} \X J)
  BY <1>2, FS_Product, FS_Singleton, Zenon
<1>4. Cardinality({s} \X J) \in Nat
  BY <1>3, FS_CardinalityType, Zenon
<1>5. found \in [1..Cardinality({s} \X J) -> {s} \X J]
  BY <1>1, Zenon DEF Orders, Bijection, Injection
<1>6. PICK n \in Nat : found \in [1..n -> {s} \X J]
  BY <1>4, <1>5, Zenon
<1>7. Len(found) = n /\ DOMAIN found = 1..n
  BY <1>6
<1> QED
  BY <1>2, <1>6, <1>7, Zenon

\* What a step keeps of the alerts, and that it adds new ones only.
KeepsOrMakes == \A b \in Range(alerts') : b \in Range(alerts) \/ Fresh(b)

\* The turn of a source: alerts that are not its own stay as they are.
LEMMA SourceAlerts ==
    ASSUME TypeOK, NEW s \in Sources, run_source(s)
    PROVE  /\ alerts' \in Seq(Alert)
           /\ KeepsOrMakes
           /\ {a \in Range(alerts) : KeyOf(a) \in OneShots} \subseteq Range(alerts')
           /\ \A b \in Range(alerts') : KeyOf(b) \in OneShots => b \in Range(alerts)
           /\ \A b \in Range(alerts') : Fresh(b) => born'[KeyOf(b)] = born[KeyOf(b)] + 1
           /\ born' \in [Keys -> Nat]
           /\ \A k \in Keys : born'[k] >= born[k]
<1> DEFINE own    == {s} \X (Issues \cup {Failed})
           mine   == {a \in Range(alerts) : KeyOf(a) \in own}
           others == Only(alerts, Range(alerts) \ mine)
<1>1. alerts \in Seq(Alert) /\ born \in [Keys -> Nat] /\ own \subseteq Keys
  BY Zenon DEF TypeOK, Keys
<1>2. others \in Seq(Alert) /\ Range(others) = Range(alerts) \ mine
  <2>1. Range(alerts) \cap (Range(alerts) \ mine) = Range(alerts) \ mine
    OBVIOUS
  <2> HIDE DEF mine
  <2> QED
    BY <1>1, <2>1, OnlyProperties, Zenon
<1>3. Only(alerts, mine) \in Seq(Alert) /\ Range(Only(alerts, mine)) = mine
  <2>1. Range(alerts) \cap mine = mine
    OBVIOUS
  <2> HIDE DEF mine
  <2> QED
    BY <1>1, <2>1, OnlyProperties, Zenon
<1>4. \A a \in Range(alerts) : KeyOf(a) \in OneShots => a \notin mine
  BY AlertsAssumption
<1>a. mine \subseteq Range(alerts) /\ \A a \in Range(alerts) : ~Fresh(a)
  BY Zenon DEF Fresh, KeysOf
<1>b. \A k \in Keys : born[k] >= born[k]
  BY <1>1
<1>5. CASE UNCHANGED <<alerts, born>>
  BY <1>1, <1>5, <1>a, <1>b, Zenon DEF KeepsOrMakes
<1>6. CASE alerts' = others \o Only(alerts, mine) /\ UNCHANGED born
  <2> HIDE DEF mine, others
  <2>1. alerts' \in Seq(Alert) /\ Range(alerts') = Range(alerts)
    <3>1. /\ others \o Only(alerts, mine) \in Seq(Alert)
          /\ Range(others \o Only(alerts, mine)) = (Range(alerts) \ mine) \cup mine
      BY <1>2, <1>3, Joined
    <3>2. (Range(alerts) \ mine) \cup mine = Range(alerts)
      BY <1>a, Zenon
    <3> QED
      BY <1>6, <3>1, <3>2, Zenon
  <2> QED
    BY <1>1, <1>6, <1>a, <1>b, <2>1, Zenon DEF KeepsOrMakes
<1>7. ASSUME NEW found \in Reports(s), Bear(Range(found)),
             alerts' = others \o [i \in DOMAIN found |-> handle_alert(found[i])]
      PROVE  /\ alerts' \in Seq(Alert)
             /\ born' \in [Keys -> Nat]
             /\ \A k \in Keys : born'[k] >= born[k]
             /\ {a \in Range(alerts) : KeyOf(a) \in OneShots} \subseteq Range(alerts')
             /\ \A b \in Range(alerts') : b \in Range(alerts) \/ Fresh(b)
             /\ \A b \in Range(alerts') : KeyOf(b) \in OneShots => b \in Range(alerts)
             /\ \A b \in Range(alerts') : Fresh(b) => born'[KeyOf(b)] = born[KeyOf(b)] + 1
  <2> DEFINE made == [i \in DOMAIN found |-> handle_alert(found[i])]
  <2>1. /\ DOMAIN found = 1..Len(found) /\ Len(found) \in Nat
        /\ \A i \in DOMAIN found : found[i] \in own /\ found[i] \in Keys
    BY <1>1, Reported, Zenon
  <2>2. \A i \in DOMAIN found :
           /\ handle_alert(found[i]) \in Alert /\ KeyOf(handle_alert(found[i])) = found[i]
           /\ handle_alert(found[i]) \in Range(alerts) \/ Fresh(handle_alert(found[i]))
    BY <1>1, <2>1, Handled, Zenon
  <2>3. made \in Seq(Alert)
    BY <2>1, <2>2, SeqDef
  <2>4. Range(made) = {handle_alert(found[i]) : i \in DOMAIN found}
    BY Zenon DEF Range
  <2>5. alerts' \in Seq(Alert) /\ Range(alerts') = Range(others) \cup Range(made)
    <3>1. alerts' = others \o made
      BY <1>7, Zenon
    <3> HIDE DEF others, made
    <3> QED
      BY <1>2, <2>3, <3>1, Joined
  <2>6. /\ born' \in [Keys -> Nat] /\ \A k \in Keys : born'[k] >= born[k]
        /\ \A k \in Range(found) \ KeysOf(alerts) : born'[k] = born[k] + 1
    BY <1>1, <1>7, <2>1, SMTT(60) DEF Bear, Range
  <2>7. \A b \in Range(made) : /\ KeyOf(b) \in own /\ KeyOf(b) \in Range(found)
                               /\ b \in Range(alerts) \/ Fresh(b)
    BY <2>1, <2>2, <2>4 DEF Range
  <2>8. ASSUME NEW b \in Range(alerts'), Fresh(b)
        PROVE  born'[KeyOf(b)] = born[KeyOf(b)] + 1
    <3>1. b \notin Range(alerts)
      BY <2>8, Zenon DEF Fresh, KeysOf
    <3>2. KeyOf(b) \in Range(found) \ KeysOf(alerts)
      BY <1>2, <2>5, <2>7, <2>8, <3>1, Zenon DEF Fresh
    <3> QED
      BY <2>6, <3>2, Zenon
  <2> HIDE DEF made, mine, others
  <2>9. \A k \in own : k \notin OneShots
    BY AlertsAssumption
  <2> QED
    BY <1>2, <1>4, <2>5, <2>6, <2>7, <2>8, <2>9, Zenon
<1> QED
  BY <1>5, <1>6, <1>7, Zenon DEF run_source, Replace, KeepsOrMakes

\* The alerts that expire_alerts and oneshot_delete leave are alerts there were.
LEMMA FewerAlerts ==
    ASSUME TypeOK, expire_alerts \/ oneshot_delete
    PROVE  alerts' \in Seq(Alert) /\ Range(alerts') \subseteq Range(alerts)
<1>1. \E K : alerts' = Only(alerts, K)
  BY Zenon DEF expire_alerts, oneshot_delete, Replace
<1> QED
  BY <1>1, OnlyProperties DEF TypeOK

\* A job of the queue that creates or deletes names a one-shot alert.
LEMMA JobKeys ==
    ASSUME TypeOK, NEW op \in {"create", "delete"}, Starts(op)
    PROVE  Head(waiting).key \in OneShots /\ Tail(waiting) \in Seq(Job)
<1>1. Head(waiting) \in Job /\ Head(waiting).op = op /\ Tail(waiting) \in Seq(Job)
  BY DEF TypeOK, Starts
<1> QED
  BY <1>1, Zenon DEF Job

\* oneshot_create leaves every alert that is not the one it creates.
LEMMA CreateAlerts ==
    ASSUME TypeOK, oneshot_create
    PROVE  /\ alerts' \in Seq(Alert)
           /\ KeepsOrMakes
           /\ KeysOf(alerts) \subseteq KeysOf(alerts')
           /\ \A b \in Range(alerts') : Fresh(b) => born'[KeyOf(b)] = born[KeyOf(b)] + 1
           /\ born' \in [Keys -> Nat]
           /\ \A k \in Keys : born'[k] >= born[k]
<1> DEFINE key   == Head(waiting).key
           alert == handle_alert(key)
           rest  == {a \in Range(alerts) : a.uuid # alert.uuid}
<1>1. alerts \in Seq(Alert) /\ born \in [Keys -> Nat]
  BY Zenon DEF TypeOK
<1>2. key \in OneShots /\ key \in Keys
  BY JobKeys, Zenon DEF oneshot_create, Keys
<1>3. /\ alert \in Alert /\ KeyOf(alert) = key
      /\ \/ key \in KeysOf(alerts) /\ alert \in Range(alerts)
         \/ key \notin KeysOf(alerts) /\ Fresh(alert)
  <2> HIDE DEF key
  <2> QED
    BY <1>1, <1>2, Handled, Zenon
<1>4. alerts' = Append(Only(alerts, rest), alert) /\ Bear({key})
  BY Zenon DEF oneshot_create, Replace
<1>5. rest \subseteq Range(alerts) /\ \A a \in Range(alerts) \ rest : KeyOf(a) = KeyOf(alert)
  BY Zenon DEF KeyOf
<1>6. /\ born' \in [Keys -> Nat] /\ \A k \in Keys : born'[k] >= born[k]
      /\ key \notin KeysOf(alerts) => born'[key] = born[key] + 1
  BY <1>1, <1>2, <1>4 DEF Bear
<1> HIDE DEF rest, alert, key
<1>7. Only(alerts, rest) \in Seq(Alert) /\ Range(Only(alerts, rest)) = Range(alerts) \cap rest
  BY <1>1, OnlyProperties, Zenon
<1>8. alerts' \in Seq(Alert) /\ Range(alerts') = (Range(alerts) \cap rest) \cup {alert}
  BY <1>3, <1>4, <1>7, Appended
<1>9. KeepsOrMakes
  BY <1>3, <1>8, Zenon DEF KeepsOrMakes
<1>10. KeysOf(alerts) \subseteq KeysOf(alerts')
  BY <1>5, <1>8, Zenon DEF KeysOf
<1>11. ASSUME NEW b \in Range(alerts'), Fresh(b) PROVE born'[KeyOf(b)] = born[KeyOf(b)] + 1
  <2>1. KeyOf(b) \notin KeysOf(alerts) /\ b = alert
    BY <1>8, <1>11, Zenon DEF Fresh, KeysOf
  <2> QED
    BY <1>3, <1>6, <2>1, Zenon
<1> QED
  BY <1>6, <1>8, <1>9, <1>10, <1>11, Zenon

\* dismiss() and restore() change nothing but the mark.
LEMMA Marked ==
    ASSUME NEW a \in Alert, NEW d \in BOOLEAN
    PROVE  /\ [a EXCEPT !.dismissed = d] \in Alert
           /\ [a EXCEPT !.dismissed = d].uuid = a.uuid
           /\ [a EXCEPT !.dismissed = d].dismissed = d
BY Zenon DEF Alert

\* initialize() makes alerts of rows.
LEMMA RowIsAlert ==
    ASSUME NEW u \in Uuids, NEW d \in BOOLEAN
    PROVE  [uuid |-> u, dismissed |-> d] \in Alert
BY Zenon DEF Alert

\* dismiss() removes the alert or marks it.
LEMMA DismissAlerts ==
    ASSUME TypeOK, NEW u \in Listed, dismiss(u)
    PROVE  /\ alerts' \in Seq(Alert)
           /\ \A b \in Range(alerts') : \E a \in Range(alerts) :
                 a.uuid = b.uuid /\ (a = b \/ b.dismissed)
<1> DEFINE i == IndexOf(u)
<1>1. alerts \in Seq(Alert) /\ i \in DOMAIN alerts
  BY Indexed, Zenon DEF TypeOK
<1> HIDE DEF i
<1>2. CASE alerts' = Without(alerts, i)
  BY <1>1, <1>2, WithoutOne, Zenon
<1>3. CASE alerts' = [alerts EXCEPT ![i].dismissed = TRUE]
  <2>1. alerts' = [alerts EXCEPT ![i] = [alerts[i] EXCEPT !.dismissed = TRUE]]
    BY <1>3, Zenon
  <2> DEFINE m == [alerts[i] EXCEPT !.dismissed = TRUE]
  <2>a. alerts[i] \in Alert
    BY <1>1
  <2>2. m \in Alert /\ m.uuid = alerts[i].uuid /\ m.dismissed
    BY <2>a, Marked, Zenon
  <2> HIDE DEF m
  <2>3. alerts' \in Seq(Alert) /\ DOMAIN alerts' = DOMAIN alerts
    BY <1>1, <2>1, <2>2 DEF m
  <2>4. \A k \in DOMAIN alerts : alerts'[k] = IF k = i THEN m ELSE alerts[k]
    BY <1>1, <2>1, Zenon DEF m
  <2> QED
    BY <1>1, <2>2, <2>3, <2>4, Zenon DEF Range
<1> QED
  BY <1>2, <1>3, Zenon DEF dismiss, i

\* restore() unmarks it.
LEMMA RestoreAlerts ==
    ASSUME TypeOK, NEW u \in Listed, restore(u)
    PROVE  /\ alerts' \in Seq(Alert)
           /\ \A b \in Range(alerts') : \E a \in Range(alerts) : a.uuid = b.uuid
<1> DEFINE i == IndexOf(u)
           m == [alerts[i] EXCEPT !.dismissed = FALSE]
<1>1. alerts \in Seq(Alert) /\ i \in DOMAIN alerts
  BY Indexed, Zenon DEF TypeOK
<1>2. alerts' = [alerts EXCEPT ![i] = m]
  BY Zenon DEF restore
<1> HIDE DEF i
<1>a. alerts[i] \in Alert
  BY <1>1
<1>3. m \in Alert /\ m.uuid = alerts[i].uuid
  BY <1>a, Marked, Zenon
<1> HIDE DEF m
<1>4. alerts' \in Seq(Alert) /\ DOMAIN alerts' = DOMAIN alerts
  BY <1>1, <1>2, <1>3
<1>5. \A k \in DOMAIN alerts : alerts'[k] = IF k = i THEN m ELSE alerts[k]
  BY <1>1, <1>2, Zenon
<1> QED
  BY <1>1, <1>3, <1>4, <1>5, Zenon DEF Range

\* initialize() adds rows of the table.
LEMMA InitializeAlerts ==
    ASSUME TypeOK, IsFiniteSet(db), initialize
    PROVE  alerts' \in Seq(Alert) /\ UuidsOf(alerts') \subseteq Listed \cup db
<1>1. PICK D \in SUBSET db : \E rows \in Orders(D) : \E M \in SUBSET D :
         alerts' = alerts \o [i \in DOMAIN rows |-> [uuid |-> rows[i], dismissed |-> rows[i] \in M]]
  <2>1. PICK dropped : \E rows \in Orders(db \ dropped) : \E marked \in SUBSET (db \ dropped) :
           alerts' = alerts \o [i \in DOMAIN rows |-> [uuid |-> rows[i], dismissed |-> rows[i] \in marked]]
    BY Zenon DEF initialize
  <2>2. db \ dropped \in SUBSET db
    OBVIOUS
  <2> QED
    BY <2>1, <2>2, Zenon
<1>a. PICK rows \in Orders(D) : \E M \in SUBSET D :
         alerts' = alerts \o [i \in DOMAIN rows |-> [uuid |-> rows[i], dismissed |-> rows[i] \in M]]
  BY <1>1, Zenon
<1>b. PICK M \in SUBSET D :
         alerts' = alerts \o [i \in DOMAIN rows |-> [uuid |-> rows[i], dismissed |-> rows[i] \in M]]
  BY <1>a, Zenon
<1> DEFINE loaded == [i \in DOMAIN rows |-> [uuid |-> rows[i], dismissed |-> rows[i] \in M]]
<1>2. Cardinality(D) \in Nat
  BY <1>1, FS_Subset, FS_CardinalityType, Zenon
<1>3. rows \in [1..Cardinality(D) -> D]
  BY <1>a, Zenon DEF Orders, Bijection, Injection
<1>4. PICK n \in Nat : rows \in [1..n -> D]
  BY <1>2, <1>3, Zenon
<1>5. alerts \in Seq(Alert) /\ D \subseteq Uuids
  BY <1>1, Zenon DEF TypeOK
<1>6. \A i \in 1..n : loaded[i] = [uuid |-> rows[i], dismissed |-> rows[i] \in M]
  BY <1>4, Zenon
<1>7. \A i \in 1..n : loaded[i] \in Alert /\ loaded[i].uuid \in db
  <2> SUFFICES ASSUME NEW i \in 1..n PROVE loaded[i] \in Alert /\ loaded[i].uuid \in db
    BY SMTT(60)
  <2>1. rows[i] \in Uuids /\ rows[i] \in db /\ (rows[i] \in M) \in BOOLEAN
    BY <1>1, <1>4, <1>5
  <2>2. loaded[i] = [uuid |-> rows[i], dismissed |-> rows[i] \in M]
    BY <1>6, Zenon
  <2> HIDE DEF loaded
  <2>3. loaded[i].uuid = rows[i]
    BY <2>2
  <2>4. loaded[i] \in Alert
    BY <2>1, <2>2, RowIsAlert, Zenon
  <2> QED
    BY <2>1, <2>3, <2>4
<1>8. loaded = [i \in 1..n |-> loaded[i]]
  BY <1>4, Zenon
<1> HIDE DEF loaded
<1>9. loaded \in Seq(Alert) /\ \A b \in Range(loaded) : b.uuid \in db
  <2>1. loaded \in [1..n -> Alert]
    BY <1>7, <1>8, Zenon
  <2>2. loaded \in Seq(Alert)
    BY <1>4, <2>1, SeqDef
  <2> QED
    BY <1>7, <2>1, <2>2 DEF Range
<1>10. alerts' = alerts \o loaded
  BY <1>b, Zenon DEF loaded
<1>11. alerts' \in Seq(Alert) /\ Range(alerts') = Range(alerts) \cup Range(loaded)
  BY <1>5, <1>9, <1>10, Joined
<1> QED
  BY <1>9, <1>11, Zenon DEF Listed, UuidsOf

\* The uuids of a list of alerts.
LEMMA UuidsTyped ==
    ASSUME NEW s \in Seq(Alert)
    PROVE  Range(s) \subseteq Alert /\ UuidsOf(s) \subseteq Uuids
<1>1. Range(s) \subseteq Alert
  BY DEF Range
<1> QED
  BY <1>1, Zenon DEF UuidsOf, Alert

\* The queue of jobs holds jobs, whatever is called or taken.
LEMMA QueueTyped ==
    ASSUME NEW q \in Seq(Job)
    PROVE  /\ CallSend(q) \in Seq(Job)
           /\ q # <<>> => Tail(q) \in Seq(Job)
           /\ <<[op |-> "process"]>> \in Seq(Job)
           /\ \A op \in {"create", "delete"}, k \in OneShots : Append(q, [op |-> op, key |-> k]) \in Seq(Job)
<1>1. [op |-> "process"] \in Job /\ [op |-> "send"] \in Job
  BY Zenon DEF Job
<1>2. \A op \in {"create", "delete"}, k \in OneShots : [op |-> op, key |-> k] \in Job
  BY Zenon DEF Job
<1> QED
  BY <1>1, <1>2 DEF CallSend

\* What a caller of flush_alerts is doing.
FlushState == [pc : {"idle", "called", "live", "stale"}, at : Nat, list : Seq(Alert)]

\* What flush_alerts and its callers set is well typed.
LEMMA FlushTyped ==
    ASSUME TypeOK
    PROVE  /\ NoFlush \in FlushState
           /\ [f \in Flushers |-> NoFlush] \in [Flushers -> FlushState]
           /\ \A f \in Flushers : flush[f] \in FlushState
           /\ \A f \in Flushers : [flush EXCEPT ![f] = NoFlush] \in [Flushers -> FlushState]
           /\ \A f \in Flushers : [flush EXCEPT ![f].pc = "called"] \in [Flushers -> FlushState]
           /\ \A f \in Flushers : [flush EXCEPT ![f].at = @ + 1] \in [Flushers -> FlushState]
           /\ \A f \in Flushers : [flush EXCEPT ![f] = [flush[f] EXCEPT !.pc = "live", !.at = 1]] \in [Flushers -> FlushState]
<1>1. flush \in [Flushers -> FlushState] /\ \A f \in Flushers : flush[f] \in FlushState
  BY Zenon DEF TypeOK, FlushState
<1>2. NoFlush \in FlushState
  BY DEF NoFlush, FlushState
<1>3. ASSUME NEW r \in FlushState
      PROVE  /\ [r EXCEPT !.pc = "called"] \in FlushState
             /\ [r EXCEPT !.at = r.at + 1] \in FlushState
             /\ [r EXCEPT !.pc = "live", !.at = 1] \in FlushState
  <2>1. r.at \in Nat /\ r.at + 1 \in Nat
    BY DEF FlushState
  <2>2. [r EXCEPT !.pc = "called"] \in FlushState
    BY Zenon DEF FlushState
  <2>3. [r EXCEPT !.at = r.at + 1] \in FlushState
    BY <2>1, Zenon DEF FlushState
  <2>4. [r EXCEPT !.pc = "live", !.at = 1] \in FlushState
    BY Zenon DEF FlushState
  <2> QED
    BY <2>2, <2>3, <2>4, Zenon
<1>4. \A f \in Flushers : \A r \in FlushState : [flush EXCEPT ![f] = r] \in [Flushers -> FlushState]
  BY <1>1, Zenon
<1>5. \A f \in Flushers : /\ [flush EXCEPT ![f].pc = "called"] = [flush EXCEPT ![f] = [flush[f] EXCEPT !.pc = "called"]]
                          /\ [flush EXCEPT ![f].at = @ + 1] = [flush EXCEPT ![f] = [flush[f] EXCEPT !.at = flush[f].at + 1]]
  BY <1>1, Zenon
<1> QED
  BY <1>1, <1>2, <1>3, <1>4, <1>5, Zenon

\* self.alerts becomes another list.
LEMMA ReplaceTyped ==
    ASSUME TypeOK, NEW list \in Seq(Alert), Replace(list)
    PROVE  alerts' \in Seq(Alert) /\ flush' \in [Flushers -> FlushState]
<1>1. flush \in [Flushers -> FlushState] /\ alerts \in Seq(Alert)
  BY Zenon DEF TypeOK, FlushState
<1>2. \A f \in Flushers : [flush[f] EXCEPT !.pc = "stale", !.list = alerts] \in FlushState
  BY <1>1, Zenon DEF FlushState
<1> QED
  BY <1>1, <1>2, Zenon DEF Replace

-----------------------------------------------------------------------------
(* Type correctness                                                        *)

\* Why TypeOK holds: the table that initialize() makes a list of is finite, and a flush that
\* has begun is at an element of its list or past the last one.
TypeInv ==
    /\ TypeOK /\ IsFiniteSet(db)
    /\ \A f \in Flushers : flush[f].pc \in {"live", "stale"} => flush[f].at # 0

\* The parts of TypeOK that need no lists.
PlainOK ==
    /\ policy \subseteq Uuids /\ view \subseteq Uuids /\ db \subseteq Uuids
    /\ gone \subseteq Uuids /\ new \subseteq Uuids /\ deleted \subseteq Uuids /\ doubt \subseteq Uuids
    /\ pc \in {"idle", "sources", "recheck", "receive", "announce", "flush"}
    /\ todo \subseteq Sources
    /\ init \in {"load", "done", "reset"}
    /\ state \in {"BOOTING", "READY", "SHUTTING_DOWN"} /\ on_ready \in BOOLEAN
    /\ ha \in {"active", "leaving", "backup", "taking"}
    /\ resets \in 0..MaxFaults /\ ops \in 0..MaxOps /\ faults \in 0..MaxFaults

\* The lists, the queue and the flushes.
ListsOK ==
    /\ alerts \in Seq(Alert) /\ valid \in Seq(Alert)
    /\ born \in [Keys -> Nat]
    /\ waiting \in Seq(Job)
    /\ flush \in [Flushers -> FlushState]

\* TypeOK in two parts, for the proofs below.
LEMMA TypeOKParts == TypeOK <=> PlainOK /\ ListsOK
BY Zenon DEF TypeOK, PlainOK, ListsOK, FlushState

\* Every step of the alert service keeps the lists, the queue and the flushes well typed.
LEMMA StepKeepsLists ==
    ASSUME TypeInv, [Next]_vars
    PROVE  ListsOK'
<1> USE DEF jobVars, sysVars, envVars, history
<1>0. TypeOK /\ IsFiniteSet(db) /\ ListsOK
  BY TypeOKParts, Zenon DEF TypeInv
<1>a. /\ alerts \in Seq(Alert) /\ valid \in Seq(Alert) /\ <<>> \in Seq(Alert)
      /\ born \in [Keys -> Nat] /\ waiting \in Seq(Job) /\ flush \in [Flushers -> FlushState]
  BY <1>0 DEF ListsOK
<1>b. /\ CallSend(waiting) \in Seq(Job)
      /\ waiting # <<>> => Tail(waiting) \in Seq(Job) /\ CallSend(Tail(waiting)) \in Seq(Job)
      /\ <<[op |-> "process"]>> \in Seq(Job)
      /\ \A op \in {"create", "delete"}, k \in OneShots : Append(waiting, [op |-> op, key |-> k]) \in Seq(Job)
  BY <1>a, QueueTyped, Zenon
<1>1. CASE ProcessTick
  BY <1>1, <1>a, <1>b, Zenon DEF ProcessTick, ListsOK
<1>2. CASE process_alerts
  BY <1>2, <1>a, <1>b, Zenon DEF process_alerts, Starts, ListsOK
<1>3. ASSUME NEW s \in Sources, run_source(s) PROVE ListsOK'
  <2>1. UNCHANGED <<valid, waiting>> /\ (UNCHANGED flush \/ Replace(alerts'))
    BY <1>3, Zenon DEF run_source, Replace
  <2>2. alerts' \in Seq(Alert) /\ born' \in [Keys -> Nat]
    BY <1>0, <1>3, SourceAlerts, Zenon
  <2>3. flush' \in [Flushers -> FlushState]
    BY <1>0, <1>a, <2>1, <2>2, ReplaceTyped
  <2> QED
    BY <1>a, <2>1, <2>2, <2>3 DEF ListsOK
<1>4. CASE expire_alerts
  <2>1. UNCHANGED <<valid, waiting, born>> /\ Replace(alerts')
    BY <1>4, Zenon DEF expire_alerts, Replace
  <2>2. alerts' \in Seq(Alert)
    BY <1>0, <1>4, FewerAlerts
  <2> QED
    BY <1>0, <1>a, <2>1, <2>2, ReplaceTyped, Zenon DEF ListsOK
<1>5. CASE process_alerts_ends
  <2>1. /\ valid' = <<>> /\ UNCHANGED born /\ waiting' \in {waiting, CallSend(waiting)}
        /\ Replace(valid) \/ UNCHANGED <<alerts, flush>>
    BY <1>5, Zenon DEF process_alerts_ends
  <2> QED
    BY <1>0, <1>a, <1>b, <2>1, ReplaceTyped DEF ListsOK
<1>6. CASE send_alerts
  BY <1>6, <1>a, <1>b DEF send_alerts, Starts, ListsOK
<1>7. CASE receive_alerts
  BY <1>7, <1>a, Zenon DEF receive_alerts, ListsOK
<1>8. CASE announce
  BY <1>8, <1>a, Zenon DEF announce, ListsOK
<1>9. CASE oneshot_create
  <2>1. waiting # <<>> /\ waiting' = CallSend(Tail(waiting)) /\ UNCHANGED valid /\ Replace(alerts')
    BY <1>9, Zenon DEF oneshot_create, Starts, Replace
  <2>2. alerts' \in Seq(Alert) /\ born' \in [Keys -> Nat]
    BY <1>0, <1>9, CreateAlerts, Zenon
  <2> QED
    BY <1>0, <1>a, <1>b, <2>1, <2>2, ReplaceTyped DEF ListsOK
<1>10. CASE oneshot_delete
  <2>1. /\ waiting # <<>> /\ waiting' = Tail(waiting) /\ UNCHANGED <<valid, born>>
        /\ UNCHANGED flush \/ flush' = [flush EXCEPT !["delete"].pc = "called"]
    BY <1>10, Zenon DEF oneshot_delete, Starts
  <2>2. alerts' \in Seq(Alert)
    BY <1>0, <1>10, FewerAlerts, Zenon
  <2>3. flush' \in [Flushers -> FlushState]
    BY <1>0, <1>a, <2>1, FlushTyped, Zenon DEF Flushers
  <2> QED
    BY <1>a, <1>b, <2>1, <2>2, <2>3 DEF ListsOK
<1>11. CASE FlushTick
  <2>1. flush' \in [Flushers -> FlushState]
    BY <1>0, <1>11, FlushTyped, Zenon DEF FlushTick, Flushers
  <2> QED
    BY <1>11, <1>a, <2>1 DEF FlushTick, ListsOK
<1>12. ASSUME NEW f \in Flushers, flush_alerts(f) PROVE ListsOK'
  <2>1. /\ UNCHANGED <<alerts, valid, born>> /\ waiting' \in {waiting, CallSend(waiting)}
        /\ \/ flush' = [flush EXCEPT ![f] = NoFlush]
           \/ flush' = [flush EXCEPT ![f] = [flush[f] EXCEPT !.pc = "live", !.at = 1]]
           \/ flush' = [flush EXCEPT ![f].at = @ + 1]
    <3>1. CASE flush_skipped(f) \/ flush_ends(f)
      BY <3>1, Zenon DEF flush_skipped, flush_ends, Returns
    <3>2. CASE flush_begins(f)
      BY <3>2 DEF flush_begins
    <3>3. CASE flush_inserts(f)
      BY <3>3, Zenon DEF flush_inserts
    <3> QED
      BY <1>12, <3>1, <3>2, <3>3, Zenon DEF flush_alerts
  <2>2. flush' \in [Flushers -> FlushState]
    BY <1>0, <2>1, FlushTyped, ZenonT(120)
  <2> QED
    BY <1>a, <1>b, <2>1, <2>2 DEF ListsOK
<1>13. ASSUME NEW op \in {"create", "delete"}, NEW k \in OneShots, CallJob(op, k) PROVE ListsOK'
  BY <1>13, <1>a, <1>b, Zenon DEF CallJob, ListsOK
<1>14. ASSUME NEW u \in Listed, dismiss(u) PROVE ListsOK'
  <2>1. alerts' \in Seq(Alert)
    BY <1>0, <1>14, DismissAlerts, Zenon
  <2> QED
    BY <1>14, <1>a, <2>1, Zenon DEF dismiss, ListsOK
<1>15. ASSUME NEW u \in Listed, restore(u) PROVE ListsOK'
  <2>1. alerts' \in Seq(Alert)
    BY <1>0, <1>15, RestoreAlerts
  <2> QED
    BY <1>15, <1>a, <2>1, Zenon DEF restore, ListsOK
<1>16. CASE initialize
  <2>1. alerts' \in Seq(Alert)
    BY <1>0, <1>16, InitializeAlerts, Zenon
  <2>2. UNCHANGED <<valid, born, waiting, flush>>
    BY <1>16, Zenon DEF initialize
  <2> QED
    BY <1>a, <2>1, <2>2 DEF ListsOK
<1>17. CASE Ready
  BY <1>17, <1>a, <1>b, Zenon DEF Ready, ListsOK
<1>18. CASE ShutDown
  BY <1>18, <1>a, Zenon DEF ShutDown, ListsOK
<1>19. CASE Restart
  <2>a. <<>> \in Seq(Job)
    OBVIOUS
  <2>1. [f \in Flushers |-> NoFlush] \in [Flushers -> FlushState]
    BY <1>0, FlushTyped, Zenon
  <2>2. /\ alerts' = <<>> /\ valid' = <<>> /\ waiting' = <<>> /\ UNCHANGED born
        /\ flush' = [f \in Flushers |-> NoFlush]
    BY <1>19, Zenon DEF Restart
  <2> QED
    BY <1>a, <2>a, <2>1, <2>2 DEF ListsOK
<1>20. CASE FailoverBegins
  BY <1>20, <1>a, Zenon DEF FailoverBegins, ListsOK
<1>21. CASE initialize_reset
  <2>1. [NoFlush EXCEPT !.pc = "called"] \in FlushState
    <3>1. \A r \in FlushState : [r EXCEPT !.pc = "called"] \in FlushState
      BY Zenon DEF FlushState
    <3> QED
      BY <1>0, <3>1, FlushTyped, Zenon
  <2>2. \A f \in Flushers : [flush[f] EXCEPT !.pc = "stale", !.list = alerts] \in FlushState
    BY <1>a, Zenon DEF FlushState
  <2>3. flush' \in [Flushers -> FlushState]
    BY <1>21, <1>a, <2>1, <2>2, Zenon DEF initialize_reset
  <2> QED
    BY <1>21, <1>a, <2>3, Zenon DEF initialize_reset, ListsOK
<1>22. CASE FailoverEnds
  BY <1>22, <1>a, Zenon DEF FailoverEnds, ListsOK
<1>23. CASE UNCHANGED vars
  BY <1>23, <1>a DEF vars, ListsOK
<1> QED
  BY <1>1, <1>2, <1>3, <1>4, <1>5, <1>6, <1>7, <1>8, <1>9, <1>10, <1>11, <1>12, <1>13, <1>14, <1>15,
     <1>16, <1>17, <1>18, <1>19, <1>20, <1>21, <1>22, <1>23 DEF Next, JobStep

\* The row that a flush inserts is that of an alert of its list.
LEMMA Inserted ==
    ASSUME TypeInv, NEW f \in Flushers, flush_inserts(f)
    PROVE  \E a \in Range(Iterated(f)) : /\ a \in Alert /\ a.uuid \in Uuids
                                         /\ db' = db \cup {a.uuid} /\ doubt' = doubt \cup ({a.uuid} \ Listed)
<1> DEFINE l == Iterated(f)
           i == flush[f].at
<1>1. l \in Seq(Alert) /\ i \in Nat
  BY Zenon DEF TypeInv, TypeOK, Iterated
<1>2. i # 0 /\ i <= Len(l) /\ db' = db \cup {l[i].uuid} /\ doubt' = doubt \cup ({l[i].uuid} \ Listed)
  BY DEF TypeInv, flush_inserts
<1> HIDE DEF l, i
<1>3. i \in DOMAIN l /\ l[i] \in Alert
  BY <1>1, <1>2
<1>4. l[i] \in Range(l) /\ l[i].uuid \in Uuids
  BY <1>3, Zenon DEF Range, Alert
<1> QED
  BY <1>2, <1>3, <1>4, Zenon DEF l

\* Every step keeps the rest of TypeOK.
LEMMA StepKeepsPlain ==
    ASSUME TypeInv, [Next]_vars
    PROVE  PlainOK' /\ IsFiniteSet(db')
<1> USE DEF jobVars, sysVars, envVars, history
<1>0. TypeOK /\ PlainOK /\ IsFiniteSet(db)
  BY TypeOKParts DEF TypeInv
<1>a. Listed \subseteq Uuids /\ UuidsOf(alerts') \subseteq Uuids
  BY <1>0, StepKeepsLists, UuidsTyped, Zenon DEF TypeOK, ListsOK, Listed
<1>b. MaxOps \in Nat /\ MaxFaults \in Nat
  BY AlertsAssumption, Zenon
<1>c. IsFiniteSet({})
  BY FS_EmptySet
<1>1. CASE ProcessTick
  BY <1>0, <1>1, ZenonT(120) DEF ProcessTick, PlainOK
<1>2. CASE process_alerts
  BY <1>0, <1>2, ZenonT(120) DEF process_alerts, PlainOK
<1>3. ASSUME NEW s \in Sources, run_source(s) PROVE PlainOK' /\ IsFiniteSet(db')
  <2>1. todo' = todo \ {s} /\ UNCHANGED <<policy, view, db, pc, gone, new, sysVars, envVars, history>>
    BY <1>3, Zenon DEF run_source
  <2> QED
    BY <1>0, <2>1 DEF PlainOK
<1>4. CASE expire_alerts
  <2>1. pc' = "recheck" /\ UNCHANGED <<policy, view, db, todo, gone, new, sysVars, envVars, history>>
    BY <1>4, Zenon DEF expire_alerts
  <2> QED
    BY <1>0, <2>1, Zenon DEF PlainOK
<1>5. CASE process_alerts_ends
  BY <1>0, <1>5, Zenon DEF process_alerts_ends, PlainOK
<1>6. CASE send_alerts
  BY <1>0, <1>6, Zenon DEF send_alerts, PlainOK
<1>7. CASE receive_alerts
  BY <1>0, <1>7, <1>a DEF receive_alerts, PlainOK
<1>8. CASE announce
  BY <1>0, <1>8, Zenon DEF announce, PlainOK
<1>9. CASE oneshot_create
  <2>1. UNCHANGED <<policy, view, db, pc, todo, gone, new, sysVars, envVars, history>>
    BY <1>9, Zenon DEF oneshot_create
  <2> QED
    BY <1>0, <2>1 DEF PlainOK
<1>10. CASE oneshot_delete
  <2>1. /\ pc' \in {pc, "flush"} /\ deleted' = deleted \cup (Listed \ UuidsOf(alerts'))
        /\ UNCHANGED <<policy, view, db, todo, gone, new, sysVars, envVars, doubt>>
    BY <1>10 DEF oneshot_delete
  <2> QED
    BY <1>0, <1>a, <2>1, ZenonT(120) DEF PlainOK
<1>11. CASE FlushTick
  BY <1>0, <1>11, <1>b DEF FlushTick, Called, PlainOK
<1>12. ASSUME NEW f \in Flushers, flush_alerts(f) PROVE PlainOK' /\ IsFiniteSet(db')
  <2>1. CASE flush_skipped(f) \/ flush_ends(f)
    <3>1. /\ deleted' \subseteq deleted /\ policy' \in {policy, Listed} /\ pc' \in {pc, "idle"}
          /\ init' \in {init, "done"}
          /\ UNCHANGED <<view, db, todo, gone, new, state, on_ready, ha, resets, envVars, doubt>>
      BY <2>1, Zenon DEF flush_skipped, flush_ends, Returns
    <3> QED
      BY <1>0, <1>a, <3>1 DEF PlainOK
  <2>2. CASE flush_begins(f)
    BY <1>0, <1>c, <2>2 DEF flush_begins, PlainOK
  <2>3. CASE flush_inserts(f)
    <3>1. PICK u \in Uuids : db' = db \cup {u} /\ doubt' = doubt \cup ({u} \ Listed)
      BY <2>3, Inserted, Zenon
    <3>2. UNCHANGED <<policy, view, jobVars, sysVars, envVars, deleted>>
      BY <2>3, Zenon DEF flush_inserts
    <3>3. IsFiniteSet(db')
      BY <1>0, <3>1, FS_AddElement
    <3> QED
      BY <1>0, <3>1, <3>2, <3>3 DEF PlainOK
  <2> QED
    BY <1>12, <2>1, <2>2, <2>3, ZenonT(120) DEF flush_alerts
<1>13. ASSUME NEW op \in {"create", "delete"}, NEW k \in OneShots, CallJob(op, k) PROVE PlainOK' /\ IsFiniteSet(db')
  BY <1>0, <1>13, <1>b DEF CallJob, Called, PlainOK
<1>14. ASSUME NEW u \in Listed, dismiss(u) PROVE PlainOK' /\ IsFiniteSet(db')
  <2>1. /\ Called /\ policy' \subseteq policy /\ view' \subseteq view
        /\ UNCHANGED <<db, jobVars, sysVars, faults, history>>
    BY <1>14, Zenon DEF dismiss
  <2> QED
    BY <1>0, <1>b, <2>1 DEF Called, PlainOK
<1>15. ASSUME NEW u \in Listed, restore(u) PROVE PlainOK' /\ IsFiniteSet(db')
  <2>1. Called /\ UNCHANGED <<policy, view, db, jobVars, sysVars, faults, history>>
    BY <1>15, Zenon DEF restore
  <2> QED
    BY <1>0, <1>b, <2>1 DEF Called, PlainOK
<1>16. CASE initialize
  <2>1. /\ init' = "done" /\ policy' = UuidsOf(alerts') /\ view' = UuidsOf(alerts')
        /\ doubt' = doubt \cup (UuidsOf(alerts') \cap deleted)
        /\ UNCHANGED <<db, jobVars, state, on_ready, ha, resets, envVars, deleted>>
    BY <1>16, Zenon DEF initialize
  <2> QED
    BY <1>0, <1>a, <2>1, Zenon DEF PlainOK
<1>17. CASE Ready
  BY <1>0, <1>17, Zenon DEF Ready, PlainOK
<1>18. CASE ShutDown
  BY <1>0, <1>18, <1>b DEF ShutDown, Fault, PlainOK
<1>19. CASE Restart
  <2>1. on_ready' \in BOOLEAN
    BY <1>19, Zenon DEF Restart
  <2>2. /\ faults' = faults \/ Fault
        /\ policy' = {} /\ view' = {} /\ pc' = "idle" /\ todo' = {} /\ gone' = {} /\ new' = {}
        /\ init' = "load" /\ state' = "BOOTING" /\ deleted' \subseteq deleted
        /\ UNCHANGED <<db, ha, resets, ops, doubt>>
    BY <1>19 DEF Restart
  <2>3. faults' \in 0..MaxFaults
    BY <1>0, <1>b, <2>2 DEF Fault, PlainOK
  <2> QED
    BY <1>0, <2>1, <2>2, <2>3, Zenon DEF PlainOK
<1>20. CASE FailoverBegins
  BY <1>0, <1>20, <1>b DEF FailoverBegins, Fault, PlainOK
<1>21. CASE initialize_reset
  <2>1. /\ resets < MaxFaults /\ resets' = resets + 1 /\ init' = "reset"
        /\ UNCHANGED <<policy, view, db, jobVars, state, on_ready, ha, envVars, history>>
    BY <1>21, Zenon DEF initialize_reset
  <2> QED
    BY <1>0, <1>b, <2>1 DEF PlainOK
<1>22. CASE FailoverEnds
  BY <1>0, <1>22, ZenonT(120) DEF FailoverEnds, PlainOK
<1>23. CASE UNCHANGED vars
  BY <1>0, <1>23 DEF vars, PlainOK
<1> QED
  BY <1>1, <1>2, <1>3, <1>4, <1>5, <1>6, <1>7, <1>8, <1>9, <1>10, <1>11, <1>12, <1>13, <1>14, <1>15,
     <1>16, <1>17, <1>18, <1>19, <1>20, <1>21, <1>22, <1>23, ZenonT(120) DEF Next, JobStep

\* initialize(False) begins its own flush and gives the others the list they go through.
LEMMA ResetFlush ==
    ASSUME initialize_reset, NEW f \in Flushers
    PROVE  \/ flush'[f] = [NoFlush EXCEPT !.pc = "called"] \/ flush'[f] = flush[f]
           \/ flush[f].pc = "live" /\ flush'[f] = [flush[f] EXCEPT !.pc = "stale", !.list = alerts]
<1>1. flush'[f] = CASE f = "reset" -> [NoFlush EXCEPT !.pc = "called"]
                    [] flush[f].pc = "live" -> [flush[f] EXCEPT !.pc = "stale", !.list = alerts]
                    [] OTHER -> flush[f]
  BY Zenon DEF initialize_reset
<1> QED
  BY <1>1, Zenon

\* A flush that has begun is at an element of its list or past the last one.
LEMMA StepKeepsPlace ==
    ASSUME TypeInv, [Next]_vars
    PROVE  \A f \in Flushers : flush'[f].pc \in {"live", "stale"} => flush'[f].at # 0
<1> USE DEF jobVars, sysVars, envVars, history
<1>0. /\ flush \in [Flushers -> FlushState]
      /\ \A f \in Flushers : flush[f].pc \in {"live", "stale"} => flush[f].at # 0
      /\ \A f \in Flushers : flush[f] \in FlushState /\ flush[f].at \in Nat
  BY Zenon DEF TypeInv, TypeOK, FlushState
<1>1. CASE UNCHANGED flush
  BY <1>0, <1>1, Zenon
<1>2. ASSUME NEW list, Replace(list) PROVE \A f \in Flushers : flush'[f].pc \in {"live", "stale"} => flush'[f].at # 0
  <2>1. \A f \in Flushers : flush'[f] = flush[f] \/ (flush[f].pc = "live" /\ flush'[f] = [flush[f] EXCEPT !.pc = "stale", !.list = alerts])
    BY <1>2, Zenon DEF Replace
  <2>2. \A f \in Flushers : [flush[f] EXCEPT !.pc = "stale", !.list = alerts].at = flush[f].at
    BY <1>0, Zenon DEF FlushState
  <2> TAKE f \in Flushers
  <2>3. CASE flush'[f] = flush[f]
    BY <1>0, <2>3, Zenon
  <2>4. CASE flush'[f] # flush[f]
    <3>1. flush[f].pc = "live" /\ flush'[f].at = flush[f].at
      BY <2>1, <2>2, <2>4, Zenon
    <3> QED
      BY <1>0, <3>1, Zenon
  <2> QED
    BY <2>3, <2>4, Zenon
<1>3. ASSUME NEW f \in Flushers, flush' = [flush EXCEPT ![f].pc = "called"]
      PROVE \A g \in Flushers : flush'[g].pc \in {"live", "stale"} => flush'[g].at # 0
  BY <1>0, <1>3 DEF FlushState
<1>4. ASSUME NEW f \in Flushers, flush_alerts(f)
      PROVE \A g \in Flushers : flush'[g].pc \in {"live", "stale"} => flush'[g].at # 0
  <2>1. CASE flush_skipped(f) \/ flush_ends(f)
    <3>1. flush' = [flush EXCEPT ![f] = NoFlush]
      BY <2>1 DEF flush_skipped, flush_ends, Returns
    <3> QED
      BY <1>0, <3>1, Zenon DEF NoFlush
  <2>2. CASE flush_begins(f)
    BY <1>0, <2>2 DEF flush_begins, FlushState
  <2>3. CASE flush_inserts(f)
    <3>1. flush' = [flush EXCEPT ![f] = [flush[f] EXCEPT !.at = flush[f].at + 1]]
      BY <1>0, <2>3, Zenon DEF flush_inserts
    <3> QED
      BY <1>0, <3>1 DEF FlushState
  <2> QED
    BY <1>4, <2>1, <2>2, <2>3 DEF flush_alerts
<1>5. CASE Restart
  BY <1>5, Zenon DEF Restart, NoFlush
<1>6. CASE initialize_reset
  <2>1. \A f \in Flushers :
           \/ flush'[f] = [NoFlush EXCEPT !.pc = "called"] \/ flush'[f] = flush[f]
           \/ flush[f].pc = "live" /\ flush'[f] = [flush[f] EXCEPT !.pc = "stale", !.list = alerts]
    BY <1>6, ResetFlush, Zenon
  <2>2. \A f \in Flushers : [flush[f] EXCEPT !.pc = "stale", !.list = alerts].at = flush[f].at
    BY <1>0, Zenon DEF FlushState
  <2>3. [NoFlush EXCEPT !.pc = "called"].pc = "called"
    BY Zenon DEF NoFlush
  <2> TAKE f \in Flushers
  <2>4. CASE flush'[f] = flush[f]
    BY <1>0, <2>4, Zenon
  <2>5. CASE flush'[f] = [NoFlush EXCEPT !.pc = "called"]
    BY <2>3, <2>5, ZenonT(120)
  <2>6. CASE flush'[f] # flush[f] /\ flush'[f] # [NoFlush EXCEPT !.pc = "called"]
    <3>1. flush[f].pc = "live" /\ flush'[f].at = flush[f].at
      BY <2>1, <2>2, <2>6, Zenon
    <3> QED
      BY <1>0, <3>1, Zenon
  <2> QED
    BY <2>4, <2>5, <2>6, Zenon
<1>7. \/ UNCHANGED flush \/ (\E list : Replace(list)) \/ Restart \/ initialize_reset
      \/ \E f \in Flushers : flush_alerts(f) \/ flush' = [flush EXCEPT ![f].pc = "called"]
  <2>1. CASE JobStep
    <3>1. ASSUME NEW s \in Sources, run_source(s) PROVE UNCHANGED flush \/ \E list : Replace(list)
      BY <3>1, Zenon DEF run_source
    <3>2. CASE expire_alerts \/ process_alerts_ends \/ oneshot_create
      BY <3>2, Zenon DEF expire_alerts, process_alerts_ends, oneshot_create
    <3>3. CASE oneshot_delete
      BY <3>3, Zenon DEF oneshot_delete, Flushers
    <3> QED
      BY <2>1, <3>1, <3>2, <3>3 DEF JobStep, process_alerts, send_alerts, receive_alerts, announce
  <2>2. CASE FlushTick
    BY <2>2, Zenon DEF FlushTick, Flushers
  <2>3. CASE initialize
    BY <2>3, Zenon DEF initialize
  <2>4. ASSUME NEW u \in Listed, dismiss(u) \/ restore(u) PROVE UNCHANGED flush
    BY <2>4, Zenon DEF dismiss, restore
  <2> QED
    BY <2>1, <2>2, <2>3, <2>4, ZenonT(120) DEF Next, ProcessTick, CallJob, Ready, ShutDown, FailoverBegins, FailoverEnds, vars
<1> QED
  BY <1>1, <1>2, <1>3, <1>4, <1>5, <1>6, <1>7, ZenonT(120)

\* Every step keeps TypeInv.
LEMMA StepKeepsType ==
    ASSUME TypeInv, [Next]_vars
    PROVE  TypeInv'
<1>1. (TypeOK <=> PlainOK /\ ListsOK)'
  BY TypeOKParts, PTL
<1> QED
  BY <1>1, StepKeepsLists, StepKeepsPlain, StepKeepsPlace, Zenon DEF TypeInv

\* TypeInv holds from the start, whatever the order of jobs, calls, flushes and faults.
LEMMA TypeInvariance == Spec => []TypeInv
<1>1. Init => TypeInv
  <2> SUFFICES ASSUME Init PROVE TypeInv
    OBVIOUS
  <2>1. NoFlush \in FlushState
    BY DEF NoFlush, FlushState
  <2>2. ListsOK /\ \A f \in Flushers : flush[f].pc = "idle"
    BY <2>1 DEF Init, ListsOK, NoFlush
  <2>a. on_ready \in BOOLEAN
    BY Zenon DEF Init
  <2>3. PlainOK /\ IsFiniteSet(db)
    BY <2>a, AlertsAssumption, FS_EmptySet DEF Init, PlainOK
  <2> QED
    BY <2>2, <2>3, TypeOKParts, Zenon DEF TypeInv
<1>2. TypeInv /\ [Next]_vars => TypeInv'
  BY StepKeepsType, Zenon
<1> QED
  BY <1>1, <1>2, PTL DEF Spec

\* The lists, the queue of jobs, the uuids and the states of the alert service keep their
\* types in every behaviour: every row that initialize() reads back is an alert again.
THEOREM TypeCorrectness == Spec => []TypeOK
<1>1. TypeInv => TypeOK
  BY Zenon DEF TypeInv
<1> QED
  BY <1>1, TypeInvariance, PTL

-----------------------------------------------------------------------------
(* What a step does to the alerts                                          *)

\* An alert of the next list is one there was, a new one, or one that dismiss() or
\* restore() has marked.
Follows(b) ==
    \/ b \in Range(alerts)
    \/ Fresh(b) /\ born'[KeyOf(b)] = born[KeyOf(b)] + 1
    \/ \E a \in Range(alerts) : a.uuid = b.uuid /\ (b.dismissed \/ \E u \in Listed : restore(u))

\* Only process_alerts, which goes back to its copy, and initialize() do anything else.
LEMMA AlertsStep ==
    ASSUME TypeInv, [Next]_vars
    PROVE  /\ \/ \A b \in Range(alerts') : Follows(b)
              \/ process_alerts_ends /\ Undoes /\ alerts' = valid
              \/ initialize
           /\ \A k \in Keys : born'[k] >= born[k]
<1> USE DEF jobVars, sysVars, envVars, history
<1>0. TypeOK /\ alerts \in Seq(Alert) /\ born \in [Keys -> Nat]
  BY Zenon DEF TypeInv, TypeOK
<1>a. UNCHANGED born => \A k \in Keys : born'[k] >= born[k]
  BY <1>0
<1>b. UNCHANGED alerts => \A b \in Range(alerts') : Follows(b)
  BY Zenon DEF Follows
<1>c. alerts' = <<>> => \A b \in Range(alerts') : Follows(b)
  BY DEF Range
<1> DEFINE Goal == /\ \/ \A b \in Range(alerts') : Follows(b)
                      \/ process_alerts_ends /\ Undoes /\ alerts' = valid
                      \/ initialize
                   /\ \A k \in Keys : born'[k] >= born[k]
<1> SUFFICES Goal
  OBVIOUS
<1>1. ASSUME NEW s \in Sources, run_source(s) PROVE Goal
  BY <1>0, <1>1, SourceAlerts, Zenon DEF KeepsOrMakes, Follows
<1>2. CASE expire_alerts \/ oneshot_delete
  <2>1. Range(alerts') \subseteq Range(alerts)
    BY <1>0, <1>2, FewerAlerts
  <2>2. UNCHANGED born
    BY <1>2, Zenon DEF expire_alerts, oneshot_delete
  <2> QED
    BY <1>a, <2>1, <2>2, Zenon DEF Follows
<1>3. CASE oneshot_create
  BY <1>0, <1>3, CreateAlerts, Zenon DEF KeepsOrMakes, Follows
<1>4. CASE process_alerts_ends
  <2>1. UNCHANGED born /\ (UNCHANGED alerts \/ (Undoes /\ alerts' = valid))
    BY <1>4, Zenon DEF process_alerts_ends, Undoes, Replace
  <2> QED
    BY <1>4, <1>a, <1>b, <2>1, Zenon
<1>5. ASSUME NEW u \in Listed, dismiss(u) PROVE Goal
  <2>1. UNCHANGED born
    BY <1>5, Zenon DEF dismiss
  <2> QED
    BY <1>0, <1>5, <1>a, <2>1, DismissAlerts DEF Follows
<1>6. ASSUME NEW u \in Listed, restore(u) PROVE Goal
  <2>1. UNCHANGED born
    BY <1>6, Zenon DEF restore
  <2>2. \A b \in Range(alerts') : \E a \in Range(alerts) : a.uuid = b.uuid
    BY <1>0, <1>6, RestoreAlerts, Zenon
  <2>3. \A b \in Range(alerts') : Follows(b)
    BY <1>6, <2>2, Zenon DEF Follows
  <2> QED
    BY <1>a, <2>1, <2>3, Zenon
<1>7. CASE initialize
  <2>1. UNCHANGED born
    BY <1>7, Zenon DEF initialize
  <2> QED
    BY <1>7, <1>a, <2>1, Zenon
<1>8. CASE Restart \/ initialize_reset
  <2>1. UNCHANGED born /\ alerts' = <<>>
    BY <1>8, Zenon DEF Restart, initialize_reset
  <2> QED
    BY <1>a, <1>c, <2>1, Zenon
<1>9. CASE UNCHANGED <<alerts, born>>
  BY <1>9, <1>a, <1>b, Zenon
<1>10. ASSUME NEW f \in Flushers, flush_alerts(f) PROVE UNCHANGED <<alerts, born>>
  BY <1>10, Zenon DEF flush_alerts, flush_skipped, flush_begins, flush_inserts, flush_ends, Returns
<1>11. \/ \E s \in Sources : run_source(s)
       \/ expire_alerts \/ oneshot_delete \/ oneshot_create \/ process_alerts_ends
       \/ \E u \in Listed : dismiss(u) \/ restore(u)
       \/ initialize \/ Restart \/ initialize_reset \/ UNCHANGED <<alerts, born>>
  BY <1>10, Zenon DEF Next, JobStep, ProcessTick, FlushTick, process_alerts, send_alerts, receive_alerts, announce,
     CallJob, Ready, ShutDown, FailoverBegins, FailoverEnds, vars
<1> HIDE DEF Goal
<1> QED
  BY <1>1, <1>2, <1>3, <1>4, <1>5, <1>6, <1>7, <1>8, <1>9, <1>11, ZenonT(120)

=============================================================================
