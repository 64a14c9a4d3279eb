--------------------------- MODULE DeliveryProofs ---------------------------
(***************************************************************************)
(* What becomes of the messages: proofs about Notification, for any events, *)
(* backlog, loops, limits and number of faults.                            *)
(***************************************************************************)
EXTENDS NotificationProofs, SequenceTheorems, FiniteSetTheorems, WellFoundedInduction

(* Keep, by its recursion: Kept(n) is what is kept of the first n elements. *)
KeepRule(s, K, kept, i) ==
  IF i = 0 THEN <<>>
  ELSE IF s[i] \in K THEN Append(kept[i - 1], s[i]) ELSE kept[i - 1]

Keeps(s, K, kept) == kept = [i \in 0..Len(s) |-> KeepRule(s, K, kept, i)]

KeptUpTo(s, K, S, n) ==
  \E kept \in [0..n -> Seq(S)] : \A i \in 0..n : kept[i] = KeepRule(s, K, kept, i)

(* A sequence t holds the elements of K among the first n of s, each once:  *)
(* e is where the elements of t are in s.                                   *)
Picks(t, s, n, K) ==
  \E e \in [1..Len(t) -> {j \in 1..n : s[j] \in K}] :
    /\ \A p \in 1..Len(t) : t[p] = s[e[p]]
    /\ \A p, q \in 1..Len(t) : e[p] = e[q] => p = q
    /\ \A j \in 1..n : s[j] \in K => \E p \in 1..Len(t) : e[p] = j
-----------------------------------------------------------------------------
(* The least number with a property.                                        *)
LEMMA LeastNat ==
  ASSUME NEW Bad, Bad \subseteq Nat, Bad # {}
  PROVE  \E n \in Bad : \A m \in Nat : m < n => m \notin Bad
<1>1. PICK n \in Bad : \A m \in Bad : ~(<<m, n>> \in OpToRel(<, Nat))
  BY NatLessThanWellFounded, WFMin
<1>2. ASSUME NEW m \in Nat, m < n, m \in Bad
      PROVE  FALSE
  <2>1. <<m, n>> \in OpToRel(<, Nat)
    BY <1>2 DEF OpToRel
  <2> QED
    BY <1>1, <1>2, <2>1
<1> QED
  BY <1>2

LEMMA KeepIsRecursive ==
  ASSUME NEW s, NEW K
  PROVE  Keep(s, K) = (CHOOSE kept : Keeps(s, K, kept))[Len(s)]
BY DEF Keep, Keeps, KeepRule

LEMMA KeptExtends ==
  ASSUME NEW S, NEW s \in Seq(S), NEW K, NEW n \in 0..Len(s) - 1, KeptUpTo(s, K, S, n)
  PROVE  KeptUpTo(s, K, S, n + 1)
<1>1. PICK kept \in [0..n -> Seq(S)] : \A i \in 0..n : kept[i] = KeepRule(s, K, kept, i)
  BY DEF KeptUpTo
<1> DEFINE last == IF s[n + 1] \in K THEN Append(kept[n], s[n + 1]) ELSE kept[n]
           more == [i \in 0..n + 1 |-> IF i = n + 1 THEN last ELSE kept[i]]
<1>0. n \in Nat /\ n + 1 \in 1..Len(s)
  BY LenProperties
<1>2. last \in Seq(S)
  <2>1. s[n + 1] \in S /\ kept[n] \in Seq(S)
    BY <1>0, ElementOfSeq
  <2> QED
    BY <2>1, AppendProperties
<1> HIDE DEF last
<1>3. more \in [0..n + 1 -> Seq(S)]
  BY <1>0, <1>2
<1>4. ASSUME NEW i \in 0..n + 1
      PROVE  more[i] = KeepRule(s, K, more, i)
  <2>1. CASE i = n + 1
    <3>1. more[i] = last /\ more[i - 1] = kept[n] /\ i # 0
      BY <1>0, <2>1
    <3> HIDE DEF more
    <3> QED
      BY <1>0, <2>1, <3>1 DEF last, KeepRule
  <2>2. CASE i \in 0..n
    <3>1. more[i] = kept[i] /\ (i # 0 => more[i - 1] = kept[i - 1])
      BY <1>0, <2>2
    <3> HIDE DEF more
    <3> QED
      BY <1>1, <2>2, <3>1 DEF KeepRule
  <2> QED
    BY <1>0, <2>1, <2>2
<1> HIDE DEF more
<1> QED
  BY <1>3, <1>4 DEF KeptUpTo

LEMMA KeptExists ==
  ASSUME NEW S, NEW s \in Seq(S), NEW K
  PROVE  KeptUpTo(s, K, S, Len(s))
<1> DEFINE Bad == {n \in 0..Len(s) : ~KeptUpTo(s, K, S, n)}
<1>0. Len(s) \in Nat
  BY LenProperties
<1> SUFFICES ASSUME Bad # {} PROVE FALSE
  BY <1>0
<1>1. PICK n \in Bad : \A m \in Nat : m < n => m \notin Bad
  <2>1. Bad \subseteq Nat
    BY <1>0
  <2> HIDE DEF Bad
  <2> QED
    BY <2>1, LeastNat
<1>2. n # 0
  <2>1. KeptUpTo(s, K, S, 0)
    <3> DEFINE kept == [i \in 0..0 |-> <<>>]
    <3>1. kept \in [0..0 -> Seq(S)] /\ \A i \in 0..0 : kept[i] = KeepRule(s, K, kept, i)
      BY EmptySeq DEF KeepRule
    <3> QED
      BY <3>1 DEF KeptUpTo
  <2> QED
    BY <2>1
<1>3. n - 1 \in 0..Len(s) - 1 /\ n - 1 \in Nat /\ n - 1 < n /\ (n - 1) + 1 = n
  BY <1>0, <1>2
<1>4. KeptUpTo(s, K, S, n - 1)
  BY <1>0, <1>1, <1>3
<1> QED
  BY <1>3, <1>4, KeptExtends

LEMMA PicksNothing ==
  ASSUME NEW s, NEW K
  PROVE  Picks(<<>>, s, 0, K)
<1> DEFINE e == [p \in 1..0 |-> 0]
<1>1. Len(<<>>) = 0 /\ 1..0 = {} /\ e \in [1..0 -> {j \in 1..0 : s[j] \in K}]
  OBVIOUS
<1>2. e \in [1..Len(<<>>) -> {j \in 1..0 : s[j] \in K}]
  BY <1>1
<1> HIDE DEF e
<1> QED
  BY <1>1, <1>2, Zenon DEF Picks

LEMMA PicksNext ==
  ASSUME NEW S, NEW s \in Seq(S), NEW K, NEW t \in Seq(S), NEW n \in 1..Len(s),
         Picks(t, s, n - 1, K)
  PROVE  Picks(IF s[n] \in K THEN Append(t, s[n]) ELSE t, s, n, K)
<1>0. n \in Nat /\ n >= 1 /\ s[n] \in S /\ Len(t) \in Nat
  BY LenProperties, ElementOfSeq
<1>1. PICK e \in [1..Len(t) -> {j \in 1..n - 1 : s[j] \in K}] :
        /\ \A p \in 1..Len(t) : t[p] = s[e[p]]
        /\ \A p, q \in 1..Len(t) : e[p] = e[q] => p = q
        /\ \A j \in 1..n - 1 : s[j] \in K => \E p \in 1..Len(t) : e[p] = j
  BY DEF Picks
<1>2. CASE s[n] \notin K
  <2>1. {j \in 1..n - 1 : s[j] \in K} = {j \in 1..n : s[j] \in K}
    BY <1>0, <1>2
  <2>2. \A j \in 1..n : s[j] \in K => j \in 1..n - 1
    BY <1>0, <1>2
  <2>3. Picks(t, s, n, K)
    BY <1>1, <2>1, <2>2 DEF Picks
  <2> QED
    BY <1>2, <2>3
<1>3. CASE s[n] \in K
  <2> DEFINE u == Append(t, s[n])
             k == Len(t) + 1
             f == [p \in 1..k |-> IF p = k THEN n ELSE e[p]]
  <2>1. /\ Len(u) = k /\ u[k] = s[n] /\ \A p \in 1..Len(t) : u[p] = t[p]
        /\ \A p \in 1..k : p = k \/ p \in 1..Len(t)
    BY <1>0, AppendProperties
  <2>2. \A p \in 1..Len(t) : e[p] \in 1..n - 1 /\ s[e[p]] \in K /\ e[p] # n /\ e[p] \in 1..n
    BY <1>0, <1>1
  <2>3. /\ f[k] = n
        /\ \A p \in 1..Len(t) : f[p] = e[p]
        /\ f \in [1..k -> {j \in 1..n : s[j] \in K}]
    BY <1>0, <1>3, <2>1, <2>2
  <2> HIDE DEF u, f
  <2>4. \A p \in 1..k : u[p] = s[f[p]]
    BY <1>1, <2>1, <2>3
  <2>5. \A p, q \in 1..k : f[p] = f[q] => p = q
    BY <1>1, <2>1, <2>2, <2>3
  <2>6. ASSUME NEW j \in 1..n, s[j] \in K
        PROVE  \E p \in 1..k : f[p] = j
    <3>1. CASE j = n
      BY <1>0, <2>3, <3>1
    <3>2. CASE j \in 1..n - 1
      <4>1. PICK p \in 1..Len(t) : e[p] = j
        BY <1>1, <2>6, <3>2
      <4> QED
        BY <1>0, <2>3, <4>1
    <3> QED
      BY <1>0, <3>1, <3>2
  <2>7. Picks(u, s, n, K)
    <3>1. /\ f \in [1..Len(u) -> {j \in 1..n : s[j] \in K}]
          /\ \A p \in 1..Len(u) : u[p] = s[f[p]]
          /\ \A p, q \in 1..Len(u) : f[p] = f[q] => p = q
          /\ \A j \in 1..n : s[j] \in K => \E p \in 1..Len(u) : f[p] = j
      BY <2>1, <2>3, <2>4, <2>5, <2>6
    <3> QED
      BY <3>1, Zenon DEF Picks
  <2> QED
    BY <1>3, <2>7 DEF u
<1> QED
  BY <1>2, <1>3

(* Keep(s, K) is a sequence of the elements of K in s, each as often as s   *)
(* has it.                                                                  *)
LEMMA KeepPicks ==
  ASSUME NEW S, NEW s \in Seq(S), NEW K
  PROVE  Keep(s, K) \in Seq(S) /\ Picks(Keep(s, K), s, Len(s), K)
<1> DEFINE kept == CHOOSE k : Keeps(s, K, k)
<1>0. Len(s) \in Nat
  BY LenProperties
<1>1. Keep(s, K) = kept[Len(s)]
  BY KeepIsRecursive
<1>2. PICK k \in [0..Len(s) -> Seq(S)] : \A i \in 0..Len(s) : k[i] = KeepRule(s, K, k, i)
  BY KeptExists DEF KeptUpTo
<1>3. Keeps(s, K, k)
  BY <1>2 DEF Keeps
<1>4. Keeps(s, K, kept)
  BY <1>3
<1> HIDE DEF kept
<1>5. \A i \in 0..Len(s) : kept[i] = KeepRule(s, K, kept, i)
  BY <1>4 DEF Keeps
<1> DEFINE Bad == {n \in 0..Len(s) : ~(kept[n] \in Seq(S) /\ Picks(kept[n], s, n, K))}
<1>6. Bad = {}
  <2> SUFFICES ASSUME Bad # {} PROVE FALSE
    OBVIOUS
  <2>1. PICK n \in Bad : \A m \in Nat : m < n => m \notin Bad
    <3>1. Bad \subseteq Nat
      BY <1>0
    <3> HIDE DEF Bad
    <3> QED
      BY <3>1, LeastNat
  <2>2. CASE n = 0
    <3>1. kept[n] = <<>>
      BY <1>0, <1>5, <2>2 DEF KeepRule
    <3> QED
      BY <2>1, <2>2, <3>1, PicksNothing, EmptySeq
  <2>3. CASE n # 0
    <3>1. n \in 1..Len(s) /\ n - 1 \in 0..Len(s) /\ n - 1 \in Nat /\ n - 1 < n
      BY <1>0, <2>3
    <3>2. kept[n - 1] \in Seq(S) /\ Picks(kept[n - 1], s, n - 1, K)
      BY <2>1, <3>1
    <3>3. kept[n] = IF s[n] \in K THEN Append(kept[n - 1], s[n]) ELSE kept[n - 1]
      BY <1>5, <2>3 DEF KeepRule
    <3>4. kept[n] \in Seq(S)
      BY <3>1, <3>2, <3>3, ElementOfSeq, AppendProperties
    <3>5. Picks(kept[n], s, n, K)
      BY <3>1, <3>2, <3>3, PicksNext
    <3> QED
      BY <2>1, <3>4, <3>5
  <2> QED
    BY <2>2, <2>3
<1> QED
  BY <1>0, <1>1, <1>6

LEMMA KeepRange ==
  ASSUME NEW S, NEW s \in Seq(S), NEW K
  PROVE  /\ Keep(s, K) \in Seq(S)
         /\ Len(Keep(s, K)) \in Nat
         /\ DOMAIN Keep(s, K) = 1..Len(Keep(s, K))
         /\ Range(Keep(s, K)) = Range(s) \cap K
<1> DEFINE t == Keep(s, K)
<1>1. t \in Seq(S) /\ Picks(t, s, Len(s), K)
  BY KeepPicks
<1> HIDE DEF t
<1>2. DOMAIN s = 1..Len(s) /\ DOMAIN t = 1..Len(t) /\ Len(t) \in Nat
  BY <1>1, LenProperties
<1>3. PICK e \in [1..Len(t) -> {j \in 1..Len(s) : s[j] \in K}] :
        /\ \A p \in 1..Len(t) : t[p] = s[e[p]]
        /\ \A j \in 1..Len(s) : s[j] \in K => \E p \in 1..Len(t) : e[p] = j
  BY <1>1 DEF Picks
<1>4. ASSUME NEW x \in Range(t)
      PROVE  x \in Range(s) \cap K
  <2>1. PICK p \in 1..Len(t) : x = t[p]
    BY <1>2 DEF Range
  <2>2. e[p] \in 1..Len(s) /\ s[e[p]] \in K /\ x = s[e[p]]
    BY <1>3, <2>1
  <2> QED
    BY <1>2, <2>2 DEF Range
<1>5. ASSUME NEW x \in Range(s), x \in K
      PROVE  x \in Range(t)
  <2>1. PICK j \in 1..Len(s) : x = s[j]
    BY <1>2 DEF Range
  <2>2. PICK p \in 1..Len(t) : e[p] = j
    BY <1>3, <1>5, <2>1
  <2> QED
    BY <1>2, <1>3, <2>1, <2>2 DEF Range
<1>6. t \in Seq(S) /\ Len(t) \in Nat /\ DOMAIN t = 1..Len(t) /\ Range(t) = Range(s) \cap K
  BY <1>1, <1>2, <1>4, <1>5
<1> QED
  BY <1>6 DEF t

(* The part of a sequence from its m-th element on has no other elements.   *)
LEMMA NewestIds ==
  ASSUME NEW S, NEW ids \in Seq(S)
  PROVE  /\ Newest(ids) \in Seq(S) /\ Len(Newest(ids)) <= Remembered
         /\ Range(Newest(ids)) \subseteq Range(ids)
<1> DEFINE m == Max({1, Len(ids) - Remembered + 1})
<1>0. Len(ids) \in Nat /\ DOMAIN ids = 1..Len(ids) /\ Remembered \in Nat \ {0}
  BY LenProperties, NotificationAssumption
<1>1. m \in Nat /\ m >= 1 /\ Len(ids) - m + 1 <= Remembered
  <2> DEFINE k == Len(ids) - Remembered + 1
  <2>1. k \in Int
    BY <1>0
  <2>2. m = IF k >= 1 THEN k ELSE 1
    <3> HIDE DEF k
    <3>1. \A x \in {1, k} : (\A y \in {1, k} : x >= y) => x = IF k >= 1 THEN k ELSE 1
      BY <2>1
    <3>2. \E x \in {1, k} : \A y \in {1, k} : x >= y
      BY <2>1
    <3>3. Max({1, k}) = CHOOSE x \in {1, k} : \A y \in {1, k} : x >= y
      BY DEF Max
    <3>4. Max({1, k}) \in {1, k} /\ \A y \in {1, k} : Max({1, k}) >= y
      BY <3>2, <3>3
    <3> QED
      BY <3>1, <3>4 DEF k
  <2> QED
    BY <1>0, <2>2
<1>2. Newest(ids) = SubSeq(ids, m, Len(ids))
  BY DEF Newest
<1> HIDE DEF m
<1>3. \A i \in m..Len(ids) : ids[i] \in S /\ i \in 1..Len(ids)
  BY <1>0, <1>1, ElementOfSeq
<1> DEFINE t == SubSeq(ids, m, Len(ids))
<1>4. /\ t \in Seq(S)
      /\ Len(t) = IF m <= Len(ids) THEN Len(ids) - m + 1 ELSE 0
      /\ \A i \in 1..Len(ids) - m + 1 : t[i] = ids[m + i - 1]
  BY <1>0, <1>1, <1>3, SubSeqProperties
<1> HIDE DEF t
<1>5. Len(t) <= Remembered
  BY <1>0, <1>1, <1>4
<1>6. DOMAIN t = 1..Len(t)
  BY <1>4, LenProperties
<1>7. ASSUME NEW x \in Range(t)
      PROVE  x \in Range(ids)
  <2>1. PICK i \in 1..Len(t) : x = t[i]
    BY <1>6 DEF Range
  <2>2. i \in 1..Len(ids) - m + 1 /\ m + i - 1 \in 1..Len(ids)
    BY <1>0, <1>1, <1>4
  <2>3. x = ids[m + i - 1]
    BY <1>4, <2>1, <2>2
  <2> QED
    BY <1>0, <2>2, <2>3 DEF Range
<1> QED
  BY <1>2, <1>4, <1>5, <1>7 DEF t

LEMMA AppendRange ==
  ASSUME NEW S, NEW s \in Seq(S), NEW x \in S
  PROVE  Append(s, x) \in Seq(S) /\ Range(Append(s, x)) = Range(s) \cup {x}
<1> DEFINE t == Append(s, x)
<1>1. /\ t \in Seq(S) /\ Len(t) = Len(s) + 1 /\ t[Len(s) + 1] = x
      /\ \A i \in 1..Len(s) : t[i] = s[i]
  BY AppendProperties
<1> HIDE DEF t
<1>2. DOMAIN s = 1..Len(s) /\ DOMAIN t = 1..Len(s) + 1 /\ Len(s) \in Nat
  BY <1>1, LenProperties
<1>3. Range(t) = Range(s) \cup {x}
  BY <1>1, <1>2 DEF Range
<1> QED
  BY <1>1, <1>3 DEF t

(* The ids RecentMessageIds remembers are those it knew and the new one.    *)
LEMMA RememberedIds ==
  ASSUME NEW S, NEW ids \in Seq(S), NEW id \in S
  PROVE  /\ Remember(ids, id) \in Seq(S) /\ Len(Remember(ids, id)) <= Remembered
         /\ Range(Remember(ids, id)) \subseteq Range(ids) \cup {id}
<1> DEFINE others == Keep(ids, Range(ids) \ {id})
           all == Append(others, id)
<1>1. others \in Seq(S) /\ Range(others) \subseteq Range(ids)
  BY KeepRange
<1>2. all \in Seq(S) /\ Range(all) = Range(others) \cup {id}
  <2> HIDE DEF others
  <2> QED
    BY <1>1, AppendRange
<1>3. Remember(ids, id) = Newest(all)
  BY DEF Remember
<1> HIDE DEF others, all
<1> QED
  BY <1>1, <1>2, <1>3, NewestIds
-----------------------------------------------------------------------------
(* A state of the broker, and what is remembered of the messages.           *)
Kinds == {"publish", "ack", "nack"}
Frames == [kind : Kinds, tag : Nat, message : Messages]

BrokerType(b) ==
  b \in [queue : Seq(Messages), dead : SUBSET Messages,
         deliveries : [Links -> Seq(Deliveries)], subscriptions : [Links -> Nat]]

HistoryType(h) ==
  h \in [accepted : SUBSET Ids, disturbed : SUBSET Ids, misdirected : SUBSET Ids,
         refused : SUBSET Ids, mails : [Ids -> 0..ManyMails]]

(* Places of a state of the broker, and its dead letters about one id.      *)
Waits(b, id) == {i \in DOMAIN b.queue : b.queue[i].id = id}
Holds(b, c, id) == {u \in Unsettled(b, c) : b.deliveries[c][u].message.id = id}
At(b, id) ==
  {<<NoLink, i>> : i \in Waits(b, id)}
  \cup UNION {{<<c, tag>> : tag \in Holds(b, c, id)} : c \in Links}
DeadOf(b, id) == {m \in b.dead : m.id = id}

(* What frames do to the broker: a message goes to the end of the queue, a  *)
(* delivery is settled, and its message may go to the dead letters.         *)
Publishes(b, m) == [b EXCEPT !.queue = Append(@, m)]
Settles(b, c, tag, dead) ==
  [b EXCEPT !.dead = @ \cup dead,
            !.deliveries[c] = Marked(@, {tag})]

(* What is remembered once frames were transmitted.                         *)
Past(past, ids, lost, cut) ==
  [past EXCEPT !.accepted = @ \cup ids,
               !.misdirected = @ \cup lost,
               !.disturbed = @ \cup cut]
-----------------------------------------------------------------------------
LEMMA UnsettledDelivery ==
  ASSUME NEW b, BrokerType(b), NEW c \in Links, NEW u \in Unsettled(b, c)
  PROVE  /\ u \in 1..Len(b.deliveries[c]) /\ u \in Nat
         /\ b.deliveries[c][u] \in Deliveries
         /\ b.deliveries[c][u].message \in Messages
         /\ b.deliveries[c][u].message.id \in Ids
<1>1. b.deliveries[c] \in Seq(Deliveries)
  BY DEF BrokerType
<1>2. Len(b.deliveries[c]) \in Nat /\ DOMAIN b.deliveries[c] = 1..Len(b.deliveries[c])
  BY <1>1, LenProperties
<1>3. u \in 1..Len(b.deliveries[c])
  BY <1>2 DEF Unsettled
<1>4. b.deliveries[c][u] \in Deliveries
  BY <1>1, <1>3, ElementOfSeq
<1>5. b.deliveries[c][u].message \in Messages
  BY <1>4 DEF Deliveries
<1>6. b.deliveries[c][u].message.id \in Ids
  BY <1>5 DEF Messages
<1> QED
  BY <1>2, <1>3, <1>4, <1>5, <1>6

LEMMA PlacesAt == \A id : Places(id) = At(broker, id)
BY DEF Places, At, Waits, Holds

LEMMA AtMembers ==
  ASSUME NEW b, NEW id
  PROVE  /\ \A i \in Waits(b, id) : <<NoLink, i>> \in At(b, id)
         /\ \A c \in Links : \A tag \in Holds(b, c, id) : <<c, tag>> \in At(b, id)
         /\ \A p \in At(b, id) :
              \/ \E i \in Waits(b, id) : p = <<NoLink, i>>
              \/ \E c \in Links : \E tag \in Holds(b, c, id) : p = <<c, tag>>
BY DEF At

LEMMA SettlesFields ==
  ASSUME NEW b, BrokerType(b), NEW c \in Links, NEW tag, NEW dead, dead \subseteq Messages
  PROVE  /\ BrokerType(Settles(b, c, tag, dead))
         /\ Settles(b, c, tag, dead).queue = b.queue
         /\ Settles(b, c, tag, dead).dead = b.dead \cup dead
         /\ \A d \in Links :
              DOMAIN Settles(b, c, tag, dead).deliveries[d] = DOMAIN b.deliveries[d]
         /\ \A d \in Links : \A u \in DOMAIN b.deliveries[d] :
              /\ Settles(b, c, tag, dead).deliveries[d][u].message = b.deliveries[d][u].message
              /\ Settles(b, c, tag, dead).deliveries[d][u].settled =
                   (b.deliveries[d][u].settled \/ (d = c /\ u = tag))
<1> DEFINE b2 == Settles(b, c, tag, dead)
           mine == Marked(b.deliveries[c], {tag})
<1>1. /\ b2.queue = b.queue /\ b2.dead = b.dead \cup dead
      /\ b2.subscriptions = b.subscriptions
      /\ b2.deliveries = [b.deliveries EXCEPT ![c] = mine]
      /\ b2 = [b EXCEPT !.dead = b.dead \cup dead,
                        !.deliveries = [b.deliveries EXCEPT ![c] = mine]]
  BY DEF Settles, BrokerType
<1>2. b.deliveries \in [Links -> Seq(Deliveries)]
  BY DEF BrokerType
<1>3. /\ Len(b.deliveries[c]) \in Nat /\ DOMAIN b.deliveries[c] = 1..Len(b.deliveries[c])
      /\ \A u \in DOMAIN b.deliveries[c] : b.deliveries[c][u] \in Deliveries
  BY <1>2, LenProperties, ElementOfSeq
<1>4. \A u \in DOMAIN b.deliveries[c] :
        /\ mine[u] \in Deliveries
        /\ mine[u].message = b.deliveries[c][u].message
        /\ mine[u].settled = (b.deliveries[c][u].settled \/ u = tag)
  BY <1>3 DEF Deliveries, Marked
<1>5. DOMAIN mine = DOMAIN b.deliveries[c] /\ mine \in [1..Len(b.deliveries[c]) -> Deliveries]
  BY <1>3, <1>4 DEF Marked
<1> HIDE DEF mine, b2
<1>6. mine \in Seq(Deliveries)
  BY <1>3, <1>5, SeqDef
<1>7. /\ b2.deliveries \in [Links -> Seq(Deliveries)] /\ b2.deliveries[c] = mine
      /\ \A d \in Links : d # c => b2.deliveries[d] = b.deliveries[d]
  BY <1>1, <1>2, <1>6
<1>8. BrokerType(b2)
  <2>1. [b.deliveries EXCEPT ![c] = mine] \in [Links -> Seq(Deliveries)]
    BY <1>1, <1>7
  <2>2. b.dead \cup dead \in SUBSET Messages
    BY DEF BrokerType
  <2> QED
    BY <1>1, <2>1, <2>2 DEF BrokerType
<1>9. \A d \in Links :
        /\ DOMAIN b2.deliveries[d] = DOMAIN b.deliveries[d]
        /\ \A u \in DOMAIN b.deliveries[d] :
             /\ b2.deliveries[d][u].message = b.deliveries[d][u].message
             /\ b2.deliveries[d][u].settled = (b.deliveries[d][u].settled \/ (d = c /\ u = tag))
  <2> SUFFICES ASSUME NEW d \in Links
               PROVE  /\ DOMAIN b2.deliveries[d] = DOMAIN b.deliveries[d]
                      /\ \A u \in DOMAIN b.deliveries[d] :
                           /\ b2.deliveries[d][u].message = b.deliveries[d][u].message
                           /\ b2.deliveries[d][u].settled =
                                (b.deliveries[d][u].settled \/ (d = c /\ u = tag))
    OBVIOUS
  <2>1. CASE d = c
    BY <1>4, <1>5, <1>7, <2>1
  <2>2. CASE d # c
    <3>1. \A u \in DOMAIN b.deliveries[d] : b.deliveries[d][u].settled \in BOOLEAN
      <4>1. b.deliveries[d] \in Seq(Deliveries)
        BY <1>2
      <4>2. \A u \in DOMAIN b.deliveries[d] : b.deliveries[d][u] \in Deliveries
        BY <4>1, LenProperties, ElementOfSeq
      <4> QED
        BY <4>2 DEF Deliveries
    <3> QED
      BY <1>7, <2>2, <3>1
  <2> QED
    BY <2>1, <2>2
<1> QED
  BY <1>1, <1>8, <1>9 DEF b2

LEMMA SettlesPlaces ==
  ASSUME NEW b, BrokerType(b), NEW c \in Links, NEW tag, NEW dead, dead \subseteq Messages,
         NEW id
  PROVE  /\ At(Settles(b, c, tag, dead), id) = At(b, id) \ {<<c, tag>>}
         /\ DeadOf(Settles(b, c, tag, dead), id) = DeadOf(b, id) \cup {m \in dead : m.id = id}
         /\ \A d \in Links :
              Unsettled(Settles(b, c, tag, dead), d) =
                IF d = c THEN Unsettled(b, d) \ {tag} ELSE Unsettled(b, d)
<1> DEFINE b2 == Settles(b, c, tag, dead)
<1>0. NoLink \notin Links
  BY NoLinkIsNoLink
<1>1. /\ b2.queue = b.queue /\ b2.dead = b.dead \cup dead
      /\ \A d \in Links : DOMAIN b2.deliveries[d] = DOMAIN b.deliveries[d]
      /\ \A d \in Links : \A u \in DOMAIN b.deliveries[d] :
           /\ b2.deliveries[d][u].message = b.deliveries[d][u].message
           /\ b2.deliveries[d][u].settled = (b.deliveries[d][u].settled \/ (d = c /\ u = tag))
  BY SettlesFields
<1> HIDE DEF b2
<1>2. Waits(b2, id) = Waits(b, id)
  BY <1>1 DEF Waits
<1>3. \A d \in Links :
        Unsettled(b2, d) = IF d = c THEN Unsettled(b, d) \ {tag} ELSE Unsettled(b, d)
  BY <1>1 DEF Unsettled
<1>4. \A d \in Links :
        Holds(b2, d, id) = IF d = c THEN Holds(b, d, id) \ {tag} ELSE Holds(b, d, id)
  BY <1>1, <1>3 DEF Holds, Unsettled
<1>5. ASSUME NEW p \in At(b2, id)
      PROVE  p \in At(b, id) \ {<<c, tag>>}
  BY <1>0, <1>2, <1>4, AtMembers
<1>6. ASSUME NEW p \in At(b, id), p # <<c, tag>>
      PROVE  p \in At(b2, id)
  <2>1. \/ \E i \in Waits(b, id) : p = <<NoLink, i>>
        \/ \E d \in Links : \E u \in Holds(b, d, id) : p = <<d, u>>
    BY AtMembers
  <2>2. ASSUME NEW d \in Links, NEW u \in Holds(b, d, id), p = <<d, u>>
        PROVE  p \in At(b2, id)
    BY <1>4, <1>6, <2>2, AtMembers
  <2> QED
    BY <1>2, <2>1, <2>2, AtMembers
<1>7. At(b2, id) = At(b, id) \ {<<c, tag>>}
  BY <1>5, <1>6
<1>8. DeadOf(b2, id) = DeadOf(b, id) \cup {m \in dead : m.id = id}
  BY <1>1 DEF DeadOf
<1> QED
  BY <1>3, <1>7, <1>8 DEF b2

LEMMA PublishesFields ==
  ASSUME NEW b, BrokerType(b), NEW m \in Messages
  PROVE  /\ BrokerType(Publishes(b, m))
         /\ Publishes(b, m).queue = Append(b.queue, m)
         /\ Publishes(b, m).dead = b.dead
         /\ Publishes(b, m).deliveries = b.deliveries
         /\ Len(b.queue) \in Nat
<1> DEFINE b2 == Publishes(b, m)
<1>1. b.queue \in Seq(Messages) /\ Append(b.queue, m) \in Seq(Messages) /\ Len(b.queue) \in Nat
  <2>1. b.queue \in Seq(Messages)
    BY DEF BrokerType
  <2> QED
    BY <2>1, AppendProperties, LenProperties
<1>2. /\ b2.queue = Append(b.queue, m) /\ b2.dead = b.dead
      /\ b2.deliveries = b.deliveries
  BY DEF Publishes, BrokerType
<1>3. BrokerType(b2)
  <2> DEFINE q == Append(b.queue, m)
  <2>1. q \in Seq(Messages) /\ b2 = [b EXCEPT !.queue = q]
    BY <1>1 DEF Publishes, BrokerType
  <2> HIDE DEF q, b2
  <2> QED
    BY <2>1 DEF BrokerType
<1> HIDE DEF b2
<1> QED
  BY <1>1, <1>2, <1>3 DEF b2

LEMMA PublishesPlaces ==
  ASSUME NEW b, BrokerType(b), NEW m \in Messages, NEW id
  PROVE  /\ At(Publishes(b, m), id) =
              At(b, id) \cup (IF m.id = id THEN {<<NoLink, Len(b.queue) + 1>>} ELSE {})
         /\ <<NoLink, Len(b.queue) + 1>> \notin At(b, id)
         /\ DeadOf(Publishes(b, m), id) = DeadOf(b, id)
         /\ \A d \in Links : Unsettled(Publishes(b, m), d) = Unsettled(b, d)
<1> DEFINE b2 == Publishes(b, m)
           k == Len(b.queue) + 1
<1>0. NoLink \notin Links
  BY NoLinkIsNoLink
<1>1. b2.queue = Append(b.queue, m) /\ b2.dead = b.dead /\ b2.deliveries = b.deliveries
  BY PublishesFields
<1>2. /\ b.queue \in Seq(Messages) /\ Len(b.queue) \in Nat
      /\ DOMAIN b.queue = 1..Len(b.queue)
  <2>1. b.queue \in Seq(Messages)
    BY DEF BrokerType
  <2> QED
    BY <2>1, LenProperties
<1>3. /\ DOMAIN b2.queue = 1..k /\ b2.queue[k] = m
      /\ \A i \in 1..Len(b.queue) : b2.queue[i] = b.queue[i]
  <2>1. /\ Append(b.queue, m) \in Seq(Messages) /\ Len(Append(b.queue, m)) = k
        /\ Append(b.queue, m)[k] = m
        /\ \A i \in 1..Len(b.queue) : Append(b.queue, m)[i] = b.queue[i]
    BY <1>2, AppendProperties
  <2> QED
    BY <1>1, <2>1, LenProperties
<1> HIDE DEF b2
<1>4. Waits(b2, id) = Waits(b, id) \cup (IF m.id = id THEN {k} ELSE {}) /\ k \notin Waits(b, id)
  BY <1>2, <1>3 DEF Waits
<1>5. \A d \in Links : Unsettled(b2, d) = Unsettled(b, d) /\ Holds(b2, d, id) = Holds(b, d, id)
  BY <1>1 DEF Unsettled, Holds
<1> HIDE DEF k
<1>6. ASSUME NEW p \in At(b2, id)
      PROVE  p \in At(b, id) \cup (IF m.id = id THEN {<<NoLink, k>>} ELSE {})
  <2>1. \/ \E i \in Waits(b2, id) : p = <<NoLink, i>>
        \/ \E d \in Links : \E u \in Holds(b2, d, id) : p = <<d, u>>
    BY AtMembers
  <2>2. ASSUME NEW i \in Waits(b2, id), p = <<NoLink, i>>
        PROVE  p \in At(b, id) \cup (IF m.id = id THEN {<<NoLink, k>>} ELSE {})
    <3>1. i \in Waits(b, id) \/ (m.id = id /\ i = k)
      BY <1>4
    <3> QED
      BY <2>2, <3>1, AtMembers
  <2>3. ASSUME NEW d \in Links, NEW u \in Holds(b2, d, id), p = <<d, u>>
        PROVE  p \in At(b, id)
    BY <1>5, <2>3, AtMembers
  <2> QED
    BY <2>1, <2>2, <2>3
<1>7. ASSUME NEW p \in At(b, id) \cup (IF m.id = id THEN {<<NoLink, k>>} ELSE {})
      PROVE  p \in At(b2, id)
  <2>1. \/ \E i \in Waits(b, id) : p = <<NoLink, i>>
        \/ \E d \in Links : \E u \in Holds(b, d, id) : p = <<d, u>>
        \/ m.id = id /\ p = <<NoLink, k>>
    BY AtMembers
  <2>2. ASSUME NEW d \in Links, NEW u \in Holds(b, d, id), p = <<d, u>>
        PROVE  p \in At(b2, id)
    BY <1>5, <2>2, AtMembers
  <2> QED
    BY <1>4, <2>1, <2>2, AtMembers
<1>8. <<NoLink, k>> \notin At(b, id)
  BY <1>0, <1>4, AtMembers
<1>9. DeadOf(b2, id) = DeadOf(b, id)
  BY <1>1 DEF DeadOf
<1> QED
  BY <1>5, <1>6, <1>7, <1>8, <1>9 DEF b2, k
-----------------------------------------------------------------------------
(* Arrive, for the frames the code writes: one, or a copy and an            *)
(* acknowledgement.                                                         *)
LEMMA KeepNone ==
  ASSUME NEW S, NEW s \in Seq(S), NEW K, \A j \in 1..Len(s) : s[j] \notin K
  PROVE  Keep(s, K) = <<>>
<1> DEFINE t == Keep(s, K)
<1>1. t \in Seq(S) /\ Picks(t, s, Len(s), K)
  BY KeepPicks
<1> HIDE DEF t
<1>2. PICK e : e \in [1..Len(t) -> {j \in 1..Len(s) : s[j] \in K}]
  BY <1>1 DEF Picks
<1>3. 1..Len(t) = {}
  BY <1>2
<1>4. t = <<>>
  BY <1>1, <1>3, EmptySeq
<1> QED
  BY <1>4 DEF t

LEMMA KeepOne ==
  ASSUME NEW S, NEW s \in Seq(S), NEW K, NEW j \in 1..Len(s), s[j] \in K,
         \A i \in 1..Len(s) : i # j => s[i] \notin K
  PROVE  Keep(s, K) = <<s[j]>>
<1> DEFINE t == Keep(s, K)
<1>1. t \in Seq(S) /\ Picks(t, s, Len(s), K)
  BY KeepPicks
<1> HIDE DEF t
<1>2. PICK e \in [1..Len(t) -> {i \in 1..Len(s) : s[i] \in K}] :
        /\ \A p \in 1..Len(t) : t[p] = s[e[p]]
        /\ \A p, q \in 1..Len(t) : e[p] = e[q] => p = q
        /\ \A i \in 1..Len(s) : s[i] \in K => \E p \in 1..Len(t) : e[p] = i
  BY <1>1 DEF Picks
<1>3. \A p \in 1..Len(t) : e[p] = j
  BY <1>2
<1>4. PICK p \in 1..Len(t) : e[p] = j
  BY <1>2
<1>5. Len(t) \in Nat
  BY <1>1, LenProperties
<1>6. Len(t) = 1
  <2>1. \A q \in 1..Len(t) : q = p
    BY <1>2, <1>3
  <2>2. 1 \in 1..Len(t) /\ Len(t) \in 1..Len(t)
    BY <1>4, <1>5
  <2> QED
    BY <2>1, <2>2
<1>7. t[1] = s[j]
  BY <1>2, <1>3, <1>6
<1>8. s[j] \in S
  BY ElementOfSeq
<1>9. t = <<s[j]>>
  BY <1>1, <1>6, <1>7, <1>8, SeqEqual
<1> QED
  BY <1>9 DEF t

PublishesIn(frames) == {f \in Range(frames) : f.kind = "publish"}
MessagesIn(published) == [i \in DOMAIN published |-> published[i].message]
SettlesIn(frames) ==
  {f.tag : f \in {g \in Range(frames) : g.kind = "ack"} \cup {g \in Range(frames) : g.kind = "nack"}}
RejectedIn(b, c, frames) ==
  {Settled(b, c, f) : f \in {g \in Range(frames) : g.kind = "nack"}}

LEMMA ArriveParts ==
  ASSUME NEW b, NEW c, NEW frames
  PROVE  Arrive(b, c, frames) =
           [b EXCEPT
              !.queue = @ \o MessagesIn(Keep(frames, PublishesIn(frames))),
              !.dead = @ \cup RejectedIn(b, c, frames),
              !.deliveries[c] = Marked(@, SettlesIn(frames))]
BY Zenon DEF Arrive, MessagesIn, PublishesIn, RejectedIn, SettlesIn

LEMMA MarkedNone ==
  ASSUME NEW b, BrokerType(b), NEW c \in Links
  PROVE  Marked(b.deliveries[c], {}) = b.deliveries[c]
<1> DEFINE ds == b.deliveries[c]
<1>1. ds \in Seq(Deliveries)
  BY DEF BrokerType
<1> HIDE DEF ds
<1>2. \A u \in DOMAIN ds : ds[u] \in Deliveries
  BY <1>1, LenProperties, ElementOfSeq
<1>3. \A u \in DOMAIN ds : [ds[u] EXCEPT !.settled = @ \/ u \in {}] = ds[u]
  BY <1>2 DEF Deliveries
<1>4. ds = [u \in DOMAIN ds |-> ds[u]]
  BY <1>1, LenProperties
<1>5. Marked(ds, {}) = ds
  BY <1>3, <1>4 DEF Marked
<1> QED
  BY <1>5 DEF ds

LEMMA QueueOf ==
  ASSUME NEW b, BrokerType(b)
  PROVE  b.queue \in Seq(Messages)
BY DEF BrokerType

LEMMA NothingPublished ==
  ASSUME NEW b, BrokerType(b), NEW frames \in Seq(Frames),
         \A j \in 1..Len(frames) : frames[j].kind # "publish"
  PROVE  b.queue \o MessagesIn(Keep(frames, PublishesIn(frames))) = b.queue
<1>1. Keep(frames, PublishesIn(frames)) = <<>>
  <2>1. \A j \in 1..Len(frames) : frames[j] \notin PublishesIn(frames)
    BY DEF PublishesIn
  <2> QED
    BY <2>1, KeepNone
<1>2. MessagesIn(<<>>) = <<>>
  BY DEF MessagesIn
<1> QED
  BY <1>1, <1>2, QueueOf, ConcatEmptySeq

LEMMA OnePublished ==
  ASSUME NEW b, BrokerType(b), NEW frames \in Seq(Frames), NEW j \in 1..Len(frames),
         frames[j].kind = "publish",
         \A i \in 1..Len(frames) : i # j => frames[i].kind # "publish"
  PROVE  b.queue \o MessagesIn(Keep(frames, PublishesIn(frames)))
           = Append(b.queue, frames[j].message)
<1>0. DOMAIN frames = 1..Len(frames) /\ frames[j] \in Frames
  BY LenProperties, ElementOfSeq
<1>1. Keep(frames, PublishesIn(frames)) = <<frames[j]>>
  <2>1. frames[j] \in PublishesIn(frames)
    BY <1>0 DEF PublishesIn, Range
  <2>2. \A i \in 1..Len(frames) : i # j => frames[i] \notin PublishesIn(frames)
    BY DEF PublishesIn
  <2> QED
    BY <2>1, <2>2, KeepOne
<1>2. MessagesIn(<<frames[j]>>) = <<frames[j].message>>
  BY DEF MessagesIn
<1>3. frames[j].message \in Messages
  BY <1>0 DEF Frames
<1> QED
  BY <1>1, <1>2, <1>3, QueueOf, AppendIsConcat

LEMMA SameBroker ==
  ASSUME NEW a, BrokerType(a), NEW b, BrokerType(b), a.queue = b.queue, a.dead = b.dead,
         a.deliveries = b.deliveries, a.subscriptions = b.subscriptions
  PROVE  a = b
BY DEF BrokerType

(* A broker with another queue, dead letters and deliveries on c.            *)
Replaced(b, c, q, dead, ds) ==
  [b EXCEPT !.queue = q, !.dead = dead, !.deliveries[c] = ds]

LEMMA ReplacedFields ==
  ASSUME NEW b, BrokerType(b), NEW c \in Links, NEW q \in Seq(Messages),
         NEW dead \in SUBSET Messages, NEW ds \in Seq(Deliveries)
  PROVE  /\ BrokerType(Replaced(b, c, q, dead, ds))
         /\ Replaced(b, c, q, dead, ds).queue = q
         /\ Replaced(b, c, q, dead, ds).dead = dead
         /\ Replaced(b, c, q, dead, ds).deliveries = [b.deliveries EXCEPT ![c] = ds]
         /\ Replaced(b, c, q, dead, ds).subscriptions = b.subscriptions
<1> DEFINE all == [b.deliveries EXCEPT ![c] = ds]
<1>1. all \in [Links -> Seq(Deliveries)]
  BY DEF BrokerType
<1>2. Replaced(b, c, q, dead, ds) = [b EXCEPT !.queue = q, !.dead = dead, !.deliveries = all]
  BY DEF Replaced, BrokerType
<1> HIDE DEF all
<1>3. /\ BrokerType(Replaced(b, c, q, dead, ds))
      /\ Replaced(b, c, q, dead, ds).queue = q
      /\ Replaced(b, c, q, dead, ds).dead = dead
      /\ Replaced(b, c, q, dead, ds).deliveries = all
      /\ Replaced(b, c, q, dead, ds).subscriptions = b.subscriptions
  BY <1>1, <1>2 DEF BrokerType
<1> QED
  BY <1>3 DEF all

LEMMA ArriveReplaces ==
  ASSUME NEW b, BrokerType(b), NEW c, NEW frames
  PROVE  Arrive(b, c, frames) =
           Replaced(b, c, b.queue \o MessagesIn(Keep(frames, PublishesIn(frames))),
                    b.dead \cup RejectedIn(b, c, frames),
                    Marked(b.deliveries[c], SettlesIn(frames)))
BY ArriveParts DEF Replaced, BrokerType

LEMMA SettlesReplaces ==
  ASSUME NEW b, BrokerType(b), NEW c, NEW tag, NEW dead
  PROVE  Settles(b, c, tag, dead) =
           Replaced(b, c, b.queue, b.dead \cup dead, Marked(b.deliveries[c], {tag}))
BY DEF Settles, Replaced, BrokerType

LEMMA MarkedType ==
  ASSUME NEW b, BrokerType(b), NEW c \in Links, NEW tags
  PROVE  Marked(b.deliveries[c], tags) \in Seq(Deliveries)
<1> DEFINE ds == b.deliveries[c]
<1>1. ds \in Seq(Deliveries)
  BY DEF BrokerType
<1> HIDE DEF ds
<1>2. Len(ds) \in Nat /\ DOMAIN ds = 1..Len(ds) /\ \A u \in DOMAIN ds : ds[u] \in Deliveries
  BY <1>1, LenProperties, ElementOfSeq
<1>3. Marked(ds, tags) \in [1..Len(ds) -> Deliveries]
  BY <1>2 DEF Marked, Deliveries
<1>4. Marked(ds, tags) \in Seq(Deliveries)
  BY <1>2, <1>3, SeqDef
<1> QED
  BY <1>4 DEF ds

LEMMA ArriveNone ==
  ASSUME NEW b, BrokerType(b), NEW c \in Links
  PROVE  Arrive(b, c, <<>>) = b
<1> DEFINE fs == <<>>
<1>1. fs \in Seq(Frames) /\ Len(fs) = 0 /\ Range(fs) = {}
  BY EmptySeq DEF Range
<1> HIDE DEF fs
<1>2. b.queue \o MessagesIn(Keep(fs, PublishesIn(fs))) = b.queue
  <2>1. \A j \in 1..Len(fs) : fs[j].kind # "publish"
    BY <1>1
  <2> QED
    BY <1>1, <2>1, NothingPublished
<1>3. RejectedIn(b, c, fs) = {} /\ SettlesIn(fs) = {}
  BY <1>1 DEF RejectedIn, SettlesIn
<1>4. Arrive(b, c, fs) = Replaced(b, c, b.queue, b.dead, b.deliveries[c])
  <2>1. Arrive(b, c, fs) =
          Replaced(b, c, b.queue \o MessagesIn(Keep(fs, PublishesIn(fs))),
                   b.dead \cup RejectedIn(b, c, fs), Marked(b.deliveries[c], SettlesIn(fs)))
    BY ArriveReplaces
  <2>2. Marked(b.deliveries[c], {}) = b.deliveries[c] /\ b.dead \cup {} = b.dead
    BY MarkedNone
  <2> QED
    BY <1>2, <1>3, <2>1, <2>2
<1>5. /\ b.queue \in Seq(Messages) /\ b.dead \in SUBSET Messages
      /\ b.deliveries[c] \in Seq(Deliveries)
      /\ [b.deliveries EXCEPT ![c] = b.deliveries[c]] = b.deliveries
  BY DEF BrokerType
<1>6. Arrive(b, c, fs) = b
  BY <1>4, <1>5, ReplacedFields, SameBroker
<1> QED
  BY <1>6 DEF fs

LEMMA ArrivePublish ==
  ASSUME NEW b, BrokerType(b), NEW c \in Links, NEW f \in Frames, f.kind = "publish"
  PROVE  Arrive(b, c, <<f>>) = Publishes(b, f.message)
<1> DEFINE fs == <<f>>
           q == Append(b.queue, f.message)
<1>0. f.message \in Messages
  BY DEF Frames
<1>1. fs \in Seq(Frames) /\ Len(fs) = 1 /\ fs[1] = f /\ Range(fs) = {f}
  BY DEF Range
<1> HIDE DEF fs
<1>2. b.queue \o MessagesIn(Keep(fs, PublishesIn(fs))) = q
  BY <1>1, OnePublished
<1>3. RejectedIn(b, c, fs) = {} /\ SettlesIn(fs) = {}
  BY <1>1 DEF RejectedIn, SettlesIn
<1>4. Arrive(b, c, fs) = Replaced(b, c, q, b.dead, b.deliveries[c])
  <2>1. Arrive(b, c, fs) =
          Replaced(b, c, b.queue \o MessagesIn(Keep(fs, PublishesIn(fs))),
                   b.dead \cup RejectedIn(b, c, fs), Marked(b.deliveries[c], SettlesIn(fs)))
    BY ArriveReplaces
  <2>2. Marked(b.deliveries[c], {}) = b.deliveries[c] /\ b.dead \cup {} = b.dead
    BY MarkedNone
  <2> QED
    BY <1>2, <1>3, <2>1, <2>2
<1>5. /\ q \in Seq(Messages) /\ b.dead \in SUBSET Messages
      /\ b.deliveries[c] \in Seq(Deliveries)
      /\ [b.deliveries EXCEPT ![c] = b.deliveries[c]] = b.deliveries
  BY <1>0, QueueOf, AppendProperties DEF BrokerType
<1>6. /\ BrokerType(Publishes(b, f.message)) /\ Publishes(b, f.message).queue = q
      /\ Publishes(b, f.message).dead = b.dead
      /\ Publishes(b, f.message).deliveries = b.deliveries
  BY <1>0, PublishesFields
<1>7. Publishes(b, f.message).subscriptions = b.subscriptions
  BY DEF Publishes, BrokerType
<1> HIDE DEF q
<1>8. Arrive(b, c, fs) = Publishes(b, f.message)
  BY <1>4, <1>5, <1>6, <1>7, ReplacedFields, SameBroker
<1> QED
  BY <1>8 DEF fs

LEMMA ArriveSettle ==
  ASSUME NEW b, BrokerType(b), NEW c \in Links, NEW f \in Frames, f.kind # "publish"
  PROVE  Arrive(b, c, <<f>>) =
           Settles(b, c, f.tag, IF f.kind = "nack" THEN {Settled(b, c, f)} ELSE {})
<1> DEFINE fs == <<f>>
           dead == IF f.kind = "nack" THEN {Settled(b, c, f)} ELSE {}
<1>1. fs \in Seq(Frames) /\ Len(fs) = 1 /\ fs[1] = f /\ Range(fs) = {f}
  BY DEF Range
<1> HIDE DEF fs
<1>2. b.queue \o MessagesIn(Keep(fs, PublishesIn(fs))) = b.queue
  BY <1>1, NothingPublished
<1>3. f.kind \in {"ack", "nack"}
  BY DEF Frames, Kinds
<1>4. RejectedIn(b, c, fs) = dead /\ SettlesIn(fs) = {f.tag}
  BY <1>1, <1>3 DEF RejectedIn, SettlesIn
<1> HIDE DEF dead
<1>5. Arrive(b, c, fs) = Settles(b, c, f.tag, dead)
  <2>1. Arrive(b, c, fs) =
          Replaced(b, c, b.queue \o MessagesIn(Keep(fs, PublishesIn(fs))),
                   b.dead \cup RejectedIn(b, c, fs), Marked(b.deliveries[c], SettlesIn(fs)))
    BY ArriveReplaces
  <2>2. Settles(b, c, f.tag, dead) =
          Replaced(b, c, b.queue, b.dead \cup dead, Marked(b.deliveries[c], {f.tag}))
    BY SettlesReplaces
  <2> QED
    BY <1>2, <1>4, <2>1, <2>2
<1> QED
  BY <1>5 DEF fs, dead

LEMMA ArriveRetry ==
  ASSUME NEW b, BrokerType(b), NEW c \in Links, NEW p \in Frames, NEW a \in Frames,
         p.kind = "publish", a.kind = "ack"
  PROVE  Arrive(b, c, <<p, a>>) = Settles(Publishes(b, p.message), c, a.tag, {})
<1> DEFINE fs == <<p, a>>
           q == Append(b.queue, p.message)
           b1 == Publishes(b, p.message)
<1>0. p.message \in Messages
  BY DEF Frames
<1>1. fs \in Seq(Frames) /\ Len(fs) = 2 /\ fs[1] = p /\ fs[2] = a /\ Range(fs) = {p, a}
  BY DEF Range
<1> HIDE DEF fs
<1>2. b.queue \o MessagesIn(Keep(fs, PublishesIn(fs))) = q
  <2>1. \A i \in 1..Len(fs) : i # 1 => fs[i].kind # "publish"
    BY <1>1
  <2>2. 1 \in 1..Len(fs) /\ fs[1].kind = "publish" /\ fs[1].message = p.message
    BY <1>1
  <2>3. b.queue \o MessagesIn(Keep(fs, PublishesIn(fs))) = Append(b.queue, fs[1].message)
    BY <1>1, <2>1, <2>2, OnePublished
  <2> QED
    BY <2>2, <2>3
<1>3. RejectedIn(b, c, fs) = {} /\ SettlesIn(fs) = {a.tag}
  BY <1>1 DEF RejectedIn, SettlesIn
<1>4. /\ BrokerType(b1) /\ b1.queue = q /\ b1.dead = b.dead /\ b1.deliveries = b.deliveries
      /\ b1.subscriptions = b.subscriptions /\ q \in Seq(Messages)
  <2>1. b1.subscriptions = b.subscriptions
    BY DEF Publishes, BrokerType
  <2> QED
    BY <1>0, <2>1, PublishesFields, QueueOf, AppendProperties
<1> DEFINE ds == Marked(b.deliveries[c], {a.tag})
<1>5. ds \in Seq(Deliveries) /\ b.dead \in SUBSET Messages
  BY MarkedType DEF BrokerType
<1>6. Arrive(b, c, fs) = Replaced(b, c, q, b.dead, ds)
  <2>1. Arrive(b, c, fs) =
          Replaced(b, c, b.queue \o MessagesIn(Keep(fs, PublishesIn(fs))),
                   b.dead \cup RejectedIn(b, c, fs), Marked(b.deliveries[c], SettlesIn(fs)))
    BY ArriveReplaces
  <2>2. b.dead \cup {} = b.dead
    OBVIOUS
  <2> QED
    BY <1>2, <1>3, <2>1, <2>2
<1> HIDE DEF q, b1, ds
<1>7. Settles(b1, c, a.tag, {}) = Replaced(b1, c, q, b.dead, ds)
  <2>1. Settles(b1, c, a.tag, {}) =
          Replaced(b1, c, b1.queue, b1.dead \cup {}, Marked(b1.deliveries[c], {a.tag}))
    <3>1. BrokerType(b1)
      BY <1>4
    <3> QED
      BY ONLY <3>1, SettlesReplaces, Zenon
  <2>2. b1.dead \cup {} = b.dead /\ b1.deliveries[c] = b.deliveries[c]
    BY <1>4
  <2> QED
    BY <1>4, <2>1, <2>2 DEF ds
<1>8. Arrive(b, c, fs) = Settles(b1, c, a.tag, {})
  <2>1. /\ BrokerType(Replaced(b, c, q, b.dead, ds))
        /\ Replaced(b, c, q, b.dead, ds).queue = q
        /\ Replaced(b, c, q, b.dead, ds).dead = b.dead
        /\ Replaced(b, c, q, b.dead, ds).deliveries = [b.deliveries EXCEPT ![c] = ds]
        /\ Replaced(b, c, q, b.dead, ds).subscriptions = b.subscriptions
    BY <1>4, <1>5, ReplacedFields
  <2>2. /\ BrokerType(Replaced(b1, c, q, b.dead, ds))
        /\ Replaced(b1, c, q, b.dead, ds).queue = q
        /\ Replaced(b1, c, q, b.dead, ds).dead = b.dead
        /\ Replaced(b1, c, q, b.dead, ds).deliveries = [b1.deliveries EXCEPT ![c] = ds]
        /\ Replaced(b1, c, q, b.dead, ds).subscriptions = b1.subscriptions
    BY <1>4, <1>5, ReplacedFields
  <2>3. Replaced(b, c, q, b.dead, ds) = Replaced(b1, c, q, b.dead, ds)
    BY <1>4, <2>1, <2>2, SameBroker
  <2> QED
    BY <1>6, <1>7, <2>3
<1> QED
  BY <1>8 DEF fs, b1
-----------------------------------------------------------------------------
(* Transmit, for the frames the code writes: the connection closes after    *)
(* some of them have arrived, or all arrive.                                *)
CutOff(b, c, past, ids) ==
  /\ Closes(c) /\ (Fault("link") \/ Fault("tag"))
  /\ broker' = b
  /\ history' = Past(past, ids, {}, UnsettledIds(b, {c}))

Arrived(b, past, ids, lost) ==
  /\ UNCHANGED <<links, managers, channel, loops, faults>>
  /\ broker' = b
  /\ history' = Past(past, ids, lost, {})

PublishedIds(frames) == {f.message.id : f \in {g \in Range(frames) : g.kind = "publish"}}

(* The message a frame settles, when it is not the one it was meant for.    *)
Lost(b, c, f) == IF Settled(b, c, f) # f.message THEN {Settled(b, c, f).id} ELSE {}
Rejects(b, c, f) == IF f.kind = "nack" THEN {Settled(b, c, f)} ELSE {}

AfterFrames(b, c, frames, past, k) ==
  /\ \A f \in Range(SubSeq(frames, 1, k)) : Accepts(b, c, f)
  /\ \/ k = Len(frames)
        /\ Arrived(Arrive(b, c, SubSeq(frames, 1, k)), past,
                   PublishedIds(SubSeq(frames, 1, k)), Misdirected(b, c, SubSeq(frames, 1, k)))
     \/ k < Len(frames)
        /\ Closes(c) /\ (Fault("link") \/ Fault("tag"))
        /\ broker' = Arrive(b, c, SubSeq(frames, 1, k))
        /\ history' = Past(past, PublishedIds(SubSeq(frames, 1, k)),
                           Misdirected(b, c, SubSeq(frames, 1, k)),
                           UnsettledIds(Arrive(b, c, SubSeq(frames, 1, k)), {c}))

LEMMA TransmitSteps ==
  ASSUME NEW b, NEW c, NEW frames, Len(frames) \in Nat, NEW past, Transmit(b, c, frames, past)
  PROVE  \E k \in 0..Len(frames) : AfterFrames(b, c, frames, past, k)
<1>1. PICK k \in 0..Len(frames) :
        LET arrived == SubSeq(frames, 1, k)
            after == Arrive(b, c, arrived)
        IN  /\ \A f \in Range(arrived) : Accepts(b, c, f)
            /\ broker' = after
            /\ \/ /\ k = Len(frames)
                  /\ UNCHANGED <<links, managers, channel, loops, faults>>
               \/ /\ k < Len(frames)
                  /\ Closes(c)
                  /\ IF Accepts(b, c, frames[k + 1]) THEN Fault("link") ELSE Fault("tag")
            /\ history' =
                 [past EXCEPT
                    !.accepted = @ \cup {f.message.id : f \in {g \in Range(arrived) : g.kind = "publish"}},
                    !.misdirected = @ \cup Misdirected(b, c, arrived),
                    !.disturbed = @ \cup (IF k < Len(frames) THEN UnsettledIds(after, {c}) ELSE {})]
  BY Zenon DEF Transmit
<1>2. k < Len(frames) <=> k # Len(frames)
  BY <1>1
<1> DEFINE arrived == SubSeq(frames, 1, k)
           after == Arrive(b, c, arrived)
<1>3. CASE k = Len(frames)
  <2>1. history' = Past(past, PublishedIds(arrived), Misdirected(b, c, arrived), {})
    BY <1>1, <1>2, <1>3, Zenon DEF Past, PublishedIds
  <2>2. /\ \A f \in Range(arrived) : Accepts(b, c, f)
        /\ UNCHANGED <<links, managers, channel, loops, faults>> /\ broker' = after
    BY <1>1, <1>2, <1>3, Zenon
  <2> QED
    BY <1>3, <2>1, <2>2, Zenon DEF AfterFrames, Arrived
<1>4. CASE k < Len(frames)
  <2>1. history' = Past(past, PublishedIds(arrived), Misdirected(b, c, arrived),
                        UnsettledIds(after, {c}))
    BY <1>1, <1>4, Zenon DEF Past, PublishedIds
  <2>2. /\ \A f \in Range(arrived) : Accepts(b, c, f)
        /\ Closes(c) /\ (Fault("link") \/ Fault("tag")) /\ broker' = after
    BY <1>1, <1>2, <1>4, Zenon
  <2> QED
    BY <1>4, <2>1, <2>2, Zenon DEF AfterFrames
<1> QED
  BY <1>2, <1>3, <1>4

LEMMA AfterNoFrame ==
  ASSUME NEW b, BrokerType(b), NEW c \in Links, NEW frames, Len(frames) \in Nat \ {0},
         NEW past, AfterFrames(b, c, frames, past, 0)
  PROVE  CutOff(b, c, past, {})
<1>1. SubSeq(frames, 1, 0) = <<>>
  BY SubSeqEmpty
<1>2. Arrive(b, c, <<>>) = b
  BY ArriveNone
<1>3. PublishedIds(<<>>) = {} /\ Misdirected(b, c, <<>>) = {}
  BY DEF PublishedIds, Misdirected, Range
<1>4. 0 # Len(frames)
  OBVIOUS
<1> QED
  BY <1>1, <1>2, <1>3, <1>4, Zenon DEF AfterFrames, CutOff

LEMMA AfterAllFrames ==
  ASSUME NEW b, NEW c, NEW frames, Len(frames) \in Nat,
         SubSeq(frames, 1, Len(frames)) = frames,
         NEW past, AfterFrames(b, c, frames, past, Len(frames))
  PROVE  /\ \A f \in Range(frames) : Accepts(b, c, f)
         /\ UNCHANGED <<links, managers, channel, loops, faults>>
         /\ broker' = Arrive(b, c, frames)
         /\ history' = Past(past, PublishedIds(frames), Misdirected(b, c, frames), {})
<1>1. ~(Len(frames) < Len(frames))
  OBVIOUS
<1> QED
  BY <1>1, Zenon DEF AfterFrames, Arrived

LEMMA TransmitPublish ==
  ASSUME NEW b, BrokerType(b), NEW c \in Links, NEW f \in Frames, f.kind = "publish",
         NEW past, Transmit(b, c, <<f>>, past)
  PROVE  \/ CutOff(b, c, past, {})
         \/ Arrived(Publishes(b, f.message), past, {f.message.id}, {})
<1> DEFINE fs == <<f>>
<1>0. fs \in Seq(Frames) /\ Len(fs) = 1 /\ Range(fs) = {f}
  BY DEF Range
<1>1. Len(fs) \in Nat \ {0} /\ SubSeq(fs, 1, 1) = fs
  <2> HIDE DEF fs
  <2>1. SubSeq(fs, 1, Len(fs)) = fs
    BY <1>0, SubSeqFull
  <2> QED
    BY <1>0, <2>1
<1>2. Arrive(b, c, fs) = Publishes(b, f.message)
  BY ArrivePublish
<1>3. Transmit(b, c, fs, past)
  OBVIOUS
<1> HIDE DEF fs
<1>4. PublishedIds(fs) = {f.message.id} /\ Misdirected(b, c, fs) = {}
  BY <1>0 DEF PublishedIds, Misdirected
<1>5. PICK k \in 0..Len(fs) : AfterFrames(b, c, fs, past, k)
  BY <1>1, <1>3, TransmitSteps, Zenon
<1>6. CASE k = 0
  BY <1>1, <1>5, <1>6, AfterNoFrame
<1>7. CASE k = 1
  <2>1. AfterFrames(b, c, fs, past, Len(fs)) /\ SubSeq(fs, 1, Len(fs)) = fs
    BY <1>0, <1>1, <1>5, <1>7
  <2>2. /\ UNCHANGED <<links, managers, channel, loops, faults>>
        /\ broker' = Arrive(b, c, fs)
        /\ history' = Past(past, PublishedIds(fs), Misdirected(b, c, fs), {})
    BY <1>1, <2>1, AfterAllFrames
  <2> QED
    BY <1>2, <1>4, <2>2, Zenon DEF Arrived
<1> QED
  BY <1>0, <1>5, <1>6, <1>7

LEMMA TransmitSettle ==
  ASSUME NEW b, BrokerType(b), NEW c \in Links, NEW f \in Frames, f.kind # "publish",
         NEW past, Transmit(b, c, <<f>>, past)
  PROVE  \/ CutOff(b, c, past, {})
         \/ /\ f.tag \in Unsettled(b, c)
            /\ Arrived(Settles(b, c, f.tag, Rejects(b, c, f)), past, {}, Lost(b, c, f))
<1> DEFINE fs == <<f>>
<1>0. fs \in Seq(Frames) /\ Len(fs) = 1 /\ Range(fs) = {f}
  BY DEF Range
<1>1. Len(fs) \in Nat \ {0} /\ SubSeq(fs, 1, 1) = fs
  <2> HIDE DEF fs
  <2>1. SubSeq(fs, 1, Len(fs)) = fs
    BY <1>0, SubSeqFull
  <2> QED
    BY <1>0, <2>1
<1>2. Arrive(b, c, fs) = Settles(b, c, f.tag, Rejects(b, c, f))
  BY ArriveSettle DEF Rejects
<1>3. Transmit(b, c, fs, past)
  OBVIOUS
<1> HIDE DEF fs
<1>4. PublishedIds(fs) = {} /\ Misdirected(b, c, fs) = Lost(b, c, f)
  BY <1>0 DEF PublishedIds, Misdirected, Lost
<1>5. PICK k \in 0..Len(fs) : AfterFrames(b, c, fs, past, k)
  BY <1>1, <1>3, TransmitSteps, Zenon
<1>6. CASE k = 0
  BY <1>1, <1>5, <1>6, AfterNoFrame
<1>7. CASE k = 1
  <2>1. AfterFrames(b, c, fs, past, Len(fs)) /\ SubSeq(fs, 1, Len(fs)) = fs
    BY <1>0, <1>1, <1>5, <1>7
  <2>2. /\ \A g \in Range(fs) : Accepts(b, c, g)
        /\ UNCHANGED <<links, managers, channel, loops, faults>>
        /\ broker' = Arrive(b, c, fs)
        /\ history' = Past(past, PublishedIds(fs), Misdirected(b, c, fs), {})
    BY <1>1, <2>1, AfterAllFrames
  <2>3. f.tag \in Unsettled(b, c)
    BY <1>0, <2>2 DEF Accepts
  <2> QED
    BY <1>2, <1>4, <2>2, <2>3, Zenon DEF Arrived
<1> QED
  BY <1>0, <1>5, <1>6, <1>7

LEMMA TransmitRetry ==
  ASSUME NEW b, BrokerType(b), NEW c \in Links, NEW p \in Frames, NEW a \in Frames,
         p.kind = "publish", a.kind = "ack", NEW past, Transmit(b, c, <<p, a>>, past)
  PROVE  \/ CutOff(b, c, past, {})
         \/ CutOff(Publishes(b, p.message), c, past, {p.message.id})
         \/ /\ a.tag \in Unsettled(b, c)
            /\ Arrived(Settles(Publishes(b, p.message), c, a.tag, {}), past, {p.message.id},
                       Lost(b, c, a))
<1> DEFINE fs == <<p, a>>
           one == <<p>>
<1>0. /\ fs \in Seq(Frames) /\ Len(fs) = 2 /\ Range(fs) = {p, a} /\ fs[1] = p
      /\ one \in Seq(Frames) /\ Len(one) = 1 /\ one[1] = p
  BY DEF Range
<1>1. Len(fs) \in Nat \ {0} /\ SubSeq(fs, 1, 1) = one /\ SubSeq(fs, 1, 2) = fs
  <2>1. /\ SubSeq(fs, 1, 1) \in Seq(Frames) /\ Len(SubSeq(fs, 1, 1)) = 1
        /\ SubSeq(fs, 1, 1)[1] = fs[1]
    <3>1. \A i \in 1..1 : fs[i] \in Frames
      BY <1>0
    <3> HIDE DEF fs
    <3> QED
      BY <3>1, SubSeqProperties
  <2> HIDE DEF fs, one
  <2>2. SubSeq(fs, 1, 1) = one
    BY <1>0, <2>1, SeqEqual
  <2> QED
    BY <1>0, <2>2, SubSeqFull
<1>2. Arrive(b, c, fs) = Settles(Publishes(b, p.message), c, a.tag, {})
  BY ArriveRetry
<1>3. Arrive(b, c, one) = Publishes(b, p.message) /\ Range(one) = {p}
  BY ArrivePublish DEF Range
<1>4. Transmit(b, c, fs, past)
  OBVIOUS
<1> HIDE DEF fs, one
<1>5. PublishedIds(fs) = {p.message.id} /\ Misdirected(b, c, fs) = Lost(b, c, a)
  BY <1>0 DEF PublishedIds, Misdirected, Lost
<1>6. PublishedIds(one) = {p.message.id} /\ Misdirected(b, c, one) = {}
  BY <1>3 DEF PublishedIds, Misdirected
<1>7. PICK k \in 0..Len(fs) : AfterFrames(b, c, fs, past, k)
  BY <1>1, <1>4, TransmitSteps, Zenon
<1>8. CASE k = 0
  BY <1>1, <1>7, <1>8, AfterNoFrame
<1>9. CASE k = 1
  BY <1>0, <1>1, <1>3, <1>6, <1>7, <1>9 DEF AfterFrames, CutOff
<1>10. CASE k = 2
  <2>1. AfterFrames(b, c, fs, past, Len(fs)) /\ SubSeq(fs, 1, Len(fs)) = fs
    BY <1>0, <1>1, <1>7, <1>10
  <2>2. /\ \A g \in Range(fs) : Accepts(b, c, g)
        /\ UNCHANGED <<links, managers, channel, loops, faults>>
        /\ broker' = Arrive(b, c, fs)
        /\ history' = Past(past, PublishedIds(fs), Misdirected(b, c, fs), {})
    BY <1>1, <2>1, AfterAllFrames
  <2>3. a.tag \in Unsettled(b, c)
    BY <1>0, <2>2 DEF Accepts
  <2> QED
    BY <1>2, <1>5, <2>2, <2>3, Zenon DEF Arrived
<1> QED
  BY <1>0, <1>7, <1>8, <1>9, <1>10
-----------------------------------------------------------------------------
(* Messages that move: from the queue to a channel, and back.                *)
Takes(b, c) ==
  [b EXCEPT !.queue = Tail(@),
            !.deliveries[c] = Append(@, [message |-> Head(b.queue), settled |-> FALSE])]

Backs(b, c) ==
  MessagesIn(Keep(b.deliveries[c], {d \in Range(b.deliveries[c]) : ~d.settled}))
Requeues(b, c) ==
  [b EXCEPT !.queue = Backs(b, c) \o @, !.deliveries[c] = <<>>, !.subscriptions[c] = 0]

(* Every place of a message in a comes from a place of its own in b, and a  *)
(* message that had one still has one.                                      *)
SamePlaces(b, a, id) ==
  /\ \E g \in [At(a, id) -> At(b, id)] : \A p, q \in At(a, id) : g[p] = g[q] => p = q
  /\ At(b, id) # {} => At(a, id) # {}

NextTag(b, c) == Len(b.deliveries[c]) + 1

LEMMA TakesFields ==
  ASSUME NEW b, BrokerType(b), NEW c \in Links, b.queue # <<>>
  PROVE  /\ BrokerType(Takes(b, c))
         /\ Head(b.queue) \in Messages /\ NextTag(b, c) \in Nat \ {0}
         /\ Takes(b, c).queue = Tail(b.queue)
         /\ Takes(b, c).dead = b.dead
         /\ Takes(b, c).subscriptions = b.subscriptions
         /\ Takes(b, c).deliveries[c] =
              Append(b.deliveries[c], [message |-> Head(b.queue), settled |-> FALSE])
         /\ \A d \in Links : d # c => Takes(b, c).deliveries[d] = b.deliveries[d]
<1> DEFINE new == [message |-> Head(b.queue), settled |-> FALSE]
           ds == Append(b.deliveries[c], new)
           q == Tail(b.queue)
           all == [b.deliveries EXCEPT ![c] = ds]
<1>1. Head(b.queue) \in Messages /\ q \in Seq(Messages)
  BY QueueOf, HeadTailProperties
<1>2. new \in Deliveries
  BY <1>1 DEF Deliveries
<1>3. b.deliveries[c] \in Seq(Deliveries)
  BY DEF BrokerType
<1> HIDE DEF new
<1>4. ds \in Seq(Deliveries) /\ NextTag(b, c) \in Nat \ {0}
  BY <1>2, <1>3, AppendProperties, LenProperties DEF NextTag
<1>5. Takes(b, c) = [b EXCEPT !.queue = q, !.deliveries = all]
  BY DEF Takes, BrokerType, new
<1> HIDE DEF ds, q
<1>6. /\ all \in [Links -> Seq(Deliveries)] /\ all[c] = ds
      /\ \A d \in Links : d # c => all[d] = b.deliveries[d]
  BY <1>4 DEF BrokerType
<1> HIDE DEF all
<1>7. /\ BrokerType(Takes(b, c)) /\ Takes(b, c).queue = q /\ Takes(b, c).dead = b.dead
      /\ Takes(b, c).deliveries = all /\ Takes(b, c).subscriptions = b.subscriptions
  BY <1>1, <1>5, <1>6 DEF BrokerType
<1> QED
  BY <1>1, <1>4, <1>6, <1>7 DEF q, ds, new

LEMMA TakesUnsettled ==
  ASSUME NEW b, BrokerType(b), NEW c \in Links, b.queue # <<>>
  PROVE  /\ \A d \in Links :
              Unsettled(Takes(b, c), d) =
                Unsettled(b, d) \cup (IF d = c THEN {NextTag(b, c)} ELSE {})
         /\ NextTag(b, c) \notin DOMAIN b.deliveries[c]
         /\ Takes(b, c).deliveries[c][NextTag(b, c)] =
              [message |-> Head(b.queue), settled |-> FALSE]
         /\ \A d \in Links : \A u \in Unsettled(b, d) :
              Takes(b, c).deliveries[d][u] = b.deliveries[d][u]
<1> DEFINE new == [message |-> Head(b.queue), settled |-> FALSE]
           ds == b.deliveries[c]
           t == NextTag(b, c)
           a == Takes(b, c)
<1>0. new \in Deliveries /\ new.settled = FALSE
  BY TakesFields DEF Deliveries
<1>1. /\ a.deliveries[c] = Append(ds, new)
      /\ \A d \in Links : d # c => a.deliveries[d] = b.deliveries[d]
  BY TakesFields
<1>2. ds \in Seq(Deliveries) /\ t = Len(ds) + 1
  BY DEF BrokerType, NextTag
<1> HIDE DEF new, ds, t, a
<1>3. /\ Len(ds) \in Nat /\ DOMAIN ds = 1..Len(ds)
      /\ DOMAIN Append(ds, new) = 1..t
      /\ Append(ds, new)[t] = new
      /\ \A u \in 1..Len(ds) : Append(ds, new)[u] = ds[u]
  <2>1. /\ Append(ds, new) \in Seq(Deliveries) /\ Len(Append(ds, new)) = t
        /\ Append(ds, new)[t] = new /\ \A u \in 1..Len(ds) : Append(ds, new)[u] = ds[u]
    BY <1>0, <1>2, AppendProperties
  <2> QED
    BY <1>2, <2>1, LenProperties
<1>4. t \notin DOMAIN ds /\ a.deliveries[c][t] = new
  BY <1>1, <1>2, <1>3
<1>5. Unsettled(a, c) = Unsettled(b, c) \cup {t}
  BY <1>0, <1>1, <1>2, <1>3 DEF Unsettled, ds
<1>6. \A d \in Links : d # c => Unsettled(a, d) = Unsettled(b, d)
  BY <1>1 DEF Unsettled
<1>7. ASSUME NEW d \in Links, NEW u \in Unsettled(b, d)
      PROVE  a.deliveries[d][u] = b.deliveries[d][u]
  <2>1. CASE d = c
    <3>1. u \in 1..Len(ds)
      BY <1>3, <2>1 DEF Unsettled, ds
    <3> QED
      BY <1>1, <1>3, <2>1, <3>1 DEF ds
  <2> QED
    BY <1>1, <2>1
<1> QED
  BY <1>4, <1>5, <1>6, <1>7 DEF new, ds, t, a

LEMMA TakesPlaces ==
  ASSUME NEW b, BrokerType(b), NEW c \in Links, b.queue # <<>>, NEW id
  PROVE  /\ SamePlaces(b, Takes(b, c), id)
         /\ id = Head(b.queue).id => <<c, NextTag(b, c)>> \in At(Takes(b, c), id)
<1> DEFINE a == Takes(b, c)
           t == NextTag(b, c)
           m == Head(b.queue)
           q == b.queue
<1>0. NoLink \notin Links
  BY NoLinkIsNoLink
<1>1. /\ q \in Seq(Messages) /\ Len(q) \in Nat \ {0} /\ DOMAIN q = 1..Len(q)
      /\ a.queue = Tail(q) /\ m = q[1]
  <2>1. q \in Seq(Messages) /\ a.queue = Tail(q)
    BY QueueOf, TakesFields
  <2>2. Len(q) \in Nat \ {0} /\ DOMAIN q = 1..Len(q)
    BY <2>1, EmptySeq, LenProperties
  <2> QED
    BY <2>1, <2>2
<1>2. /\ DOMAIN a.queue = 1..Len(q) - 1
      /\ \A i \in 1..Len(q) - 1 : a.queue[i] = q[i + 1]
  <2>1. /\ Tail(q) \in Seq(Messages) /\ Len(Tail(q)) = Len(q) - 1
        /\ \A i \in 1..Len(Tail(q)) : Tail(q)[i] = q[i + 1]
    BY <1>1, HeadTailProperties
  <2>2. DOMAIN Tail(q) = 1..Len(Tail(q))
    BY <2>1, LenProperties
  <2> QED
    BY <1>1, <2>1, <2>2
<1>3. /\ \A d \in Links : Unsettled(a, d) = Unsettled(b, d) \cup (IF d = c THEN {t} ELSE {})
      /\ t \notin DOMAIN b.deliveries[c]
      /\ a.deliveries[c][t].message = m
      /\ \A d \in Links : \A u \in Unsettled(b, d) : a.deliveries[d][u] = b.deliveries[d][u]
  <2>1. /\ \A d \in Links :
             Unsettled(Takes(b, c), d) =
               Unsettled(b, d) \cup (IF d = c THEN {NextTag(b, c)} ELSE {})
        /\ NextTag(b, c) \notin DOMAIN b.deliveries[c]
        /\ Takes(b, c).deliveries[c][NextTag(b, c)] =
             [message |-> Head(b.queue), settled |-> FALSE]
        /\ \A d \in Links : \A u \in Unsettled(b, d) :
             Takes(b, c).deliveries[d][u] = b.deliveries[d][u]
    BY TakesUnsettled
  <2>2. [message |-> Head(b.queue), settled |-> FALSE].message = Head(b.queue)
    OBVIOUS
  <2> QED
    BY <2>1, <2>2, Zenon
<1>4. t \notin Unsettled(b, c)
  BY <1>3 DEF Unsettled
<1> HIDE DEF a, t, m, q
<1>5. \A d \in Links :
        Holds(a, d, id) = Holds(b, d, id) \cup (IF d = c /\ m.id = id THEN {t} ELSE {})
  <2>1. ASSUME NEW d \in Links, NEW u
        PROVE  u \in Holds(a, d, id) <=> u \in Holds(b, d, id) \/ (d = c /\ m.id = id /\ u = t)
    BY <1>3, <1>4 DEF Holds
  <2> QED
    BY <2>1
<1>6. \A i : i \in Waits(a, id) <=> (i \in 1..Len(q) - 1 /\ i + 1 \in Waits(b, id))
  BY <1>1, <1>2 DEF Waits, q
<1>7. 1 \in Waits(b, id) <=> m.id = id
  BY <1>1 DEF Waits, q
<1> DEFINE image(p) == IF p[1] = NoLink THEN <<NoLink, p[2] + 1>>
                       ELSE IF p = <<c, t>> THEN <<NoLink, 1>> ELSE p
           g == [p \in At(a, id) |-> image(p)]
<1>8. ASSUME NEW p \in At(a, id)
      PROVE  \/ \E i \in Waits(a, id) : /\ p = <<NoLink, i>> /\ i \in Nat \ {0}
                                        /\ image(p) = <<NoLink, i + 1>>
                                        /\ image(p) \in At(b, id)
             \/ p = <<c, t>> /\ image(p) = <<NoLink, 1>> /\ image(p) \in At(b, id)
             \/ p[1] \in Links /\ image(p) = p /\ p \in At(b, id)
  <2>1. ASSUME NEW i \in Waits(a, id), p = <<NoLink, i>>
        PROVE  i \in Nat \ {0} /\ image(p) = <<NoLink, i + 1>> /\ image(p) \in At(b, id)
    BY <1>1, <1>6, <2>1, AtMembers
  <2>2. ASSUME NEW d \in Links, NEW u \in Holds(a, d, id), p = <<d, u>>
        PROVE  \/ p = <<c, t>> /\ image(p) = <<NoLink, 1>> /\ image(p) \in At(b, id)
               \/ p[1] \in Links /\ image(p) = p /\ p \in At(b, id)
    <3>1. d # NoLink /\ p[1] = d
      BY <1>0, <2>2
    <3>2. CASE p = <<c, t>>
      <4>1. d = c /\ u = t
        BY <2>2, <3>2
      <4>2. u \notin Holds(b, d, id)
        BY <1>4, <4>1 DEF Holds
      <4>3. m.id = id
        BY <1>5, <2>2, <4>2
      <4> QED
        BY <1>7, <3>1, <3>2, <4>3, AtMembers
    <3>3. CASE p # <<c, t>>
      <4>1. u \in Holds(b, d, id)
        BY <1>5, <2>2, <3>3
      <4> QED
        BY <2>2, <3>1, <3>3, <4>1, AtMembers
    <3> QED
      BY <3>2, <3>3
  <2> QED
    BY <2>1, <2>2, AtMembers
<1>9. g \in [At(a, id) -> At(b, id)]
  BY <1>8
<1>10. ASSUME NEW p \in At(a, id), NEW r \in At(a, id), g[p] = g[r]
       PROVE  p = r
  <2>1. image(p) = image(r)
    BY <1>10
  <2> HIDE DEF image, g
  <2> QED
    BY <1>0, <1>8, <2>1
<1>11. At(b, id) # {} => At(a, id) # {}
  <2> SUFFICES ASSUME NEW p \in At(b, id) PROVE \E r : r \in At(a, id)
    OBVIOUS
  <2>1. ASSUME NEW i \in Waits(b, id)
        PROVE  \E r : r \in At(a, id)
    <3>1. CASE i = 1
      BY <1>5, <1>7, <2>1, <3>1, AtMembers
    <3>2. CASE i # 1
      <4>1. i \in 1..Len(q)
        BY <1>1 DEF Waits, q
      <4>2. i - 1 \in 1..Len(q) - 1 /\ (i - 1) + 1 = i
        BY <1>1, <3>2, <4>1
      <4>3. i - 1 \in Waits(a, id)
        BY <1>6, <4>2
      <4> QED
        BY <4>3, AtMembers
    <3> QED
      BY <3>1, <3>2
  <2>2. ASSUME NEW d \in Links, NEW u \in Holds(b, d, id)
        PROVE  \E r : r \in At(a, id)
    BY <1>5, AtMembers
  <2> QED
    BY <2>1, <2>2, AtMembers
<1>12. id = m.id => <<c, t>> \in At(a, id)
  BY <1>5, AtMembers
<1> HIDE DEF g
<1>13. SamePlaces(b, a, id)
  BY <1>9, <1>10, <1>11 DEF SamePlaces
<1> QED
  BY <1>12, <1>13 DEF a, t, m

LEMMA BacksPick ==
  ASSUME NEW b, BrokerType(b), NEW c \in Links
  PROVE  /\ Backs(b, c) \in Seq(Messages) /\ Len(Backs(b, c)) \in Nat
         /\ DOMAIN Backs(b, c) = 1..Len(Backs(b, c))
         /\ \E e \in [1..Len(Backs(b, c)) -> Unsettled(b, c)] :
              /\ \A p \in 1..Len(Backs(b, c)) :
                   Backs(b, c)[p] = b.deliveries[c][e[p]].message
              /\ \A p, r \in 1..Len(Backs(b, c)) : e[p] = e[r] => p = r
              /\ \A u \in Unsettled(b, c) : \E p \in 1..Len(Backs(b, c)) : e[p] = u
<1> DEFINE ds == b.deliveries[c]
           K == {d \in Range(ds) : ~d.settled}
           t == Keep(ds, K)
<1>1. ds \in Seq(Deliveries) /\ Backs(b, c) = MessagesIn(t)
  BY DEF BrokerType, Backs
<1> HIDE DEF ds, K, t
<1>2. t \in Seq(Deliveries) /\ Picks(t, ds, Len(ds), K)
  BY <1>1, KeepPicks DEF t
<1>3. PICK e \in [1..Len(t) -> {j \in 1..Len(ds) : ds[j] \in K}] :
        /\ \A p \in 1..Len(t) : t[p] = ds[e[p]]
        /\ \A p, r \in 1..Len(t) : e[p] = e[r] => p = r
        /\ \A j \in 1..Len(ds) : ds[j] \in K => \E p \in 1..Len(t) : e[p] = j
  BY <1>2 DEF Picks
<1>4. /\ Len(t) \in Nat /\ DOMAIN t = 1..Len(t) /\ DOMAIN ds = 1..Len(ds)
      /\ \A p \in 1..Len(t) : t[p] \in Deliveries
  BY <1>1, <1>2, LenProperties, ElementOfSeq
<1>5. MessagesIn(t) = [p \in 1..Len(t) |-> t[p].message]
  BY <1>4 DEF MessagesIn
<1>6. MessagesIn(t) \in Seq(Messages) /\ Len(MessagesIn(t)) = Len(t)
  <2>1. MessagesIn(t) \in [1..Len(t) -> Messages]
    BY <1>4, <1>5 DEF Deliveries
  <2>2. MessagesIn(t) \in Seq(Messages)
    BY <1>4, <2>1, SeqDef
  <2>3. Len(MessagesIn(t)) \in Nat /\ DOMAIN MessagesIn(t) = 1..Len(MessagesIn(t))
    BY <2>2, LenProperties
  <2>4. DOMAIN MessagesIn(t) = 1..Len(t)
    BY <1>5
  <2>5. \A x, y \in Nat : 1..x = 1..y => x = y
    <3> SUFFICES ASSUME NEW x \in Nat, NEW y \in Nat, 1..x = 1..y, x < y PROVE FALSE
      OBVIOUS
    <3>1. y \in 1..y /\ y \notin 1..x
      OBVIOUS
    <3> QED
      BY <3>1
  <2>6. Len(MessagesIn(t)) = Len(t)
    BY <1>4, <2>3, <2>4, <2>5
  <2> QED
    BY <2>2, <2>6
<1>7. {j \in 1..Len(ds) : ds[j] \in K} = Unsettled(b, c)
  <2>1. ASSUME NEW j \in 1..Len(ds)
        PROVE  ds[j] \in K <=> ~ds[j].settled
    BY <1>4 DEF K, Range
  <2> QED
    BY <1>4, <2>1 DEF Unsettled, ds
<1>8. e \in [1..Len(t) -> Unsettled(b, c)] /\ \A u \in Unsettled(b, c) : \E p \in 1..Len(t) : e[p] = u
  BY <1>3, <1>7
<1>9. \A p \in 1..Len(t) : MessagesIn(t)[p] = b.deliveries[c][e[p]].message
  BY <1>3, <1>5 DEF ds
<1> DEFINE v == MessagesIn(t)
<1>10. /\ v \in Seq(Messages) /\ Len(v) \in Nat /\ DOMAIN v = 1..Len(v)
       /\ Len(v) = Len(t) /\ Backs(b, c) = v
       /\ \A p \in 1..Len(t) : v[p] = b.deliveries[c][e[p]].message
  BY <1>1, <1>4, <1>5, <1>6, <1>9
<1> HIDE DEF v
<1>11. \E f \in [1..Len(v) -> Unsettled(b, c)] :
         /\ \A p \in 1..Len(v) : v[p] = b.deliveries[c][f[p]].message
         /\ \A p, r \in 1..Len(v) : f[p] = f[r] => p = r
         /\ \A u \in Unsettled(b, c) : \E p \in 1..Len(v) : f[p] = u
  BY <1>3, <1>8, <1>10
<1> QED
  BY <1>10, <1>11, Zenon

LEMMA RequeuesFields ==
  ASSUME NEW b, BrokerType(b), NEW c \in Links
  PROVE  /\ BrokerType(Requeues(b, c))
         /\ Requeues(b, c).queue = Backs(b, c) \o b.queue
         /\ Requeues(b, c).dead = b.dead
         /\ Requeues(b, c).deliveries = [b.deliveries EXCEPT ![c] = <<>>]
<1> DEFINE q == Backs(b, c) \o b.queue
           all == [b.deliveries EXCEPT ![c] = <<>>]
           subs == [b.subscriptions EXCEPT ![c] = 0]
<1>1. q \in Seq(Messages)
  BY BacksPick, QueueOf, ConcatProperties
<1>2. all \in [Links -> Seq(Deliveries)]
  BY EmptySeq DEF BrokerType
<1>3. subs \in [Links -> Nat]
  BY DEF BrokerType
<1>4. Requeues(b, c) = [b EXCEPT !.queue = q, !.deliveries = all, !.subscriptions = subs]
  BY DEF Requeues, BrokerType
<1> HIDE DEF q, all, subs
<1>5. /\ BrokerType(Requeues(b, c)) /\ Requeues(b, c).queue = q
      /\ Requeues(b, c).dead = b.dead /\ Requeues(b, c).deliveries = all
  BY <1>1, <1>2, <1>3, <1>4 DEF BrokerType
<1> QED
  BY <1>5 DEF q, all

LEMMA RequeuesUnsettled ==
  ASSUME NEW b, BrokerType(b), NEW c \in Links, NEW d \in Links
  PROVE  /\ Unsettled(Requeues(b, c), d) = IF d = c THEN {} ELSE Unsettled(b, d)
         /\ d # c => Requeues(b, c).deliveries[d] = b.deliveries[d]
         /\ \A id : Holds(Requeues(b, c), d, id) = IF d = c THEN {} ELSE Holds(b, d, id)
<1>1. Requeues(b, c).deliveries[d] = IF d = c THEN <<>> ELSE b.deliveries[d]
  <2>1. Requeues(b, c).deliveries = [b.deliveries EXCEPT ![c] = <<>>]
    BY RequeuesFields
  <2>2. b.deliveries \in [Links -> Seq(Deliveries)]
    BY DEF BrokerType
  <2> QED
    BY <2>1, <2>2
<1>2. Unsettled(Requeues(b, c), d) = IF d = c THEN {} ELSE Unsettled(b, d)
  BY <1>1 DEF Unsettled
<1>3. \A id : Holds(Requeues(b, c), d, id) = IF d = c THEN {} ELSE Holds(b, d, id)
  BY <1>1, <1>2 DEF Holds
<1> QED
  BY <1>1, <1>2, <1>3

LEMMA RequeuesPlaces ==
  ASSUME NEW b, BrokerType(b), NEW c \in Links, NEW id
  PROVE  SamePlaces(b, Requeues(b, c), id)
<1> DEFINE a == Requeues(b, c)
           t == Backs(b, c)
           n == Len(t)
           q == b.queue
<1>0. NoLink \notin Links
  BY NoLinkIsNoLink
<1>1. /\ t \in Seq(Messages) /\ n \in Nat /\ DOMAIN t = 1..n
      /\ a.queue = t \o q
  BY BacksPick, RequeuesFields
<1>2. PICK e \in [1..n -> Unsettled(b, c)] :
        /\ \A p \in 1..n : t[p] = b.deliveries[c][e[p]].message
        /\ \A p, r \in 1..n : e[p] = e[r] => p = r
        /\ \A u \in Unsettled(b, c) : \E p \in 1..n : e[p] = u
  BY BacksPick
<1>3. \A d \in Links : Holds(a, d, id) = IF d = c THEN {} ELSE Holds(b, d, id)
  BY RequeuesUnsettled
<1>4. q \in Seq(Messages) /\ Len(q) \in Nat /\ DOMAIN q = 1..Len(q)
  BY QueueOf, LenProperties
<1> HIDE DEF a, t, n, q
<1>5. /\ DOMAIN a.queue = 1..n + Len(q)
      /\ \A i \in 1..n + Len(q) : a.queue[i] = IF i <= n THEN t[i] ELSE q[i - n]
  <2>1. /\ t \o q \in Seq(Messages) /\ Len(t \o q) = Len(t) + Len(q)
        /\ \A i \in 1..Len(t) + Len(q) :
             (t \o q)[i] = IF i <= Len(t) THEN t[i] ELSE q[i - Len(t)]
    BY <1>1, <1>4, ConcatProperties
  <2> QED
    BY <1>1, <2>1, LenProperties DEF n
<1>6. \A i \in 1..n : i \in Waits(a, id) <=> e[i] \in Holds(b, c, id)
  <2> SUFFICES ASSUME NEW i \in 1..n
               PROVE  i \in Waits(a, id) <=> e[i] \in Holds(b, c, id)
    OBVIOUS
  <2>1. i \in 1..n + Len(q) /\ a.queue[i] = t[i]
    BY <1>1, <1>4, <1>5
  <2>2. t[i] = b.deliveries[c][e[i]].message /\ e[i] \in Unsettled(b, c)
    BY <1>2
  <2> QED
    BY <1>5, <2>1, <2>2 DEF Waits, Holds
<1>7. \A i \in 1..Len(q) : n + i \in Waits(a, id) <=> i \in Waits(b, id)
  <2> SUFFICES ASSUME NEW i \in 1..Len(q)
               PROVE  n + i \in Waits(a, id) <=> i \in Waits(b, id)
    OBVIOUS
  <2>1. n + i \in 1..n + Len(q) /\ ~(n + i <= n) /\ (n + i) - n = i
    BY <1>1, <1>4
  <2>2. a.queue[n + i] = q[i]
    BY <1>5, <2>1
  <2> QED
    BY <1>4, <1>5, <2>1, <2>2 DEF Waits, q
<1>8. \A i \in Waits(a, id) : i \in 1..n \/ \E j \in 1..Len(q) : i = n + j
  <2>1. \A i \in Waits(a, id) : i \in 1..n + Len(q)
    BY <1>5 DEF Waits
  <2>2. \A i \in 1..n + Len(q) : i \in 1..n \/ (i - n \in 1..Len(q) /\ i = n + (i - n))
    BY <1>1, <1>4
  <2> QED
    BY <2>1, <2>2
<1> DEFINE image(p) == IF p[1] # NoLink THEN p
                       ELSE IF p[2] \in 1..n THEN <<c, e[p[2]]>> ELSE <<NoLink, p[2] - n>>
           g == [p \in At(a, id) |-> image(p)]
<1>9. ASSUME NEW p \in At(a, id)
      PROVE  \/ \E i \in 1..n : p = <<NoLink, i>> /\ image(p) = <<c, e[i]>> /\ image(p) \in At(b, id)
             \/ \E j \in 1..Len(q) : /\ p = <<NoLink, n + j>> /\ image(p) = <<NoLink, j>>
                                     /\ image(p) \in At(b, id)
             \/ p[1] \in Links \ {c} /\ image(p) = p /\ p \in At(b, id)
  <2>1. ASSUME NEW i \in 1..n, i \in Waits(a, id), p = <<NoLink, i>>
        PROVE  image(p) = <<c, e[i]>> /\ image(p) \in At(b, id)
    <3>1. e[i] \in Holds(b, c, id)
      BY <1>6, <2>1
    <3>2. image(p) = <<c, e[i]>>
      BY <2>1
    <3> HIDE DEF image
    <3> QED
      BY <3>1, <3>2, AtMembers
  <2>2. ASSUME NEW j \in 1..Len(q), n + j \in Waits(a, id), p = <<NoLink, n + j>>
        PROVE  image(p) = <<NoLink, j>> /\ image(p) \in At(b, id)
    <3>1. n + j \notin 1..n /\ (n + j) - n = j
      BY <1>1, <1>4
    <3>2. j \in Waits(b, id)
      BY <1>7, <2>2
    <3>3. image(p) = <<NoLink, j>>
      BY <2>2, <3>1
    <3> HIDE DEF image
    <3> QED
      BY <3>2, <3>3, AtMembers
  <2>3. ASSUME NEW d \in Links, NEW u \in Holds(a, d, id), p = <<d, u>>
        PROVE  p[1] \in Links \ {c} /\ image(p) = p /\ p \in At(b, id)
    BY <1>0, <1>3, <2>3, AtMembers
  <2>4. \/ \E i \in Waits(a, id) : p = <<NoLink, i>>
        \/ \E d \in Links : \E u \in Holds(a, d, id) : p = <<d, u>>
    BY AtMembers
  <2> HIDE DEF image
  <2> QED
    BY <1>8, <2>1, <2>2, <2>3, <2>4
<1>10. g \in [At(a, id) -> At(b, id)]
  <2>1. \A p \in At(a, id) : image(p) \in At(b, id)
    <3> HIDE DEF image
    <3> QED
      BY <1>9
  <2> HIDE DEF image
  <2> QED
    BY <2>1
<1>11. ASSUME NEW p \in At(a, id), NEW r \in At(a, id), g[p] = g[r]
       PROVE  p = r
  <2>1. image(p) = image(r)
    BY <1>11
  <2> HIDE DEF image, g
  <2>2. \A i, j \in 1..n : <<c, e[i]>> = <<c, e[j]>> => i = j
    BY <1>2
  <2>3. NoLink # c
    BY <1>0
  <2> QED
    BY <1>0, <1>9, <2>1, <2>2, <2>3
<1>12. At(b, id) # {} => At(a, id) # {}
  <2> SUFFICES ASSUME NEW p \in At(b, id) PROVE \E r : r \in At(a, id)
    OBVIOUS
  <2>1. ASSUME NEW i \in Waits(b, id)
        PROVE  \E r : r \in At(a, id)
    <3>1. i \in 1..Len(q)
      BY <1>4 DEF Waits, q
    <3>2. n + i \in Waits(a, id)
      BY <1>7, <2>1, <3>1
    <3> QED
      BY <3>2, AtMembers
  <2>2. ASSUME NEW d \in Links, NEW u \in Holds(b, d, id)
        PROVE  \E r : r \in At(a, id)
    <3>1. CASE d = c
      <4>1. u \in Unsettled(b, c)
        BY <3>1 DEF Holds
      <4>2. PICK i \in 1..n : e[i] = u
        BY <1>2, <4>1
      <4>3. i \in Waits(a, id)
        BY <1>6, <2>2, <3>1, <4>2
      <4> QED
        BY <4>3, AtMembers
    <3>2. CASE d # c
      BY <1>3, <3>2, AtMembers
    <3> QED
      BY <3>1, <3>2
  <2> QED
    BY <2>1, <2>2, AtMembers
<1> HIDE DEF g
<1>13. SamePlaces(b, a, id)
  BY <1>10, <1>11, <1>12 DEF SamePlaces
<1> QED
  BY <1>13 DEF a
-----------------------------------------------------------------------------
(* What has become of the messages: every accepted one that was not settled *)
(* by mistake is still at the broker, is a dead letter, or was e-mailed, and *)
(* every dead letter has a reason.                                          *)
DeadReason(m, h) ==
  \/ m.id \in Malformed \cup h.refused \cup h.misdirected
  \/ m.retries = MaxRetries

Kept(b, h) ==
  \A id \in h.accepted \ h.misdirected :
    At(b, id) # {} \/ DeadOf(b, id) # {} \/ h.mails[id] > 0

Fates(b, h) ==
  /\ BrokerType(b) /\ HistoryType(h) /\ IsFiniteSet(b.dead)
  /\ \A m \in b.dead : DeadReason(m, h)
  /\ Kept(b, h)

(* More is known of the same messages.                                      *)
Grows(h, h2) ==
  /\ h2.accepted = h.accepted
  /\ h.misdirected \subseteq h2.misdirected /\ h.refused \subseteq h2.refused
  /\ \A id \in Ids : h.mails[id] > 0 => h2.mails[id] > 0

(* A frame that settles a delivery says what happened to its message: it    *)
(* was e-mailed or has a copy, or there is a reason to reject it.           *)
FrameOK(b, c, f, h) ==
  /\ f.kind = "nack" => DeadReason(f.message, h)
  /\ f.kind = "ack" => \/ h.mails[f.message.id] > 0
                       \/ \E p \in At(b, f.message.id) : p # <<c, f.tag>>

IsPast(h2, h, ids, lost, cut) ==
  /\ HistoryType(h2)
  /\ h2.accepted = h.accepted \cup ids
  /\ h2.misdirected = h.misdirected \cup lost
  /\ h2.disturbed = h.disturbed \cup cut
  /\ h2.refused = h.refused
  /\ h2.mails = h.mails

LEMMA PastFields ==
  ASSUME NEW h, HistoryType(h), NEW ids, ids \subseteq Ids, NEW lost, lost \subseteq Ids,
         NEW cut, cut \subseteq Ids
  PROVE  IsPast(Past(h, ids, lost, cut), h, ids, lost, cut)
<1> DEFINE A == h.accepted \cup ids
           M == h.misdirected \cup lost
           D == h.disturbed \cup cut
<1>1. A \in SUBSET Ids /\ M \in SUBSET Ids /\ D \in SUBSET Ids
  BY DEF HistoryType
<1>2. Past(h, ids, lost, cut) = [h EXCEPT !.accepted = A, !.misdirected = M, !.disturbed = D]
  BY DEF Past, HistoryType
<1> HIDE DEF A, M, D
<1>3. /\ HistoryType(Past(h, ids, lost, cut))
      /\ Past(h, ids, lost, cut).accepted = A /\ Past(h, ids, lost, cut).misdirected = M
      /\ Past(h, ids, lost, cut).disturbed = D
      /\ Past(h, ids, lost, cut).refused = h.refused
      /\ Past(h, ids, lost, cut).mails = h.mails
  BY <1>1, <1>2 DEF HistoryType
<1> QED
  BY <1>3 DEF A, M, D, IsPast

LEMMA UnsettledIdsAreIds ==
  ASSUME NEW b, BrokerType(b), NEW C, C \subseteq Links
  PROVE  UnsettledIds(b, C) \in SUBSET Ids
<1>1. \A c \in C : \A u \in Unsettled(b, c) : b.deliveries[c][u].message.id \in Ids
  BY UnsettledDelivery
<1> QED
  BY <1>1 DEF UnsettledIds

LEMMA FatesGrow ==
  ASSUME NEW b, NEW h, Fates(b, h), NEW h2, HistoryType(h2), Grows(h, h2)
  PROVE  Fates(b, h2)
<1>1. \A m \in b.dead : DeadReason(m, h2)
  BY DEF Fates, DeadReason, Grows
<1>2. Kept(b, h2)
  <2>1. h2.accepted \subseteq Ids
    BY DEF HistoryType
  <2> QED
    BY <2>1 DEF Fates, Kept, Grows
<1> QED
  BY <1>1, <1>2 DEF Fates

LEMMA PastGrows ==
  ASSUME NEW h, HistoryType(h), NEW lost \in SUBSET Ids, NEW cut \in SUBSET Ids
  PROVE  Grows(h, Past(h, {}, lost, cut)) /\ HistoryType(Past(h, {}, lost, cut))
<1>1. {} \in SUBSET Ids
  OBVIOUS
<1>2. IsPast(Past(h, {}, lost, cut), h, {}, lost, cut)
  BY <1>1, PastFields
<1> QED
  BY <1>2 DEF Grows, IsPast

LEMMA FatesCut ==
  ASSUME NEW b, NEW h, Fates(b, h), NEW cut \in SUBSET Ids
  PROVE  Fates(b, Past(h, {}, {}, cut))
<1>1. HistoryType(h)
  BY DEF Fates
<1>2. {} \in SUBSET Ids
  OBVIOUS
<1>3. Grows(h, Past(h, {}, {}, cut)) /\ HistoryType(Past(h, {}, {}, cut))
  BY <1>1, <1>2, PastGrows
<1> QED
  BY <1>3, FatesGrow

LEMMA FatesMove ==
  ASSUME NEW b, NEW h, Fates(b, h), NEW a, BrokerType(a), a.dead = b.dead,
         \A id : SamePlaces(b, a, id)
  PROVE  Fates(a, h)
<1>1. \A id : At(b, id) # {} => At(a, id) # {}
  BY DEF SamePlaces
<1>2. \A id : DeadOf(a, id) = DeadOf(b, id)
  BY DEF DeadOf
<1> QED
  BY <1>1, <1>2 DEF Fates, Kept

LEMMA FatesPublish ==
  ASSUME NEW b, NEW h, Fates(b, h), NEW m \in Messages, NEW cut \in SUBSET Ids
  PROVE  /\ Fates(Publishes(b, m), Past(h, {m.id}, {}, cut))
         /\ BrokerType(Publishes(b, m))
         /\ <<NoLink, Len(b.queue) + 1>> \in At(Publishes(b, m), m.id)
<1> DEFINE b2 == Publishes(b, m)
           h2 == Past(h, {m.id}, {}, cut)
<1>0. BrokerType(b) /\ HistoryType(h) /\ {m.id} \in SUBSET Ids /\ {} \in SUBSET Ids
  BY DEF Fates, Messages
<1>1. /\ HistoryType(h2) /\ h2.accepted = h.accepted \cup {m.id}
      /\ h2.misdirected = h.misdirected /\ h2.refused = h.refused /\ h2.mails = h.mails
  <2>1. IsPast(h2, h, {m.id}, {}, cut)
    BY <1>0, PastFields
  <2> HIDE DEF h2
  <2> QED
    BY <2>1 DEF IsPast
<1>2. BrokerType(b2) /\ b2.dead = b.dead
  BY <1>0, PublishesFields
<1>3. \A id : /\ At(b2, id) = At(b, id) \cup (IF m.id = id THEN {<<NoLink, Len(b.queue) + 1>>} ELSE {})
              /\ DeadOf(b2, id) = DeadOf(b, id)
  BY <1>0, PublishesPlaces
<1> HIDE DEF b2, h2
<1>4. Kept(b2, h2)
  BY <1>1, <1>3 DEF Fates, Kept
<1>5. \A x \in b2.dead : DeadReason(x, h2)
  BY <1>1, <1>2 DEF Fates, DeadReason
<1>6. Fates(b2, h2)
  BY <1>1, <1>2, <1>4, <1>5 DEF Fates
<1> QED
  BY <1>2, <1>3, <1>6 DEF b2, h2

LEMMA SettledMessage ==
  ASSUME NEW b, BrokerType(b), NEW c \in Links, NEW f \in Frames, f.tag \in Unsettled(b, c)
  PROVE  /\ Settled(b, c, f) \in Messages /\ Settled(b, c, f).id \in Ids
         /\ Lost(b, c, f) \in SUBSET Ids
         /\ Rejects(b, c, f) \in SUBSET Messages /\ IsFiniteSet(Rejects(b, c, f))
         /\ <<c, f.tag>> \in At(b, Settled(b, c, f).id)
         /\ \A id : <<c, f.tag>> \in At(b, id) => id = Settled(b, c, f).id
<1>1. Settled(b, c, f) \in Messages /\ Settled(b, c, f).id \in Ids
  BY UnsettledDelivery DEF Settled
<1>2. Lost(b, c, f) \in SUBSET Ids /\ Rejects(b, c, f) \in SUBSET Messages
  BY <1>1 DEF Lost, Rejects
<1>3. IsFiniteSet(Rejects(b, c, f))
  BY FS_EmptySet, FS_Singleton DEF Rejects
<1>4. \A id : f.tag \in Holds(b, c, id) <=> id = Settled(b, c, f).id
  BY DEF Holds, Settled
<1>5. <<c, f.tag>> \in At(b, Settled(b, c, f).id)
  BY <1>4, AtMembers
<1>6. ASSUME NEW id, <<c, f.tag>> \in At(b, id)
      PROVE  id = Settled(b, c, f).id
  <2>1. c # NoLink
    BY NoLinkIsNoLink
  <2>2. f.tag \in Holds(b, c, id)
    BY <1>6, <2>1, AtMembers
  <2> QED
    BY <1>4, <2>2
<1> QED
  BY <1>1, <1>2, <1>3, <1>5, <1>6

LEMMA FatesSettle ==
  ASSUME NEW b, NEW h, Fates(b, h), NEW c \in Links, NEW f \in Frames, f.kind # "publish",
         f.tag \in Unsettled(b, c), FrameOK(b, c, f, h), NEW cut \in SUBSET Ids
  PROVE  Fates(Settles(b, c, f.tag, Rejects(b, c, f)), Past(h, {}, Lost(b, c, f), cut))
<1> DEFINE dead == Rejects(b, c, f)
           lost == Lost(b, c, f)
           b2 == Settles(b, c, f.tag, dead)
           h2 == Past(h, {}, lost, cut)
           M == Settled(b, c, f)
<1>0. BrokerType(b) /\ HistoryType(h) /\ {} \in SUBSET Ids /\ f.kind \in {"ack", "nack"}
  BY DEF Fates, Frames, Kinds
<1>1. /\ M \in Messages /\ M.id \in Ids /\ lost \in SUBSET Ids
      /\ dead \in SUBSET Messages /\ IsFiniteSet(dead)
      /\ \A id : <<c, f.tag>> \in At(b, id) => id = M.id
  BY <1>0, SettledMessage
<1>2. /\ HistoryType(h2) /\ h2.accepted = h.accepted
      /\ h2.misdirected = h.misdirected \cup lost /\ h2.refused = h.refused /\ h2.mails = h.mails
  <2>1. IsPast(h2, h, {}, lost, cut)
    BY <1>0, <1>1, PastFields
  <2> HIDE DEF h2, lost
  <2> QED
    BY <2>1 DEF IsPast
<1>3. dead = (IF f.kind = "nack" THEN {M} ELSE {}) /\ lost = (IF M # f.message THEN {M.id} ELSE {})
  BY DEF Rejects, Lost
<1> HIDE DEF dead, lost, b2, h2, M
<1>4. BrokerType(b2) /\ b2.dead = b.dead \cup dead
  BY <1>0, <1>1, SettlesFields DEF b2
<1>5. \A id : /\ At(b2, id) = At(b, id) \ {<<c, f.tag>>}
              /\ DeadOf(b2, id) = DeadOf(b, id) \cup {m \in dead : m.id = id}
  BY <1>0, <1>1, SettlesPlaces DEF b2
<1>6. IsFiniteSet(b2.dead)
  BY <1>1, <1>4, FS_Union DEF Fates
<1>7. \A m \in b2.dead : DeadReason(m, h2)
  <2>1. \A m \in b.dead : DeadReason(m, h2)
    BY <1>2 DEF Fates, DeadReason
  <2>2. ASSUME f.kind = "nack"
        PROVE  DeadReason(M, h2)
    <3>1. CASE M = f.message
      BY <1>2, <2>2, <3>1 DEF FrameOK, DeadReason
    <3>2. CASE M # f.message
      BY <1>2, <1>3, <3>2 DEF DeadReason
    <3> QED
      BY <3>1, <3>2
  <2> QED
    BY <1>3, <1>4, <2>1, <2>2
<1>8. Kept(b2, h2)
  <2> SUFFICES ASSUME NEW id \in h2.accepted \ h2.misdirected
               PROVE  At(b2, id) # {} \/ DeadOf(b2, id) # {} \/ h2.mails[id] > 0
    BY DEF Kept
  <2>1. At(b, id) # {} \/ DeadOf(b, id) # {} \/ h.mails[id] > 0
    BY <1>2 DEF Fates, Kept
  <2>2. CASE id = M.id
    <3>1. M = f.message
      BY <1>2, <1>3, <2>2
    <3>2. CASE f.kind = "nack"
      BY <1>3, <1>5, <2>2, <3>2
    <3>3. CASE f.kind = "ack"
      BY <1>2, <1>5, <2>2, <3>1, <3>3 DEF FrameOK
    <3> QED
      BY <1>0, <3>2, <3>3
  <2>3. CASE id # M.id
    BY <1>1, <1>2, <1>5, <2>1, <2>3
  <2> QED
    BY <2>2, <2>3
<1>9. Fates(b2, h2)
  BY <1>2, <1>4, <1>6, <1>7, <1>8 DEF Fates
<1> QED
  BY <1>9 DEF b2, h2, dead, lost

LEMMA FatesRetry ==
  ASSUME NEW b, NEW h, Fates(b, h), NEW c \in Links, NEW m \in Messages, NEW a \in Frames,
         a.kind = "ack", a.tag \in Unsettled(b, c), a.message.id = m.id
  PROVE  /\ Lost(Publishes(b, m), c, a) = Lost(b, c, a)
         /\ Fates(Settles(Publishes(b, m), c, a.tag, {}), Past(h, {m.id}, Lost(b, c, a), {}))
<1> DEFINE b1 == Publishes(b, m)
           h1 == Past(h, {m.id}, {}, {})
           lost == Lost(b1, c, a)
           h2 == Past(h1, {}, lost, {})
           h3 == Past(h, {m.id}, lost, {})
<1>0. BrokerType(b) /\ HistoryType(h) /\ {m.id} \in SUBSET Ids /\ {} \in SUBSET Ids
  BY DEF Fates, Messages
<1>1. Fates(b1, h1) /\ BrokerType(b1) /\ <<NoLink, Len(b.queue) + 1>> \in At(b1, m.id)
  BY <1>0, FatesPublish
<1>2. b1.deliveries = b.deliveries
  BY <1>0, PublishesFields
<1>3. a.tag \in Unsettled(b1, c) /\ lost = Lost(b, c, a)
  BY <1>2 DEF Unsettled, Lost, Settled
<1>4. c # NoLink
  BY NoLinkIsNoLink
<1>5. FrameOK(b1, c, a, h1)
  BY <1>1, <1>4 DEF FrameOK
<1>6. Rejects(b1, c, a) = {}
  BY DEF Rejects
<1> HIDE DEF b1, h1
<1>7. Fates(Settles(b1, c, a.tag, Rejects(b1, c, a)), h2)
  BY <1>0, <1>1, <1>3, <1>5, FatesSettle
<1>8. lost \in SUBSET Ids
  BY <1>1, <1>3, SettledMessage
<1> HIDE DEF lost
<1>9. IsPast(h1, h, {m.id}, {}, {})
  BY <1>0, PastFields DEF h1
<1>10. IsPast(h2, h1, {}, lost, {})
  <2>1. HistoryType(h1)
    BY <1>9 DEF IsPast
  <2> QED
    BY <1>0, <1>8, <2>1, PastFields
<1>11. IsPast(h3, h, {m.id}, lost, {})
  BY <1>0, <1>8, PastFields
<1> HIDE DEF h2, h3
<1>12. Grows(h2, h3)
  BY <1>9, <1>10, <1>11 DEF Grows, IsPast
<1>13. Fates(Settles(b1, c, a.tag, Rejects(b1, c, a)), h3)
  BY <1>7, <1>11, <1>12, FatesGrow DEF IsPast
<1> QED
  BY <1>3, <1>6, <1>13 DEF h3, b1, lost
-----------------------------------------------------------------------------
(* RecentMessageIds agrees with the e-mails that were sent.                  *)
Remembers(ids, h) ==
  /\ ids \in Seq(Events) /\ Len(ids) <= Remembered
  /\ \A id \in Range(ids) : h.mails[id] > 0

Known(b, h, ids) == Fates(b, h) /\ Remembers(ids, h)

Carries(h, h2) == h2.mails = h.mails

HandlersOK(hs) ==
  /\ hs \subseteq Handlers
  /\ \A h \in hs : h.message.id \in Events /\ (h.step = "backoff" => CanRetry(h))

LEMMA CarriesMemory ==
  ASSUME NEW ids, NEW h, Remembers(ids, h), NEW h2, Carries(h, h2)
  PROVE  Remembers(ids, h2)
BY DEF Remembers, Carries

LEMMA PastKeeps ==
  ASSUME NEW b, NEW h, Fates(b, h), NEW h2, NEW lost, NEW cut, IsPast(h2, h, {}, lost, cut)
  PROVE  Fates(b, h2) /\ Carries(h, h2) /\ Grows(h, h2)
<1>1. Grows(h, h2) /\ Carries(h, h2) /\ HistoryType(h2)
  BY DEF IsPast, Grows, Carries
<1> QED
  BY <1>1, FatesGrow

LEMMA TransmittedPublish ==
  ASSUME NEW b, NEW past, Fates(b, past), NEW c \in Links, NEW f \in Frames,
         f.kind = "publish", Transmit(b, c, <<f>>, past)
  PROVE  Fates(broker', history') /\ Carries(past, history')
<1>0. BrokerType(b) /\ HistoryType(past) /\ f.message \in Messages /\ f.message.id \in Ids
  BY DEF Fates, Frames, Messages
<1>1. CASE CutOff(b, c, past, {})
  <2>1. UnsettledIds(b, {c}) \subseteq Ids
    BY <1>0, UnsettledIdsAreIds
  <2>2. IsPast(history', past, {}, {}, UnsettledIds(b, {c})) /\ broker' = b
    BY <1>0, <1>1, <2>1, PastFields DEF CutOff
  <2> QED
    BY <2>2, PastKeeps
<1>2. CASE Arrived(Publishes(b, f.message), past, {f.message.id}, {})
  <2> DEFINE h2 == Past(past, {f.message.id}, {}, {})
  <2>1. Fates(Publishes(b, f.message), h2)
    BY <1>0, FatesPublish
  <2>2. IsPast(h2, past, {f.message.id}, {}, {})
    BY <1>0, PastFields
  <2>3. broker' = Publishes(b, f.message) /\ history' = h2
    BY <1>2 DEF Arrived
  <2> QED
    BY <2>1, <2>2, <2>3 DEF IsPast, Carries
<1> QED
  BY <1>0, <1>1, <1>2, TransmitPublish

LEMMA TransmittedSettle ==
  ASSUME NEW b, NEW past, Fates(b, past), NEW c \in Links, NEW f \in Frames,
         f.kind # "publish", FrameOK(b, c, f, past), Transmit(b, c, <<f>>, past)
  PROVE  Fates(broker', history') /\ Carries(past, history')
<1>0. BrokerType(b) /\ HistoryType(past)
  BY DEF Fates
<1>1. CASE CutOff(b, c, past, {})
  <2>1. UnsettledIds(b, {c}) \subseteq Ids
    BY <1>0, UnsettledIdsAreIds
  <2>2. IsPast(history', past, {}, {}, UnsettledIds(b, {c})) /\ broker' = b
    BY <1>0, <1>1, <2>1, PastFields DEF CutOff
  <2> QED
    BY <2>2, PastKeeps
<1>2. CASE /\ f.tag \in Unsettled(b, c)
           /\ Arrived(Settles(b, c, f.tag, Rejects(b, c, f)), past, {}, Lost(b, c, f))
  <2> DEFINE h2 == Past(past, {}, Lost(b, c, f), {})
  <2>0. Lost(b, c, f) \subseteq Ids
    BY <1>0, <1>2, SettledMessage
  <2>1. Fates(Settles(b, c, f.tag, Rejects(b, c, f)), h2)
    BY <1>2, FatesSettle
  <2>2. IsPast(h2, past, {}, Lost(b, c, f), {})
    BY <1>0, <2>0, PastFields
  <2>3. broker' = Settles(b, c, f.tag, Rejects(b, c, f)) /\ history' = h2
    BY <1>2 DEF Arrived
  <2> QED
    BY <2>1, <2>2, <2>3 DEF IsPast, Carries
<1> QED
  BY <1>0, <1>1, <1>2, TransmitSettle

LEMMA TransmittedRetry ==
  ASSUME NEW b, NEW past, Fates(b, past), NEW c \in Links, NEW p \in Frames, NEW a \in Frames,
         p.kind = "publish", a.kind = "ack", a.message.id = p.message.id,
         Transmit(b, c, <<p, a>>, past)
  PROVE  Fates(broker', history') /\ Carries(past, history')
<1> DEFINE m == p.message
           b1 == Publishes(b, m)
<1>0. BrokerType(b) /\ HistoryType(past) /\ m \in Messages /\ m.id \in Ids
  BY DEF Fates, Frames, Messages
<1>1. CASE CutOff(b, c, past, {})
  <2>1. UnsettledIds(b, {c}) \subseteq Ids
    BY <1>0, UnsettledIdsAreIds
  <2>2. IsPast(history', past, {}, {}, UnsettledIds(b, {c})) /\ broker' = b
    BY <1>0, <1>1, <2>1, PastFields DEF CutOff
  <2> QED
    BY <2>2, PastKeeps
<1>2. CASE CutOff(b1, c, past, {m.id})
  <2> DEFINE cut == UnsettledIds(b1, {c})
             h2 == Past(past, {m.id}, {}, cut)
  <2>1. BrokerType(b1)
    BY <1>0, PublishesFields
  <2>2. cut \subseteq Ids
    BY <2>1, UnsettledIdsAreIds
  <2>3. Fates(b1, h2)
    BY <1>0, <2>2, FatesPublish
  <2>4. IsPast(h2, past, {m.id}, {}, cut)
    BY <1>0, <2>2, PastFields
  <2>5. broker' = b1 /\ history' = h2
    BY <1>2 DEF CutOff
  <2> QED
    BY <2>3, <2>4, <2>5 DEF IsPast, Carries
<1>3. CASE /\ a.tag \in Unsettled(b, c)
           /\ Arrived(Settles(b1, c, a.tag, {}), past, {m.id}, Lost(b, c, a))
  <2> DEFINE h2 == Past(past, {m.id}, Lost(b, c, a), {})
  <2>0. Lost(b, c, a) \subseteq Ids
    BY <1>0, <1>3, SettledMessage
  <2>1. Fates(Settles(b1, c, a.tag, {}), h2)
    BY <1>0, <1>3, FatesRetry
  <2>2. IsPast(h2, past, {m.id}, Lost(b, c, a), {})
    BY <1>0, <2>0, PastFields
  <2>3. broker' = Settles(b1, c, a.tag, {}) /\ history' = h2
    BY <1>3 DEF Arrived
  <2> QED
    BY <2>1, <2>2, <2>3 DEF IsPast, Carries
<1> QED
  BY <1>0, <1>1, <1>2, <1>3, TransmitRetry

LEMMA SettlingIs ==
  ASSUME NEW h \in Handlers, NEW past, HistoryType(past)
  PROVE  IsPast(Settling(h, past), past, {}, {},
                IF h.link = channel THEN {} ELSE {h.message.id})
<1> DEFINE h2 == [past EXCEPT !.disturbed = @ \cup {h.message.id}]
           D == past.disturbed \cup {h.message.id}
<1>1. D \in SUBSET Ids
  BY DEF HistoryType, Handlers, Messages
<1>2. h2 = [past EXCEPT !.disturbed = D]
  OBVIOUS
<1> HIDE DEF D, h2
<1>3. /\ HistoryType(h2) /\ h2.disturbed = D
      /\ h2.accepted = past.accepted /\ h2.misdirected = past.misdirected
      /\ h2.refused = past.refused /\ h2.mails = past.mails
  BY <1>1, <1>2 DEF HistoryType
<1>4. CASE h.link = channel
  BY <1>4 DEF Settling, IsPast
<1>5. CASE h.link # channel
  <2>1. IsPast(h2, past, {}, {}, {h.message.id})
    BY <1>3 DEF IsPast, D
  <2>2. Settling(h, past) = h2
    BY <1>5 DEF Settling, h2
  <2> QED
    BY <1>5, <2>1, <2>2
<1> QED
  BY <1>4, <1>5

LEMMA EndsKeeps ==
  ASSUME BrokerType(broker), NEW b, NEW past, Fates(b, past), broker' = b,
         NEW more, more \subseteq Ids,
         ProcessEnds([past EXCEPT !.disturbed = @ \cup more])
  PROVE  Known(broker', history', sentMessageIds') /\ handlers' = {}
<1> DEFINE h1 == [past EXCEPT !.disturbed = @ \cup more]
           h2 == [h1 EXCEPT !.disturbed = @ \cup UnsettledIds(broker, Links)]
           D == past.disturbed \cup more \cup UnsettledIds(broker, Links)
           none == <<>>
<1>0. HistoryType(past) /\ UnsettledIds(broker, Links) \subseteq Ids
  BY UnsettledIdsAreIds DEF Fates
<1>1. D \in SUBSET Ids /\ none \in Seq(Events) /\ Len(none) = 0 /\ Range(none) = {}
  BY <1>0, EmptySeq DEF HistoryType, Range
<1>2. h2 = [past EXCEPT !.disturbed = D]
  BY <1>0 DEF HistoryType
<1>3. history' = h2 /\ sentMessageIds' = none /\ handlers' = {}
  BY DEF ProcessEnds
<1> HIDE DEF h1, h2, D, none
<1>4. /\ HistoryType(h2) /\ h2.accepted = past.accepted /\ h2.misdirected = past.misdirected
      /\ h2.refused = past.refused /\ h2.mails = past.mails
  BY <1>0, <1>1, <1>2 DEF HistoryType
<1>5. Fates(b, h2)
  <2>1. Grows(past, h2)
    BY <1>4 DEF Grows
  <2> QED
    BY <1>4, <2>1, FatesGrow
<1>6. Remembers(none, h2)
  BY <1>1, <1>4, NotificationAssumption DEF Remembers
<1> QED
  BY <1>3, <1>5, <1>6 DEF Known

LEMMA FrameTypes ==
  ASSUME NEW h \in Handlers
  PROVE  /\ Ack(h) \in Frames /\ Ack(h).kind = "ack" /\ Ack(h).message = h.message
         /\ Ack(h).tag = h.tag
         /\ Nack(h) \in Frames /\ Nack(h).kind = "nack" /\ Nack(h).message = h.message
         /\ Nack(h).tag = h.tag
         /\ h.message \in Messages /\ h.message.id \in Ids /\ h.link \in Links
         /\ h.message.retries \in 0..MaxRetries
<1>1. h.message \in Messages /\ h.tag \in Nat /\ h.link \in Links
  BY DEF Handlers
<1> QED
  BY <1>1 DEF Ack, Nack, Frame, Frames, Kinds, Messages

LEMMA CopyTypes ==
  ASSUME NEW h \in Handlers, CanRetry(h)
  PROVE  /\ RetryCopy(h) \in Messages /\ RetryCopy(h).id = h.message.id
         /\ Frame("publish", 0, RetryCopy(h)) \in Frames
         /\ Frame("publish", 0, RetryCopy(h)).kind = "publish"
         /\ Frame("publish", 0, RetryCopy(h)).message = RetryCopy(h)
<1>1. h.message \in Messages /\ h.message.retries + 1 \in 0..MaxRetries
  BY NotificationAssumption DEF Handlers, Messages, CanRetry
<1>2. RetryCopy(h) \in Messages /\ RetryCopy(h).id = h.message.id
  BY <1>1 DEF RetryCopy, Messages
<1> QED
  BY <1>2 DEF Frame, Frames, Kinds

LEMMA SettleKeeps ==
  ASSUME BrokerType(broker), channel \in Links \cup {NoLink}, NEW b, NEW past, Fates(b, past),
         NEW h \in Handlers, NEW f \in Frames, f.kind # "publish",
         f.kind = "nack" => DeadReason(f.message, past),
         f.kind = "ack" => past.mails[f.message.id] > 0,
         NEW ids, Remembers(ids, past), Settle(b, h, <<f>>, ids, past)
  PROVE  Known(broker', history', sentMessageIds') /\ handlers' \subseteq handlers
<1> DEFINE p == Settling(h, past)
<1>0. HistoryType(past) /\ BrokerType(b)
  BY DEF Fates
<1>1. IsPast(p, past, {}, {}, IF h.link = channel THEN {} ELSE {h.message.id})
  BY <1>0, SettlingIs
<1> HIDE DEF p
<1>2. Fates(b, p) /\ Carries(past, p)
  BY <1>1, PastKeeps
<1>3. \A c : FrameOK(b, c, f, p)
  BY <1>1 DEF FrameOK, IsPast, DeadReason
<1>4. CASE /\ Usable /\ Transmit(b, channel, <<f>>, p)
           /\ handlers' = handlers \ {h} /\ sentMessageIds' = ids
  <2>1. channel \in Links
    BY <1>4 DEF Usable, Open
  <2>2. Fates(broker', history') /\ Carries(p, history')
    BY <1>2, <1>3, <1>4, <2>1, TransmittedSettle
  <2>3. Remembers(ids, p)
    BY <1>2, CarriesMemory
  <2>4. Remembers(ids, history')
    BY <2>2, <2>3, CarriesMemory
  <2> QED
    BY <1>4, <2>2, <2>4 DEF Known
<1>5. CASE /\ broker' = b
           /\ ProcessEnds([past EXCEPT !.disturbed = @ \cup UnsettledIds(b, Links)])
  <2>1. UnsettledIds(b, Links) \subseteq Ids
    BY <1>0, UnsettledIdsAreIds
  <2> QED
    BY <1>5, <2>1, EndsKeeps
<1> QED
  BY <1>4, <1>5 DEF Settle, p

LEMMA RetryKeeps ==
  ASSUME channel \in Links \cup {NoLink}, NEW past, Fates(broker, past),
         NEW h \in Handlers, CanRetry(h), NEW ids, Remembers(ids, past),
         Settle(broker, h, RetryFrames(h), ids, past)
  PROVE  Known(broker', history', sentMessageIds') /\ handlers' \subseteq handlers
<1> DEFINE p == Settling(h, past)
           copy == Frame("publish", 0, RetryCopy(h))
           a == Ack(h)
<1>0. HistoryType(past) /\ BrokerType(broker)
  BY DEF Fates
<1>1. IsPast(p, past, {}, {}, IF h.link = channel THEN {} ELSE {h.message.id})
  BY <1>0, SettlingIs
<1>2. /\ copy \in Frames /\ copy.kind = "publish" /\ a \in Frames /\ a.kind = "ack"
      /\ a.message.id = copy.message.id
  BY FrameTypes, CopyTypes
<1>3. RetryFrames(h) = <<copy, a>>
  BY DEF RetryFrames
<1> HIDE DEF p, copy, a
<1>4. Fates(broker, p) /\ Carries(past, p)
  BY <1>1, PastKeeps
<1>5. CASE /\ Usable /\ Transmit(broker, channel, <<copy, a>>, p)
           /\ handlers' = handlers \ {h} /\ sentMessageIds' = ids
  <2>1. channel \in Links
    BY <1>5 DEF Usable, Open
  <2>2. Fates(broker', history') /\ Carries(p, history')
    BY <1>2, <1>4, <1>5, <2>1, TransmittedRetry
  <2>3. Remembers(ids, p)
    BY <1>4, CarriesMemory
  <2>4. Remembers(ids, history')
    BY <2>2, <2>3, CarriesMemory
  <2> QED
    BY <1>5, <2>2, <2>4 DEF Known
<1>6. CASE /\ broker' = broker
           /\ ProcessEnds([past EXCEPT !.disturbed = @ \cup UnsettledIds(broker, Links)])
  <2>1. UnsettledIds(broker, Links) \subseteq Ids
    BY <1>0, UnsettledIdsAreIds
  <2> QED
    BY <1>0, <1>6, <2>1, EndsKeeps
<1> QED
  BY <1>3, <1>5, <1>6 DEF Settle, p
-----------------------------------------------------------------------------
(* What each action does to messages, memory and handlers.                   *)
KnownNow == Known(broker, history, sentMessageIds) /\ HandlersOK(handlers)
KnownNext == Known(broker', history', sentMessageIds') /\ HandlersOK(handlers')

(* One more e-mail about a message. *)
Mailed(h, id) ==
  [h EXCEPT !.mails[id] = IF @ < ManyMails THEN @ + 1 ELSE @]

LEMMA MailedFields ==
  ASSUME NEW h, HistoryType(h), NEW id \in Events
  PROVE  /\ HistoryType(Mailed(h, id))
         /\ Mailed(h, id).accepted = h.accepted
         /\ Mailed(h, id).disturbed = h.disturbed
         /\ Mailed(h, id).misdirected = h.misdirected
         /\ Mailed(h, id).refused = h.refused
         /\ Mailed(h, id).mails[id] = (IF h.mails[id] < ManyMails THEN h.mails[id] + 1
                                       ELSE h.mails[id])
         /\ Mailed(h, id).mails[id] > 0
         /\ \A i \in Ids : i # id => Mailed(h, id).mails[i] = h.mails[i]
<1> DEFINE n == IF h.mails[id] < ManyMails THEN h.mails[id] + 1 ELSE h.mails[id]
           mails == [h.mails EXCEPT ![id] = n]
           h2 == Mailed(h, id)
<1>0. id \in Ids /\ h.mails \in [Ids -> 0..ManyMails]
  BY DEF Ids, HistoryType
<1>1. n \in 0..ManyMails /\ n > 0
  BY <1>0 DEF ManyMails
<1>3. h2 = [h EXCEPT !.mails = mails]
  BY <1>0 DEF Mailed, HistoryType
<1> HIDE DEF n, h2
<1>4. /\ mails \in [Ids -> 0..ManyMails] /\ mails[id] = n
      /\ \A i \in Ids : i # id => mails[i] = h.mails[i]
  BY <1>0, <1>1
<1> HIDE DEF mails
<1>5. /\ HistoryType(h2) /\ h2.accepted = h.accepted /\ h2.disturbed = h.disturbed
      /\ h2.misdirected = h.misdirected /\ h2.refused = h.refused
      /\ h2.mails = mails
  BY <1>3, <1>4 DEF HistoryType
<1> QED
  BY <1>1, <1>4, <1>5 DEF n, h2

LEMMA MailedKeeps ==
  ASSUME NEW b, NEW h, Fates(b, h), NEW ids, Remembers(ids, h), NEW id \in Events
  PROVE  /\ Fates(b, Mailed(h, id)) /\ Remembers(Remember(ids, id), Mailed(h, id))
         /\ Mailed(h, id).mails[id] > 0
<1> DEFINE h2 == Mailed(h, id)
           new == Remember(ids, id)
<1>0. HistoryType(h) /\ id \in Ids /\ ids \in Seq(Events) /\ Events \subseteq Ids
  BY DEF Fates, Remembers, Ids
<1>1. /\ HistoryType(h2) /\ h2.accepted = h.accepted /\ h2.misdirected = h.misdirected
      /\ h2.refused = h.refused /\ h2.mails[id] > 0
      /\ \A i \in Ids : i # id => h2.mails[i] = h.mails[i]
  BY <1>0, MailedFields
<1>2. /\ new \in Seq(Events) /\ Len(new) <= Remembered
      /\ Range(new) \subseteq Range(ids) \cup {id}
  BY <1>0, RememberedIds
<1> HIDE DEF h2, new
<1>3. Grows(h, h2)
  BY <1>0, <1>1 DEF Grows
<1>4. Fates(b, h2)
  BY <1>1, <1>3, FatesGrow
<1>5. Range(ids) \subseteq Ids
  BY <1>0, LenProperties, ElementOfSeq DEF Range
<1>6. Remembers(new, h2)
  BY <1>1, <1>2, <1>5 DEF Remembers
<1> QED
  BY <1>1, <1>4, <1>6 DEF h2, new

LEMMA FewerHandlers ==
  ASSUME NEW hs, HandlersOK(hs), NEW less, less \subseteq hs
  PROVE  HandlersOK(less)
BY DEF HandlersOK

LEMMA DisturbIs ==
  ASSUME NEW h, HistoryType(h), NEW D, D \subseteq Ids
  PROVE  IsPast([h EXCEPT !.disturbed = @ \cup D], h, {}, {}, D)
<1> DEFINE d == h.disturbed \cup D
           h2 == [h EXCEPT !.disturbed = @ \cup D]
<1>1. d \in SUBSET Ids
  BY DEF HistoryType
<1>2. h2 = [h EXCEPT !.disturbed = d]
  OBVIOUS
<1> HIDE DEF d, h2
<1>3. /\ HistoryType(h2) /\ h2.disturbed = d
      /\ h2.accepted = h.accepted /\ h2.misdirected = h.misdirected
      /\ h2.refused = h.refused /\ h2.mails = h.mails
  BY <1>1, <1>2 DEF HistoryType
<1>4. IsPast(h2, h, {}, {}, D)
  BY <1>3 DEF IsPast, d
<1> QED
  BY <1>4 DEF h2

LEMMA FatesSame ==
  ASSUME NEW b, NEW h, Fates(b, h), NEW a, BrokerType(a), a.queue = b.queue,
         a.dead = b.dead, a.deliveries = b.deliveries
  PROVE  Fates(a, h)
<1>1. \A id : At(a, id) = At(b, id)
  <2>1. \A c : Unsettled(a, c) = Unsettled(b, c)
    BY DEF Unsettled
  <2> QED
    BY <2>1 DEF At, Waits, Holds
<1>2. \A id : DeadOf(a, id) = DeadOf(b, id)
  BY DEF DeadOf
<1> QED
  BY <1>1, <1>2 DEF Fates, Kept

LEMMA KnownPublisher ==
  ASSUME KnownNow, AmqpTypeOK, NEW e \in Events,
         HandleOrderStatusChanged(e) \/ Publish(e) \/ PublishFails(e)
  PROVE  KnownNext
<1> DEFINE f == Frame("publish", 0, [id |-> e, retries |-> 0])
<1>1. f \in Frames /\ f.kind = "publish"
  BY NotificationAssumption DEF Frame, Frames, Kinds, Messages, Ids
<1>2. managers["publisher"].channel \in Links \cup {NoLink}
  BY NotificationAssumption DEF AmqpTypeOK
<1>3. ASSUME NEW ch \in Links, Sent(e, ch)
      PROVE  KnownNext
  <2>1. Transmit(broker, ch, <<f>>, history) /\ UNCHANGED <<handlers, sentMessageIds>>
    BY <1>3 DEF Sent
  <2>2. Fates(broker, history) /\ Remembers(sentMessageIds, history) /\ HandlersOK(handlers)
    BY DEF KnownNow, Known
  <2> HIDE DEF f
  <2>3. Fates(broker', history') /\ Carries(history, history')
    BY <1>1, <2>1, <2>2, TransmittedPublish
  <2>4. Remembers(sentMessageIds, history')
    BY <2>2, <2>3, CarriesMemory
  <2> QED
    BY <2>1, <2>2, <2>3, <2>4 DEF KnownNext, Known
<1>4. CASE UNCHANGED <<broker, history, handlers, sentMessageIds>>
  BY <1>4 DEF KnownNow, KnownNext, Known
<1>5. CASE HandleOrderStatusChanged(e)
  BY <1>2, <1>3, <1>4, <1>5 DEF HandleOrderStatusChanged, PublishUnchanged, Open
<1>6. CASE Publish(e)
  BY <1>2, <1>3, <1>6 DEF Publish, Returns, Open
<1>7. CASE PublishFails(e)
  BY <1>4, <1>7 DEF PublishFails, PublishUnchanged
<1> QED
  BY <1>5, <1>6, <1>7

LEMMA KnownLoops ==
  ASSUME KnownNow, awaited \in [Loops -> Links \cup {NoLink}], NEW l \in Loops,
         LoopContinues(l) \/ LoopFails(l)
  PROVE  KnownNext
<1>1. CASE LoopUnchanged
  BY <1>1 DEF LoopUnchanged, KnownNow, KnownNext, Known
<1>2. CASE LoopSubscribes(l)
  <2> DEFINE subs == [broker.subscriptions EXCEPT ![awaited[l]] = @ + 1]
  <2>0. Fates(broker, history) /\ BrokerType(broker) /\ awaited[l] \in Links
    BY <1>2 DEF KnownNow, Known, Fates, LoopSubscribes, Open
  <2>1. subs \in [Links -> Nat]
    BY <2>0 DEF BrokerType
  <2>2. broker' = [broker EXCEPT !.subscriptions = subs]
    BY <1>2, <2>0 DEF LoopSubscribes, BrokerType
  <2> HIDE DEF subs
  <2>3. BrokerType(broker') /\ broker'.queue = broker.queue
    BY <2>0, <2>1, <2>2 DEF BrokerType
  <2>4. broker'.dead = broker.dead /\ broker'.deliveries = broker.deliveries
    BY <2>0, <2>1, <2>2 DEF BrokerType
  <2>5. Fates(broker', history)
    BY <2>0, <2>3, <2>4, FatesSame
  <2> QED
    BY <1>2, <2>5 DEF LoopSubscribes, KnownNow, KnownNext, Known
<1> QED
  BY <1>1, <1>2 DEF LoopContinues, LoopFails, LoopStarts, LoopGetsChannel, LoopPrefetches

LEMMA KnownDeliver ==
  ASSUME KnownNow, channel \in Links \cup {NoLink}, NEW c \in Links, Deliver(c)
  PROVE  KnownNext
<1> DEFINE m == Head(broker.queue)
           t == NextTag(broker, c)
           h == [link |-> c, tag |-> t, message |-> m, step |-> "sending"]
           b == Takes(broker, c)
<1>0. /\ Fates(broker, history) /\ BrokerType(broker) /\ broker.queue # <<>>
      /\ Remembers(sentMessageIds, history) /\ HandlersOK(handlers)
  BY DEF KnownNow, Known, Fates, Deliver
<1>1. BrokerType(b) /\ b.dead = broker.dead /\ m \in Messages /\ t \in Nat \ {0}
  BY <1>0, TakesFields
<1>2. \A id : SamePlaces(broker, b, id)
  BY <1>0, TakesPlaces
<1>3. h \in Handlers /\ h.message = m
  BY <1>1 DEF Handlers
<1>4. \/ m.id \in Malformed /\ Settle(b, h, <<Nack(h)>>, sentMessageIds, history)
      \/ m.id \in Range(sentMessageIds) /\ Settle(b, h, <<Ack(h)>>, sentMessageIds, history)
      \/ /\ m.id \notin Malformed /\ broker' = b /\ handlers' = handlers \cup {h}
         /\ UNCHANGED <<sentMessageIds, history>>
  BY Zenon DEF Deliver, Takes, NextTag, IsOrderStatusChangedEvent, IsDuplicate
<1>5. h.step = "sending"
  OBVIOUS
<1> HIDE DEF m, t, h, b
<1>6. Fates(b, history)
  BY <1>0, <1>1, <1>2, FatesMove
<1>7. /\ Ack(h) \in Frames /\ Ack(h).kind = "ack" /\ Ack(h).message = m
      /\ Nack(h) \in Frames /\ Nack(h).kind = "nack" /\ Nack(h).message = m
  BY <1>3, FrameTypes
<1>8. CASE m.id \in Malformed /\ Settle(b, h, <<Nack(h)>>, sentMessageIds, history)
  <2>1. DeadReason(Nack(h).message, history)
    BY <1>7, <1>8 DEF DeadReason
  <2>2. Known(broker', history', sentMessageIds') /\ handlers' \subseteq handlers
    BY <1>0, <1>3, <1>6, <1>7, <1>8, <2>1, SettleKeeps
  <2> QED
    BY <1>0, <2>2, FewerHandlers DEF KnownNext
<1>9. CASE m.id \in Range(sentMessageIds) /\ Settle(b, h, <<Ack(h)>>, sentMessageIds, history)
  <2>1. history.mails[Ack(h).message.id] > 0
    BY <1>0, <1>7, <1>9 DEF Remembers
  <2>2. Known(broker', history', sentMessageIds') /\ handlers' \subseteq handlers
    BY <1>0, <1>3, <1>6, <1>7, <1>9, <2>1, SettleKeeps
  <2> QED
    BY <1>0, <2>2, FewerHandlers DEF KnownNext
<1>10. CASE /\ m.id \notin Malformed /\ broker' = b /\ handlers' = handlers \cup {h}
            /\ UNCHANGED <<sentMessageIds, history>>
  <2>1. h.message.id \in Events
    BY <1>1, <1>3, <1>10 DEF Messages, Ids
  <2>2. HandlersOK(handlers')
    BY <1>0, <1>3, <1>5, <1>10, <2>1 DEF HandlersOK
  <2> QED
    BY <1>0, <1>6, <1>10, <2>2 DEF KnownNext, Known
<1> QED
  BY <1>4, <1>8, <1>9, <1>10

LEMMA KnownBacksOff ==
  ASSUME HandlersOK(handlers), NEW h \in handlers, CanRetry(h), NEW ids, NEW past,
         Fates(broker, past), Remembers(ids, past), BacksOff(h, ids, past)
  PROVE  KnownNext
<1> DEFINE g == [h EXCEPT !.step = "backoff"]
<1>1. h \in Handlers /\ h.message.id \in Events
  BY DEF HandlersOK
<1>2. g \in Handlers /\ g.message = h.message
  BY <1>1 DEF Handlers
<1>3. handlers' = (handlers \ {h}) \cup {g}
  BY DEF BacksOff
<1> HIDE DEF g
<1>4. CanRetry(g)
  BY <1>2 DEF CanRetry
<1>5. HandlersOK(handlers')
  BY <1>1, <1>2, <1>3, <1>4 DEF HandlersOK
<1> QED
  BY <1>5 DEF BacksOff, KnownNext, Known

LEMMA LastTry ==
  ASSUME NEW h \in Handlers, ~CanRetry(h) \/ ~(h.message.retries < MaxRetries)
  PROVE  h.message.retries = MaxRetries
BY NotificationAssumption DEF Handlers, Messages, CanRetry

LEMMA KnownMailSent ==
  ASSUME KnownNow, channel \in Links \cup {NoLink}, NEW h \in handlers, MailSent(h)
  PROVE  KnownNext
<1> DEFINE id == h.message.id
           ids == Remember(sentMessageIds, id)
           s == Settling(h, history)
           past == Mailed(s, id)
<1>0. /\ Fates(broker, history) /\ BrokerType(broker) /\ HistoryType(history)
      /\ Remembers(sentMessageIds, history) /\ HandlersOK(handlers)
      /\ h \in Handlers /\ id \in Events
  BY DEF KnownNow, Known, Fates, HandlersOK
<1>1. \/ Settle(broker, h, <<Ack(h)>>, ids, past)
      \/ CanRetry(h) /\ BacksOff(h, ids, past)
      \/ ~CanRetry(h) /\ Settle(broker, h, <<Nack(h)>>, ids, past)
  BY Zenon DEF MailSent, Mailed
<1> HIDE DEF ids, s, past
<1>2. IsPast(s, history, {}, {}, IF h.link = channel THEN {} ELSE {h.message.id})
  BY <1>0, SettlingIs DEF s
<1>3. Fates(broker, s) /\ Carries(history, s)
  BY <1>0, <1>2, PastKeeps
<1>4. Remembers(sentMessageIds, s)
  BY <1>0, <1>3, CarriesMemory
<1>5. Fates(broker, past) /\ Remembers(ids, past) /\ past.mails[id] > 0
  BY <1>0, <1>3, <1>4, MailedKeeps DEF ids, past
<1>6. /\ Ack(h) \in Frames /\ Ack(h).kind = "ack" /\ Ack(h).message = h.message
      /\ Nack(h) \in Frames /\ Nack(h).kind = "nack" /\ Nack(h).message = h.message
  BY <1>0, FrameTypes
<1>7. CASE Settle(broker, h, <<Ack(h)>>, ids, past)
  <2>1. Known(broker', history', sentMessageIds') /\ handlers' \subseteq handlers
    BY <1>0, <1>5, <1>6, <1>7, SettleKeeps
  <2> QED
    BY <1>0, <2>1, FewerHandlers DEF KnownNext
<1>8. CASE CanRetry(h) /\ BacksOff(h, ids, past)
  BY <1>0, <1>5, <1>8, KnownBacksOff
<1>9. CASE ~CanRetry(h) /\ Settle(broker, h, <<Nack(h)>>, ids, past)
  <2>1. DeadReason(Nack(h).message, past)
    BY <1>0, <1>6, <1>9, LastTry DEF DeadReason
  <2>2. Known(broker', history', sentMessageIds') /\ handlers' \subseteq handlers
    BY <1>0, <1>5, <1>6, <1>9, <2>1, SettleKeeps
  <2> QED
    BY <1>0, <2>2, FewerHandlers DEF KnownNext
<1> QED
  BY <1>1, <1>7, <1>8, <1>9

LEMMA RefusedFields ==
  ASSUME NEW h, HistoryType(h), NEW early, early \subseteq Ids
  PROVE  /\ HistoryType([h EXCEPT !.refused = @ \cup early])
         /\ Grows(h, [h EXCEPT !.refused = @ \cup early])
         /\ Carries(h, [h EXCEPT !.refused = @ \cup early])
         /\ [h EXCEPT !.refused = @ \cup early].refused = h.refused \cup early
         /\ [h EXCEPT !.refused = @ \cup early].disturbed = h.disturbed
         /\ [h EXCEPT !.refused = @ \cup early].misdirected = h.misdirected
<1> DEFINE r == h.refused \cup early
           h2 == [h EXCEPT !.refused = @ \cup early]
<1>1. r \in SUBSET Ids
  BY DEF HistoryType
<1>2. h2 = [h EXCEPT !.refused = r]
  OBVIOUS
<1> HIDE DEF r, h2
<1>3. /\ HistoryType(h2) /\ h2.refused = r /\ h2.disturbed = h.disturbed
      /\ h2.accepted = h.accepted /\ h2.misdirected = h.misdirected
      /\ h2.mails = h.mails
  BY <1>1, <1>2 DEF HistoryType
<1>4. Grows(h, h2) /\ Carries(h, h2)
  BY <1>3 DEF Grows, Carries, r
<1> QED
  BY <1>3, <1>4 DEF r, h2

LEMMA MailFailsSteps ==
  ASSUME NEW h, MailFails(h)
  PROVE  /\ h.step = "sending"
         /\ \E early \in {{}, {h.message.id}} :
              LET past == [history EXCEPT !.refused = @ \cup early]
              IN  \/ early = {} /\ CanRetry(h) /\ BacksOff(h, sentMessageIds, past)
                  \/ /\ early = {h.message.id} \/ ~CanRetry(h)
                                               \/ ~(h.message.retries < MaxRetries)
                     /\ Settle(broker, h, <<Nack(h)>>, sentMessageIds, past)
<1>1. PICK permanent \in {IsPermanentSmtpFailure(f) : f \in SmtpFailures} :
        LET early == IF h.message.retries < MaxRetries /\ permanent THEN {h.message.id} ELSE {}
            past == [history EXCEPT !.refused = @ \cup early]
        IN  /\ h.step = "sending"
            /\ IF ~permanent /\ CanRetry(h)
               THEN BacksOff(h, sentMessageIds, past)
               ELSE Settle(broker, h, <<Nack(h)>>, sentMessageIds, past)
  BY Zenon DEF MailFails
<1>2. permanent \in BOOLEAN
  BY DEF IsPermanentSmtpFailure
<1>3. CASE permanent = TRUE
  BY <1>1, <1>3, Zenon
<1>4. CASE permanent = FALSE
  BY <1>1, <1>4, Zenon
<1> QED
  BY <1>2, <1>3, <1>4

LEMMA KnownMailFails ==
  ASSUME KnownNow, channel \in Links \cup {NoLink}, NEW h \in handlers, MailFails(h)
  PROVE  KnownNext
<1>0. /\ Fates(broker, history) /\ BrokerType(broker) /\ HistoryType(history)
      /\ Remembers(sentMessageIds, history) /\ HandlersOK(handlers)
      /\ h \in Handlers /\ h.message.id \in Ids
  BY FrameTypes DEF KnownNow, Known, Fates, HandlersOK
<1>1. PICK early \in {{}, {h.message.id}} :
        LET past == [history EXCEPT !.refused = @ \cup early]
        IN  \/ early = {} /\ CanRetry(h) /\ BacksOff(h, sentMessageIds, past)
            \/ /\ early = {h.message.id} \/ ~CanRetry(h) \/ ~(h.message.retries < MaxRetries)
               /\ Settle(broker, h, <<Nack(h)>>, sentMessageIds, past)
  BY MailFailsSteps
<1> DEFINE past == [history EXCEPT !.refused = @ \cup early]
<1>2. /\ HistoryType(past) /\ Grows(history, past) /\ Carries(history, past)
      /\ past.refused = history.refused \cup early
  BY <1>0, RefusedFields
<1>3. \/ CanRetry(h) /\ BacksOff(h, sentMessageIds, past)
      \/ /\ early = {h.message.id} \/ ~CanRetry(h) \/ ~(h.message.retries < MaxRetries)
         /\ Settle(broker, h, <<Nack(h)>>, sentMessageIds, past)
  BY <1>1, Zenon
<1> HIDE DEF past
<1>4. Fates(broker, past)
  BY <1>0, <1>2, FatesGrow
<1>5. Remembers(sentMessageIds, past)
  BY <1>0, <1>2, CarriesMemory
<1>6. Nack(h) \in Frames /\ Nack(h).kind = "nack" /\ Nack(h).message = h.message
  BY <1>0, FrameTypes
<1>7. CASE CanRetry(h) /\ BacksOff(h, sentMessageIds, past)
  BY <1>0, <1>4, <1>5, <1>7, KnownBacksOff
<1>8. CASE /\ early = {h.message.id} \/ ~CanRetry(h) \/ ~(h.message.retries < MaxRetries)
           /\ Settle(broker, h, <<Nack(h)>>, sentMessageIds, past)
  <2>1. DeadReason(Nack(h).message, past)
    BY <1>0, <1>2, <1>6, <1>8, LastTry DEF DeadReason
  <2>2. Known(broker', history', sentMessageIds') /\ handlers' \subseteq handlers
    BY <1>0, <1>4, <1>5, <1>6, <1>8, <2>1, SettleKeeps
  <2> QED
    BY <1>0, <2>2, FewerHandlers DEF KnownNext
<1> QED
  BY <1>3, <1>7, <1>8

LEMMA KnownBackoffEnds ==
  ASSUME KnownNow, channel \in Links \cup {NoLink}, NEW h \in handlers, BackoffEnds(h)
  PROVE  KnownNext
<1>1. /\ Fates(broker, history) /\ Remembers(sentMessageIds, history) /\ HandlersOK(handlers)
      /\ h \in Handlers /\ CanRetry(h)
      /\ Settle(broker, h, RetryFrames(h), sentMessageIds, history)
  BY DEF KnownNow, Known, HandlersOK, BackoffEnds
<1>2. Known(broker', history', sentMessageIds') /\ handlers' \subseteq handlers
  BY <1>1, RetryKeeps
<1> QED
  BY <1>1, <1>2, FewerHandlers DEF KnownNext

LEMMA KnownRequeue ==
  ASSUME KnownNow, NEW c \in Links, Requeue(c)
  PROVE  KnownNext
<1>0. Fates(broker, history) /\ BrokerType(broker)
  BY DEF KnownNow, Known, Fates
<1>1. broker' = Requeues(broker, c) /\ UNCHANGED <<history, handlers, sentMessageIds>>
  BY Zenon DEF Requeue, Requeues, Backs, MessagesIn, processVars
<1>2. BrokerType(broker') /\ broker'.dead = broker.dead
  BY <1>0, <1>1, RequeuesFields
<1>3. \A id : SamePlaces(broker, broker', id)
  BY <1>0, <1>1, RequeuesPlaces
<1>4. Fates(broker', history)
  BY <1>0, <1>2, <1>3, FatesMove
<1> QED
  BY <1>1, <1>4 DEF KnownNow, KnownNext, Known

LEMMA KnownDisturbed ==
  ASSUME KnownNow, NEW C, C \subseteq Links, UNCHANGED <<broker, handlers, sentMessageIds>>,
         history' = [history EXCEPT !.disturbed = @ \cup UnsettledIds(broker, C)]
  PROVE  KnownNext
<1>0. /\ Fates(broker, history) /\ Remembers(sentMessageIds, history)
      /\ BrokerType(broker) /\ HistoryType(history)
  BY DEF KnownNow, Known, Fates
<1>1. UnsettledIds(broker, C) \subseteq Ids
  BY <1>0, UnsettledIdsAreIds
<1>2. IsPast(history', history, {}, {}, UnsettledIds(broker, C))
  BY <1>0, <1>1, DisturbIs
<1>3. Fates(broker, history') /\ Carries(history, history')
  BY <1>0, <1>2, PastKeeps
<1>4. Remembers(sentMessageIds, history')
  BY <1>0, <1>3, CarriesMemory
<1> QED
  BY <1>3, <1>4 DEF KnownNow, KnownNext, Known

LEMMA KnownEnds ==
  ASSUME KnownNow, ProcessEnds(history), UNCHANGED broker
  PROVE  KnownNext
<1>0. Fates(broker, history) /\ BrokerType(broker) /\ HistoryType(history)
  BY DEF KnownNow, Known, Fates
<1> DEFINE none == {}
<1>1. [history EXCEPT !.disturbed = @ \cup none] = history /\ none \subseteq Ids
  BY <1>0 DEF HistoryType
<1> HIDE DEF none
<1>2. broker' = broker /\ ProcessEnds([history EXCEPT !.disturbed = @ \cup none])
  BY <1>1
<1>3. Known(broker', history', sentMessageIds') /\ handlers' = {}
  BY <1>0, <1>1, <1>2, EndsKeeps
<1> QED
  BY <1>3 DEF KnownNext, HandlersOK

LEMMA KnownUnchanged ==
  ASSUME KnownNow, UNCHANGED <<broker, history, handlers, sentMessageIds>>
  PROVE  KnownNext
BY DEF KnownNow, KnownNext, Known

(* A step of the shutdown cuts some connections, whose messages return.     *)
LEMMA ShutdownCuts ==
  ASSUME AmqpTypeOK, OnModuleDestroy \/ \E m \in Managers : OnModuleDestroyContinues(m)
  PROVE  \E C \in SUBSET Links :
           /\ UNCHANGED <<broker, outbox, handlers, sentMessageIds>> /\ links' = Cut(C)
           /\ history' = [history EXCEPT !.disturbed = @ \cup UnsettledIds(broker, C)]
<1>1. NoLink \notin Links
  BY NoLinkIsNoLink
<1>2. CASE OnModuleDestroy
  <2> DEFINE shared == {managers[m].channel : m \in Managers}
             C == shared \ {NoLink}
  <2>1. C \in SUBSET Links /\ \A c \in Links : c \in C <=> c \in shared
    BY <1>1 DEF AmqpTypeOK
  <2>2. /\ UNCHANGED <<broker, outbox, handlers, sentMessageIds>> /\ links' = Cut(shared)
        /\ history' = [history EXCEPT !.disturbed = @ \cup UnsettledIds(broker, C)]
    BY <1>2 DEF OnModuleDestroy, CloseChannels, ShutdownUnchanged
  <2> HIDE DEF shared, C
  <2>3. links' = Cut(C)
    BY <2>1, <2>2 DEF Cut
  <2> QED
    BY <2>1, <2>2, <2>3
<1>3. ASSUME NEW m \in Managers, OnModuleDestroyContinues(m)
      PROVE  \E C \in SUBSET Links :
               /\ UNCHANGED <<broker, outbox, handlers, sentMessageIds>> /\ links' = Cut(C)
               /\ history' = [history EXCEPT !.disturbed = @ \cup UnsettledIds(broker, C)]
  <2> DEFINE own == {managers[m].connection}
             C == own \ {NoLink}
  <2>1. C \in SUBSET Links /\ \A c \in Links : c \in C <=> c \in own
    BY <1>1 DEF AmqpTypeOK
  <2>2. /\ UNCHANGED <<broker, outbox, handlers, sentMessageIds>> /\ links' = Cut(own)
        /\ history' = [history EXCEPT !.disturbed = @ \cup UnsettledIds(broker, C)]
    BY <1>3 DEF OnModuleDestroyContinues, CloseConnection, ShutdownUnchanged
  <2> HIDE DEF own, C
  <2>3. links' = Cut(C)
    BY <2>1, <2>2 DEF Cut
  <2> QED
    BY <2>1, <2>2, <2>3
<1> QED
  BY <1>2, <1>3

LEMMA KnownStep ==
  ASSUME KnownNow, AmqpTypeOK, channel \in Links \cup {NoLink},
         awaited \in [Loops -> Links \cup {NoLink}], [Next]_vars
  PROVE  KnownNext
<1>1. ASSUME NEW e \in Events, HandleOrderStatusChanged(e) \/ PublisherContinues(e)
      PROVE  KnownNext
  BY <1>1, KnownPublisher DEF PublisherContinues
<1>2. ASSUME NEW g \in Callers, Connects(g) \/ ChannelOpens(g)
      PROVE  KnownNext
  BY <1>2, KnownUnchanged DEF Connects, ChannelOpens, processVars
<1>3. ASSUME NEW l \in Loops, LoopContinues(l) \/ LoopFails(l)
      PROVE  KnownNext
  BY <1>3, KnownLoops
<1>4. ASSUME NEW c \in Links, Deliver(c) \/ Requeue(c) \/ ConnectionDrops(c)
      PROVE  KnownNext
  <2>1. CASE Deliver(c)
    BY <2>1, KnownDeliver
  <2>2. CASE Requeue(c)
    BY <2>2, KnownRequeue
  <2>3. CASE ConnectionDrops(c)
    BY <2>3, KnownDisturbed DEF ConnectionDrops
  <2> QED
    BY <1>4, <2>1, <2>2, <2>3
<1>5. CASE HandlerContinues
  BY <1>5, KnownMailSent, KnownMailFails, KnownBackoffEnds DEF HandlerContinues
<1>6. CASE Crash \/ Exit
  BY <1>6, KnownEnds DEF Crash, Exit
<1>7. CASE OnModuleDestroy \/ \E m \in Managers : OnModuleDestroyContinues(m)
  BY <1>7, ShutdownCuts, KnownDisturbed
<1>8. CASE UNCHANGED vars
  BY <1>8, KnownUnchanged DEF vars, processVars
<1> QED
  BY <1>1, <1>2, <1>3, <1>4, <1>5, <1>6, <1>7, <1>8 DEF Next
-----------------------------------------------------------------------------
(* The other variables.                                                      *)
RestOK ==
  /\ outbox \in [Events -> {"none", "publishing", "done"}]
  /\ destroyed \in BOOLEAN
  /\ faults \in [DOMAIN MaxFaults -> Nat]
  /\ \A kind \in DOMAIN MaxFaults : faults[kind] <= MaxFaults[kind]

FaultsStep ==
  faults' = faults \/ \E kind \in DOMAIN MaxFaults : Fault(kind)

LEMMA FaultsKeep ==
  ASSUME RestOK, FaultsStep
  PROVE  /\ faults' \in [DOMAIN MaxFaults -> Nat]
         /\ \A kind \in DOMAIN MaxFaults : faults'[kind] <= MaxFaults[kind]
<1>1. MaxFaults \in [DOMAIN MaxFaults -> Nat]
  BY NotificationAssumption
<1> QED
  BY <1>1 DEF RestOK, FaultsStep, Fault

LEMMA TransmitFaults ==
  ASSUME NEW b, NEW c, NEW frames, NEW past, Transmit(b, c, frames, past)
  PROVE  FaultsStep
<1>1. faults' = faults \/ Fault("link") \/ Fault("tag")
  BY DEF Transmit
<1> QED
  BY <1>1, NotificationAssumption DEF FaultsStep

LEMMA SettleRest ==
  ASSUME RestOK, NEW b, NEW h, NEW frames, NEW ids, NEW past,
         Settle(b, h, frames, ids, past)
  PROVE  RestOK'
<1>1. CASE UNCHANGED <<outbox, destroyed>> /\ \E p : Transmit(b, channel, frames, p)
  BY <1>1, TransmitFaults, FaultsKeep DEF RestOK
<1>2. CASE UNCHANGED faults /\ \E p : ProcessEnds(p)
  BY <1>2 DEF RestOK, ProcessEnds
<1> QED
  BY <1>1, <1>2 DEF Settle

LEMMA RestStep ==
  ASSUME RestOK, [Next]_vars
  PROVE  RestOK'
<1>0. {"link", "tag"} = DOMAIN MaxFaults
  BY NotificationAssumption
<1>1. ASSUME NEW e \in Events, HandleOrderStatusChanged(e) \/ PublisherContinues(e)
      PROVE  RestOK'
  <2>1. ASSUME NEW ch, Sent(e, ch)
        PROVE  RestOK'
    BY <2>1, TransmitFaults, FaultsKeep DEF Sent, RestOK
  <2>2. CASE HandleOrderStatusChanged(e)
    BY <2>1, <2>2 DEF HandleOrderStatusChanged, PublishUnchanged, RestOK
  <2>3. CASE Publish(e)
    BY <2>1, <2>3 DEF Publish
  <2>4. CASE PublishFails(e)
    BY <2>4 DEF PublishFails, PublishUnchanged, RestOK
  <2> QED
    BY <1>1, <2>2, <2>3, <2>4 DEF PublisherContinues
<1>2. CASE UNCHANGED <<outbox, destroyed, faults>>
  BY <1>2 DEF RestOK
<1>3. ASSUME NEW g \in Callers, Connects(g) \/ ChannelOpens(g)
      PROVE  RestOK'
  BY <1>2, <1>3 DEF Connects, ChannelOpens, processVars
<1>4. ASSUME NEW l \in Loops, LoopContinues(l) \/ LoopFails(l)
      PROVE  RestOK'
  BY <1>2, <1>4 DEF LoopContinues, LoopFails, LoopStarts, LoopGetsChannel, LoopPrefetches,
     LoopSubscribes, LoopUnchanged
<1>5. ASSUME NEW c \in Links, Deliver(c)
      PROVE  RestOK'
  <2>1. \/ \E b, h, frames, ids, past : Settle(b, h, frames, ids, past)
        \/ UNCHANGED <<outbox, destroyed, faults>>
    BY <1>5 DEF Deliver
  <2> QED
    BY <1>2, <2>1, SettleRest
<1>6. ASSUME NEW c \in Links, Requeue(c) \/ ConnectionDrops(c)
      PROVE  RestOK'
  <2>1. CASE Requeue(c)
    BY <1>2, <2>1 DEF Requeue, processVars
  <2>2. CASE ConnectionDrops(c)
    BY <1>0, <2>2, FaultsKeep DEF ConnectionDrops, FaultsStep, RestOK
  <2> QED
    BY <1>6, <2>1, <2>2
<1>7. ASSUME NEW h \in handlers, MailSent(h) \/ MailFails(h) \/ BackoffEnds(h)
      PROVE  RestOK'
  <2>1. \/ \E b, frames, ids, past : Settle(b, h, frames, ids, past)
        \/ \E ids, past : BacksOff(h, ids, past)
    BY <1>7 DEF MailSent, MailFails, BackoffEnds
  <2> QED
    BY <1>2, <2>1, SettleRest DEF BacksOff
<1>8. CASE Crash \/ Exit
  <2>1. FaultsStep /\ \E past : ProcessEnds(past)
    BY <1>0, <1>8 DEF Crash, Exit, FaultsStep
  <2> QED
    BY <2>1, FaultsKeep DEF ProcessEnds, RestOK
<1>9. CASE OnModuleDestroy
  BY <1>0, <1>9, FaultsKeep DEF OnModuleDestroy, ShutdownUnchanged, FaultsStep, RestOK
<1>10. ASSUME NEW m \in Managers, OnModuleDestroyContinues(m)
       PROVE  RestOK'
  BY <1>2, <1>10 DEF OnModuleDestroyContinues, ShutdownUnchanged
<1>11. CASE UNCHANGED vars
  BY <1>2, <1>11 DEF vars, processVars
<1> QED
  BY <1>1, <1>3, <1>4, <1>5, <1>6, <1>7, <1>8, <1>9, <1>10, <1>11 DEF Next, HandlerContinues
-----------------------------------------------------------------------------
(* The inductive invariant.                                                  *)
DeliveryInv == DeafInv /\ KnownNow /\ RestOK

LEMMA QueuedIds ==
  /\ Backlog \in Seq(Messages)
  /\ \A id \in Queued : \E i \in DOMAIN Backlog : Backlog[i].id = id
  /\ Queued \subseteq Ids
<1>1. Backlog \in Seq(Messages)
  BY NotificationAssumption DEF Messages, Ids
<1>2. \A m \in Range(Backlog) : m \in Messages /\ \E i \in DOMAIN Backlog : Backlog[i] = m
  BY <1>1, LenProperties, ElementOfSeq DEF Range
<1>3. \A m \in Messages : m.id \in Ids
  BY DEF Messages
<1> QED
  BY <1>1, <1>2, <1>3 DEF Queued

LEMMA InitKnown ==
  ASSUME Init
  PROVE  KnownNow /\ RestOK
<1>1. BrokerType(broker) /\ broker.queue = Backlog /\ broker.dead = {}
  BY QueuedIds, EmptySeq DEF Init, BrokerType
<1>2. /\ HistoryType(history) /\ history.accepted = Queued
      /\ sentMessageIds = <<>> /\ handlers = {}
  BY QueuedIds, EmptySeq DEF Init, HistoryType, ManyMails
<1>3. Kept(broker, history)
  <2> SUFFICES ASSUME NEW id \in Queued PROVE At(broker, id) # {}
    BY <1>2 DEF Kept
  <2>1. PICK i \in Waits(broker, id) : TRUE
    BY <1>1, QueuedIds DEF Waits
  <2> QED
    BY <2>1, AtMembers
<1>4. Fates(broker, history)
  BY <1>1, <1>2, <1>3, FS_EmptySet DEF Fates
<1>5. Remembers(sentMessageIds, history)
  <2>1. <<>> \in Seq(Events) /\ Len(<<>>) = 0 /\ Range(<<>>) = {}
    BY EmptySeq DEF Range
  <2> QED
    BY <1>2, <2>1, NotificationAssumption DEF Remembers
<1>6. HandlersOK(handlers)
  BY <1>2 DEF HandlersOK
<1>7. RestOK
  <2>1. \A kind \in DOMAIN MaxFaults : MaxFaults[kind] \in Nat
    BY NotificationAssumption
  <2>2. faults = [kind \in DOMAIN MaxFaults |-> 0]
    BY DEF Init
  <2>3. outbox \in [Events -> {"none", "publishing", "done"}] /\ destroyed \in BOOLEAN
    BY DEF Init
  <2> QED
    BY <2>1, <2>2, <2>3 DEF RestOK
<1> QED
  BY <1>4, <1>5, <1>6, <1>7 DEF KnownNow, Known

LEMMA DeliveryInvariant == Spec => []DeliveryInv
<1>1. Init => DeliveryInv
  BY InitEstablishes, InitNeverDeaf, InitKnown DEF DeafInv, DeliveryInv
<1>2. DeliveryInv /\ [Next]_vars => DeliveryInv'
  <2> SUFFICES ASSUME DeliveryInv, [Next]_vars PROVE DeliveryInv'
    OBVIOUS
  <2>1. DeafInv'
    BY NextSteps, GetStepPreserves, CloseStepPreserves, ShutdownStepPreserves, NextKeeps
       DEF DeafInv, DeliveryInv
  <2>2. KnownNext
    BY KnownStep DEF DeliveryInv, DeafInv, AmqpInv, ConsumerInv
  <2>3. KnownNow'
    BY <2>2 DEF KnownNow, KnownNext, Known, Fates, Remembers, HandlersOK, Kept, BrokerType,
       HistoryType
  <2>4. RestOK'
    BY RestStep DEF DeliveryInv
  <2> QED
    BY <2>1, <2>3, <2>4 DEF DeliveryInv
<1> QED
  BY <1>1, <1>2, PTL DEF Spec

(* NotificationTypeOK: whatever crashes, closes or is delivered again, the  *)
(* queue and the memory of the consumer hold what they should, and no copy  *)
(* of a message carries more than MAX_RETRIES retries.                      *)
THEOREM NotificationTypeCorrect == Spec => []NotificationTypeOK
<1>1. DeliveryInv => NotificationTypeOK
  BY DEF DeliveryInv, DeafInv, AmqpInv, ConsumerInv, KnownNow, Known, Fates, BrokerType,
     Remembers, HandlersOK, RestOK, NotificationTypeOK
<1> QED
  BY <1>1, DeliveryInvariant, PTL

LEMMA DeadLettersOf ==
  ASSUME NEW id, IsFiniteSet(broker.dead)
  PROVE  DeadLetters(id) > 0 <=> DeadOf(broker, id) # {}
<1>1. DeadLetters(id) = Cardinality(DeadOf(broker, id))
  BY DEF DeadLetters, DeadOf
<1>2. IsFiniteSet(DeadOf(broker, id))
  BY FS_Subset DEF DeadOf
<1> QED
  BY <1>1, <1>2, FS_EmptySet, FS_CardinalityType

(* LostOnlyByMisdirectedAck: crashes, lost frames and reconnections lose no *)
(* message the broker has accepted; only an acknowledgement meant for       *)
(* another one does.                                                        *)
THEOREM NothingElseIsLost == Spec => []LostOnlyByMisdirectedAck
<1>1. DeliveryInv => LostOnlyByMisdirectedAck
  BY PlacesAt, DeadLettersOf DEF DeliveryInv, KnownNow, Known, Fates, Kept,
     LostOnlyByMisdirectedAck
<1> QED
  BY <1>1, DeliveryInvariant, PTL

(* DeadLettersJustified: a message in the dead letters is unreadable, its   *)
(* recipient was refused, every retry has failed, or the nack was meant for *)
(* another one.                                                             *)
THEOREM DeadLettersHaveReasons == Spec => []DeadLettersJustified
<1>1. DeliveryInv => DeadLettersJustified
  BY DEF DeliveryInv, KnownNow, Known, Fates, DeadReason, DeadLettersJustified
<1> QED
  BY <1>1, DeliveryInvariant, PTL
-----------------------------------------------------------------------------
(* Exactly once.  A message is calm when nothing took it back and no one    *)
(* else settled it; a calm one is in one place, or dead, or was e-mailed.   *)
Calm(h, id) == id \notin h.disturbed /\ id \notin h.misdirected

One(S) == \E x : S = {x}

Once(b, h, id) ==
  \/ One(At(b, id)) /\ DeadOf(b, id) = {} /\ h.mails[id] = 0
  \/ At(b, id) = {} /\ One(DeadOf(b, id)) /\ h.mails[id] = 0
  \/ At(b, id) = {} /\ DeadOf(b, id) = {} /\ h.mails[id] = 1

Nowhere(b, h, id) == At(b, id) = {} /\ DeadOf(b, id) = {} /\ h.mails[id] = 0

Counted(b, h, id) ==
  \/ id \in h.accepted /\ (Calm(h, id) => Once(b, h, id))
  \/ id \notin h.accepted /\ Nowhere(b, h, id)

AllCounted(b, h) == \A id \in Ids : Counted(b, h, id)

(* A handler of a calm message has its delivery, which no other one has.    *)
HasDelivery(b, g) ==
  /\ g.tag \in Unsettled(b, g.link)
  /\ b.deliveries[g.link][g.tag].message = g.message

Owned(b, h, hs) ==
  /\ \A g \in hs : /\ g.message.id \in h.accepted
                   /\ Calm(h, g.message.id) => HasDelivery(b, g)
  /\ \A g, k \in hs : /\ Calm(h, g.message.id) /\ Calm(h, k.message.id)
                      /\ g.link = k.link /\ g.tag = k.tag
                      => g = k

(* What a closed connection had not settled is not calm.                    *)
ClosedLeft(b, h, ls) ==
  \A c \in Links : ls[c] = Closed => UnsettledIds(b, {c}) \subseteq h.disturbed

NotYetPublished(h, box) == \A e \in Events : box[e] # "done" => e \notin h.accepted

(* The message of a frame is in hand: nothing but its delivery is left of it. *)
InHand(b, h, c, f) ==
  LET id == f.message.id
  IN  /\ id \in h.accepted
      /\ Calm(h, id) => /\ At(b, id) = {<<c, f.tag>>} /\ DeadOf(b, id) = {}
                        /\ h.mails[id] = (IF f.kind = "ack" THEN 1 ELSE 0)

LEMMA SameCounted ==
  ASSUME NEW b, NEW h, NEW id, Counted(b, h, id), NEW b2, NEW h2,
         At(b2, id) = At(b, id), DeadOf(b2, id) = DeadOf(b, id), h2.mails[id] = h.mails[id],
         h2.accepted = h.accepted,
         h.disturbed \subseteq h2.disturbed, h.misdirected \subseteq h2.misdirected
  PROVE  Counted(b2, h2, id)
BY DEF Counted, Calm, Once, Nowhere

LEMMA UnsettledIdsOf ==
  ASSUME NEW b, NEW C
  PROVE  \A id : id \in UnsettledIds(b, C) <=> \E c \in C : Holds(b, c, id) # {}
BY DEF UnsettledIds, Holds

LEMMA InHandUnsettled ==
  ASSUME NEW b, NEW c \in Links, NEW id, NEW tag, <<c, tag>> \in At(b, id)
  PROVE  tag \in Holds(b, c, id) /\ id \in UnsettledIds(b, {c})
<1>1. c # NoLink
  BY NoLinkIsNoLink
<1>2. tag \in Holds(b, c, id)
  BY <1>1, AtMembers
<1> QED
  BY <1>2, UnsettledIdsOf

(* Another place for each copy: as many messages as before. *)
LEMMA MovedCounted ==
  ASSUME NEW b, NEW h, NEW id, Counted(b, h, id), NEW a, SamePlaces(b, a, id),
         DeadOf(a, id) = DeadOf(b, id)
  PROVE  Counted(a, h, id)
<1>1. PICK g \in [At(a, id) -> At(b, id)] : \A p, q \in At(a, id) : g[p] = g[q] => p = q
  BY DEF SamePlaces
<1>2. At(b, id) = {} => At(a, id) = {}
  BY <1>1
<1>3. One(At(b, id)) => One(At(a, id))
  <2> SUFFICES ASSUME NEW x, At(b, id) = {x} PROVE One(At(a, id))
    BY DEF One
  <2>1. PICK p \in At(a, id) : TRUE
    BY DEF SamePlaces
  <2>2. \A q \in At(a, id) : g[q] = x
    BY <1>1
  <2>3. \A q \in At(a, id) : q = p
    BY <1>1, <2>2
  <2>4. At(a, id) = {p}
    BY <2>3
  <2> QED
    BY <2>4 DEF One
<1> QED
  BY <1>2, <1>3 DEF Counted, Once, Nowhere

LEMMA SettledCounted ==
  ASSUME NEW b, NEW past, Fates(b, past), NEW c \in Links, NEW f \in Frames,
         f.kind # "publish", f.tag \in Unsettled(b, c),
         \A id \in Ids : id # f.message.id => Counted(b, past, id),
         InHand(b, past, c, f), NEW h2, IsPast(h2, past, {}, Lost(b, c, f), {})
  PROVE  AllCounted(Settles(b, c, f.tag, Rejects(b, c, f)), h2)
<1> DEFINE dead == Rejects(b, c, f)
           b2 == Settles(b, c, f.tag, dead)
           M == Settled(b, c, f)
           id0 == f.message.id
           place == <<c, f.tag>>
<1>0. BrokerType(b) /\ f.kind \in {"ack", "nack"}
  BY DEF Fates, Frames, Kinds
<1>1. /\ M.id \in Ids /\ place \in At(b, M.id) /\ dead \subseteq Messages
      /\ \A id : place \in At(b, id) => id = M.id
  BY <1>0, SettledMessage
<1>2. \A id : /\ At(b2, id) = At(b, id) \ {place}
              /\ DeadOf(b2, id) = DeadOf(b, id) \cup {m \in dead : m.id = id}
  BY <1>0, <1>1, SettlesPlaces
<1>3. dead = (IF f.kind = "nack" THEN {M} ELSE {})
  BY DEF Rejects
<1>4. /\ h2.accepted = past.accepted /\ h2.disturbed = past.disturbed
      /\ h2.misdirected = past.misdirected \cup Lost(b, c, f)
      /\ h2.mails = past.mails
  BY DEF IsPast
<1>5. Lost(b, c, f) = IF M # f.message THEN {M.id} ELSE {}
  BY DEF Lost
<1> HIDE DEF dead, b2, M, place
<1> SUFFICES ASSUME NEW id \in Ids PROVE Counted(b2, h2, id)
  BY DEF AllCounted, b2, dead
<1>6. CASE id = M.id /\ M # f.message
  <2>1. ~Calm(h2, id)
    BY <1>4, <1>5, <1>6 DEF Calm
  <2>2. id \in past.accepted
    <3>1. CASE id = id0
      BY <3>1 DEF InHand
    <3>2. CASE id # id0
      BY <1>1, <1>6, <3>2 DEF Counted, Nowhere
    <3> QED
      BY <3>1, <3>2
  <2> QED
    BY <1>4, <2>1, <2>2 DEF Counted
<1>7. CASE id = M.id /\ M = f.message
  <2>0. id = id0 /\ id \in h2.accepted
    BY <1>4, <1>7 DEF InHand
  <2> SUFFICES ASSUME Calm(h2, id) PROVE Once(b2, h2, id)
    BY <2>0 DEF Counted
  <2>1. Calm(past, id)
    BY <1>4 DEF Calm
  <2>2. /\ At(b, id) = {place} /\ DeadOf(b, id) = {}
        /\ past.mails[id] = (IF f.kind = "ack" THEN 1 ELSE 0)
    BY <2>0, <2>1 DEF InHand, place
  <2>3. At(b2, id) = {}
    BY <1>2, <2>2
  <2>4. CASE f.kind = "ack"
    <3>1. DeadOf(b2, id) = {} /\ h2.mails[id] = 1
      BY <1>2, <1>3, <1>4, <2>2, <2>4
    <3> QED
      BY <2>3, <3>1 DEF Once
  <2>5. CASE f.kind = "nack"
    <3>1. DeadOf(b2, id) = {M} /\ h2.mails[id] = 0
      BY <1>2, <1>3, <1>4, <1>7, <2>2, <2>5
    <3> QED
      BY <2>3, <3>1 DEF Once, One
  <2> QED
    BY <1>0, <2>4, <2>5
<1>8. CASE id # M.id
  <2>1. At(b2, id) = At(b, id) /\ DeadOf(b2, id) = DeadOf(b, id)
    BY <1>1, <1>2, <1>3, <1>8
  <2>2. CASE id # id0
    BY <1>4, <2>1, <2>2, SameCounted
  <2>3. CASE id = id0
    <3>1. ~Calm(past, id)
      BY <1>1, <1>8, <2>3 DEF InHand, place
    <3>2. ~Calm(h2, id) /\ id \in h2.accepted
      BY <1>4, <2>3, <3>1 DEF Calm, InHand
    <3> QED
      BY <3>2 DEF Counted
  <2> QED
    BY <2>2, <2>3
<1> QED
  BY <1>6, <1>7, <1>8

LEMMA PublishedCounted ==
  ASSUME NEW b, NEW past, Fates(b, past), NEW m \in Messages, AllCounted(b, past),
         m.id \notin past.accepted, NEW h2, IsPast(h2, past, {m.id}, {}, {})
  PROVE  AllCounted(Publishes(b, m), h2)
<1> DEFINE b2 == Publishes(b, m)
           place == <<NoLink, Len(b.queue) + 1>>
<1>0. BrokerType(b)
  BY DEF Fates
<1>1. \A id : /\ At(b2, id) = At(b, id) \cup (IF m.id = id THEN {place} ELSE {})
              /\ DeadOf(b2, id) = DeadOf(b, id)
  BY <1>0, PublishesPlaces
<1>2. /\ h2.accepted = past.accepted \cup {m.id} /\ h2.disturbed = past.disturbed
      /\ h2.misdirected = past.misdirected /\ h2.mails = past.mails
  BY DEF IsPast
<1> HIDE DEF b2, place
<1> SUFFICES ASSUME NEW id \in Ids PROVE Counted(b2, h2, id)
  BY DEF AllCounted, b2
<1>3. Counted(b, past, id)
  BY DEF AllCounted
<1>4. CASE id = m.id
  <2>1. Nowhere(b, past, id)
    BY <1>3, <1>4 DEF Counted
  <2>2. At(b2, id) = {place} /\ DeadOf(b2, id) = {} /\ h2.mails[id] = 0
    BY <1>1, <1>2, <1>4, <2>1 DEF Nowhere
  <2> QED
    BY <1>2, <1>4, <2>2 DEF Counted, Once, One
<1>5. CASE id # m.id
  <2>1. At(b2, id) = At(b, id)
    BY <1>1, <1>5
  <2> QED
    BY <1>1, <1>2, <1>3, <1>5, <2>1 DEF Counted, Calm, Once, Nowhere
<1> QED
  BY <1>4, <1>5

LEMMA RetriedCounted ==
  ASSUME NEW b, NEW past, Fates(b, past), NEW c \in Links, NEW m \in Messages,
         NEW a \in Frames, a.kind = "ack", a.tag \in Unsettled(b, c), a.message.id = m.id,
         AllCounted(b, past), m.id \in past.accepted,
         Calm(past, m.id) => <<c, a.tag>> \in At(b, m.id),
         NEW h2, IsPast(h2, past, {m.id}, Lost(b, c, a), {})
  PROVE  AllCounted(Settles(Publishes(b, m), c, a.tag, {}), h2)
<1> DEFINE b1 == Publishes(b, m)
           b2 == Settles(b1, c, a.tag, {})
           new == <<NoLink, Len(b.queue) + 1>>
           place == <<c, a.tag>>
           M == Settled(b, c, a)
<1>0. BrokerType(b) /\ BrokerType(b1) /\ place # new
  BY PublishesFields, NoLinkIsNoLink DEF Fates
<1>1. \A id : /\ At(b1, id) = At(b, id) \cup (IF m.id = id THEN {new} ELSE {})
              /\ DeadOf(b1, id) = DeadOf(b, id)
  <2>1. BrokerType(b)
    BY <1>0
  <2> QED
    BY <2>1, PublishesPlaces, Zenon
<1> HIDE DEF b1
<1>2. \A id : /\ At(b2, id) = At(b1, id) \ {place}
              /\ DeadOf(b2, id) = DeadOf(b1, id)
  <2> SUFFICES ASSUME NEW id
               PROVE  At(b2, id) = At(b1, id) \ {place} /\ DeadOf(b2, id) = DeadOf(b1, id)
    OBVIOUS
  <2> DEFINE none == {}
  <2>0. none \subseteq Messages /\ {x \in none : x.id = id} = {}
    OBVIOUS
  <2> HIDE DEF none
  <2>1. /\ At(Settles(b1, c, a.tag, none), id) = At(b1, id) \ {place}
        /\ DeadOf(Settles(b1, c, a.tag, none), id)
             = DeadOf(b1, id) \cup {x \in none : x.id = id}
    BY <1>0, <2>0, SettlesPlaces
  <2> QED
    BY <2>0, <2>1 DEF none
<1>3. /\ M.id \in Ids /\ place \in At(b, M.id) /\ \A id : place \in At(b, id) => id = M.id
  BY <1>0, SettledMessage
<1>4. /\ h2.accepted = past.accepted /\ h2.disturbed = past.disturbed
      /\ h2.misdirected = past.misdirected \cup Lost(b, c, a) /\ h2.mails = past.mails
  BY DEF IsPast
<1>5. Lost(b, c, a) = IF M # a.message THEN {M.id} ELSE {}
  BY DEF Lost
<1> HIDE DEF b2, new, place, M
<1> SUFFICES ASSUME NEW id \in Ids PROVE Counted(b2, h2, id)
  BY DEF AllCounted, b2, b1
<1>6. Counted(b, past, id)
  BY DEF AllCounted
<1>7. CASE id = m.id
  <2> SUFFICES ASSUME Calm(h2, id) PROVE Once(b2, h2, id)
    BY <1>4, <1>7 DEF Counted
  <2>1. Calm(past, id)
    BY <1>4 DEF Calm
  <2>2. place \in At(b, id) /\ Once(b, past, id)
    BY <1>6, <1>7, <2>1 DEF Counted, place
  <2>3. At(b, id) = {place} /\ DeadOf(b, id) = {} /\ past.mails[id] = 0
    BY <2>2 DEF Once, One
  <2>4. At(b2, id) = {new} /\ DeadOf(b2, id) = {} /\ h2.mails[id] = 0
    BY <1>0, <1>1, <1>2, <1>4, <1>7, <2>3
  <2> QED
    BY <2>4 DEF Once, One
<1>8. CASE id # m.id /\ id = M.id
  <2>1. ~Calm(h2, id)
    BY <1>4, <1>5, <1>8 DEF Calm
  <2>2. id \in past.accepted
    BY <1>3, <1>6, <1>8 DEF Counted, Nowhere
  <2> QED
    BY <1>4, <2>1, <2>2 DEF Counted
<1>9. CASE id # m.id /\ id # M.id
  <2>0. At(b1, id) = At(b, id) /\ place \notin At(b, id)
    BY <1>1, <1>3, <1>9
  <2>1. At(b2, id) = At(b, id) /\ DeadOf(b2, id) = DeadOf(b, id)
    BY <1>1, <1>2, <2>0
  <2> QED
    BY <1>4, <1>6, <2>1, SameCounted
<1> QED
  BY <1>7, <1>8, <1>9
-----------------------------------------------------------------------------
(* What each action does to calm messages.                                   *)
Exact(b, h, hs, ls, box) ==
  /\ AllCounted(b, h) /\ Owned(b, h, hs)
  /\ ClosedLeft(b, h, ls) /\ NotYetPublished(h, box)

ExactNow == Exact(broker, history, handlers, links, outbox)
ExactNext == Exact(broker', history', handlers', links', outbox')

(* No handler but the one that settles has the delivery of frame f.          *)
Alone(h, link, f, hs) ==
  Calm(h, f.message.id) =>
    \A g \in hs : ~(g.link = link /\ g.tag = f.tag /\ Calm(h, g.message.id))

LEMMA OwnedKept ==
  ASSUME NEW b, NEW h, NEW hs, Owned(b, h, hs), NEW b2, NEW h2,
         h.accepted \subseteq h2.accepted,
         h.disturbed \subseteq h2.disturbed, h.misdirected \subseteq h2.misdirected,
         \A g \in hs : Calm(h2, g.message.id) /\ HasDelivery(b, g) => HasDelivery(b2, g)
  PROVE  Owned(b2, h2, hs)
<1>1. \A id : Calm(h2, id) => Calm(h, id)
  BY DEF Calm
<1> QED
  BY <1>1 DEF Owned

LEMMA ClosedKept ==
  ASSUME NEW b, NEW h, NEW ls, ClosedLeft(b, h, ls), NEW b2, NEW h2, NEW ls2,
         h.disturbed \subseteq h2.disturbed,
         \A d \in Links : UnsettledIds(b2, {d}) \subseteq UnsettledIds(b, {d}),
         \A d \in Links : \/ ls2[d] = Closed => ls[d] = Closed
                          \/ UnsettledIds(b2, {d}) \subseteq h2.disturbed
  PROVE  ClosedLeft(b2, h2, ls2)
<1> SUFFICES ASSUME NEW d \in Links, ls2[d] = Closed
             PROVE  UnsettledIds(b2, {d}) \subseteq h2.disturbed
  BY DEF ClosedLeft
<1>1. CASE ls[d] = Closed
  BY <1>1 DEF ClosedLeft
<1> QED
  BY <1>1

LEMMA CutLinks ==
  ASSUME NEW c \in Links, links' = Cut({c}), NEW d \in Links, d # c
  PROVE  links'[d] = links[d]
BY DEF Cut

LEMMA SettlesShrinks ==
  ASSUME NEW b, BrokerType(b), NEW c \in Links, NEW tag, NEW dead, dead \subseteq Messages
  PROVE  \A d \in Links :
           /\ UnsettledIds(Settles(b, c, tag, dead), {d}) \subseteq UnsettledIds(b, {d})
           /\ \A id : Holds(Settles(b, c, tag, dead), d, id) =
                        IF d = c THEN Holds(b, d, id) \ {tag} ELSE Holds(b, d, id)
<1> DEFINE b2 == Settles(b, c, tag, dead)
<1>1. /\ \A d \in Links : DOMAIN b2.deliveries[d] = DOMAIN b.deliveries[d]
      /\ \A d \in Links : \A u \in DOMAIN b.deliveries[d] :
           /\ b2.deliveries[d][u].message = b.deliveries[d][u].message
           /\ b2.deliveries[d][u].settled = (b.deliveries[d][u].settled \/ (d = c /\ u = tag))
  BY SettlesFields
<1> HIDE DEF b2
<1>2. \A d \in Links : \A id :
        Holds(b2, d, id) = IF d = c THEN Holds(b, d, id) \ {tag} ELSE Holds(b, d, id)
  <2> SUFFICES ASSUME NEW d \in Links, NEW id
               PROVE  Holds(b2, d, id) = IF d = c THEN Holds(b, d, id) \ {tag} ELSE Holds(b, d, id)
    OBVIOUS
  <2>1. \A u : u \in Holds(b2, d, id) <=>
                /\ u \in DOMAIN b2.deliveries[d] /\ ~b2.deliveries[d][u].settled
                /\ b2.deliveries[d][u].message.id = id
    BY DEF Holds, Unsettled
  <2>2. \A u : u \in Holds(b, d, id) <=>
                /\ u \in DOMAIN b.deliveries[d] /\ ~b.deliveries[d][u].settled
                /\ b.deliveries[d][u].message.id = id
    BY DEF Holds, Unsettled
  <2>3. /\ DOMAIN b2.deliveries[d] = DOMAIN b.deliveries[d]
        /\ \A u \in DOMAIN b.deliveries[d] :
             /\ b2.deliveries[d][u].message = b.deliveries[d][u].message
             /\ b2.deliveries[d][u].settled = (b.deliveries[d][u].settled \/ (d = c /\ u = tag))
    BY <1>1
  <2>4. \A u : u \in Holds(b2, d, id) <=> u \in Holds(b, d, id) /\ ~(d = c /\ u = tag)
    <3> TAKE u
    <3>1. CASE u \in DOMAIN b.deliveries[d]
      <4>1. b2.deliveries[d][u].message = b.deliveries[d][u].message
        BY <2>3, <3>1
      <4>2. ~b2.deliveries[d][u].settled <=> ~b.deliveries[d][u].settled /\ ~(d = c /\ u = tag)
        BY <2>3, <3>1
      <4> QED
        BY <2>1, <2>2, <2>3, <3>1, <4>1, <4>2
    <3>2. CASE u \notin DOMAIN b.deliveries[d]
      BY <2>1, <2>2, <2>3, <3>2
    <3> QED
      BY <3>1, <3>2
  <2>5. CASE d = c
    <3>1. Holds(b2, d, id) = Holds(b, d, id) \ {tag}
      BY <2>4, <2>5
    <3> QED
      BY <2>5, <3>1
  <2>6. CASE d # c
    <3>1. Holds(b2, d, id) = Holds(b, d, id)
      BY <2>4, <2>6
    <3> QED
      BY <2>6, <3>1
  <2> QED
    BY <2>5, <2>6
<1>3. \A d \in Links : UnsettledIds(b2, {d}) \subseteq UnsettledIds(b, {d})
  <2> SUFFICES ASSUME NEW d \in Links, NEW id \in UnsettledIds(b2, {d})
               PROVE  id \in UnsettledIds(b, {d})
    OBVIOUS
  <2>1. Holds(b2, d, id) # {}
    BY UnsettledIdsOf
  <2>2. Holds(b, d, id) # {}
    BY <1>2, <2>1
  <2> QED
    BY <2>2, UnsettledIdsOf
<1> QED
  BY <1>2, <1>3 DEF b2

LEMMA SettlesOwned ==
  ASSUME NEW b, BrokerType(b), NEW past, NEW c \in Links, NEW f \in Frames,
         f.tag \in Unsettled(b, c), NEW hs, hs \subseteq Handlers, Owned(b, past, hs),
         Alone(past, c, f, hs), NEW h2, IsPast(h2, past, {}, Lost(b, c, f), {}),
         NEW dead, dead \subseteq Messages
  PROVE  Owned(Settles(b, c, f.tag, dead), h2, hs)
<1> DEFINE b2 == Settles(b, c, f.tag, dead)
<1>1. /\ \A d \in Links : DOMAIN b2.deliveries[d] = DOMAIN b.deliveries[d]
      /\ \A d \in Links : \A u \in DOMAIN b.deliveries[d] :
           /\ b2.deliveries[d][u].message = b.deliveries[d][u].message
           /\ b2.deliveries[d][u].settled = (b.deliveries[d][u].settled \/ (d = c /\ u = f.tag))
  BY SettlesFields
<1> HIDE DEF b2
<1>2. /\ h2.accepted = past.accepted /\ h2.disturbed = past.disturbed
      /\ h2.misdirected = past.misdirected \cup Lost(b, c, f)
  BY DEF IsPast
<1>3. ASSUME NEW g \in hs, Calm(h2, g.message.id), HasDelivery(b, g)
      PROVE  HasDelivery(b2, g)
  <2>0. g.link \in Links /\ g.tag \in DOMAIN b.deliveries[g.link] /\ Calm(past, g.message.id)
    BY <1>2, <1>3 DEF Handlers, HasDelivery, Unsettled, Calm
  <2>1. CASE g.link = c /\ g.tag = f.tag
    <3>1. g.message = Settled(b, c, f)
      BY <1>3, <2>1 DEF HasDelivery, Settled
    <3>2. Settled(b, c, f) = f.message
      BY <1>2, <1>3, <3>1 DEF Lost, Calm
    <3> QED
      BY <2>0, <2>1, <3>1, <3>2 DEF Alone
  <2>2. CASE ~(g.link = c /\ g.tag = f.tag)
    BY <1>1, <1>3, <2>0, <2>2 DEF HasDelivery, Unsettled
  <2> QED
    BY <2>1, <2>2
<1> QED
  BY <1>2, <1>3, OwnedKept DEF b2

LEMMA CutOffExact ==
  ASSUME NEW b, NEW past, Fates(b, past), NEW c \in Links, CutOff(b, c, past, {}),
         \A id \in Ids : \/ Counted(b, past, id)
                         \/ /\ id \in past.accepted
                            /\ Calm(past, id) => \E tag : <<c, tag>> \in At(b, id),
         NEW hs, Owned(b, past, hs), ClosedLeft(b, past, links),
         NEW box, NotYetPublished(past, box)
  PROVE  Exact(broker', history', hs, links', box)
<1> DEFINE cut == UnsettledIds(b, {c})
<1>0. BrokerType(b) /\ HistoryType(past) /\ cut \subseteq Ids
  BY UnsettledIdsAreIds DEF Fates
<1>1. IsPast(history', past, {}, {}, cut) /\ broker' = b /\ links' = Cut({c})
  BY <1>0, PastFields DEF CutOff, Closes
<1>2. /\ history'.accepted = past.accepted /\ history'.disturbed = past.disturbed \cup cut
      /\ history'.misdirected = past.misdirected /\ history'.mails = past.mails
  BY <1>1 DEF IsPast
<1>3. AllCounted(b, history')
  <2> SUFFICES ASSUME NEW id \in Ids PROVE Counted(b, history', id)
    BY DEF AllCounted
  <2>1. CASE Counted(b, past, id)
    BY <1>2, <2>1, SameCounted
  <2>2. CASE /\ id \in past.accepted
             /\ Calm(past, id) => \E tag : <<c, tag>> \in At(b, id)
    <3>1. Calm(past, id) => id \in cut
      BY <2>2, InHandUnsettled
    <3>2. ~Calm(history', id)
      BY <1>2, <3>1 DEF Calm
    <3> QED
      BY <1>2, <2>2, <3>2 DEF Counted
  <2> QED
    BY <2>1, <2>2
<1>4. Owned(b, history', hs)
  BY <1>2, OwnedKept
<1>5. ClosedLeft(b, history', links')
  <2>1. \A d \in Links : d # c => links'[d] = links[d]
    BY <1>1, CutLinks
  <2> QED
    BY <1>2, <2>1, ClosedKept
<1>6. NotYetPublished(history', box)
  BY <1>2 DEF NotYetPublished
<1> QED
  BY <1>1, <1>3, <1>4, <1>5, <1>6 DEF Exact

LEMMA TransmittedSettleExact ==
  ASSUME NEW b, NEW past, Fates(b, past), NEW c \in Links, NEW f \in Frames,
         f.kind # "publish", Transmit(b, c, <<f>>, past),
         \A id \in Ids : id # f.message.id => Counted(b, past, id),
         InHand(b, past, c, f),
         NEW hs, hs \subseteq Handlers, Owned(b, past, hs), Alone(past, c, f, hs),
         ClosedLeft(b, past, links), NEW box, NotYetPublished(past, box)
  PROVE  Exact(broker', history', hs, links', box)
<1>0. BrokerType(b) /\ HistoryType(past)
  BY DEF Fates
<1>1. CASE CutOff(b, c, past, {})
  <2>1. \A id \in Ids : \/ Counted(b, past, id)
                        \/ /\ id \in past.accepted
                           /\ Calm(past, id) => \E tag : <<c, tag>> \in At(b, id)
    BY DEF InHand
  <2> QED
    BY <1>1, <2>1, CutOffExact
<1>2. CASE /\ f.tag \in Unsettled(b, c)
           /\ Arrived(Settles(b, c, f.tag, Rejects(b, c, f)), past, {}, Lost(b, c, f))
  <2> DEFINE dead == Rejects(b, c, f)
             lost == Lost(b, c, f)
             b2 == Settles(b, c, f.tag, dead)
             h2 == Past(past, {}, lost, {})
  <2>1. lost \subseteq Ids /\ dead \subseteq Messages
    BY <1>0, <1>2, SettledMessage
  <2>2. IsPast(h2, past, {}, lost, {})
    BY <1>0, <2>1, PastFields
  <2>3. broker' = b2 /\ history' = h2 /\ links' = links
    BY <1>2 DEF Arrived
  <2> HIDE DEF h2
  <2>4. AllCounted(b2, h2)
    BY <1>2, <2>2, SettledCounted
  <2>5. Owned(b2, h2, hs)
    BY <1>0, <1>2, <2>1, <2>2, SettlesOwned
  <2>6. h2.accepted = past.accepted /\ h2.disturbed = past.disturbed
    BY <2>2 DEF IsPast
  <2>7. \A d \in Links : UnsettledIds(b2, {d}) \subseteq UnsettledIds(b, {d})
    BY <1>0, <2>1, SettlesShrinks
  <2> HIDE DEF b2
  <2>8. ClosedLeft(b2, h2, links)
    BY <2>6, <2>7, ClosedKept
  <2>9. NotYetPublished(h2, box)
    BY <2>6 DEF NotYetPublished
  <2> QED
    BY <2>3, <2>4, <2>5, <2>8, <2>9 DEF Exact
<1> QED
  BY <1>0, <1>1, <1>2, TransmitSettle

LEMMA TransmittedRetryExact ==
  ASSUME NEW b, NEW past, Fates(b, past), NEW c \in Links, NEW p \in Frames, NEW a \in Frames,
         p.kind = "publish", a.kind = "ack", a.message.id = p.message.id,
         Transmit(b, c, <<p, a>>, past),
         AllCounted(b, past), p.message.id \in past.accepted,
         Calm(past, p.message.id) => <<c, a.tag>> \in At(b, p.message.id),
         NEW hs, hs \subseteq Handlers, Owned(b, past, hs), Alone(past, c, a, hs),
         ClosedLeft(b, past, links), NEW box, NotYetPublished(past, box)
  PROVE  Exact(broker', history', hs, links', box)
<1> DEFINE m == p.message
           b1 == Publishes(b, m)
<1>0. BrokerType(b) /\ HistoryType(past) /\ m \in Messages /\ m.id \in Ids
  BY DEF Fates, Frames, Messages
<1>1. /\ BrokerType(b1) /\ b1.deliveries = b.deliveries /\ b1.dead = b.dead
      /\ \A id : At(b1, id) = At(b, id) \cup (IF m.id = id THEN {<<NoLink, Len(b.queue) + 1>>} ELSE {})
      /\ \A id : DeadOf(b1, id) = DeadOf(b, id)
  BY <1>0, PublishesFields, PublishesPlaces
<1>2. CASE CutOff(b, c, past, {})
  BY <1>2, CutOffExact DEF AllCounted
<1> HIDE DEF m
<1>3. \A g : HasDelivery(b, g) <=> HasDelivery(b1, g)
  BY <1>1 DEF HasDelivery, Unsettled
<1>4. \A d : UnsettledIds(b1, {d}) = UnsettledIds(b, {d})
  BY <1>1 DEF UnsettledIds, Unsettled
<1>5. CASE CutOff(b1, c, past, {m.id})
  <2> DEFINE cut == UnsettledIds(b1, {c})
  <2>1. cut \subseteq Ids /\ links' = Cut({c}) /\ broker' = b1
    BY <1>1, <1>5, UnsettledIdsAreIds DEF CutOff, Closes
  <2>2. IsPast(history', past, {m.id}, {}, cut)
    BY <1>0, <1>5, <2>1, PastFields DEF CutOff
  <2>3. /\ history'.accepted = past.accepted /\ history'.disturbed = past.disturbed \cup cut
        /\ history'.misdirected = past.misdirected /\ history'.mails = past.mails
    BY <2>2 DEF IsPast, m
  <2>4. AllCounted(b1, history')
    <3> SUFFICES ASSUME NEW id \in Ids PROVE Counted(b1, history', id)
      BY DEF AllCounted
    <3>1. CASE id = m.id
      <4>1. Calm(past, id) => id \in cut
        BY <1>4, <3>1, InHandUnsettled DEF m
      <4>2. ~Calm(history', id)
        BY <2>3, <4>1 DEF Calm
      <4> QED
        BY <2>3, <3>1, <4>2 DEF Counted, m
    <3>2. CASE id # m.id
      <4>1. At(b1, id) = At(b, id) /\ DeadOf(b1, id) = DeadOf(b, id)
        BY <1>1, <3>2
      <4>2. Counted(b, past, id)
        BY DEF AllCounted
      <4> HIDE DEF b1
      <4> QED
        BY <2>3, <4>1, <4>2, SameCounted
    <3> QED
      BY <3>1, <3>2
  <2> HIDE DEF b1
  <2>5. Owned(b1, history', hs)
    BY <1>3, <2>3, OwnedKept
  <2>6. ClosedLeft(b1, history', links')
    <3>1. \A d \in Links : d # c => links'[d] = links[d]
      BY <2>1, CutLinks
    <3>2. UnsettledIds(b1, {c}) \subseteq history'.disturbed
      BY <2>3
    <3>3. \A d \in Links : \/ links'[d] = Closed => links[d] = Closed
                            \/ UnsettledIds(b1, {d}) \subseteq history'.disturbed
      BY <3>1, <3>2
    <3>4. past.disturbed \subseteq history'.disturbed
      BY <2>3
    <3>5. \A d \in Links : UnsettledIds(b1, {d}) \subseteq UnsettledIds(b, {d})
      BY <1>4
    <3> HIDE DEF cut
    <3> QED
      BY <3>3, <3>4, <3>5, ClosedKept
  <2>7. NotYetPublished(history', box)
    BY <2>3 DEF NotYetPublished
  <2> QED
    BY <2>1, <2>4, <2>5, <2>6, <2>7 DEF Exact
<1>6. CASE /\ a.tag \in Unsettled(b, c)
           /\ Arrived(Settles(b1, c, a.tag, {}), past, {m.id}, Lost(b, c, a))
  <2> DEFINE lost == Lost(b, c, a)
             none == {}
             b2 == Settles(b1, c, a.tag, none)
             h2 == Past(past, {m.id}, lost, {})
  <2>1. lost \subseteq Ids /\ none \subseteq Messages
    BY <1>0, <1>6, SettledMessage
  <2>2. IsPast(h2, past, {m.id}, lost, {})
    BY <1>0, <2>1, PastFields
  <2>3. broker' = b2 /\ history' = h2 /\ links' = links
    BY <1>6 DEF Arrived
  <2> HIDE DEF h2
  <2>4. /\ h2.accepted = past.accepted /\ h2.disturbed = past.disturbed
        /\ h2.misdirected = past.misdirected \cup lost /\ HistoryType(h2)
        /\ h2.refused = past.refused /\ h2.mails = past.mails
    BY <2>2 DEF IsPast, m
  <2>5. AllCounted(b2, h2)
    BY <1>0, <1>6, <2>2, RetriedCounted DEF m
  <2>6. Owned(b2, h2, hs)
    <3>1. IsPast(h2, past, {}, lost, {})
      BY <2>4 DEF IsPast
    <3>2. Lost(b1, c, a) = lost /\ a.tag \in Unsettled(b1, c)
      BY <1>1, <1>6 DEF Lost, Settled, Unsettled
    <3> HIDE DEF b1, lost, none
    <3>3. Owned(b1, past, hs)
      BY <1>3, OwnedKept
    <3> QED
      BY <1>1, <2>1, <3>1, <3>2, <3>3, SettlesOwned
  <2> HIDE DEF b1, none
  <2>7. \A d \in Links : UnsettledIds(b2, {d}) \subseteq UnsettledIds(b, {d})
    BY <1>1, <1>4, <2>1, SettlesShrinks
  <2> HIDE DEF b2
  <2>8. ClosedLeft(b2, h2, links)
    BY <2>4, <2>7, ClosedKept
  <2>9. NotYetPublished(h2, box)
    BY <2>4 DEF NotYetPublished
  <2> QED
    BY <2>3, <2>5, <2>6, <2>8, <2>9 DEF Exact
<1> QED
  BY <1>0, <1>2, <1>5, <1>6, TransmitRetry DEF m
-----------------------------------------------------------------------------
(* The process ends: what any channel had not settled is not calm.          *)
LEMMA EndsExact ==
  ASSUME BrokerType(broker), NEW b, NEW past, Fates(b, past), broker' = b,
         NEW more, more \subseteq Ids,
         ProcessEnds([past EXCEPT !.disturbed = @ \cup more]),
         \A id \in Ids : \/ Counted(b, past, id)
                         \/ id \in past.accepted /\ (Calm(past, id) => id \in more),
         \A c \in Links : UnsettledIds(b, {c}) \subseteq more \cup UnsettledIds(broker, Links),
         NotYetPublished(past, outbox)
  PROVE  ExactNext
<1> DEFINE h1 == [past EXCEPT !.disturbed = @ \cup more]
           h2 == [h1 EXCEPT !.disturbed = @ \cup UnsettledIds(broker, Links)]
           D == past.disturbed \cup more \cup UnsettledIds(broker, Links)
<1>0. HistoryType(past) /\ UnsettledIds(broker, Links) \subseteq Ids
  BY UnsettledIdsAreIds DEF Fates
<1>1. h2 = [past EXCEPT !.disturbed = D]
  BY <1>0 DEF HistoryType
<1>2. history' = h2 /\ handlers' = {} /\ links' = Cut(Links)
      /\ outbox' = [e \in Events |-> IF outbox[e] = "none" THEN "none" ELSE "done"]
  BY DEF ProcessEnds
<1> HIDE DEF h1, h2, D
<1>3. /\ h2.accepted = past.accepted /\ h2.misdirected = past.misdirected
      /\ h2.disturbed = D /\ h2.mails = past.mails
  BY <1>0, <1>1 DEF HistoryType
<1>4. past.disturbed \subseteq D /\ more \subseteq D /\ UnsettledIds(broker, Links) \subseteq D
  BY DEF D
<1>5. AllCounted(b, h2)
  <2> SUFFICES ASSUME NEW id \in Ids PROVE Counted(b, h2, id)
    BY DEF AllCounted
  <2>1. CASE Counted(b, past, id)
    BY <1>3, <1>4, <2>1, SameCounted
  <2>2. CASE id \in past.accepted /\ (Calm(past, id) => id \in more)
    BY <1>3, <1>4, <2>2 DEF Counted, Calm
  <2> QED
    BY <2>1, <2>2
<1>6. Owned(b, h2, handlers')
  BY <1>2 DEF Owned
<1>7. ClosedLeft(b, h2, links')
  BY <1>3, <1>4 DEF ClosedLeft
<1>8. NotYetPublished(h2, outbox')
  BY <1>2, <1>3 DEF NotYetPublished
<1> QED
  BY <1>2, <1>5, <1>6, <1>7, <1>8 DEF ExactNext, Exact

(* A handler settles its message, of which nothing but the delivery is left. *)
Settleable(b, past, h, f) ==
  LET id == h.message.id
  IN  /\ id \in past.accepted
      /\ Calm(past, id) =>
           /\ At(b, id) = {<<h.link, h.tag>>} /\ DeadOf(b, id) = {}
           /\ Usable => past.mails[id] = (IF f.kind = "ack" THEN 1 ELSE 0)

SettlesFor(h, f) ==
  f \in Frames /\ f.kind # "publish" /\ f.message = h.message /\ f.tag = h.tag

LEMMA SettlingKeepsExact ==
  ASSUME NEW h \in Handlers, NEW past, HistoryType(past)
  PROVE  /\ Settling(h, past).accepted = past.accepted
         /\ Settling(h, past).misdirected = past.misdirected
         /\ Settling(h, past).mails = past.mails
         /\ past.disturbed \subseteq Settling(h, past).disturbed
         /\ \A id : Calm(Settling(h, past), id) => Calm(past, id)
         /\ Calm(Settling(h, past), h.message.id) => h.link = channel
<1> DEFINE cut == IF h.link = channel THEN {} ELSE {h.message.id}
           p == Settling(h, past)
<1>1. IsPast(p, past, {}, {}, cut)
  BY SettlingIs
<1> HIDE DEF p
<1>2. /\ p.accepted = past.accepted /\ p.misdirected = past.misdirected
      /\ p.disturbed = past.disturbed \cup cut /\ p.mails = past.mails
  BY <1>1 DEF IsPast
<1> QED
  BY <1>2 DEF Calm, p

LEMMA SettleExact ==
  ASSUME BrokerType(broker), channel \in Links \cup {NoLink}, NEW b, NEW past, Fates(b, past),
         NEW h \in Handlers, NEW f, SettlesFor(h, f),
         \A id \in Ids : id # h.message.id => Counted(b, past, id),
         Settleable(b, past, h, f),
         handlers \subseteq Handlers, Owned(b, past, handlers \ {h}),
         Alone(past, h.link, f, handlers \ {h}),
         ClosedLeft(b, past, links), NotYetPublished(past, outbox),
         NEW ids, Settle(b, h, <<f>>, ids, past)
  PROVE  ExactNext
<1> DEFINE p == Settling(h, past)
           hs == handlers \ {h}
           id0 == h.message.id
<1>0. HistoryType(past) /\ BrokerType(b) /\ id0 \in Ids /\ h.link \in Links
  BY FrameTypes DEF Fates
<1>1. /\ f \in Frames /\ f.kind # "publish" /\ f.message = h.message /\ f.tag = h.tag
  BY DEF SettlesFor
<1>2. CASE /\ Usable /\ Transmit(b, channel, <<f>>, p)
           /\ handlers' = hs /\ outbox' = outbox
  <2>0. channel \in Links
    BY <1>2 DEF Usable, Open
  <2>1. IsPast(p, past, {}, {}, IF h.link = channel THEN {} ELSE {id0})
    BY <1>0, SettlingIs
  <2>2. /\ p.accepted = past.accepted /\ p.misdirected = past.misdirected
        /\ p.mails = past.mails /\ past.disturbed \subseteq p.disturbed
        /\ \A id : Calm(p, id) => Calm(past, id)
        /\ Calm(p, id0) => h.link = channel
    BY <1>0, SettlingKeepsExact
  <2> HIDE DEF p
  <2>3. Fates(b, p)
    BY <2>1, PastKeeps
  <2>4. \A id \in Ids : id # f.message.id => Counted(b, p, id)
    BY <1>1, <2>2, SameCounted
  <2>5. InHand(b, p, channel, f)
    BY <1>1, <1>2, <2>2 DEF Settleable, InHand
  <2>6. Owned(b, p, hs)
    BY <2>2, OwnedKept
  <2>7. Alone(p, channel, f, hs)
    BY <1>1, <2>2 DEF Alone
  <2>8. ClosedLeft(b, p, links)
    BY <2>2, ClosedKept
  <2>9. NotYetPublished(p, outbox)
    BY <2>2 DEF NotYetPublished
  <2>10. hs \subseteq Handlers
    OBVIOUS
  <2> HIDE DEF hs
  <2>11. Exact(broker', history', hs, links', outbox)
    BY <1>1, <1>2, <2>0, <2>3, <2>4, <2>5, <2>6, <2>7, <2>8, <2>9, <2>10,
       TransmittedSettleExact
  <2> QED
    BY <1>2, <2>11 DEF ExactNext
<1>3. CASE /\ broker' = b
           /\ ProcessEnds([past EXCEPT !.disturbed = @ \cup UnsettledIds(b, Links)])
  <2> DEFINE more == UnsettledIds(b, Links)
  <2>1. more \subseteq Ids
    BY <1>0, UnsettledIdsAreIds
  <2>2. \A c \in Links : UnsettledIds(b, {c}) \subseteq more
    BY DEF UnsettledIds
  <2>3. Calm(past, id0) => id0 \in more
    <3> SUFFICES ASSUME Calm(past, id0) PROVE id0 \in more
      OBVIOUS
    <3>1. <<h.link, h.tag>> \in At(b, id0)
      BY DEF Settleable
    <3>2. id0 \in UnsettledIds(b, {h.link})
      BY <1>0, <3>1, InHandUnsettled
    <3> QED
      BY <1>0, <2>2, <3>2
  <2>4. \A id \in Ids : \/ Counted(b, past, id)
                        \/ id \in past.accepted /\ (Calm(past, id) => id \in more)
    BY <2>3 DEF Settleable
  <2>5. broker' = b /\ ProcessEnds([past EXCEPT !.disturbed = @ \cup more])
    BY <1>3
  <2> HIDE DEF more
  <2> QED
    BY <2>1, <2>2, <2>4, <2>5, EndsExact
<1> QED
  BY <1>2, <1>3 DEF Settle

LEMMA CalmDelivery ==
  ASSUME NEW b, NEW h, AllCounted(b, h), NEW hs, hs \subseteq Handlers, Owned(b, h, hs),
         NEW g \in hs
  PROVE  /\ g.message.id \in Ids /\ g.message.id \in h.accepted
         /\ Calm(h, g.message.id) =>
              /\ <<g.link, g.tag>> \in At(b, g.message.id)
              /\ At(b, g.message.id) = {<<g.link, g.tag>>}
              /\ DeadOf(b, g.message.id) = {} /\ h.mails[g.message.id] = 0
<1> DEFINE id == g.message.id
           place == <<g.link, g.tag>>
<1>1. g \in Handlers /\ id \in Ids /\ g.link \in Links
  BY FrameTypes
<1>2. id \in h.accepted /\ (Calm(h, id) => HasDelivery(b, g))
  BY DEF Owned
<1> SUFFICES ASSUME Calm(h, id)
             PROVE  /\ place \in At(b, id) /\ At(b, id) = {place}
                    /\ DeadOf(b, id) = {} /\ h.mails[id] = 0
  BY <1>1, <1>2
<1>3. g.tag \in Holds(b, g.link, id)
  BY <1>2 DEF HasDelivery, Holds
<1>4. place \in At(b, id)
  BY <1>1, <1>3, AtMembers
<1>5. Once(b, h, id)
  BY <1>1, <1>2 DEF AllCounted, Counted
<1> HIDE DEF place, id
<1> QED
  BY <1>4, <1>5 DEF Once, One

(* No other handler of a calm message has its delivery. *)
LEMMA OthersOwn ==
  ASSUME NEW b, NEW past, NEW hs, Owned(b, past, hs), NEW h \in hs, NEW f,
         f.message = h.message, f.tag = h.tag
  PROVE  Owned(b, past, hs \ {h}) /\ Alone(past, h.link, f, hs \ {h})
BY DEF Owned, Alone

LEMMA HandlerSettleExact ==
  ASSUME BrokerType(broker), channel \in Links \cup {NoLink}, NEW past, Fates(broker, past),
         handlers \subseteq Handlers, NEW h \in handlers, NEW f, SettlesFor(h, f),
         \A id \in Ids : id # h.message.id => Counted(broker, past, id),
         Settleable(broker, past, h, f), Owned(broker, past, handlers),
         ClosedLeft(broker, past, links), NotYetPublished(past, outbox),
         NEW ids, Settle(broker, h, <<f>>, ids, past)
  PROVE  ExactNext
<1>1. h \in Handlers /\ f.message = h.message /\ f.tag = h.tag
  BY DEF SettlesFor
<1>2. Owned(broker, past, handlers \ {h}) /\ Alone(past, h.link, f, handlers \ {h})
  BY <1>1, OthersOwn
<1> QED
  BY <1>1, <1>2, SettleExact

LEMMA RetryExact ==
  ASSUME BrokerType(broker), channel \in Links \cup {NoLink}, Fates(broker, history), ExactNow,
         handlers \subseteq Handlers, NEW h \in handlers, CanRetry(h),
         NEW ids, Settle(broker, h, RetryFrames(h), ids, history)
  PROVE  ExactNext
<1> DEFINE p == Settling(h, history)
           hs == handlers \ {h}
           id0 == h.message.id
           copy == Frame("publish", 0, RetryCopy(h))
           a == Ack(h)
<1>0. /\ HistoryType(history) /\ h \in Handlers /\ h.link \in Links
      /\ AllCounted(broker, history) /\ Owned(broker, history, handlers)
      /\ ClosedLeft(broker, history, links) /\ NotYetPublished(history, outbox)
  BY FrameTypes DEF ExactNow, Exact, Fates
<1>1. /\ copy \in Frames /\ copy.kind = "publish" /\ a \in Frames /\ a.kind = "ack"
      /\ a.message = h.message /\ a.tag = h.tag /\ copy.message.id = id0
  BY <1>0, FrameTypes, CopyTypes
<1>2. RetryFrames(h) = <<copy, a>>
  BY DEF RetryFrames
<1> HIDE DEF copy, a
<1>3. /\ id0 \in Ids /\ id0 \in history.accepted
      /\ Calm(history, id0) => <<h.link, h.tag>> \in At(broker, id0)
  BY <1>0, CalmDelivery
<1>4. Owned(broker, history, hs) /\ Alone(history, h.link, a, hs)
  BY <1>0, <1>1, OthersOwn
<1>5. CASE /\ Usable /\ Transmit(broker, channel, <<copy, a>>, p)
           /\ handlers' = hs /\ outbox' = outbox
  <2>0. channel \in Links
    BY <1>5 DEF Usable, Open
  <2>1. IsPast(p, history, {}, {}, IF h.link = channel THEN {} ELSE {id0})
    BY <1>0, SettlingIs
  <2>2. /\ p.accepted = history.accepted /\ p.misdirected = history.misdirected
        /\ p.mails = history.mails /\ history.disturbed \subseteq p.disturbed
        /\ \A id : Calm(p, id) => Calm(history, id)
        /\ Calm(p, id0) => h.link = channel
    BY <1>0, SettlingKeepsExact
  <2> HIDE DEF p
  <2>3. Fates(broker, p)
    BY <2>1, PastKeeps
  <2>4. AllCounted(broker, p)
    BY <1>0, <2>2, SameCounted DEF AllCounted
  <2>5. Calm(p, copy.message.id) => <<channel, a.tag>> \in At(broker, copy.message.id)
    BY <1>1, <1>3, <2>2
  <2>6. Owned(broker, p, hs)
    BY <1>4, <2>2, OwnedKept
  <2>7. Alone(p, channel, a, hs)
    BY <1>1, <1>4, <2>2 DEF Alone
  <2>8. ClosedLeft(broker, p, links)
    BY <1>0, <2>2, ClosedKept
  <2>9. NotYetPublished(p, outbox)
    BY <1>0, <2>2 DEF NotYetPublished
  <2>10. hs \subseteq Handlers /\ a.message.id = copy.message.id
         /\ copy.message.id \in p.accepted
    BY <1>1, <1>3, <2>2
  <2> HIDE DEF hs
  <2>11. Exact(broker', history', hs, links', outbox)
    BY <1>1, <1>5, <2>0, <2>3, <2>4, <2>5, <2>6, <2>7, <2>8, <2>9, <2>10,
       TransmittedRetryExact
  <2> QED
    BY <1>5, <2>11 DEF ExactNext
<1>6. CASE /\ broker' = broker
           /\ ProcessEnds([history EXCEPT !.disturbed = @ \cup UnsettledIds(broker, Links)])
  <2> DEFINE more == UnsettledIds(broker, Links)
  <2>1. more \subseteq Ids
    BY UnsettledIdsAreIds
  <2>2. \A c \in Links : UnsettledIds(broker, {c}) \subseteq more
    BY DEF UnsettledIds
  <2>3. broker' = broker /\ ProcessEnds([history EXCEPT !.disturbed = @ \cup more])
    BY <1>6
  <2>4. \A id \in Ids : Counted(broker, history, id)
    BY <1>0 DEF AllCounted
  <2> HIDE DEF more
  <2> QED
    BY <1>0, <2>1, <2>2, <2>3, <2>4, EndsExact
<1> QED
  BY <1>2, <1>5, <1>6 DEF Settle

LEMMA BacksOffExact ==
  ASSUME NEW past, AllCounted(broker, past), handlers \subseteq Handlers,
         Owned(broker, past, handlers), ClosedLeft(broker, past, links),
         NotYetPublished(past, outbox), NEW h \in handlers, NEW ids, BacksOff(h, ids, past)
  PROVE  ExactNext
<1> DEFINE g == [h EXCEPT !.step = "backoff"]
<1>1. h \in Handlers
  OBVIOUS
<1>2. g.link = h.link /\ g.tag = h.tag /\ g.message = h.message
  BY <1>1 DEF Handlers
<1>3. /\ handlers' = (handlers \ {h}) \cup {g} /\ history' = past
      /\ broker' = broker /\ links' = links /\ outbox' = outbox
  BY DEF BacksOff, amqpVars
<1> HIDE DEF g
<1>4. /\ HasDelivery(broker, g) <=> HasDelivery(broker, h)
      /\ g.message.id = h.message.id
  BY <1>2 DEF HasDelivery
<1>5. Owned(broker, past, handlers')
  BY <1>2, <1>3, <1>4 DEF Owned
<1> QED
  BY <1>3, <1>5 DEF ExactNext, Exact
-----------------------------------------------------------------------------
LEMMA ExactSame ==
  ASSUME ExactNow, UNCHANGED <<history, handlers>>,
         broker'.queue = broker.queue, broker'.dead = broker.dead,
         broker'.deliveries = broker.deliveries,
         \A d \in Links : links'[d] = Closed => links[d] = Closed,
         \A e \in Events : outbox[e] = "done" => outbox'[e] = "done"
  PROVE  ExactNext
<1>0. /\ AllCounted(broker, history) /\ Owned(broker, history, handlers)
      /\ ClosedLeft(broker, history, links) /\ NotYetPublished(history, outbox)
  BY DEF ExactNow, Exact
<1>1. \A c : Unsettled(broker', c) = Unsettled(broker, c)
  BY DEF Unsettled
<1>2. \A id : At(broker', id) = At(broker, id) /\ DeadOf(broker', id) = DeadOf(broker, id)
  BY <1>1 DEF At, Waits, Holds, DeadOf
<1>3. AllCounted(broker', history)
  BY <1>0, <1>2, SameCounted DEF AllCounted
<1>4. Owned(broker', history, handlers)
  BY <1>0, <1>1, OwnedKept DEF HasDelivery
<1>5. \A d : UnsettledIds(broker', {d}) = UnsettledIds(broker, {d})
  BY <1>1 DEF UnsettledIds
<1>6. ClosedLeft(broker', history, links')
  BY <1>0, <1>5, ClosedKept
<1>7. NotYetPublished(history, outbox')
  BY <1>0 DEF NotYetPublished
<1> QED
  BY <1>3, <1>4, <1>6, <1>7 DEF ExactNext, Exact

LEMMA ExactPublisher ==
  ASSUME KnownNow, ExactNow, AmqpTypeOK, NEW e \in Events, outbox \in [Events -> {"none", "publishing", "done"}],
         HandleOrderStatusChanged(e) \/ Publish(e) \/ PublishFails(e)
  PROVE  ExactNext
<1> DEFINE m == [id |-> e, retries |-> 0]
           f == Frame("publish", 0, m)
<1>0. /\ Fates(broker, history) /\ BrokerType(broker) /\ HistoryType(history)
      /\ AllCounted(broker, history) /\ Owned(broker, history, handlers)
      /\ ClosedLeft(broker, history, links) /\ NotYetPublished(history, outbox)
  BY DEF KnownNow, Known, Fates, ExactNow, Exact
<1>1. m \in Messages /\ m.id = e /\ e \in Ids
  BY NotificationAssumption DEF Messages, Ids
<1> HIDE DEF m
<1>2. f \in Frames /\ f.kind = "publish" /\ f.message = m
  BY <1>1 DEF Frame, Frames, Kinds
<1>3. managers["publisher"].channel \in Links \cup {NoLink}
  BY NotificationAssumption DEF AmqpTypeOK
<1>4. ASSUME NEW ch \in Links, Sent(e, ch), outbox[e] # "done"
      PROVE  ExactNext
  <2>1. /\ Transmit(broker, ch, <<f>>, history) /\ UNCHANGED handlers
        /\ outbox' = [outbox EXCEPT ![e] = "done"]
    BY <1>4 DEF Sent, m
  <2>2. e \notin history.accepted
    BY <1>0, <1>4 DEF NotYetPublished
  <2>3. NotYetPublished(history, outbox')
    BY <1>0, <2>1 DEF NotYetPublished
  <2> HIDE DEF f
  <2>4. CASE CutOff(broker, ch, history, {})
    <3>1. Exact(broker', history', handlers, links', outbox')
      BY <1>0, <2>3, <2>4, CutOffExact DEF AllCounted
    <3> QED
      BY <2>1, <3>1 DEF ExactNext
  <2>5. CASE Arrived(Publishes(broker, m), history, {m.id}, {})
    <3> DEFINE b2 == Publishes(broker, m)
               h2 == Past(history, {m.id}, {}, {})
    <3>1. IsPast(h2, history, {m.id}, {}, {})
      BY <1>0, <1>1, PastFields
    <3>2. broker' = b2 /\ history' = h2 /\ links' = links
      BY <2>5 DEF Arrived
    <3> HIDE DEF h2
    <3>3. AllCounted(b2, h2)
      BY <1>0, <1>1, <2>2, <3>1, PublishedCounted
    <3>4. b2.deliveries = broker.deliveries
      BY <1>0, <1>1, PublishesFields
    <3> HIDE DEF b2
    <3>5. /\ h2.accepted = history.accepted \cup {m.id} /\ h2.disturbed = history.disturbed
          /\ h2.misdirected = history.misdirected
      BY <3>1 DEF IsPast
    <3>6. Owned(b2, h2, handlers)
      BY <1>0, <3>4, <3>5, OwnedKept DEF HasDelivery, Unsettled
    <3>7. \A d : UnsettledIds(b2, {d}) = UnsettledIds(broker, {d})
      BY <3>4 DEF UnsettledIds, Unsettled
    <3>8. ClosedLeft(b2, h2, links)
      BY <1>0, <3>5, <3>7, ClosedKept
    <3>9. NotYetPublished(h2, outbox')
      BY <1>1, <2>1, <2>3, <3>5 DEF NotYetPublished
    <3> QED
      BY <2>1, <3>2, <3>3, <3>6, <3>8, <3>9 DEF ExactNext, Exact
  <2> QED
    BY <1>0, <1>2, <2>1, <2>4, <2>5, TransmitPublish
<1>5. CASE UNCHANGED <<broker, history, handlers, links>>
           /\ outbox[e] # "done" /\ \E step : outbox' = [outbox EXCEPT ![e] = step]
  BY <1>5, ExactSame
<1>6. CASE HandleOrderStatusChanged(e)
  BY <1>3, <1>4, <1>5, <1>6
     DEF HandleOrderStatusChanged, StartGetting, PublishUnchanged, amqpVars, Open
<1>7. CASE Publish(e)
  BY <1>3, <1>4, <1>7 DEF Publish, Returns, Open
<1>8. CASE PublishFails(e)
  BY <1>5, <1>8 DEF PublishFails, PublishUnchanged, Got
<1> QED
  BY <1>6, <1>7, <1>8

LEMMA ExactLoops ==
  ASSUME ExactNow, BrokerType(broker), NEW l \in Loops, LoopContinues(l) \/ LoopFails(l)
  PROVE  ExactNext
<1>1. UNCHANGED <<history, handlers, outbox, links>>
  BY DEF LoopContinues, LoopFails, LoopStarts, LoopGetsChannel, LoopPrefetches,
     LoopSubscribes, LoopUnchanged,
     StartGetting, Got, amqpVars
<1>2. /\ broker'.queue = broker.queue /\ broker'.dead = broker.dead
      /\ broker'.deliveries = broker.deliveries
  BY DEF LoopContinues, LoopFails, LoopStarts, LoopGetsChannel, LoopPrefetches,
     LoopSubscribes, LoopUnchanged,
     BrokerType
<1> QED
  BY <1>1, <1>2, ExactSame

LEMMA ExactConnects ==
  ASSUME ExactNow, NEW g \in Callers, AmqpTypeOK, Connects(g) \/ ChannelOpens(g)
  PROVE  ExactNext
<1>1. UNCHANGED <<broker, history, handlers, outbox>>
  BY DEF Connects, ChannelOpens, processVars
<1>2. \A d \in Links : links'[d] = Closed => links[d] = Closed
  BY DEF Connects, ChannelOpens, Connect, OpenChannel, FreeLinks, AmqpTypeOK
<1> QED
  BY <1>1, <1>2, ExactSame

LEMMA ExactDisturbed ==
  ASSUME ExactNow, BrokerType(broker), HistoryType(history), NEW C, C \subseteq Links,
         UNCHANGED <<broker, handlers, outbox>>, links' = Cut(C),
         history' = [history EXCEPT !.disturbed = @ \cup UnsettledIds(broker, C)]
  PROVE  ExactNext
<1> DEFINE cut == UnsettledIds(broker, C)
<1>0. /\ AllCounted(broker, history) /\ Owned(broker, history, handlers)
      /\ ClosedLeft(broker, history, links) /\ NotYetPublished(history, outbox)
  BY DEF ExactNow, Exact
<1>1. cut \subseteq Ids /\ \A d \in C : UnsettledIds(broker, {d}) \subseteq cut
  BY UnsettledIdsAreIds DEF UnsettledIds
<1>2. IsPast(history', history, {}, {}, cut)
  BY <1>1, DisturbIs
<1> HIDE DEF cut
<1>3. /\ history'.accepted = history.accepted /\ history'.misdirected = history.misdirected
      /\ history'.disturbed = history.disturbed \cup cut /\ history'.mails = history.mails
  BY <1>2 DEF IsPast
<1>4. AllCounted(broker, history')
  BY <1>0, <1>3, SameCounted DEF AllCounted
<1>5. Owned(broker, history', handlers)
  BY <1>0, <1>3, OwnedKept
<1>6. \A d \in Links : d \notin C => links'[d] = links[d]
  BY DEF Cut
<1>7. ClosedLeft(broker, history', links')
  <2>1. \A d \in Links : \/ links'[d] = Closed => links[d] = Closed
                         \/ UnsettledIds(broker, {d}) \subseteq history'.disturbed
    BY <1>1, <1>3, <1>6
  <2> QED
    BY <1>0, <1>3, <2>1, ClosedKept
<1>8. NotYetPublished(history', outbox)
  BY <1>0, <1>3 DEF NotYetPublished
<1> QED
  BY <1>4, <1>5, <1>7, <1>8 DEF ExactNext, Exact

LEMMA ExactEnds ==
  ASSUME ExactNow, Fates(broker, history), ProcessEnds(history), UNCHANGED broker
  PROVE  ExactNext
<1> DEFINE none == {}
<1>0. /\ AllCounted(broker, history) /\ NotYetPublished(history, outbox)
      /\ BrokerType(broker) /\ HistoryType(history)
  BY DEF ExactNow, Exact, Fates
<1>1. [history EXCEPT !.disturbed = @ \cup none] = history /\ none \subseteq Ids
  BY <1>0 DEF HistoryType
<1> HIDE DEF none
<1>2. broker' = broker /\ ProcessEnds([history EXCEPT !.disturbed = @ \cup none])
  BY <1>1
<1>3. \A c \in Links : UnsettledIds(broker, {c}) \subseteq none \cup UnsettledIds(broker, Links)
  BY DEF UnsettledIds
<1> QED
  BY <1>0, <1>1, <1>2, <1>3, EndsExact DEF AllCounted

LEMMA ExactRequeue ==
  ASSUME ExactNow, BrokerType(broker), handlers \subseteq Handlers, NEW c \in Links, Requeue(c)
  PROVE  ExactNext
<1> DEFINE b == Requeues(broker, c)
<1>0. /\ AllCounted(broker, history) /\ Owned(broker, history, handlers)
      /\ ClosedLeft(broker, history, links) /\ NotYetPublished(history, outbox)
  BY DEF ExactNow, Exact
<1>1. broker' = b /\ UNCHANGED <<history, handlers, links, outbox>> /\ links[c] = Closed
  BY Zenon DEF Requeue, Requeues, Backs, MessagesIn, processVars, amqpVars
<1>2. BrokerType(b) /\ b.dead = broker.dead
  BY RequeuesFields
<1>3. \A id : SamePlaces(broker, b, id)
  BY RequeuesPlaces
<1>4. \A d \in Links :
        /\ Unsettled(b, d) = IF d = c THEN {} ELSE Unsettled(broker, d)
        /\ d # c => b.deliveries[d] = broker.deliveries[d]
        /\ \A id : Holds(b, d, id) = IF d = c THEN {} ELSE Holds(broker, d, id)
  BY RequeuesUnsettled
<1> HIDE DEF b
<1>5. AllCounted(b, history)
  BY <1>0, <1>2, <1>3, MovedCounted DEF AllCounted, DeadOf
<1>6. ASSUME NEW g \in handlers, Calm(history, g.message.id), HasDelivery(broker, g)
      PROVE  HasDelivery(b, g)
  <2>1. g.link \in Links
    BY FrameTypes
  <2>2. g.message.id \in UnsettledIds(broker, {g.link})
    BY <1>6 DEF HasDelivery, UnsettledIds
  <2>3. g.link # c
    BY <1>0, <1>1, <1>6, <2>2 DEF ClosedLeft, Calm
  <2> QED
    BY <1>4, <1>6, <2>1, <2>3 DEF HasDelivery
<1>7. Owned(b, history, handlers)
  BY <1>0, <1>6, OwnedKept
<1>8. \A d \in Links : UnsettledIds(b, {d}) \subseteq UnsettledIds(broker, {d})
  BY <1>4, UnsettledIdsOf
<1>9. ClosedLeft(b, history, links)
  BY <1>0, <1>8, ClosedKept
<1> QED
  BY <1>0, <1>1, <1>5, <1>7, <1>9 DEF ExactNext, Exact

LEMMA ExactDeliver ==
  ASSUME KnownNow, ExactNow, channel \in Links \cup {NoLink}, NEW c \in Links, Deliver(c)
  PROVE  ExactNext
<1> DEFINE m == Head(broker.queue)
           t == NextTag(broker, c)
           h == [link |-> c, tag |-> t, message |-> m, step |-> "sending"]
           b == Takes(broker, c)
           place == <<c, t>>
<1>0. /\ Fates(broker, history) /\ BrokerType(broker) /\ broker.queue # <<>> /\ links[c] # Closed
      /\ Remembers(sentMessageIds, history) /\ handlers \subseteq Handlers
      /\ AllCounted(broker, history) /\ Owned(broker, history, handlers)
      /\ ClosedLeft(broker, history, links) /\ NotYetPublished(history, outbox)
  BY DEF KnownNow, Known, Fates, HandlersOK, ExactNow, Exact, Deliver, Open
<1>1. BrokerType(b) /\ b.dead = broker.dead /\ m \in Messages /\ t \in Nat \ {0}
  BY <1>0, TakesFields
<1>2. \A id : SamePlaces(broker, b, id) /\ (id = m.id => place \in At(b, id))
  BY <1>0, TakesPlaces
<1>3. h \in Handlers /\ h.message = m /\ h.link = c /\ h.tag = t
  BY <1>1 DEF Handlers
<1>4. /\ \A d \in Links :
           Unsettled(b, d) = Unsettled(broker, d) \cup (IF d = c THEN {t} ELSE {})
      /\ t \notin DOMAIN broker.deliveries[c]
      /\ b.deliveries[c][t].message = m
      /\ \A d \in Links : \A u \in Unsettled(broker, d) : b.deliveries[d][u] = broker.deliveries[d][u]
  <2>1. /\ \A d \in Links :
             Unsettled(b, d) = Unsettled(broker, d) \cup (IF d = c THEN {NextTag(broker, c)} ELSE {})
        /\ NextTag(broker, c) \notin DOMAIN broker.deliveries[c]
        /\ b.deliveries[c][NextTag(broker, c)] = [message |-> Head(broker.queue), settled |-> FALSE]
        /\ \A d \in Links : \A u \in Unsettled(broker, d) :
              b.deliveries[d][u] = broker.deliveries[d][u]
    BY <1>0, TakesUnsettled
  <2>2. b.deliveries[c][t].message = m
    <3> HIDE DEF b
    <3> QED
      BY <2>1
  <2> HIDE DEF b
  <2> QED
    BY <2>1, <2>2, Zenon DEF t
<1>5. \/ m.id \in Malformed /\ Settle(b, h, <<Nack(h)>>, sentMessageIds, history)
      \/ m.id \in Range(sentMessageIds) /\ Settle(b, h, <<Ack(h)>>, sentMessageIds, history)
      \/ /\ m.id \notin Malformed /\ broker' = b /\ handlers' = handlers \cup {h}
         /\ UNCHANGED <<links, outbox, history>>
  BY Zenon DEF Deliver, Takes, NextTag, IsOrderStatusChangedEvent, IsDuplicate, amqpVars
<1> HIDE DEF m, t, h, b
<1>6. Fates(b, history)
  BY <1>0, <1>1, <1>2, FatesMove
<1>7. AllCounted(b, history)
  BY <1>0, <1>1, <1>2, MovedCounted DEF AllCounted, DeadOf
<1>8. ASSUME NEW g \in handlers, HasDelivery(broker, g)
      PROVE  HasDelivery(b, g) /\ ~(g.link = c /\ g.tag = t)
  <2>1. g.link \in Links
    BY <1>0, FrameTypes
  <2> QED
    BY <1>4, <1>8, <2>1 DEF HasDelivery, Unsettled
<1>9. Owned(b, history, handlers) /\ handlers \ {h} \subseteq Handlers
  BY <1>0, <1>8, OwnedKept
<1>10. Owned(b, history, handlers \ {h})
  BY <1>9 DEF Owned
<1>11. \A g \in handlers : Calm(history, g.message.id) => ~(g.link = c /\ g.tag = t)
  BY <1>0, <1>8 DEF Owned
<1>12. ClosedLeft(b, history, links)
  <2>1. ASSUME NEW d \in Links, links[d] = Closed
        PROVE  UnsettledIds(b, {d}) \subseteq UnsettledIds(broker, {d})
    <3>1. Unsettled(b, d) = Unsettled(broker, d)
      BY <1>0, <1>4, <2>1
    <3> QED
      BY <1>4, <3>1 DEF UnsettledIds
  <2> QED
    BY <1>0, <2>1 DEF ClosedLeft
<1>13. /\ m.id \in Ids /\ m.id \in history.accepted
       /\ Calm(history, m.id) =>
            /\ At(b, m.id) = {place} /\ DeadOf(b, m.id) = {} /\ history.mails[m.id] = 0
  <2>1. m.id \in Ids /\ place \in At(b, m.id)
    BY <1>1, <1>2 DEF Messages
  <2>2. Counted(b, history, m.id)
    BY <1>7, <2>1 DEF AllCounted
  <2> HIDE DEF place
  <2> QED
    BY <2>1, <2>2 DEF Counted, Once, Nowhere, One
<1>14. /\ SettlesFor(h, Ack(h)) /\ Ack(h).kind = "ack"
       /\ SettlesFor(h, Nack(h)) /\ Nack(h).kind = "nack"
  BY <1>3, FrameTypes DEF SettlesFor
<1>15. \A id \in Ids : Counted(b, history, id)
  BY <1>7 DEF AllCounted
<1>16. CASE m.id \in Malformed /\ Settle(b, h, <<Nack(h)>>, sentMessageIds, history)
  <2>1. Settleable(b, history, h, Nack(h))
    BY <1>3, <1>13, <1>14 DEF Settleable
  <2>2. Alone(history, h.link, Nack(h), handlers \ {h})
    BY <1>3, <1>11, <1>14 DEF Alone, SettlesFor
  <2> QED
    BY <1>0, <1>3, <1>6, <1>10, <1>12, <1>14, <1>15, <1>16, <2>1, <2>2, SettleExact
<1>17. CASE m.id \in Range(sentMessageIds) /\ Settle(b, h, <<Ack(h)>>, sentMessageIds, history)
  <2>0. history.mails[m.id] > 0
    BY <1>0, <1>17 DEF Remembers
  <2>1. Settleable(b, history, h, Ack(h))
    BY <1>3, <1>13, <1>14, <2>0 DEF Settleable
  <2>2. Alone(history, h.link, Ack(h), handlers \ {h})
    BY <1>3, <1>11, <1>14 DEF Alone, SettlesFor
  <2> QED
    BY <1>0, <1>3, <1>6, <1>10, <1>12, <1>14, <1>15, <1>17, <2>1, <2>2, SettleExact
<1>18. CASE /\ m.id \notin Malformed /\ broker' = b /\ handlers' = handlers \cup {h}
            /\ UNCHANGED <<links, outbox, history>>
  <2>1. HasDelivery(b, h)
    BY <1>3, <1>4 DEF HasDelivery
  <2>2. Owned(b, history, handlers')
    BY <1>3, <1>9, <1>11, <1>13, <1>18, <2>1 DEF Owned
  <2> QED
    BY <1>0, <1>7, <1>12, <1>18, <2>2 DEF ExactNext, Exact
<1> QED
  BY <1>5, <1>16, <1>17, <1>18

LEMMA ExactMailSent ==
  ASSUME KnownNow, ExactNow, channel \in Links \cup {NoLink}, NEW h \in handlers, MailSent(h)
  PROVE  ExactNext
<1> DEFINE id0 == h.message.id
           ids == Remember(sentMessageIds, id0)
           s == Settling(h, history)
           past == Mailed(s, id0)
<1>0. /\ Fates(broker, history) /\ BrokerType(broker) /\ HistoryType(history)
      /\ Remembers(sentMessageIds, history) /\ handlers \subseteq Handlers
      /\ h \in Handlers /\ id0 \in Events
      /\ AllCounted(broker, history) /\ Owned(broker, history, handlers)
      /\ ClosedLeft(broker, history, links) /\ NotYetPublished(history, outbox)
  BY DEF KnownNow, Known, Fates, HandlersOK, ExactNow, Exact
<1>1. \/ Usable /\ Settle(broker, h, <<Ack(h)>>, ids, past)
      \/ ~Usable /\ BacksOff(h, ids, past)
      \/ ~Usable /\ Settle(broker, h, <<Nack(h)>>, ids, past)
  BY Zenon DEF MailSent, Mailed
<1> HIDE DEF ids, s, past
<1>2. /\ s.accepted = history.accepted /\ s.misdirected = history.misdirected
      /\ s.mails = history.mails
      /\ history.disturbed \subseteq s.disturbed
      /\ \A id : Calm(s, id) => Calm(history, id)
      /\ Calm(s, id0) => h.link = channel
  BY <1>0, SettlingKeepsExact DEF s
<1>3. HistoryType(s)
  BY <1>0, SettlingIs DEF s, IsPast
<1>4. Remembers(sentMessageIds, s)
  BY <1>0, <1>2 DEF Remembers
<1>5. /\ past.accepted = s.accepted /\ past.disturbed = s.disturbed
      /\ past.misdirected = s.misdirected
      /\ past.mails[id0] = (IF s.mails[id0] < ManyMails THEN s.mails[id0] + 1 ELSE s.mails[id0])
      /\ \A i \in Ids : i # id0 => past.mails[i] = s.mails[i]
  BY <1>0, <1>3, <1>4, MailedFields DEF past
<1>6. Fates(broker, past)
  <2>1. Fates(broker, s)
    BY <1>0, SettlingIs, PastKeeps DEF s
  <2> QED
    BY <1>0, <1>4, <2>1, MailedKeeps DEF past
<1>7. /\ id0 \in Ids /\ id0 \in history.accepted
      /\ Calm(history, id0) =>
           /\ <<h.link, h.tag>> \in At(broker, id0)
           /\ At(broker, id0) = {<<h.link, h.tag>>}
           /\ DeadOf(broker, id0) = {} /\ history.mails[id0] = 0
  BY <1>0, CalmDelivery
<1>8. Calm(past, id0) => /\ Calm(history, id0) /\ h.link = channel /\ past.mails[id0] = 1
  <2>1. Calm(past, id0) => Calm(s, id0)
    BY <1>5 DEF Calm
  <2> QED
    BY <1>2, <1>5, <1>7, <2>1 DEF ManyMails
<1>9. \A id \in Ids : id # id0 => Counted(broker, past, id)
  <2> SUFFICES ASSUME NEW id \in Ids, id # id0 PROVE Counted(broker, past, id)
    OBVIOUS
  <2>1. Counted(broker, history, id)
    BY <1>0 DEF AllCounted
  <2>2. past.mails[id] = history.mails[id]
    BY <1>2, <1>5
  <2> QED
    BY <1>2, <1>5, <2>1, <2>2, SameCounted
<1>10. Owned(broker, past, handlers)
  BY <1>0, <1>2, <1>5, OwnedKept
<1>11. ClosedLeft(broker, past, links)
  BY <1>0, <1>2, <1>5, ClosedKept
<1>12. NotYetPublished(past, outbox)
  BY <1>0, <1>2, <1>5 DEF NotYetPublished
<1>13. /\ SettlesFor(h, Ack(h)) /\ Ack(h).kind = "ack"
       /\ SettlesFor(h, Nack(h)) /\ Nack(h).kind = "nack"
  BY <1>0, FrameTypes DEF SettlesFor
<1>14. CASE Usable /\ Settle(broker, h, <<Ack(h)>>, ids, past)
  <2>1. Settleable(broker, past, h, Ack(h))
    BY <1>2, <1>5, <1>7, <1>8, <1>13 DEF Settleable
  <2> QED
    BY <1>0, <1>6, <1>9, <1>10, <1>11, <1>12, <1>13, <1>14, <2>1, HandlerSettleExact
<1>15. CASE ~Usable /\ BacksOff(h, ids, past)
  <2>1. ~Calm(past, id0)
    <3> SUFFICES ASSUME Calm(past, id0) PROVE FALSE
      OBVIOUS
    <3>1. h.link = channel /\ h.link \in Links /\ links[h.link] = Closed
      BY <1>0, <1>8, <1>15, FrameTypes, NoLinkIsNoLink DEF Usable, Open
    <3>2. id0 \in UnsettledIds(broker, {h.link})
      BY <1>7, <1>8, <3>1, InHandUnsettled
    <3> QED
      BY <1>0, <1>8, <3>1, <3>2 DEF ClosedLeft, Calm
  <2>2. Counted(broker, past, id0)
    BY <1>2, <1>5, <1>7, <2>1 DEF Counted
  <2>3. AllCounted(broker, past)
    BY <1>9, <2>2 DEF AllCounted
  <2> QED
    BY <1>0, <1>10, <1>11, <1>12, <1>15, <2>3, BacksOffExact
<1>16. CASE ~Usable /\ Settle(broker, h, <<Nack(h)>>, ids, past)
  <2>1. Settleable(broker, past, h, Nack(h))
    BY <1>2, <1>5, <1>7, <1>8, <1>16 DEF Settleable
  <2> QED
    BY <1>0, <1>6, <1>9, <1>10, <1>11, <1>12, <1>13, <1>16, <2>1, HandlerSettleExact
<1> QED
  BY <1>1, <1>14, <1>15, <1>16

LEMMA ExactMailFails ==
  ASSUME KnownNow, ExactNow, channel \in Links \cup {NoLink}, NEW h \in handlers, MailFails(h)
  PROVE  ExactNext
<1>0. /\ Fates(broker, history) /\ BrokerType(broker) /\ HistoryType(history)
      /\ handlers \subseteq Handlers /\ h \in Handlers /\ h.message.id \in Ids
      /\ AllCounted(broker, history) /\ Owned(broker, history, handlers)
      /\ ClosedLeft(broker, history, links) /\ NotYetPublished(history, outbox)
  BY FrameTypes DEF KnownNow, Known, Fates, HandlersOK, ExactNow, Exact
<1>1. PICK early \in {{}, {h.message.id}} :
        LET past == [history EXCEPT !.refused = @ \cup early]
        IN  \/ BacksOff(h, sentMessageIds, past)
            \/ Settle(broker, h, <<Nack(h)>>, sentMessageIds, past)
  BY MailFailsSteps
<1> DEFINE past == [history EXCEPT !.refused = @ \cup early]
           id0 == h.message.id
<1>2. \/ BacksOff(h, sentMessageIds, past)
      \/ Settle(broker, h, <<Nack(h)>>, sentMessageIds, past)
  BY <1>1, Zenon
<1>3. /\ HistoryType(past) /\ Grows(history, past) /\ Carries(history, past)
      /\ past.disturbed = history.disturbed /\ past.misdirected = history.misdirected
  BY <1>0, RefusedFields
<1> HIDE DEF past
<1>4. past.accepted = history.accepted /\ past.mails = history.mails
  BY <1>3 DEF Grows, Carries
<1>5. Fates(broker, past)
  BY <1>0, <1>3, FatesGrow
<1>6. /\ id0 \in history.accepted
      /\ Calm(history, id0) =>
           /\ At(broker, id0) = {<<h.link, h.tag>>}
           /\ DeadOf(broker, id0) = {} /\ history.mails[id0] = 0
  BY <1>0, CalmDelivery
<1>7. \A id : Calm(past, id) <=> Calm(history, id)
  BY <1>3 DEF Calm
<1>8. AllCounted(broker, past)
  BY <1>0, <1>3, <1>4, SameCounted DEF AllCounted
<1>9. Owned(broker, past, handlers)
  BY <1>0, <1>3, <1>4, OwnedKept
<1>10. ClosedLeft(broker, past, links) /\ NotYetPublished(past, outbox)
  BY <1>0, <1>3, <1>4 DEF ClosedLeft, NotYetPublished
<1>11. SettlesFor(h, Nack(h)) /\ Nack(h).kind = "nack"
  BY <1>0, FrameTypes DEF SettlesFor
<1>12. Settleable(broker, past, h, Nack(h))
  BY <1>4, <1>6, <1>7, <1>11 DEF Settleable
<1>13. CASE BacksOff(h, sentMessageIds, past)
  BY <1>0, <1>8, <1>9, <1>10, <1>13, BacksOffExact
<1>14. CASE Settle(broker, h, <<Nack(h)>>, sentMessageIds, past)
  BY <1>0, <1>5, <1>8, <1>9, <1>10, <1>11, <1>12, <1>14, HandlerSettleExact DEF AllCounted
<1> QED
  BY <1>2, <1>13, <1>14
-----------------------------------------------------------------------------
LEMMA ExactStep ==
  ASSUME DeliveryInv, ExactNow, [Next]_vars
  PROVE  ExactNext
<1>0. /\ KnownNow /\ AmqpTypeOK /\ channel \in Links \cup {NoLink}
      /\ outbox \in [Events -> {"none", "publishing", "done"}]
      /\ Fates(broker, history) /\ BrokerType(broker) /\ HistoryType(history)
      /\ handlers \subseteq Handlers /\ \A h \in handlers : h.step = "backoff" => CanRetry(h)
  BY DEF DeliveryInv, DeafInv, AmqpInv, ConsumerInv, KnownNow, Known, Fates, RestOK, HandlersOK
<1>1. ASSUME NEW e \in Events, HandleOrderStatusChanged(e) \/ PublisherContinues(e)
      PROVE  ExactNext
  BY <1>0, <1>1, ExactPublisher DEF PublisherContinues
<1>2. ASSUME NEW g \in Callers, Connects(g) \/ ChannelOpens(g)
      PROVE  ExactNext
  BY <1>0, <1>2, ExactConnects
<1>3. ASSUME NEW l \in Loops, LoopContinues(l) \/ LoopFails(l)
      PROVE  ExactNext
  BY <1>0, <1>3, ExactLoops
<1>4. ASSUME NEW c \in Links, Deliver(c) \/ Requeue(c) \/ ConnectionDrops(c)
      PROVE  ExactNext
  <2>1. CASE Deliver(c)
    BY <1>0, <2>1, ExactDeliver
  <2>2. CASE Requeue(c)
    BY <1>0, <2>2, ExactRequeue
  <2>3. CASE ConnectionDrops(c)
    BY <1>0, <2>3, ExactDisturbed DEF ConnectionDrops, Closes
  <2> QED
    BY <1>4, <2>1, <2>2, <2>3
<1>5. ASSUME NEW h \in handlers, MailSent(h) \/ MailFails(h) \/ BackoffEnds(h)
      PROVE  ExactNext
  BY <1>0, <1>5, ExactMailSent, ExactMailFails, RetryExact DEF BackoffEnds
<1>6. CASE Crash \/ Exit
  BY <1>0, <1>6, ExactEnds DEF Crash, Exit
<1>7. CASE OnModuleDestroy \/ \E m \in Managers : OnModuleDestroyContinues(m)
  BY <1>0, <1>7, ShutdownCuts, ExactDisturbed
<1>8. CASE UNCHANGED vars
  BY <1>8, ExactSame DEF vars, processVars, amqpVars
<1> QED
  BY <1>1, <1>2, <1>3, <1>4, <1>5, <1>6, <1>7, <1>8 DEF Next, HandlerContinues

(* The queue an earlier process has left holds one copy of each message.    *)
BacklogDistinct ==
  \A i, j \in DOMAIN Backlog : Backlog[i].id = Backlog[j].id => i = j

LEMMA InitExact ==
  ASSUME Init, BacklogDistinct
  PROVE  ExactNow
<1>0. KnownNow
  BY InitKnown
<1>1. /\ broker.queue = Backlog /\ broker.dead = {}
      /\ \A c \in Links : broker.deliveries[c] = <<>>
  BY DEF Init
<1>2. /\ history.accepted = Queued /\ \A id \in Ids : history.mails[id] = 0
      /\ handlers = {}
  BY DEF Init
<1>3. \A c \in Links : Unsettled(broker, c) = {}
  BY <1>1 DEF Unsettled
<1>4. \A id : At(broker, id) = {<<NoLink, i>> : i \in Waits(broker, id)}
              /\ DeadOf(broker, id) = {}
  BY <1>1, <1>3 DEF At, Holds, DeadOf
<1>5. ASSUME NEW id \in Ids
      PROVE  Counted(broker, history, id)
  <2>1. CASE id \in Queued
    <3>1. PICK i \in DOMAIN Backlog : Backlog[i].id = id
      BY <2>1, QueuedIds
    <3>2. Waits(broker, id) = {i}
      BY <1>1, <3>1 DEF Waits, BacklogDistinct
    <3>3. At(broker, id) = {<<NoLink, i>>}
      BY <1>4, <3>2
    <3> QED
      BY <1>2, <1>4, <2>1, <3>3 DEF Counted, Once, One
  <2>2. CASE id \notin Queued
    <3>1. Waits(broker, id) = {}
      BY <1>1, <2>2 DEF Waits, Queued, Range
    <3>2. At(broker, id) = {}
      BY <1>4, <3>1
    <3> QED
      BY <1>2, <1>4, <2>2, <3>2 DEF Counted, Nowhere
  <2> QED
    BY <2>1, <2>2
<1>6. Owned(broker, history, handlers)
  BY <1>2 DEF Owned
<1>7. ClosedLeft(broker, history, links)
  BY <1>3 DEF ClosedLeft, UnsettledIds
<1>8. NotYetPublished(history, outbox)
  BY <1>2 DEF NotYetPublished, Init
<1> QED
  BY <1>5, <1>6, <1>7, <1>8 DEF ExactNow, Exact, AllCounted

LEMMA OneIsOne ==
  ASSUME NEW S, One(S)
  PROVE  Cardinality(S) = 1
BY FS_Singleton DEF One

(* ExactlyOnceUnlessReturned: a message the broker never took back and no   *)
(* other acknowledgement settled is waiting or being tried in one place, or *)
(* was e-mailed once, or is one dead letter: publishing the copy before the *)
(* acknowledgement leaves no moment with two or with none.                  *)
THEOREM OnceUnlessReturned ==
  BacklogDistinct => (Spec => []ExactlyOnceUnlessReturned)
<1> SUFFICES ASSUME BacklogDistinct PROVE Spec => []ExactlyOnceUnlessReturned
  OBVIOUS
<1>1. Init => ExactNow
  BY InitExact
<1>2. DeliveryInv /\ ExactNow /\ [Next]_vars => ExactNow'
  BY ExactStep DEF ExactNow, ExactNext
<1>3. DeliveryInv /\ ExactNow => ExactlyOnceUnlessReturned
  <2> SUFFICES ASSUME DeliveryInv, ExactNow,
                      NEW id \in history.accepted \ (history.disturbed \cup history.misdirected)
               PROVE  Cardinality(Places(id)) + DeadLetters(id) + history.mails[id] = 1
    BY DEF ExactlyOnceUnlessReturned
  <2>1. HistoryType(history)
    BY DEF DeliveryInv, KnownNow, Known, Fates
  <2>2. id \in Ids
    BY <2>1 DEF HistoryType
  <2>3. Once(broker, history, id)
    BY <2>2 DEF ExactNow, Exact, AllCounted, Counted, Calm
  <2>4. DeadLetters(id) = Cardinality(DeadOf(broker, id))
    BY DEF DeadLetters, DeadOf
  <2>5. Places(id) = At(broker, id)
    BY PlacesAt
  <2> QED
    BY <2>3, <2>4, <2>5, OneIsOne, FS_EmptySet DEF Once
<1> QED
  BY <1>1, <1>2, <1>3, DeliveryInvariant, PTL DEF Spec
=============================================================================
