------------------------- MODULE LoginQueue_proofs -------------------------
(***************************************************************************)
(* For every number of accounts and every player limit: the queue holds    *)
(* connected accounts, each once, nobody waits while a slot is free,       *)
(* nobody overtakes in the queue, and the assertion of                     *)
(* World::RemoveQueuedPlayer never fails.                                  *)
(***************************************************************************)
EXTENDS LoginQueue, SequenceTheorems, FiniteSetTheorems, TLAPS

Distinct(q) == \A j, k \in DOMAIN q : j # k => q[j] # q[k]

(* The inductive invariant.  NoIdleSlot needs the other two to count: the queue is
   as long as the set of its elements. *)
IInv == LQTypeOK /\ WaitsOnce /\ NoIdleSlot

-----------------------------------------------------------------------------
(* Sequences. *)

(* std::list::erase of the i-th element: what is left, and how many. *)
LEMMA RemoveNthProperties ==
    ASSUME NEW S, NEW q \in Seq(S), Distinct(q), NEW i \in 1..Len(q)
    PROVE  /\ RemoveNth(q, i) \in Seq(S \ {q[i]})
           /\ Len(RemoveNth(q, i)) = Len(q) - 1
           /\ Distinct(RemoveNth(q, i))
<1> DEFINE n == Len(q) - 1
           r == RemoveNth(q, i)
           T == S \ {q[i]}
<1>1. Len(q) \in Nat /\ DOMAIN q = 1..Len(q) /\ q \in [1..Len(q) -> S]
  BY LenProperties
<1>2. n \in Nat /\ n < Len(q) /\ n + 1 = Len(q)
  BY <1>1
<1>3. r = [k \in 1..n |-> IF k < i THEN q[k] ELSE q[k + 1]]
  BY DEF RemoveNth
<1>4. ASSUME NEW k \in 1..n PROVE r[k] \in T
  <2>1. CASE k < i
    BY <1>1, <1>2, <1>3, <2>1 DEF Distinct
  <2>2. CASE ~(k < i)
    BY <1>1, <1>2, <1>3, <2>2 DEF Distinct
  <2> QED BY <2>1, <2>2
<1>5. r \in [1..n -> T]
  BY <1>3, <1>4
<1>6. r \in Seq(T)
  BY <1>2, <1>5, SeqDef
<1>7. Len(r) = n
  <2>1. Len(r) \in Nat /\ DOMAIN r = 1..Len(r)
    BY <1>6, LenProperties
  <2>2. DOMAIN r = 1..n
    BY <1>5
  <2> HIDE DEF r, n
  <2>3. \A m \in Nat : 1..m = 1..n => m = n
    <3> SUFFICES ASSUME NEW m \in Nat, 1..m = 1..n PROVE m = n
      OBVIOUS
    <3>1. (m \in 1..m <=> m \in 1..n) /\ (n \in 1..m <=> n \in 1..n)
      OBVIOUS
    <3> QED BY <1>2, <3>1
  <2> QED BY <1>2, <2>1, <2>2, <2>3
<1>8. Distinct(r)
  <2>1. SUFFICES ASSUME NEW j \in 1..n, NEW k \in 1..n, j < k PROVE r[j] # r[k]
    BY <1>2, <1>5 DEF Distinct
  <2>2. r[j] = IF j < i THEN q[j] ELSE q[j + 1]
    BY <1>3
  <2>3. r[k] = IF k < i THEN q[k] ELSE q[k + 1]
    BY <1>3
  <2> QED BY <1>1, <1>2, <2>1, <2>2, <2>3 DEF Distinct
<1> QED BY <1>6, <1>7, <1>8

(* A queue without e, where e occurs at most once. *)
LEMMA WithoutProperties ==
    ASSUME NEW S, NEW q \in Seq(S), Distinct(q), NEW e
    PROVE  /\ Without(q, e) \in Seq(S \ {e})
           /\ Len(Without(q, e)) = IF IsQueued(q, e) THEN Len(q) - 1 ELSE Len(q)
           /\ Distinct(Without(q, e))
<1>1. Len(q) \in Nat /\ DOMAIN q = 1..Len(q) /\ q \in [1..Len(q) -> S]
  BY LenProperties
<1>2. CASE IsQueued(q, e)
  <2> DEFINE i == CHOOSE i \in DOMAIN q : q[i] = e
  <2>1. i \in 1..Len(q) /\ q[i] = e
    BY <1>1, <1>2 DEF IsQueued
  <2>2. Without(q, e) = RemoveNth(q, i)
    BY <1>2 DEF IsQueued, Without
  <2> HIDE DEF i
  <2>3. /\ RemoveNth(q, i) \in Seq(S \ {q[i]})
        /\ Len(RemoveNth(q, i)) = Len(q) - 1
        /\ Distinct(RemoveNth(q, i))
    BY <2>1, RemoveNthProperties
  <2> QED BY <1>2, <2>1, <2>2, <2>3
<1>3. CASE ~IsQueued(q, e)
  <2>1. Without(q, e) = q
    BY <1>3 DEF IsQueued, Without
  <2>2. q \in [1..Len(q) -> S \ {e}]
    BY <1>1, <1>3 DEF IsQueued
  <2>3. q \in Seq(S \ {e})
    BY <1>1, <2>2, SeqDef
  <2> QED BY <1>3, <2>1, <2>3
<1> QED BY <1>2, <1>3

LEMMA TailDistinct ==
    ASSUME NEW S, NEW q \in Seq(S), q # <<>>, Distinct(q)
    PROVE  /\ Tail(q) \in Seq(S)
           /\ Len(Tail(q)) = Len(q) - 1
           /\ Distinct(Tail(q))
<1>1. Len(q) \in Nat /\ DOMAIN q = 1..Len(q)
  BY LenProperties
<1>2. /\ Tail(q) \in Seq(S)
      /\ Len(Tail(q)) = Len(q) - 1
      /\ \A i \in 1..Len(Tail(q)) : Tail(q)[i] = q[i + 1]
  BY HeadTailProperties
<1>3. DOMAIN Tail(q) = 1..Len(Tail(q))
  BY <1>2, LenProperties
<1> QED BY <1>1, <1>2, <1>3 DEF Distinct

LEMMA AppendDistinct ==
    ASSUME NEW S, NEW a \in S, NEW q \in Seq(S \ {a}), Distinct(q)
    PROVE  /\ Append(q, a) \in Seq(S)
           /\ Len(Append(q, a)) = Len(q) + 1
           /\ Distinct(Append(q, a))
<1>1. q \in Seq(S)
  BY SeqMonotonic
<1>2. Len(q) \in Nat /\ DOMAIN q = 1..Len(q) /\ q \in [1..Len(q) -> S \ {a}]
  BY LenProperties
<1>3. /\ Append(q, a) \in Seq(S)
      /\ Len(Append(q, a)) = Len(q) + 1
      /\ DOMAIN Append(q, a) = 1..Len(q) + 1
      /\ \A k \in 1..Len(q) : Append(q, a)[k] = q[k]
      /\ Append(q, a)[Len(q) + 1] = a
  BY <1>1, <1>2
<1> QED BY <1>2, <1>3 DEF Distinct

(* No more accounts wait than there are elements to wait. *)
LEMMA DistinctLength ==
    ASSUME NEW S, IsFiniteSet(S), NEW q \in Seq(S), Distinct(q)
    PROVE  Len(q) <= Cardinality(S)
<1>1. Len(q) \in Nat /\ DOMAIN q = 1..Len(q) /\ q \in [1..Len(q) -> S]
  BY LenProperties
<1>2. IsFiniteSet(1..Len(q)) /\ Cardinality(1..Len(q)) = Len(q)
  BY <1>1, FS_Interval
<1>3. Cardinality(S) \in Nat
  BY FS_CardinalityType
<1>4. SUFFICES ASSUME Cardinality(S) < Cardinality(1..Len(q)) PROVE FALSE
  BY <1>1, <1>2, <1>3
<1>5. \E x, y \in 1..Len(q) : x # y /\ q[x] = q[y]
  BY <1>1, <1>2, <1>4, FS_PigeonHole
<1> QED BY <1>1, <1>5 DEF Distinct

-----------------------------------------------------------------------------
(* RemoveQueuedPlayer takes e out and keeps the rest in place, and if it leaves anyone
   waiting then the other sessions fill every slot. *)
LEMMA RemoveQueuedPlayerProperties ==
    ASSUME NEW S, NEW q \in Seq(S), Distinct(q), NEW e, NEW total \in Nat,
           q # <<>> => PlayerLimit > 0 /\ total - Len(q) >= PlayerLimit,
           NEW left, left = RemoveQueuedPlayer(q, e, total)
    PROVE  /\ left \in Seq(S \ {e})
           /\ Distinct(left)
           /\ left # <<>> => PlayerLimit > 0 /\ total - 1 - Len(left) >= PlayerLimit
<1> DEFINE rest    == Without(q, e)
           playing == IF IsQueued(q, e) THEN total - Len(q) ELSE total - Len(q) - 1
<1>1. /\ rest \in Seq(S \ {e})
      /\ Len(rest) = IF IsQueued(q, e) THEN Len(q) - 1 ELSE Len(q)
      /\ Distinct(rest)
  BY WithoutProperties
<1>2. Len(q) \in Nat /\ Len(rest) \in Nat /\ PlayerLimit \in Nat
  BY <1>1, LenProperties, LimitAssumption
<1>3. playing \in Int /\ playing = total - 1 - Len(rest)
  BY <1>1, <1>2
<1>4. left = IF (PlayerLimit = 0 \/ playing < PlayerLimit) /\ rest # <<>>
             THEN Tail(rest) ELSE rest
  BY DEF RemoveQueuedPlayer
<1>5. CASE (PlayerLimit = 0 \/ playing < PlayerLimit) /\ rest # <<>>
  <2>1. left = Tail(rest)
    BY <1>4, <1>5
  <2>2. /\ left \in Seq(S \ {e})
        /\ Len(left) = Len(rest) - 1
        /\ Distinct(left)
    BY <1>1, <1>5, <2>1, TailDistinct
  <2>3. Len(rest) \in Nat \ {0} /\ Len(q) # 0
    BY <1>1, <1>2, <1>5, EmptySeq
  <2>4. q # <<>>
    BY <2>3, EmptySeq
  <2>5. PlayerLimit > 0 /\ total - Len(q) >= PlayerLimit
    BY <2>4
  <2>6. total - 1 - Len(left) >= PlayerLimit
    <3> HIDE DEF rest, playing
    <3> QED BY <1>1, <1>2, <2>2, <2>5
  <2> QED BY <2>2, <2>5, <2>6
<1>6. CASE ~((PlayerLimit = 0 \/ playing < PlayerLimit) /\ rest # <<>>)
  <2>1. left = rest
    BY <1>4, <1>6
  <2>2. ASSUME left # <<>> PROVE PlayerLimit > 0 /\ total - 1 - Len(left) >= PlayerLimit
    <3>1. ~(PlayerLimit = 0 \/ playing < PlayerLimit)
      BY <1>6, <2>1, <2>2
    <3> HIDE DEF playing, rest
    <3> QED BY <1>2, <1>3, <2>1, <3>1
  <2> QED BY <1>1, <2>1, <2>2
<1> QED BY <1>5, <1>6

-----------------------------------------------------------------------------
LEMMA InitIInv == LQInit => IInv
<1> SUFFICES ASSUME LQInit PROVE IInv
  OBVIOUS
<1>1. <<>> \in Seq({}) /\ DOMAIN waiting = {}
  BY EmptySeq DEF LQInit
<1> QED BY <1>1 DEF LQInit, IInv, LQTypeOK, WaitsOnce, NoIdleSlot

LEMMA NextIInv == IInv /\ [LQNext]_lqVars => IInv'
<1> SUFFICES ASSUME IInv, [LQNext]_lqVars PROVE IInv'
  OBVIOUS
<1> USE DEF IInv
<1>1. /\ members \subseteq Accounts /\ waiting \in Seq(members)
      /\ Distinct(waiting)
      /\ waiting # <<>> => PlayerLimit > 0 /\ Cardinality(members) - Len(waiting) >= PlayerLimit
  BY DEF LQTypeOK, WaitsOnce, NoIdleSlot, Distinct, Active
<1>2. IsFiniteSet(members) /\ Cardinality(members) \in Nat
  BY <1>1, AccountsAssumption, FS_Subset, FS_CardinalityType
<1>3. Len(waiting) \in Nat /\ PlayerLimit \in Nat
  BY <1>1, LenProperties, LimitAssumption
<1>4. /\ members' \subseteq Accounts /\ waiting' \in Seq(members')
      /\ Distinct(waiting')
      /\ waiting' # <<>> => /\ PlayerLimit > 0
                            /\ Cardinality(members') - Len(waiting') >= PlayerLimit
      => IInv'
  BY DEF LQTypeOK, WaitsOnce, NoIdleSlot, Distinct, Active
<1>5. ASSUME NEW a \in Accounts, Join(a) PROVE IInv'
  <2>1. a \notin members /\ members' = members \cup {a} /\ members' \subseteq Accounts
    BY <1>1, <1>5 DEF Join
  <2>2. Cardinality(members') = Cardinality(members) + 1
    BY <1>2, <2>1, FS_AddElement
  <2>3. CASE RealmFull(Cardinality(members)) /\ waiting' = Append(waiting, a)
    <3>1. waiting \in Seq(members' \ {a})
      BY <1>1, <2>1, SeqMonotonic
    <3>2. /\ waiting' \in Seq(members')
          /\ Len(waiting') = Len(waiting) + 1
          /\ Distinct(waiting')
      BY <1>1, <2>1, <2>3, <3>1, AppendDistinct
    <3>3. PlayerLimit > 0 /\ Cardinality(members) >= PlayerLimit
      BY <2>3 DEF RealmFull
    <3>4. waiting = <<>> => Len(waiting) = 0
      BY EmptySeq
    <3>5. Cardinality(members') - Len(waiting') >= PlayerLimit
      BY <1>1, <1>2, <1>3, <2>2, <3>2, <3>3, <3>4
    <3> QED BY <1>4, <2>1, <3>2, <3>3, <3>5
  <2>4. CASE waiting' = waiting
    <3>1. waiting' \in Seq(members')
      BY <1>1, <2>1, <2>4, SeqMonotonic
    <3> QED BY <1>1, <1>2, <1>3, <1>4, <2>1, <2>2, <2>4, <3>1
  <2> QED BY <1>5, <2>3, <2>4 DEF Join
<1>6. ASSUME NEW a \in Accounts, Rejoin(a) PROVE IInv'
  <2> DEFINE left == RemoveQueuedPlayer(waiting, a, Cardinality(members))
  <2>1. /\ left \in Seq(members \ {a})
        /\ Distinct(left)
        /\ left # <<>> => /\ PlayerLimit > 0
                          /\ Cardinality(members) - 1 - Len(left) >= PlayerLimit
    BY <1>1, <1>2, RemoveQueuedPlayerProperties
  <2>2. a \in members /\ members' = members
    BY <1>6 DEF Rejoin
  <2>3. Len(left) \in Nat /\ (left = <<>> => Len(left) = 0)
    BY <2>1, LenProperties, EmptySeq
  <2>4. CASE RealmFull(Cardinality(members) - 1) /\ waiting' = Append(left, a)
    <3> HIDE DEF left
    <3>1. /\ waiting' \in Seq(members)
          /\ Len(waiting') = Len(left) + 1
          /\ Distinct(waiting')
      BY <2>1, <2>2, <2>4, AppendDistinct
    <3>2. PlayerLimit > 0 /\ Cardinality(members) - 1 >= PlayerLimit
      BY <2>4 DEF RealmFull
    <3>3. Cardinality(members') - Len(waiting') >= PlayerLimit
      BY <1>2, <1>3, <2>1, <2>2, <2>3, <3>1, <3>2
    <3> QED BY <1>1, <1>4, <2>2, <3>1, <3>2, <3>3
  <2>5. CASE waiting' = left
    <3> HIDE DEF left
    <3>1. waiting' \in Seq(members')
      BY <2>1, <2>2, <2>5, SeqMonotonic
    <3> QED BY <1>1, <1>2, <1>3, <1>4, <2>1, <2>2, <2>3, <2>5, <3>1
  <2> QED BY <1>6, <2>4, <2>5 DEF Rejoin
<1>7. ASSUME NEW a \in Accounts, Leave(a) PROVE IInv'
  <2> DEFINE left == RemoveQueuedPlayer(waiting, a, Cardinality(members))
  <2>0. /\ left \in Seq(members \ {a})
        /\ Distinct(left)
        /\ left # <<>> => /\ PlayerLimit > 0
                          /\ Cardinality(members) - 1 - Len(left) >= PlayerLimit
    BY <1>1, <1>2, RemoveQueuedPlayerProperties
  <2>1. /\ waiting' \in Seq(members \ {a})
        /\ Distinct(waiting')
        /\ waiting' # <<>> => /\ PlayerLimit > 0
                              /\ Cardinality(members) - 1 - Len(waiting') >= PlayerLimit
    BY <1>7, <2>0 DEF Leave
  <2>2. a \in members /\ members' = members \ {a}
    BY <1>7 DEF Leave
  <2>3. Cardinality(members') = Cardinality(members) - 1
    BY <1>2, <2>2, FS_RemoveElement
  <2> QED BY <1>1, <1>4, <2>1, <2>2, <2>3
<1>8. CASE DropQueue
  <2>1. waiting' = <<>> /\ members' = members
    BY <1>8 DEF DropQueue
  <2>2. waiting' \in Seq(members') /\ DOMAIN waiting' = {}
    BY <2>1, EmptySeq
  <2> QED BY <1>1, <1>4, <2>1, <2>2 DEF Distinct
<1>9. CASE UNCHANGED lqVars
  BY <1>1, <1>4, <1>9 DEF lqVars
<1> QED BY <1>5, <1>6, <1>7, <1>8, <1>9 DEF LQNext

-----------------------------------------------------------------------------
LEMMA Inductive == LQSpec => []IInv
BY InitIInv, NextIInv, PTL DEF LQSpec

(* Only connected accounts wait: no session that World deletes is left in the queue. *)
THEOREM QueueTyped == LQSpec => []LQTypeOK
<1>1. IInv => LQTypeOK
  BY DEF IInv
<1> QED BY <1>1, Inductive, PTL

(* World::AddQueuedPlayer never queues an account that is already in the queue. *)
THEOREM QueueOnce == LQSpec => []WaitsOnce
<1>1. IInv => WaitsOnce
  BY DEF IInv
<1> QED BY <1>1, Inductive, PTL

(* Every slot that World::RemoveQueuedPlayer frees goes to the first in the queue. *)
THEOREM SlotsFilled == LQSpec => []NoIdleSlot
<1>1. IInv => NoIdleSlot
  BY DEF IInv
<1> QED BY <1>1, Inductive, PTL

(* ASSERT(sessions > 0) of World::RemoveQueuedPlayer never fails: the queue is a
   sequence of different members, so it is shorter than the members if one plays. *)
THEOREM AssertionHolds == LQSpec => []SessionCounted
<1>1. IInv => SessionCounted
  <2> SUFFICES ASSUME IInv, NEW a \in members, ~IsQueued(waiting, a) PROVE Active > 0
    BY DEF SessionCounted
  <2>1. members \subseteq Accounts /\ waiting \in Seq(members) /\ Distinct(waiting)
    BY DEF IInv, LQTypeOK, WaitsOnce, Distinct
  <2>2. IsFiniteSet(members) /\ Cardinality(members) \in Nat
    BY <2>1, AccountsAssumption, FS_Subset, FS_CardinalityType
  <2>3. Without(waiting, a) = waiting
    BY DEF Without, IsQueued
  <2>4. waiting \in Seq(members \ {a})
    BY <2>1, <2>3, WithoutProperties
  <2>5. IsFiniteSet(members \ {a}) /\ Cardinality(members \ {a}) = Cardinality(members) - 1
    BY <2>2, FS_RemoveElement
  <2>6. Len(waiting) <= Cardinality(members) - 1
    BY <2>1, <2>4, <2>5, DistinctLength
  <2>7. Len(waiting) \in Nat
    BY <2>1, LenProperties
  <2> QED BY <2>2, <2>6, <2>7 DEF Active
<1> QED BY <1>1, Inductive, PTL
-----------------------------------------------------------------------------
(* Who else was in the queue is still in it after e was taken out. *)
LEMMA WithoutKeeps ==
    ASSUME NEW S, NEW q \in Seq(S), NEW e, NEW x, x # e, IsQueued(q, x)
    PROVE  IsQueued(Without(q, e), x)
<1>1. Len(q) \in Nat /\ DOMAIN q = 1..Len(q)
  BY LenProperties
<1>2. CASE IsQueued(q, e)
  <2> DEFINE i == CHOOSE i \in DOMAIN q : q[i] = e
  <2>1. i \in 1..Len(q) /\ q[i] = e
    BY <1>1, <1>2 DEF IsQueued
  <2>2. Without(q, e) = [k \in 1..Len(q) - 1 |-> IF k < i THEN q[k] ELSE q[k + 1]]
    BY <1>2 DEF IsQueued, Without, RemoveNth
  <2> HIDE DEF i
  <2>3. PICK m \in 1..Len(q) : q[m] = x
    BY <1>1 DEF IsQueued
  <2>4. CASE m < i
    <3>1. m \in 1..Len(q) - 1
      BY <1>1, <2>1, <2>4
    <3> QED BY <2>2, <2>3, <2>4, <3>1 DEF IsQueued
  <2>5. CASE i < m
    <3>1. m - 1 \in 1..Len(q) - 1 /\ ~(m - 1 < i) /\ m - 1 + 1 = m
      BY <1>1, <2>1, <2>5
    <3> QED BY <2>2, <2>3, <3>1 DEF IsQueued
  <2>6. m # i
    BY <2>1, <2>3
  <2> QED BY <2>1, <2>3, <2>4, <2>5, <2>6
<1>3. CASE ~IsQueued(q, e)
  BY <1>3 DEF IsQueued, Without
<1> QED BY <1>2, <1>3

(* RemoveQueuedPlayer lets in nobody but the first in the queue, and only when e was not
   waiting itself: a waiting session that goes leaves no slot. *)
LEMMA OnlyFirstAdmitted ==
    ASSUME NEW S, NEW q \in Seq(S), Distinct(q), NEW e, NEW total \in Nat,
           q # <<>> => PlayerLimit > 0 /\ total - Len(q) >= PlayerLimit,
           NEW k \in DOMAIN q, q[k] # e,
           ~IsQueued(RemoveQueuedPlayer(q, e, total), q[k])
    PROVE  k = 1
<1> DEFINE rest    == Without(q, e)
           playing == IF IsQueued(q, e) THEN total - Len(q) ELSE total - Len(q) - 1
<1>1. Len(q) \in Nat /\ DOMAIN q = 1..Len(q) /\ PlayerLimit \in Nat
  BY LenProperties, LimitAssumption
<1>2. IsQueued(q, q[k]) /\ q # <<>>
  BY <1>1, EmptySeq DEF IsQueued
<1>3. IsQueued(rest, q[k])
  BY <1>2, WithoutKeeps
<1>4. (PlayerLimit = 0 \/ playing < PlayerLimit) /\ RemoveQueuedPlayer(q, e, total) = Tail(rest)
  BY <1>3 DEF RemoveQueuedPlayer
<1>5. ~IsQueued(q, e)
  BY <1>1, <1>2, <1>4
<1>6. RemoveQueuedPlayer(q, e, total) = Tail(q)
  BY <1>4, <1>5 DEF Without, IsQueued
<1>7. SUFFICES ASSUME k # 1 PROVE FALSE
  OBVIOUS
<1>8. /\ Tail(q) \in Seq(S) /\ Len(Tail(q)) = Len(q) - 1
      /\ \A i \in 1..Len(q) - 1 : Tail(q)[i] = q[i + 1]
  BY <1>2, HeadTailProperties
<1>9. DOMAIN Tail(q) = 1..Len(q) - 1
  BY <1>8, LenProperties
<1>10. k - 1 \in 1..Len(q) - 1 /\ k - 1 + 1 = k
  BY <1>1, <1>7
<1> QED BY <1>6, <1>8, <1>9, <1>10 DEF IsQueued

(* World::AddQueuedPlayer appends: nobody loses his place. *)
LEMMA AppendKeeps ==
    ASSUME NEW S, NEW q \in Seq(S), NEW a \in S, NEW x, IsQueued(q, x)
    PROVE  IsQueued(Append(q, a), x)
<1>1. /\ Len(q) \in Nat /\ DOMAIN q = 1..Len(q)
      /\ Append(q, a) \in Seq(S) /\ Len(Append(q, a)) = Len(q) + 1
      /\ \A i \in 1..Len(q) : Append(q, a)[i] = q[i]
  BY LenProperties, AppendProperties
<1>2. DOMAIN Append(q, a) = 1..Len(q) + 1
  BY <1>1, LenProperties
<1> QED BY <1>1, <1>2 DEF IsQueued

(* First come, first served: an account that waits is never let in while one that waits
   longer is left behind, whoever joins, reconnects or leaves meanwhile. *)
THEOREM ServedInOrder == LQSpec => AdmittedInOrder
<1> DEFINE Kept(k) == \/ IsQueued(waiting', waiting[k])
                      \/ waiting[k] \notin members'
                      \/ Rejoin(waiting[k])
<1>1. IInv /\ [LQNext]_lqVars =>
        [\A k \in DOMAIN waiting : \A j \in 1..k - 1 :
            IsQueued(waiting', waiting[j]) => Kept(k)]_lqVars
  <2> SUFFICES ASSUME IInv, LQNext, NEW k \in DOMAIN waiting, NEW j \in 1..k - 1,
                      IsQueued(waiting', waiting[j])
               PROVE  Kept(k)
    OBVIOUS
  <2>1. /\ waiting \in Seq(members) /\ members \subseteq Accounts /\ Distinct(waiting)
        /\ waiting # <<>> => /\ PlayerLimit > 0
                             /\ Cardinality(members) - Len(waiting) >= PlayerLimit
    BY DEF IInv, LQTypeOK, WaitsOnce, NoIdleSlot, Distinct, Active
  <2>2. Cardinality(members) \in Nat
    BY <2>1, AccountsAssumption, FS_Subset, FS_CardinalityType
  <2>3. /\ Len(waiting) \in Nat /\ k \in 1..Len(waiting) /\ k # 1
        /\ waiting[k] \in members /\ IsQueued(waiting, waiting[k])
    BY <2>1, LenProperties DEF IsQueued
  <2>4. ASSUME NEW a \in Accounts, Join(a) PROVE Kept(k)
    <3>1. waiting \in Seq(members \cup {a})
      BY <2>1, SeqMonotonic
    <3>2. IsQueued(Append(waiting, a), waiting[k])
      BY <2>3, <3>1, AppendKeeps
    <3> QED BY <2>3, <2>4, <3>2 DEF Join
  <2>5. ASSUME NEW a \in Accounts, Rejoin(a) PROVE Kept(k)
    <3>1. SUFFICES ASSUME waiting[k] # a PROVE IsQueued(waiting', waiting[k])
      BY <2>5
    <3> DEFINE left == RemoveQueuedPlayer(waiting, a, Cardinality(members))
    <3>2. IsQueued(left, waiting[k])
      BY <2>1, <2>2, <2>3, <3>1, OnlyFirstAdmitted
    <3>3. left \in Seq(members \ {a})
      BY <2>1, <2>2, RemoveQueuedPlayerProperties
    <3> HIDE DEF left
    <3>4. left \in Seq(members) /\ a \in members
      BY <2>5, <3>3, SeqMonotonic DEF Rejoin
    <3>5. IsQueued(Append(left, a), waiting[k])
      BY <3>2, <3>4, AppendKeeps
    <3> QED BY <2>5, <3>2, <3>5 DEF Rejoin, left
  <2>6. ASSUME NEW a \in Accounts, Leave(a) PROVE Kept(k)
    <3>1. CASE waiting[k] = a
      BY <2>6, <3>1 DEF Leave
    <3>2. CASE waiting[k] # a
      <4>1. IsQueued(RemoveQueuedPlayer(waiting, a, Cardinality(members)), waiting[k])
        BY <2>1, <2>2, <2>3, <3>2, OnlyFirstAdmitted
      <4> QED BY <2>6, <4>1 DEF Leave
    <3> QED BY <3>1, <3>2
  <2>7. CASE DropQueue
    BY <2>7, EmptySeq DEF DropQueue, IsQueued
  <2> QED BY <2>4, <2>5, <2>6, <2>7 DEF LQNext
<1> QED BY <1>1, Inductive, PTL DEF LQSpec, AdmittedInOrder
=============================================================================
