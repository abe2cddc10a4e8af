----------------------------- MODULE LoginQueue -----------------------------
(***************************************************************************)
(* The admission policy of the world server: which connected accounts play *)
(* and which wait when the realm is full.  World::RemoveQueuedPlayer,      *)
(* AddQueuedPlayer and the limit test of AddSession_ as they act on the    *)
(* set of connected accounts and the queue.  WorldSessions implements it.  *)
(***************************************************************************)
EXTENDS Naturals, Sequences, FiniteSets

CONSTANTS Accounts,
          PlayerLimit       \* GetPlayerAmountLimit(); 0 means no limit

ASSUME LimitAssumption == PlayerLimit \in Nat
ASSUME AccountsAssumption == IsFiniteSet(Accounts)

VARIABLES members,          \* accounts with an entry in m_sessions
          waiting           \* the accounts of m_QueuedPlayer, first come first

lqVars == <<members, waiting>>

(* q without its i-th element: std::list::erase. *)
RemoveNth(q, i) == [k \in 1..Len(q) - 1 |-> IF k < i THEN q[k] ELSE q[k + 1]]

Without(q, e) == IF \E i \in DOMAIN q : q[i] = e
                 THEN RemoveNth(q, CHOOSE i \in DOMAIN q : q[i] = e)
                 ELSE q

IsQueued(q, e) == \E i \in DOMAIN q : q[i] = e

(* Mutants: nobody is let in, or the one who came last is. *)
RemoveQueuedPlayer_NoAdmit(q, e, total) == Without(q, e)

RemoveQueuedPlayer_Newest(q, e, total) ==
    LET active  == total - Len(q)
        playing == IF IsQueued(q, e) THEN active ELSE active - 1
        rest    == Without(q, e)
    IN IF (PlayerLimit = 0 \/ playing < PlayerLimit) /\ rest # <<>>
       THEN RemoveNth(rest, Len(rest)) ELSE rest

(* World::RemoveQueuedPlayer: take e out of the queue q of `total` sessions, and
   admit the first in the queue if the sessions that still play leave a slot. *)
RemoveQueuedPlayer(q, e, total) ==
    LET active  == total - Len(q)
        playing == IF IsQueued(q, e) THEN active ELSE active - 1
        rest    == Without(q, e)
    IN IF (PlayerLimit = 0 \/ playing < PlayerLimit) /\ rest # <<>> THEN Tail(rest) ELSE rest

(* The test of AddSession_ for a realm with `others` other sessions. *)
RealmFull(others) == PlayerLimit > 0 /\ others >= PlayerLimit

LQInit == members = {} /\ waiting = <<>>

(* A new account: it waits if the realm is full, unless it may skip the queue. *)
Join(a) == /\ a \in Accounts \ members
           /\ members' = members \cup {a}
           /\ \/ RealmFull(Cardinality(members)) /\ waiting' = Append(waiting, a)
              \/ waiting' = waiting

(* Mutant: the old session's place in the queue is kept. *)
Rejoin_Keep(a) == /\ a \in members
                  /\ UNCHANGED members
                  /\ \/ RealmFull(Cardinality(members) - 1) /\ waiting' = Append(waiting, a)
                     \/ waiting' = waiting

(* A session of a connected account is replaced by a new one: the old one gives
   up its slot or its place, then the new one is treated as any other. *)
Rejoin(a) == /\ a \in members
             /\ UNCHANGED members
             /\ LET left == RemoveQueuedPlayer(waiting, a, Cardinality(members)) IN
                \/ RealmFull(Cardinality(members) - 1) /\ waiting' = Append(left, a)
                \/ waiting' = left

(* The session of an account is parked or deleted. *)
Leave(a) == /\ a \in members
            /\ members' = members \ {a}
            /\ waiting' = RemoveQueuedPlayer(waiting, a, Cardinality(members))

(* World::KickAll clears the queue. *)
DropQueue == waiting' = <<>> /\ UNCHANGED members

LQNext == \/ \E a \in Accounts : Join(a) \/ Rejoin(a) \/ Leave(a)
          \/ DropQueue

LQSpec == LQInit /\ [][LQNext]_lqVars

-----------------------------------------------------------------------------
(* Sessions that count against the limit: World::GetActiveSessionCount. *)
Active == Cardinality(members) - Len(waiting)

(* Only connected accounts wait. *)
LQTypeOK == members \subseteq Accounts /\ waiting \in Seq(members)

(* Nobody waits in two places. *)
WaitsOnce == \A j, k \in DOMAIN waiting : j # k => waiting[j] # waiting[k]

(* Nobody waits while a slot is free: only RemoveQueuedPlayer admits, so a slot it
   fails to hand on would stay empty until somebody else leaves. *)
NoIdleSlot == waiting # <<>> => PlayerLimit > 0 /\ Active >= PlayerLimit

(* ASSERT(sessions > 0) of RemoveQueuedPlayer holds whenever it is called: an account
   that is connected and not queued is an active one. *)
SessionCounted == \A a \in members : ~IsQueued(waiting, a) => Active > 0

(* Nobody is let in ahead of an account that waits longer, except by connecting anew
   (within the tolerance of DisconnectToleranceInterval) or when the queue is dropped. *)
AdmittedInOrder ==
    [][\A k \in DOMAIN waiting : \A j \in 1..k - 1 :
          IsQueued(waiting', waiting[j]) =>
             \/ IsQueued(waiting', waiting[k])
             \/ waiting[k] \notin members'
             \/ Rejoin(waiting[k])]_lqVars
=============================================================================
