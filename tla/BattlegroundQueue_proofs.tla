---------------------- MODULE BattlegroundQueue_proofs ----------------------
(***************************************************************************)
(* Proofs about the battleground queues: a battleground has invited as     *)
(* many players as are on their way to it or inside, never more than its   *)
(* seats, and the slots a player holds are the queues he waits in.  They   *)
(* follow from one inductive invariant, BGInv, that every operation of a   *)
(* player and every step of the queue update keeps.                        *)
(***************************************************************************)
EXTENDS BattlegroundQueue, SequenceTheorems, FiniteSetTheorems, WellFoundedInduction, TLAPS

-----------------------------------------------------------------------------
(* Numbers. *)

(* A set of numbers that is not empty has a least element. *)
LEMMA Least ==
  ASSUME NEW S \in SUBSET Nat, S # {}
  PROVE  \E i \in S : \A j \in S : i <= j
  <1>1. \E i \in S : \A j \in S : ~ (<<j, i>> \in OpToRel(<, Nat))
    <2>. DEFINE R == OpToRel(<, Nat)
    <2>1. IsWellFoundedOn(R, Nat)
      BY NatLessThanWellFounded, Zenon
    <2>. HIDE DEF R
    <2>2. \E i \in S : \A j \in S : ~ (<<j, i>> \in R)
      BY <2>1, WFMin
    <2>. QED  BY <2>2 DEF R
  <1>2. PICK i \in S : \A j \in S : ~ (<<j, i>> \in OpToRel(<, Nat))
    BY <1>1, Zenon
  <1>3. ASSUME NEW j \in S PROVE i <= j
    <2>1. ~ (j < i)
      BY <1>2 DEF OpToRel
    <2>. QED  BY <2>1
  <1>. QED  BY <1>2, <1>3

(* What holds at 0 and of each successor up to n holds up to n: T is the set where it does. *)
LEMMA UpTo ==
  ASSUME NEW n \in Nat, NEW T, 0 \in T, \A k \in 0..n : k + 1 \in 0..n /\ k \in T => k + 1 \in T
  PROVE  \A k \in 0..n : k \in T
  <1>. DEFINE Bad == {k \in 0..n : k \notin T}
  <1>1. SUFFICES ASSUME Bad # {} PROVE FALSE
    OBVIOUS
  <1>2. PICK m \in Bad : \A j \in Bad : m <= j
    <2>1. Bad \in SUBSET Nat
      OBVIOUS
    <2>. HIDE DEF Bad
    <2>. QED  BY <1>1, <2>1, Least
  <1>3. m # 0 /\ m - 1 \in 0..n /\ (m - 1) + 1 = m /\ ~(m <= m - 1)
    OBVIOUS
  <1>4. m - 1 \in T
    BY <1>2, <1>3
  <1>. QED  BY <1>3, <1>4

(* What recurs from a by the functions of G exists. *)
Recurs(f, n, S, a, G) == f \in [0..n -> S] /\ f[0] = a /\ \A k \in 1..n : f[k] = G[k][f[k - 1]]

LEMMA Recursion ==
  ASSUME NEW n \in Nat, NEW S, NEW a \in S, NEW G \in [1..n -> [S -> S]]
  PROVE  \E f : Recurs(f, n, S, a, G)
  <1>. DEFINE T == {m \in 0..n : \E f : Recurs(f, m, S, a, G)}
  <1>1. 0 \in T
    <2>1. Recurs([k \in 0..0 |-> a], 0, S, a, G)
      BY DEF Recurs
    <2>. QED  BY <2>1
  <1>2. ASSUME NEW m \in 0..n, m + 1 \in 0..n, m \in T PROVE m + 1 \in T
    <2>1. PICK f : Recurs(f, m, S, a, G)
      BY <1>2
    <2>. DEFINE v == G[m + 1][f[m]]
                h == [k \in 0..m + 1 |-> IF k = m + 1 THEN v ELSE f[k]]
    <2>2. f[m] \in S /\ m + 1 \in 1..n
      BY <1>2, <2>1 DEF Recurs
    <2>3. v \in S
      BY <2>2
    <2>. HIDE DEF v
    <2>4. h \in [0..m + 1 -> S] /\ h[0] = a
      BY <2>1, <2>3 DEF Recurs
    <2>5. ASSUME NEW k \in 1..m + 1 PROVE h[k] = G[k][h[k - 1]]
      <3>1. k - 1 \in 0..m /\ h[k - 1] = f[k - 1]
        OBVIOUS
      <3>2. CASE k = m + 1
        BY <3>1, <3>2 DEF v
      <3>3. CASE k # m + 1
        <4>1. k \in 1..m /\ h[k] = f[k]
          BY <3>3
        <4>. QED  BY <2>1, <3>1, <4>1 DEF Recurs
      <3>. QED  BY <3>2, <3>3
    <2>. HIDE DEF h
    <2>6. Recurs(h, m + 1, S, a, G)
      BY <2>4, <2>5 DEF Recurs
    <2>. QED  BY <1>2, <2>6
  <1>3. n \in T
    <2>1. \A k \in 0..n : k \in T
      <3>. HIDE DEF T
      <3>. QED  BY <1>1, <1>2, UpTo
    <2>2. n \in 0..n
      OBVIOUS
    <2>. HIDE DEF T
    <2>. QED  BY <2>1, <2>2
  <1>. QED  BY <1>3

-----------------------------------------------------------------------------
(* The values of the state. *)
Group == [players : SUBSET Fighters, bg : Battlegrounds \cup {NoBG}, stamp : Stamps \cup {0}]
Lists == [Ranks -> [Teams -> Seq(Group)]]
Instance == [status : {"none", "open", "wait_leave"}, type : BGTypes \cup {NoBG},
             invited : [Teams -> Nat], players : SUBSET Fighters]
Timer == [player : Fighters, type : BGTypes, bg : Battlegrounds, stamp : Stamps]
Realms == [queued : [BGTypes -> Lists], bgs : [Battlegrounds -> Instance],
           timers : SUBSET Timer, aborted : BOOLEAN]

(* The groups of a team in a queue, premade or not. *)
OfTeam(s, q, t) == UNION {Range(s.queued[q][r][t]) : r \in Ranks}

(* Only keeps what is at the places to keep. *)
OnlyUnfolds(f, gs, keep, n) ==
    f = [k \in 0..n |-> IF k = 0 THEN <<>>
                        ELSE IF k \in keep THEN Append(f[k - 1], gs[k]) ELSE f[k - 1]]

(* Only is defined by a recursion that some function satisfies. *)
LEMMA OnlyExists ==
  ASSUME NEW S, NEW gs \in Seq(S), NEW keep
  PROVE  \E f : OnlyUnfolds(f, gs, keep, Len(gs))
  <1>. DEFINE n == Len(gs)  Lines == Seq(S)
              Step(i, x) == IF i \in keep THEN Append(x, gs[i]) ELSE x
              G == [i \in 1..n |-> [x \in Lines |-> Step(i, x)]]
  <1>1. n \in Nat /\ <<>> \in Lines /\ \A i \in 1..n : gs[i] \in S
    BY LenProperties, ElementOfSeq
  <1>2. \A i \in 1..n, x \in Lines : Step(i, x) \in Lines
    BY <1>1, AppendProperties
  <1>3. \A f : OnlyUnfolds(f, gs, keep, n) <=>
                  f = [i \in 0..n |-> IF i = 0 THEN <<>> ELSE Step(i, f[i - 1])]
    BY DEF OnlyUnfolds
  <1>. HIDE DEF n, Lines, Step
  <1>4. G \in [1..n -> [Lines -> Lines]] /\ \A i \in 1..n, x \in Lines : G[i][x] = Step(i, x)
    BY <1>2
  <1>. HIDE DEF G
  <1>5. PICK f : Recurs(f, n, Lines, <<>>, G)
    BY ONLY <1>1, <1>4, Recursion
  <1>6. f = [i \in 0..n |-> f[i]] /\ f[0] = <<>> /\ \A i \in 0..n : f[i] \in Lines
    BY <1>5 DEF Recurs
  <1>7. \A i \in 0..n : i = 0 \/ (i \in 1..n /\ i - 1 \in 0..n)
    BY <1>1
  <1>8. \A i \in 1..n : f[i] = Step(i, f[i - 1])
    <2>. TAKE i \in 1..n
    <2>1. f[i] = G[i][f[i - 1]]
      BY <1>5 DEF Recurs
    <2>2. f[i - 1] \in Lines
      BY <1>1, <1>6
    <2>. QED  BY <1>4, <2>1, <2>2
  <1>9. f = [i \in 0..n |-> IF i = 0 THEN <<>> ELSE Step(i, f[i - 1])]
    BY <1>6, <1>7, <1>8
  <1>. QED  BY <1>3, <1>9 DEF n

(* Only keeps the groups at the places in keep, and no other. *)
LEMMA OnlyKeeps ==
  ASSUME NEW S, NEW gs \in Seq(S), NEW keep
  PROVE  /\ Only(gs, keep) \in Seq(S)
         /\ Range(Only(gs, keep)) = {gs[i] : i \in keep \cap DOMAIN gs}
  <1>. DEFINE n == Len(gs)
  <1>1. n \in Nat /\ DOMAIN gs = 1..n
    BY LenProperties
  <1>2. PICK f : OnlyUnfolds(f, gs, keep, n)
    BY <1>1, OnlyExists
  <1>. DEFINE g == CHOOSE h : OnlyUnfolds(h, gs, keep, n)
  <1>3. Only(gs, keep) = g[n]
    BY DEF Only, OnlyUnfolds
  <1>4. OnlyUnfolds(g, gs, keep, n)
    BY <1>2
  <1>. HIDE DEF g, n
  <1>. DEFINE T == {k \in 0..n : /\ g[k] \in Seq(S)
                                 /\ Range(g[k]) = {gs[i] : i \in keep \cap (1..k)}}
  <1>5. 0 \in T
    <2>1. g[0] = <<>>
      BY <1>1, <1>4 DEF OnlyUnfolds
    <2>2. Range(<<>>) = {} /\ <<>> \in Seq(S)
      BY EmptySeq DEF Range
    <2>3. {gs[i] : i \in keep \cap (1..0)} = {}
      OBVIOUS
    <2>4. g[0] \in Seq(S) /\ Range(g[0]) = {gs[i] : i \in keep \cap (1..0)}
      BY <2>1, <2>2, <2>3, Zenon
    <2>5. 0 \in 0..n
      BY <1>1
    <2>. QED  BY <2>4, <2>5
  <1>6. ASSUME NEW m \in 0..n, m + 1 \in 0..n, m \in T PROVE m + 1 \in T
    <2>1. m + 1 # 0 /\ (m + 1) - 1 = m /\ m + 1 \in 1..n
      BY <1>6
    <2>2. g[m + 1] = IF m + 1 \in keep THEN Append(g[m], gs[m + 1]) ELSE g[m]
      BY <1>4, <1>6, <2>1 DEF OnlyUnfolds
    <2>3. gs[m + 1] \in S
      BY <1>1, <2>1, ElementOfSeq
    <2>4. 1..m + 1 = (1..m) \cup {m + 1}
      BY <1>6
    <2>5. CASE m + 1 \in keep
      <3>1. g[m + 1] = Append(g[m], gs[m + 1]) /\ g[m] \in Seq(S)
        BY <1>6, <2>2, <2>5
      <3>2. g[m + 1] \in Seq(S) /\ Range(g[m + 1]) = Range(g[m]) \cup {gs[m + 1]}
        <4>. DEFINE x == g[m]  y == g[m + 1]  e == gs[m + 1]
        <4>. HIDE DEF x, y, e
        <4>1. x \in Seq(S) /\ e \in S /\ y = Append(x, e)
          BY <2>3, <3>1 DEF x, y, e
        <4>2. y \in Seq(S) /\ Len(y) = Len(x) + 1 /\ Len(x) \in Nat /\ y[Len(x) + 1] = e
              /\ \A i \in 1..Len(x) : y[i] = x[i]
          BY <4>1, AppendProperties, LenProperties
        <4>3. DOMAIN x = 1..Len(x) /\ DOMAIN y = 1..(Len(x) + 1)
          BY <4>1, <4>2, LenProperties
        <4>4. Range(y) = Range(x) \cup {e}
          BY <4>2, <4>3 DEF Range
        <4>. QED  BY <4>2, <4>4 DEF x, y, e
      <3>3. {gs[i] : i \in keep \cap (1..m + 1)} = {gs[i] : i \in keep \cap (1..m)} \cup {gs[m + 1]}
        BY <2>4, <2>5
      <3>. QED  BY <1>6, <3>2, <3>3
    <2>6. CASE m + 1 \notin keep
      <3>1. keep \cap (1..m + 1) = keep \cap (1..m)
        BY <2>4, <2>6
      <3>. QED  BY <1>6, <2>2, <2>6, <3>1
    <2>. QED  BY <2>5, <2>6
  <1>7. \A k \in 0..n : k \in T
    <2>. HIDE DEF T
    <2>. QED  BY <1>1, <1>5, <1>6, UpTo
  <1>8. n \in T
    <2>1. n \in 0..n
      BY <1>1
    <2>. HIDE DEF T
    <2>. QED  BY <1>7, <2>1
  <1>. QED  BY <1>1, <1>3, <1>8

-----------------------------------------------------------------------------
(* The inductive invariant.  Every part but the last is about a record of queues and instances, so
   that it can be followed through the steps of one update. *)

(* A group stands on its side, and no player is in two groups of a queue. *)
Sided(s) == \A q \in BGTypes, t \in Teams : \A g \in OfTeam(s, q, t) :
                \A p \in g.players : Side[p] = t
Unique(s) == \A q \in BGTypes : \A g, h \in GroupsIn(s, q) : g.players \cap h.players # {} => g = h

(* Whom a battleground has invited: those who still queue, and those who are on their way or inside. *)
Invitees(s, b, t) ==
    {pq \in Fighters \X BGTypes : /\ Side[pq[1]] = t
                                  /\ \E g \in GroupsIn(s, pq[2]) : pq[1] \in g.players /\ g.bg = b}
Players(d, b, t) == {p \in Fighters : Side[p] = t /\ d[p].bg = b}
Counted(s, d) == \A b \in Battlegrounds, t \in Teams :
    s.bgs[b].invited[t] = Cardinality(Invitees(s, b, t)) + Cardinality(Players(d, b, t))

(* An instance that does not exist has invited nobody, and no instance more than its seats. *)
Vacant(s) == \A b \in Battlegrounds :
    s.bgs[b].status = "none" => \A t \in Teams : s.bgs[b].invited[t] = 0
Seated(s) == \A b \in Battlegrounds, t \in Teams : s.bgs[b].invited[t] <= MaxPerTeam

Sound(s, d) == s \in Realms /\ Sided(s) /\ Unique(s) /\ Counted(s, d) /\ Vacant(s) /\ Seated(s)

Places == [bg : Battlegrounds \cup {NoBG}, inside : BOOLEAN]
BGInv == /\ Sound(Realm, bgData) /\ SlotsMatch
         /\ bgData \in [Fighters -> Places] /\ queueSlots \in [Fighters -> SUBSET BGTypes]

-----------------------------------------------------------------------------
(* Reading the invariant. *)

(* There are two teams and two ranks. *)
LEMMA TeamsAre == /\ "alliance" \in Teams /\ "horde" \in Teams
                  /\ \A t \in Teams : t = "alliance" \/ t = "horde"
                  /\ "premade" \in Ranks /\ "normal" \in Ranks
                  /\ \A r \in Ranks : r = "premade" \/ r = "normal"
  BY DEF Teams, Ranks

(* The groups of a queue are those of its two teams. *)
LEMMA QueueOfTeams ==
  ASSUME NEW s, NEW q
  PROVE  \A g : g \in GroupsIn(s, q) <=> \E t \in Teams : g \in OfTeam(s, q, t)
  <1>1. \A g, t : g \in OfTeam(s, q, t) <=> \E r \in Ranks : g \in Range(s.queued[q][r][t])
    BY Zenon DEF OfTeam
  <1>2. \A g : g \in GroupsIn(s, q) <=> \E r \in Ranks, t \in Teams : g \in Range(s.queued[q][r][t])
    BY DEF GroupsIn
  <1>. QED  BY <1>1, <1>2, Zenon

(* The groups of a queue, from the types of the queues. *)
LEMMA GroupsAre ==
  ASSUME NEW s \in Realms, NEW q \in BGTypes
  PROVE  /\ \A g : g \in GroupsIn(s, q) <=> \E t \in Teams : g \in OfTeam(s, q, t)
         /\ GroupsIn(s, q) \subseteq Group
         /\ \A r \in Ranks, t \in Teams : s.queued[q][r][t] \in Seq(Group)
         /\ \A g, t : g \in OfTeam(s, q, t) <=> \E r \in Ranks : g \in Range(s.queued[q][r][t])
  <1>1. \A r \in Ranks, t \in Teams : s.queued[q][r][t] \in Seq(Group)
    BY DEF Realms, Lists
  <1>2. \A g, t : g \in OfTeam(s, q, t) <=> \E r \in Ranks : g \in Range(s.queued[q][r][t])
    BY Zenon DEF OfTeam
  <1>3. \A g : g \in GroupsIn(s, q) <=> \E r \in Ranks, t \in Teams : g \in Range(s.queued[q][r][t])
    BY DEF GroupsIn
  <1>4. \A g : g \in GroupsIn(s, q) <=> \E t \in Teams : g \in OfTeam(s, q, t)
    BY <1>2, <1>3, Zenon
  <1>5. ASSUME NEW g \in GroupsIn(s, q) PROVE g \in Group
    <2>1. PICK r \in Ranks, t \in Teams : g \in Range(s.queued[q][r][t])
      BY <1>3, <1>5
    <2>2. Range(s.queued[q][r][t]) \subseteq Group
      <3>1. s.queued[q][r][t] \in Seq(Group)
        BY <1>1
      <3>. DEFINE x == s.queued[q][r][t]
      <3>. HIDE DEF x
      <3>2. x \in Seq(Group) => Range(x) \subseteq Group
        BY LenProperties, ElementOfSeq DEF Range
      <3>. QED  BY <3>1, <3>2 DEF x
    <2>. QED  BY <2>1, <2>2
  <1>. QED  BY <1>1, <1>2, <1>4, <1>5, Zenon

(* What a battleground counts is finite. *)
LEMMA CountsAreFinite ==
  ASSUME NEW s, NEW d, NEW b, NEW t
  PROVE  /\ IsFiniteSet(Fighters) /\ IsFiniteSet(Fighters \X BGTypes)
         /\ IsFiniteSet(Invitees(s, b, t)) /\ Cardinality(Invitees(s, b, t)) \in Nat
         /\ IsFiniteSet(Players(d, b, t)) /\ Cardinality(Players(d, b, t)) \in Nat
  <1>1. IsFiniteSet(Fighters) /\ IsFiniteSet(Fighters \X BGTypes)
    BY BattlegroundAssumption, FS_Product
  <1>2. Invitees(s, b, t) \in SUBSET (Fighters \X BGTypes) /\ Players(d, b, t) \in SUBSET Fighters
    BY DEF Invitees, Players
  <1>3. IsFiniteSet(Invitees(s, b, t)) /\ IsFiniteSet(Players(d, b, t))
    BY <1>1, <1>2, FS_Subset
  <1>. QED  BY <1>1, <1>3, FS_CardinalityType

(* A player is in one group of a queue. *)
LEMMA OneGroup ==
  ASSUME NEW s \in Realms, Unique(s), NEW p \in Fighters, NEW q \in BGTypes, InQueue(s, p, q)
  PROVE  /\ GroupOf(s, p, q) \in GroupsIn(s, q) /\ p \in GroupOf(s, p, q).players
         /\ \A g \in GroupsIn(s, q) : p \in g.players => g = GroupOf(s, p, q)
  <1>1. GroupOf(s, p, q) \in GroupsIn(s, q) /\ p \in GroupOf(s, p, q).players
    BY DEF InQueue, GroupOf
  <1>2. ASSUME NEW g \in GroupsIn(s, q), p \in g.players PROVE g = GroupOf(s, p, q)
    BY <1>1, <1>2 DEF Unique
  <1>. QED  BY <1>1, <1>2

(* The invitees as InvitedMatches states them. *)
LEMMA InviteesAre ==
  ASSUME NEW s \in Realms, Unique(s), NEW b, NEW t
  PROVE  /\ \A p \in Fighters, q \in BGTypes :
               <<p, q>> \in Invitees(s, b, t) <=>
                  Side[p] = t /\ InQueue(s, p, q) /\ GroupOf(s, p, q).bg = b
         /\ Invitees(s, b, t) =
               {pq \in Fighters \X BGTypes : /\ Side[pq[1]] = t /\ InQueue(s, pq[1], pq[2])
                                             /\ GroupOf(s, pq[1], pq[2]).bg = b}
  <1>1. ASSUME NEW p \in Fighters, NEW q \in BGTypes
        PROVE  (\E g \in GroupsIn(s, q) : p \in g.players /\ g.bg = b)
                  <=> InQueue(s, p, q) /\ GroupOf(s, p, q).bg = b
    <2>1. CASE InQueue(s, p, q)
      BY <2>1, OneGroup
    <2>2. CASE ~InQueue(s, p, q)
      BY <2>2 DEF InQueue
    <2>. QED  BY <2>1, <2>2
  <1>2. \A p \in Fighters, q \in BGTypes :
               <<p, q>> \in Invitees(s, b, t) <=>
                  Side[p] = t /\ InQueue(s, p, q) /\ GroupOf(s, p, q).bg = b
    <2>. TAKE p \in Fighters, q \in BGTypes
    <2>1. <<p, q>> \in Fighters \X BGTypes /\ <<p, q>>[1] = p /\ <<p, q>>[2] = q
      OBVIOUS
    <2>2. <<p, q>> \in Invitees(s, b, t) <=>
             Side[p] = t /\ \E g \in GroupsIn(s, q) : p \in g.players /\ g.bg = b
      BY <2>1 DEF Invitees
    <2>. QED  BY <1>1, <2>2
  <1>3. ASSUME NEW pq \in Fighters \X BGTypes
        PROVE  pq \in Invitees(s, b, t) <=>
                  Side[pq[1]] = t /\ InQueue(s, pq[1], pq[2]) /\ GroupOf(s, pq[1], pq[2]).bg = b
    <2>1. pq[1] \in Fighters /\ pq[2] \in BGTypes /\ pq = <<pq[1], pq[2]>>
      OBVIOUS
    <2>. QED  BY <1>2, <2>1
  <1>4. Invitees(s, b, t) \subseteq Fighters \X BGTypes
    BY DEF Invitees
  <1>. QED  BY <1>2, <1>3, <1>4

-----------------------------------------------------------------------------
(* Leaving a queue or a battleground. *)

(* What the queues say depends on the queues alone. *)
LEMMA QueuesDecide ==
  ASSUME NEW s, NEW x, x.queued = s.queued
  PROVE  /\ \A q : GroupsIn(x, q) = GroupsIn(s, q)
         /\ \A q, t : OfTeam(x, q, t) = OfTeam(s, q, t)
         /\ \A p, q : (InQueue(x, p, q) <=> InQueue(s, p, q)) /\ GroupOf(x, p, q) = GroupOf(s, p, q)
         /\ \A b, t : Invitees(x, b, t) = Invitees(s, b, t)
         /\ (Sided(x) <=> Sided(s)) /\ (Unique(x) <=> Unique(s))
  <1>1. \A q : GroupsIn(x, q) = GroupsIn(s, q)
    BY DEF GroupsIn
  <1>2. \A q, t : OfTeam(x, q, t) = OfTeam(s, q, t)
    BY DEF OfTeam
  <1>3. \A p, q : (InQueue(x, p, q) <=> InQueue(s, p, q)) /\ GroupOf(x, p, q) = GroupOf(s, p, q)
    BY <1>1 DEF InQueue, GroupOf
  <1>4. \A b, t : Invitees(x, b, t) = Invitees(s, b, t)
    BY <1>1 DEF Invitees
  <1>5. (Sided(x) <=> Sided(s)) /\ (Unique(x) <=> Unique(s))
    BY <1>1, <1>2 DEF Sided, Unique
  <1>. QED  BY <1>1, <1>2, <1>3, <1>4, <1>5

(* DecreaseInvited takes the counts off and leaves everything else. *)
LEMMA DecreaseInvitedDoes ==
  ASSUME NEW s \in Realms, NEW counts \in [Battlegrounds -> [Teams -> Nat]],
         NEW x, x = DecreaseInvited(s, counts)
  PROVE  /\ x \in Realms
         /\ x.queued = s.queued /\ x.timers = s.timers /\ x.aborted = s.aborted
         /\ \A b \in Battlegrounds : /\ x.bgs[b].status = s.bgs[b].status
                                     /\ x.bgs[b].type = s.bgs[b].type
                                     /\ x.bgs[b].players = s.bgs[b].players
         /\ \A b \in Battlegrounds, t \in Teams :
               x.bgs[b].invited[t] = IF s.bgs[b].invited[t] > counts[b][t]
                                     THEN s.bgs[b].invited[t] - counts[b][t] ELSE 0
  <1>. DEFINE i(b) == [t \in Teams |-> IF s.bgs[b].invited[t] > counts[b][t]
                                       THEN s.bgs[b].invited[t] - counts[b][t] ELSE 0]
              g == [b \in Battlegrounds |-> [s.bgs[b] EXCEPT !.invited = i(b)]]
  <1>1. x = [s EXCEPT !.bgs = g]
    BY DEF DecreaseInvited
  <1>2. \A b \in Battlegrounds : i(b) \in [Teams -> Nat]
    BY DEF Realms, Instance
  <1>3. \A b \in Battlegrounds : s.bgs[b] \in Instance
    BY DEF Realms
  <1>4. g \in [Battlegrounds -> Instance]
    <2>. SUFFICES ASSUME NEW b \in Battlegrounds PROVE [s.bgs[b] EXCEPT !.invited = i(b)] \in Instance
      OBVIOUS
    <2>1. i(b) \in [Teams -> Nat] /\ s.bgs[b] \in Instance
      BY <1>2, <1>3
    <2>. DEFINE y == s.bgs[b]  j == i(b)
    <2>. HIDE DEF y, i
    <2>. QED  BY <2>1 DEF Instance, y
  <1>5. \A b \in Battlegrounds : g[b] = [s.bgs[b] EXCEPT !.invited = i(b)]
    OBVIOUS
  <1>. HIDE DEF g
  <1>6. x \in Realms /\ x.bgs = g /\ x.queued = s.queued /\ x.timers = s.timers /\ x.aborted = s.aborted
    BY <1>1, <1>4 DEF Realms
  <1>7. ASSUME NEW b \in Battlegrounds
        PROVE  /\ x.bgs[b].invited = i(b) /\ x.bgs[b].status = s.bgs[b].status
               /\ x.bgs[b].type = s.bgs[b].type /\ x.bgs[b].players = s.bgs[b].players
    <2>. HIDE DEF i
    <2>. QED  BY <1>3, <1>5, <1>6 DEF Instance
  <1>. QED  BY <1>6, <1>7

(* QueuesLeft takes the players out of their groups and keeps the groups that are not empty. *)
Leave(g, q, pairs) == [g EXCEPT !.players = {p \in g.players : <<p, q>> \notin pairs}]

(* What QueuesLeft leaves in each list. *)
LEMMA QueuesLeftDo ==
  ASSUME NEW s \in Realms, NEW pairs
  PROVE  /\ QueuesLeft(s, pairs) \in [BGTypes -> Lists]
         /\ \A q \in BGTypes, r \in Ranks, t \in Teams :
              Range(QueuesLeft(s, pairs)[q][r][t]) =
                 {Leave(g, q, pairs) : g \in {h \in Range(s.queued[q][r][t]) :
                                                 Leave(h, q, pairs).players # {}}}
  <1>. DEFINE Stay(gs, q) == [i \in DOMAIN gs |-> Leave(gs[i], q, pairs)]
              Rest(gs)    == Only(gs, {i \in DOMAIN gs : gs[i].players # {}})
  <1>1. QueuesLeft(s, pairs) =
           [q \in BGTypes |-> [r \in Ranks |-> [t \in Teams |-> Rest(Stay(s.queued[q][r][t], q))]]]
    BY DEF QueuesLeft, Leave
  <1>2. ASSUME NEW q \in BGTypes, NEW gs \in Seq(Group)
        PROVE  /\ Rest(Stay(gs, q)) \in Seq(Group)
               /\ Range(Rest(Stay(gs, q))) =
                    {Leave(g, q, pairs) : g \in {h \in Range(gs) : Leave(h, q, pairs).players # {}}}
    <2>1. DOMAIN gs = 1..Len(gs) /\ Len(gs) \in Nat /\ \A i \in 1..Len(gs) : gs[i] \in Group
      BY LenProperties, ElementOfSeq
    <2>2. \A g \in Group : Leave(g, q, pairs) \in Group
      BY DEF Group, Leave
    <2>. DEFINE z == Stay(gs, q)
    <2>3. z \in Seq(Group) /\ DOMAIN z = DOMAIN gs
      BY <2>1, <2>2, IsASeq
    <2>4. \A i \in DOMAIN gs : z[i] = Leave(gs[i], q, pairs)
      OBVIOUS
    <2>. HIDE DEF z
    <2>. DEFINE keep == {i \in DOMAIN z : z[i].players # {}}
    <2>5. Only(z, keep) \in Seq(Group) /\ Range(Only(z, keep)) = {z[i] : i \in keep \cap DOMAIN z}
      <3>. HIDE DEF keep
      <3>. QED  BY <2>3, OnlyKeeps
    <2>6. {z[i] : i \in keep \cap DOMAIN z} =
            {Leave(g, q, pairs) : g \in {h \in Range(gs) : Leave(h, q, pairs).players # {}}}
      BY <2>3, <2>4 DEF Range
    <2>. QED  BY <2>5, <2>6 DEF z
  <1>. HIDE DEF Rest, Stay
  <1>3. \A q \in BGTypes, r \in Ranks, t \in Teams : s.queued[q][r][t] \in Seq(Group)
    BY GroupsAre
  <1>4. QueuesLeft(s, pairs) \in [BGTypes -> Lists]
    BY <1>1, <1>2, <1>3 DEF Lists
  <1>5. \A q \in BGTypes, r \in Ranks, t \in Teams :
           QueuesLeft(s, pairs)[q][r][t] = Rest(Stay(s.queued[q][r][t], q))
    BY <1>1
  <1>. QED  BY <1>2, <1>3, <1>4, <1>5

(* QueuesLeft leaves the queues sided and unique, and takes exactly the pairs out. *)
LEMMA QueuesLeftKeep ==
  ASSUME NEW s \in Realms, NEW pairs, NEW x, x.queued = QueuesLeft(s, pairs), Sided(s), Unique(s)
  PROVE  /\ \A p \in Fighters, q \in BGTypes : InQueue(x, p, q) <=> InQueue(s, p, q) /\ <<p, q>> \notin pairs
         /\ \A b, t : Invitees(x, b, t) = Invitees(s, b, t) \ pairs
         /\ Sided(x) /\ Unique(x)
  <1>. DEFINE L(g, q) == Leave(g, q, pairs)
  <1>1. \A g \in Group : \A q : /\ L(g, q).bg = g.bg
                               /\ \A p : p \in L(g, q).players <=> p \in g.players /\ <<p, q>> \notin pairs
    BY DEF Leave, Group
  <1>0. ASSUME NEW q \in BGTypes, NEW r \in Ranks, NEW t \in Teams
        PROVE  \A g : g \in Range(x.queued[q][r][t]) <=>
                 \E h \in Range(s.queued[q][r][t]) : g = L(h, q) /\ L(h, q).players # {}
    <2>. DEFINE R == Range(s.queued[q][r][t])
    <2>1. Range(x.queued[q][r][t]) = {L(g, q) : g \in {h \in R : L(h, q).players # {}}}
      <3>1. \A k \in BGTypes, j \in Ranks, m \in Teams :
              Range(QueuesLeft(s, pairs)[k][j][m]) =
                 {Leave(g, k, pairs) : g \in {h \in Range(s.queued[k][j][m]) :
                                                 Leave(h, k, pairs).players # {}}}
        BY QueuesLeftDo
      <3>2. Range(QueuesLeft(s, pairs)[q][r][t]) =
              {Leave(g, q, pairs) : g \in {h \in Range(s.queued[q][r][t]) :
                                              Leave(h, q, pairs).players # {}}}
        BY <3>1, Zenon
      <3>3. x.queued = QueuesLeft(s, pairs)
        OBVIOUS
      <3>. QED  BY <3>2, <3>3
    <2>. HIDE DEF L, R
    <2>2. \A g : g \in Range(x.queued[q][r][t]) <=> \E h \in R : g = L(h, q) /\ L(h, q).players # {}
      BY <2>1, Zenon
    <2>. QED  BY <2>2 DEF R
  <1>. HIDE DEF L
  <1>2. ASSUME NEW q \in BGTypes, NEW t \in Teams
        PROVE  \A g : g \in OfTeam(x, q, t) <=>
                         \E h \in OfTeam(s, q, t) : g = L(h, q) /\ L(h, q).players # {}
    <2>2. \A g : g \in OfTeam(x, q, t) <=> \E r \in Ranks : g \in Range(x.queued[q][r][t])
      BY DEF OfTeam
    <2>3. \A g : g \in OfTeam(s, q, t) <=> \E r \in Ranks : g \in Range(s.queued[q][r][t])
      BY DEF OfTeam
    <2>4. ASSUME NEW g, g \in OfTeam(x, q, t) PROVE \E h \in OfTeam(s, q, t) : g = L(h, q) /\ L(h, q).players # {}
      <3>1. PICK r \in Ranks : g \in Range(x.queued[q][r][t])
        BY <2>2, <2>4
      <3>2. PICK h \in Range(s.queued[q][r][t]) : g = L(h, q) /\ L(h, q).players # {}
        BY <1>0, <3>1
      <3>. QED  BY <2>3, <3>2
    <2>5. ASSUME NEW h \in OfTeam(s, q, t), L(h, q).players # {} PROVE L(h, q) \in OfTeam(x, q, t)
      <3>1. PICK r \in Ranks : h \in Range(s.queued[q][r][t])
        BY <2>3
      <3>2. L(h, q) \in Range(x.queued[q][r][t])
        BY <1>0, <2>5, <3>1
      <3>. QED  BY <2>2, <3>2
    <2>. QED  BY <2>4, <2>5
  <1>3. ASSUME NEW q \in BGTypes
        PROVE  \A g : g \in GroupsIn(x, q) <=>
                         \E h \in GroupsIn(s, q) : g = L(h, q) /\ L(h, q).players # {}
    <2>1. \A g : g \in GroupsIn(x, q) <=> \E t \in Teams : g \in OfTeam(x, q, t)
      BY QueueOfTeams
    <2>2. \A g : g \in GroupsIn(s, q) <=> \E t \in Teams : g \in OfTeam(s, q, t)
      BY QueueOfTeams
    <2>. QED  BY <1>2, <2>1, <2>2
  <1>4. \A q \in BGTypes : GroupsIn(s, q) \subseteq Group
    BY GroupsAre
  <1>5. \A q \in BGTypes, t \in Teams : OfTeam(s, q, t) \subseteq Group
    BY GroupsAre
  <1>. HIDE DEF L
  <1>6. ASSUME NEW p, NEW q \in BGTypes, NEW b
        PROVE  /\ (\E g \in GroupsIn(x, q) : p \in g.players /\ g.bg = b) <=>
                     (\E g \in GroupsIn(s, q) : p \in g.players /\ g.bg = b) /\ <<p, q>> \notin pairs
               /\ InQueue(x, p, q) <=> InQueue(s, p, q) /\ <<p, q>> \notin pairs
    <2>1. ASSUME NEW h \in GroupsIn(s, q)
          PROVE  /\ L(h, q).bg = h.bg
                 /\ p \in L(h, q).players <=> p \in h.players /\ <<p, q>> \notin pairs
      BY <1>1, <1>4
    <2>. QED  BY <1>3, <2>1 DEF InQueue
  <1>7. ASSUME NEW b, NEW t PROVE Invitees(x, b, t) = Invitees(s, b, t) \ pairs
    <2>1. ASSUME NEW pq \in Fighters \X BGTypes
          PROVE  pq \in Invitees(x, b, t) <=> pq \in Invitees(s, b, t) \ pairs
      <3>1. pq[2] \in BGTypes /\ pq = <<pq[1], pq[2]>>
        OBVIOUS
      <3>. QED  BY <1>6, <3>1 DEF Invitees
    <2>. QED  BY <2>1 DEF Invitees
  <1>8. Sided(x)
    <2>. SUFFICES ASSUME NEW q \in BGTypes, NEW t \in Teams, NEW g \in OfTeam(x, q, t),
                         NEW p \in g.players
                  PROVE  Side[p] = t
      BY DEF Sided
    <2>1. PICK h \in OfTeam(s, q, t) : g = L(h, q)
      BY <1>2
    <2>2. h \in Group
      BY <1>5
    <2>3. p \in h.players
      BY <1>1, <2>1, <2>2
    <2>. QED  BY <2>3 DEF Sided
  <1>9. Unique(x)
    <2>. SUFFICES ASSUME NEW q \in BGTypes, NEW g \in GroupsIn(x, q), NEW h \in GroupsIn(x, q),
                         g.players \cap h.players # {}
                  PROVE  g = h
      BY DEF Unique
    <2>1. PICK g1 \in GroupsIn(s, q) : g = L(g1, q)
      BY <1>3
    <2>2. PICK h1 \in GroupsIn(s, q) : h = L(h1, q)
      BY <1>3
    <2>3. g1.players \cap h1.players # {}
      <3>1. g1 \in Group /\ h1 \in Group
        BY <1>4
      <3>2. g.players \subseteq g1.players
        BY <1>1, <2>1, <3>1
      <3>3. h.players \subseteq h1.players
        BY <1>1, <2>2, <3>1
      <3>. QED  BY <3>2, <3>3
    <2>. QED  BY <2>1, <2>2, <2>3 DEF Unique
  <1>. QED  BY <1>6, <1>7, <1>8, <1>9

(* A record that the state becomes hands its invariant over. *)
LEMMA SoundBecomes ==
  ASSUME NEW x, NEW d, Sound(x, d), Become(x), bgData' = d
  PROVE  Sound(Realm, bgData)' /\ Realm' = x
  <1>1. Realm' = x
    <2>1. x = [queued |-> x.queued, bgs |-> x.bgs, timers |-> x.timers, aborted |-> x.aborted]
      BY DEF Sound, Realms
    <2>2. queued' = x.queued /\ bgs' = x.bgs /\ timers' = x.timers /\ aborted' = x.aborted
      BY DEF Become
    <2>. QED  BY <2>1, <2>2 DEF Realm
  <1>. QED  BY <1>1

(* Players who wait leave their queues and their invited counts together. *)
LEMMA RemovePlayersDoes ==
  ASSUME NEW s, NEW d, Sound(s, d), NEW pairs \in SUBSET (Fighters \X BGTypes),
         \A pq \in pairs : InQueue(s, pq[1], pq[2]), NEW x, x = RemovePlayers(s, pairs)
  PROVE  /\ Sound(x, d) /\ x.aborted = s.aborted /\ x.timers = s.timers
         /\ \A p \in Fighters, q \in BGTypes : InQueue(x, p, q) <=> InQueue(s, p, q) /\ <<p, q>> \notin pairs
         /\ \A b \in Battlegrounds : x.bgs[b].status = s.bgs[b].status
         /\ \A b, t : Invitees(x, b, t) = Invitees(s, b, t) \ pairs
  <1>. DEFINE n == [b \in Battlegrounds |-> [t \in Teams |->
                      Cardinality({pq \in pairs : /\ Side[pq[1]] = t
                                                  /\ GroupOf(s, pq[1], pq[2]).bg = b})]]
              w == [s EXCEPT !.queued = QueuesLeft(s, pairs)]
  <1>1. x = DecreaseInvited(w, n)
    BY DEF RemovePlayers
  <1>2. s \in Realms /\ Sided(s) /\ Unique(s) /\ Counted(s, d) /\ Vacant(s) /\ Seated(s)
    BY DEF Sound
  <1>3. /\ w \in Realms /\ w.queued = QueuesLeft(s, pairs) /\ w.bgs = s.bgs
        /\ w.timers = s.timers /\ w.aborted = s.aborted
    BY <1>2, QueuesLeftDo DEF Realms
  <1>4. ASSUME NEW b \in Battlegrounds, NEW t \in Teams
        PROVE  n[b][t] = Cardinality(Invitees(s, b, t) \cap pairs)
    <2>1. {pq \in pairs : /\ Side[pq[1]] = t /\ GroupOf(s, pq[1], pq[2]).bg = b}
             = Invitees(s, b, t) \cap pairs
      BY <1>2, InviteesAre
    <2>. QED  BY <2>1
  <1>5. ASSUME NEW b \in Battlegrounds, NEW t \in Teams
        PROVE  /\ n[b][t] \in Nat
               /\ Cardinality(Invitees(s, b, t)) >= n[b][t]
               /\ Cardinality(Invitees(s, b, t) \ pairs) = Cardinality(Invitees(s, b, t)) - n[b][t]
    <2>. DEFINE I == Invitees(s, b, t)
    <2>1. IsFiniteSet(I) /\ Cardinality(I) \in Nat
      BY CountsAreFinite
    <2>. HIDE DEF I
    <2>2. Cardinality(I \ pairs) = Cardinality(I) - Cardinality(I \cap pairs)
          /\ Cardinality(I \cap pairs) <= Cardinality(I) /\ IsFiniteSet(I \cap pairs)
      BY <2>1, FS_Difference, FS_Intersection
    <2>3. Cardinality(I \cap pairs) \in Nat
      BY <2>2, FS_CardinalityType
    <2>4. n[b][t] = Cardinality(I \cap pairs)
      BY <1>4 DEF I
    <2>. HIDE DEF n
    <2>5. /\ n[b][t] \in Nat /\ Cardinality(I) >= n[b][t]
          /\ Cardinality(I \ pairs) = Cardinality(I) - n[b][t]
      BY <2>1, <2>2, <2>3, <2>4
    <2>. QED  BY <2>5 DEF I
  <1>6. n \in [Battlegrounds -> [Teams -> Nat]]
    BY <1>4, <1>5
  <1>. HIDE DEF n, w
  <1>7. /\ x \in Realms
        /\ x.queued = w.queued /\ x.timers = w.timers /\ x.aborted = w.aborted
        /\ \A b \in Battlegrounds : /\ x.bgs[b].status = w.bgs[b].status
        /\ \A b \in Battlegrounds, t \in Teams :
               x.bgs[b].invited[t] = IF w.bgs[b].invited[t] > n[b][t]
                                     THEN w.bgs[b].invited[t] - n[b][t] ELSE 0
    BY <1>1, <1>3, <1>6, DecreaseInvitedDoes
  <1>8. /\ \A p \in Fighters, q \in BGTypes : InQueue(x, p, q) <=> InQueue(s, p, q) /\ <<p, q>> \notin pairs
        /\ \A b, t : Invitees(x, b, t) = Invitees(s, b, t) \ pairs
        /\ Sided(x) /\ Unique(x)
    BY <1>2, <1>3, <1>7, QueuesLeftKeep
  <1>9. ASSUME NEW b \in Battlegrounds, NEW t \in Teams
        PROVE  /\ x.bgs[b].invited[t] = Cardinality(Invitees(x, b, t)) + Cardinality(Players(d, b, t))
               /\ x.bgs[b].invited[t] <= s.bgs[b].invited[t]
    <2>1. s.bgs[b].invited[t] = Cardinality(Invitees(s, b, t)) + Cardinality(Players(d, b, t))
      BY <1>2 DEF Counted
    <2>2. Cardinality(Invitees(s, b, t)) \in Nat /\ Cardinality(Players(d, b, t)) \in Nat
      BY CountsAreFinite
    <2>3. x.bgs[b].invited[t] = IF s.bgs[b].invited[t] > n[b][t]
                                THEN s.bgs[b].invited[t] - n[b][t] ELSE 0
      BY <1>3, <1>7
    <2>4. Cardinality(Invitees(x, b, t)) = Cardinality(Invitees(s, b, t)) - n[b][t]
      BY <1>5, <1>8
    <2>. DEFINE I == Cardinality(Invitees(s, b, t))  P == Cardinality(Players(d, b, t))  N == n[b][t]
    <2>5. I \in Nat /\ P \in Nat /\ N \in Nat /\ I >= N
      BY <1>5, <2>2
    <2>. HIDE DEF I, P, N
    <2>6. x.bgs[b].invited[t] = IF I + P > N THEN (I + P) - N ELSE 0
      BY <2>1, <2>3 DEF I, P, N
    <2>7. x.bgs[b].invited[t] = (I - N) + P /\ (I - N) + P <= I + P
      BY <2>5, <2>6
    <2>. QED  BY <2>1, <2>4, <2>7 DEF I, P, N
  <1>10. \A b \in Battlegrounds, t \in Teams : s.bgs[b].invited[t] \in Nat /\ x.bgs[b].invited[t] \in Nat
    BY <1>2, <1>7 DEF Realms, Instance
  <1>11. Vacant(x)
    <2>. SUFFICES ASSUME NEW b \in Battlegrounds, x.bgs[b].status = "none", NEW t \in Teams
                  PROVE  x.bgs[b].invited[t] = 0
      BY DEF Vacant
    <2>1. s.bgs[b].invited[t] = 0
      BY <1>2, <1>3, <1>7 DEF Vacant
    <2>. QED  BY <1>9, <1>10, <2>1
  <1>12. Seated(x)
    BY <1>2, <1>9, <1>10, BattlegroundAssumption DEF Seated
  <1>13. Counted(x, d)
    BY <1>9 DEF Counted
  <1>. QED  BY <1>3, <1>7, <1>8, <1>11, <1>12, <1>13 DEF Sound

(* A battleground that players leave counts them no longer. *)
LEMMA PlayersLeave ==
  ASSUME NEW s, Sound(s, bgData), bgData \in [Fighters -> Places], NEW ps \in SUBSET Fighters, NEW d,
         \A p \in Fighters : d[p].bg = IF p \in ps THEN NoBG ELSE bgData[p].bg,
         NEW x, x = DecreaseInvited(s, CountsOf(ps))
  PROVE  /\ Sound(x, d) /\ x.queued = s.queued /\ x.timers = s.timers /\ x.aborted = s.aborted
         /\ \A b \in Battlegrounds : /\ x.bgs[b].status = s.bgs[b].status
                                     /\ x.bgs[b].players = s.bgs[b].players
  <1>. DEFINE n == CountsOf(ps)
  <1>2. s \in Realms /\ Sided(s) /\ Unique(s) /\ Counted(s, bgData) /\ Vacant(s) /\ Seated(s)
    BY DEF Sound
  <1>4. ASSUME NEW b \in Battlegrounds, NEW t \in Teams
        PROVE  /\ n[b][t] = Cardinality(Players(bgData, b, t) \cap ps)
               /\ Players(d, b, t) = Players(bgData, b, t) \ ps
    <2>1. {p \in ps : Side[p] = t /\ bgData[p].bg = b} = Players(bgData, b, t) \cap ps
      BY DEF Players
    <2>2. Players(d, b, t) = Players(bgData, b, t) \ ps
      BY BattlegroundAssumption DEF Players
    <2>. QED  BY <2>1, <2>2 DEF CountsOf
  <1>5. ASSUME NEW b \in Battlegrounds, NEW t \in Teams
        PROVE  /\ n[b][t] \in Nat
               /\ Cardinality(Players(bgData, b, t)) >= n[b][t]
               /\ Cardinality(Players(d, b, t)) = Cardinality(Players(bgData, b, t)) - n[b][t]
    <2>. DEFINE I == Players(bgData, b, t)
    <2>1. IsFiniteSet(I) /\ Cardinality(I) \in Nat
      BY CountsAreFinite
    <2>. HIDE DEF I
    <2>2. Cardinality(I \ ps) = Cardinality(I) - Cardinality(I \cap ps)
          /\ Cardinality(I \cap ps) <= Cardinality(I) /\ IsFiniteSet(I \cap ps)
      BY <2>1, FS_Difference, FS_Intersection
    <2>3. Cardinality(I \cap ps) \in Nat
      BY <2>2, FS_CardinalityType
    <2>4. n[b][t] = Cardinality(I \cap ps) /\ Players(d, b, t) = I \ ps
      BY <1>4 DEF I
    <2>. HIDE DEF n
    <2>5. /\ n[b][t] \in Nat /\ Cardinality(I) >= n[b][t]
          /\ Cardinality(Players(d, b, t)) = Cardinality(I) - n[b][t]
      BY <2>1, <2>2, <2>3, <2>4
    <2>. QED  BY <2>5 DEF I
  <1>6. n \in [Battlegrounds -> [Teams -> Nat]]
    <2>1. n = [b \in Battlegrounds |-> [t \in Teams |-> n[b][t]]]
      BY DEF CountsOf
    <2>. HIDE DEF n
    <2>. QED  BY <1>5, <2>1
  <1>. HIDE DEF n
  <1>7. /\ x \in Realms
        /\ x.queued = s.queued /\ x.timers = s.timers /\ x.aborted = s.aborted
        /\ \A b \in Battlegrounds : /\ x.bgs[b].status = s.bgs[b].status
                                    /\ x.bgs[b].players = s.bgs[b].players
        /\ \A b \in Battlegrounds, t \in Teams :
               x.bgs[b].invited[t] = IF s.bgs[b].invited[t] > n[b][t]
                                     THEN s.bgs[b].invited[t] - n[b][t] ELSE 0
    <2>1. x = DecreaseInvited(s, n)
      BY DEF n
    <2>. QED  BY <1>2, <1>6, <2>1, DecreaseInvitedDoes
  <1>8. (\A b, t : Invitees(x, b, t) = Invitees(s, b, t)) /\ Sided(x) /\ Unique(x)
    BY <1>2, <1>7, QueuesDecide
  <1>9. ASSUME NEW b \in Battlegrounds, NEW t \in Teams
        PROVE  /\ x.bgs[b].invited[t] = Cardinality(Invitees(x, b, t)) + Cardinality(Players(d, b, t))
               /\ x.bgs[b].invited[t] <= s.bgs[b].invited[t]
    <2>1. s.bgs[b].invited[t] = Cardinality(Invitees(s, b, t)) + Cardinality(Players(bgData, b, t))
      BY <1>2 DEF Counted
    <2>2. Cardinality(Invitees(s, b, t)) \in Nat /\ Cardinality(Players(bgData, b, t)) \in Nat
      BY CountsAreFinite
    <2>3. x.bgs[b].invited[t] = IF s.bgs[b].invited[t] > n[b][t]
                                THEN s.bgs[b].invited[t] - n[b][t] ELSE 0
      BY <1>7
    <2>4. Cardinality(Invitees(x, b, t)) = Cardinality(Invitees(s, b, t))
      BY <1>8
    <2>. QED  BY <1>5, <2>1, <2>2, <2>3, <2>4
  <1>10. \A b \in Battlegrounds, t \in Teams : s.bgs[b].invited[t] \in Nat /\ x.bgs[b].invited[t] \in Nat
    BY <1>2, <1>7 DEF Realms, Instance
  <1>11. Vacant(x)
    <2>. SUFFICES ASSUME NEW b \in Battlegrounds, x.bgs[b].status = "none", NEW t \in Teams
                  PROVE  x.bgs[b].invited[t] = 0
      BY DEF Vacant
    <2>1. s.bgs[b].invited[t] = 0
      BY <1>2, <1>7 DEF Vacant
    <2>. QED  BY <1>9, <1>10, <2>1
  <1>12. Seated(x)
    BY <1>2, <1>9, <1>10, BattlegroundAssumption DEF Seated
  <1>13. Counted(x, d)
    BY <1>9 DEF Counted
  <1>. QED  BY <1>7, <1>8, <1>11, <1>12, <1>13 DEF Sound

(* What Sound says depends on the queues, the invited counts and the battlegrounds of the players. *)
LEMMA SoundFrame ==
  ASSUME NEW s, NEW d, Sound(s, d), NEW x \in Realms, x.queued = s.queued, Vacant(x), NEW e,
         \A b \in Battlegrounds, t \in Teams : x.bgs[b].invited[t] = s.bgs[b].invited[t],
         \A p \in Fighters : e[p].bg = d[p].bg
  PROVE  Sound(x, e)
  <1>1. (\A b, t : Invitees(x, b, t) = Invitees(s, b, t)) /\ Sided(x) /\ Unique(x)
    BY QueuesDecide DEF Sound
  <1>2. \A b, t : Players(e, b, t) = Players(d, b, t)
    BY DEF Players
  <1>3. Counted(x, e) /\ Seated(x)
    BY <1>1, <1>2 DEF Sound, Counted, Seated
  <1>. QED  BY <1>1, <1>3 DEF Sound

(* A battleground that a player comes to counts him. *)
LEMMA PlayerComes ==
  ASSUME NEW s, NEW d, Sound(s, d), NEW p \in Fighters, NEW b \in Battlegrounds,
         s.bgs[b].status # "none", s.bgs[b].invited[Side[p]] < MaxPerTeam,
         d[p].bg \notin Battlegrounds, NEW e, e[p].bg = b,
         \A r \in Fighters \ {p} : e[r].bg = d[r].bg,
         NEW x, x = [s EXCEPT !.bgs[b].invited[Side[p]] = @ + 1]
  PROVE  Sound(x, e) /\ x.queued = s.queued /\ x.aborted = s.aborted
  <1>1. s \in Realms /\ Sided(s) /\ Unique(s) /\ Counted(s, d) /\ Vacant(s) /\ Seated(s)
    BY DEF Sound
  <1>2. Side[p] \in Teams
    BY BattlegroundAssumption
  <1>. DEFINE inv == [s.bgs[b].invited EXCEPT ![Side[p]] = s.bgs[b].invited[Side[p]] + 1]
              inst == [s.bgs[b] EXCEPT !.invited = inv]
              g == [s.bgs EXCEPT ![b] = inst]
  <1>3. x = [s EXCEPT !.bgs = g]
    OBVIOUS
  <1>4. s.bgs \in [Battlegrounds -> Instance] /\ s.bgs[b] \in Instance /\ s.bgs[b].invited \in [Teams -> Nat]
    BY <1>1 DEF Realms, Instance
  <1>5. inv \in [Teams -> Nat] /\ \A t \in Teams :
           inv[t] = IF t = Side[p] THEN s.bgs[b].invited[t] + 1 ELSE s.bgs[b].invited[t]
    BY <1>2, <1>4
  <1>. HIDE DEF inv
  <1>6. inst \in Instance /\ inst.invited = inv /\ inst.status = s.bgs[b].status
    BY <1>4, <1>5 DEF Instance
  <1>. HIDE DEF inst
  <1>7. g \in [Battlegrounds -> Instance] /\ \A c \in Battlegrounds : g[c] = IF c = b THEN inst ELSE s.bgs[c]
    BY <1>4, <1>6
  <1>. HIDE DEF g
  <1>8. x \in Realms /\ x.bgs = g /\ x.queued = s.queued /\ x.aborted = s.aborted
    BY <1>1, <1>3, <1>7 DEF Realms
  <1>9. (\A c, t : Invitees(x, c, t) = Invitees(s, c, t)) /\ Sided(x) /\ Unique(x)
    <2>1. x.queued = s.queued /\ Sided(s) /\ Unique(s)
      BY <1>1, <1>8
    <2>2. (\A c, t : Invitees(x, c, t) = Invitees(s, c, t)) /\ (Sided(x) <=> Sided(s)) /\ (Unique(x) <=> Unique(s))
      BY ONLY <2>1, QueuesDecide
    <2>. QED  BY <2>1, <2>2, Zenon
  <1>10. \A c \in Battlegrounds, t \in Teams :
            x.bgs[c].invited[t] = IF c = b /\ t = Side[p] THEN s.bgs[c].invited[t] + 1 ELSE s.bgs[c].invited[t]
    <2>. TAKE c \in Battlegrounds, t \in Teams
    <2>1. x.bgs[c] = IF c = b THEN inst ELSE s.bgs[c]
      BY <1>7, <1>8
    <2>2. c = b => x.bgs[c].invited[t] = inv[t]
      BY <1>6, <2>1
    <2>. QED  BY <1>5, <2>1, <2>2
  <1>11. ASSUME NEW c \in Battlegrounds, NEW t \in Teams
         PROVE  Cardinality(Players(e, c, t)) = IF c = b /\ t = Side[p]
                                                THEN Cardinality(Players(d, c, t)) + 1
                                                ELSE Cardinality(Players(d, c, t))
    <2>1. CASE c = b /\ t = Side[p]
      <3>1. Players(e, c, t) = Players(d, c, t) \cup {p} /\ p \notin Players(d, c, t)
        BY <2>1 DEF Players
      <3>2. IsFiniteSet(Players(d, c, t))
        BY CountsAreFinite, Zenon
      <3>3. Cardinality(Players(d, c, t) \cup {p}) =
               IF p \in Players(d, c, t) THEN Cardinality(Players(d, c, t)) ELSE Cardinality(Players(d, c, t)) + 1
        BY <3>2, FS_AddElement, Zenon
      <3>. QED  BY <2>1, <3>1, <3>3, Zenon
    <2>2. CASE ~(c = b /\ t = Side[p])
      <3>1. Players(e, c, t) = Players(d, c, t)
        BY <2>2 DEF Players
      <3>. QED  BY <2>2, <3>1
    <2>. QED  BY <2>1, <2>2
  <1>12. Counted(x, e)
    <2>. SUFFICES ASSUME NEW c \in Battlegrounds, NEW t \in Teams
                  PROVE  x.bgs[c].invited[t] = Cardinality(Invitees(x, c, t)) + Cardinality(Players(e, c, t))
      BY DEF Counted
    <2>1. s.bgs[c].invited[t] = Cardinality(Invitees(s, c, t)) + Cardinality(Players(d, c, t))
      BY <1>1 DEF Counted
    <2>2. Cardinality(Invitees(s, c, t)) \in Nat /\ Cardinality(Players(d, c, t)) \in Nat
      BY CountsAreFinite
    <2>. DEFINE I == Cardinality(Invitees(s, c, t))  P == Cardinality(Players(d, c, t))
                Q == Cardinality(Players(e, c, t))
    <2>3. Cardinality(Invitees(x, c, t)) = I
      BY <1>9
    <2>4. Q = IF c = b /\ t = Side[p] THEN P + 1 ELSE P
      BY <1>11
    <2>. HIDE DEF I, P, Q
    <2>5. x.bgs[c].invited[t] = I + Q
      BY <1>10, <2>1, <2>2, <2>4 DEF I, P
    <2>. QED  BY <2>3, <2>5 DEF Q
  <1>13. Vacant(x)
    BY <1>1, <1>6, <1>7, <1>8, <1>10 DEF Vacant
  <1>14. Seated(x)
    <2>. SUFFICES ASSUME NEW c \in Battlegrounds, NEW t \in Teams PROVE x.bgs[c].invited[t] <= MaxPerTeam
      BY DEF Seated
    <2>1. s.bgs[c].invited[t] <= MaxPerTeam /\ s.bgs[c].invited[t] \in Nat
      BY <1>1 DEF Seated, Realms, Instance
    <2>. QED  BY <1>10, <2>1, BattlegroundAssumption
  <1>. QED  BY <1>8, <1>9, <1>12, <1>13, <1>14 DEF Sound

(* A group enters a queue, or the assertion that nobody of it waits there fails. *)
LEMMA AddGroupDoes ==
  ASSUME NEW s, NEW d, Sound(s, d), NEW q \in BGTypes, NEW rank \in Ranks,
         NEW members \in SUBSET Fighters, members # {},
         \A p, r \in members : Side[p] = Side[r], NEW x, x = AddGroup(s, members, q, rank)
  PROVE  /\ Sound(x, d)
         /\ \/ x.aborted
            \/ /\ x.aborted = s.aborted
               /\ \A p \in Fighters, k \in BGTypes :
                    InQueue(x, p, k) <=> InQueue(s, p, k) \/ (k = q /\ p \in members)
         /\ (\E p \in members : InQueue(s, p, q)) => x.aborted
         /\ (\A p \in members : ~InQueue(s, p, q)) => x.aborted = s.aborted
  <1>1. s \in Realms /\ Sided(s) /\ Unique(s) /\ Counted(s, d) /\ Vacant(s) /\ Seated(s)
    BY DEF Sound
  <1>2. CASE \E p \in members : InQueue(s, p, q)
    <2>1. x = [s EXCEPT !.aborted = TRUE]
      BY <1>2 DEF AddGroup
    <2>2. x \in Realms /\ x.queued = s.queued /\ x.bgs = s.bgs /\ x.aborted
      BY <1>1, <2>1 DEF Realms
    <2>3. Vacant(x)
      BY <1>1, <2>2 DEF Vacant
    <2>4. Sound(x, d)
      BY <2>2, <2>3, SoundFrame
    <2>. QED  BY <1>2, <2>2, <2>4
  <1>3. CASE ~\E p \in members : InQueue(s, p, q)
    <2>. DEFINE m == CHOOSE p \in members : TRUE
                team == Side[m]
                ginfo == [players |-> members, bg |-> NoBG, stamp |-> 0]
                l == [s.queued[q][rank] EXCEPT ![team] = Append(s.queued[q][rank][team], ginfo)]
                k == [s.queued[q] EXCEPT ![rank] = l]
                z == [s.queued EXCEPT ![q] = k]
    <2>1. x = [s EXCEPT !.queued = z]
      BY <1>3 DEF AddGroup
    <2>2. m \in members /\ team \in Teams /\ ginfo \in Group /\ \A p \in members : Side[p] = team
      BY BattlegroundAssumption DEF Group
    <2>. HIDE DEF team
    <2>3. s.queued \in [BGTypes -> Lists] /\ s.queued[q] \in Lists
          /\ s.queued[q][rank] \in [Teams -> Seq(Group)] /\ s.queued[q][rank][team] \in Seq(Group)
      BY <1>1, <2>2 DEF Realms, Lists
    <2>4. ginfo.players = members /\ ginfo.bg = NoBG
      OBVIOUS
    <2>. HIDE DEF ginfo
    <2>5. /\ Append(s.queued[q][rank][team], ginfo) \in Seq(Group)
          /\ Range(Append(s.queued[q][rank][team], ginfo)) = Range(s.queued[q][rank][team]) \cup {ginfo}
      <3>. DEFINE a == s.queued[q][rank][team]  b == Append(a, ginfo)
      <3>1. a \in Seq(Group)
        BY <2>3
      <3>. HIDE DEF a
      <3>2. b \in Seq(Group) /\ Len(b) = Len(a) + 1 /\ Len(a) \in Nat /\ b[Len(a) + 1] = ginfo
            /\ \A i \in 1..Len(a) : b[i] = a[i]
        BY <2>2, <3>1, AppendProperties, LenProperties
      <3>3. DOMAIN a = 1..Len(a) /\ DOMAIN b = 1..(Len(a) + 1)
        BY <3>1, <3>2, LenProperties
      <3>. HIDE DEF b
      <3>4. Range(b) = Range(a) \cup {ginfo}
        BY <3>2, <3>3 DEF Range
      <3>. QED  BY <3>2, <3>4 DEF a, b
    <2>. DEFINE ap == Append(s.queued[q][rank][team], ginfo)
    <2>. HIDE DEF ap
    <2>6. l \in [Teams -> Seq(Group)] /\ \A t \in Teams :
             l[t] = IF t = team THEN ap ELSE s.queued[q][rank][t]
      BY <2>2, <2>3, <2>5 DEF ap
    <2>. HIDE DEF l
    <2>7. k \in Lists /\ \A r \in Ranks : k[r] = IF r = rank THEN l ELSE s.queued[q][r]
      BY <2>3, <2>6 DEF Lists
    <2>. HIDE DEF k
    <2>8. z \in [BGTypes -> Lists] /\ \A c \in BGTypes : z[c] = IF c = q THEN k ELSE s.queued[c]
      BY <2>3, <2>7
    <2>. HIDE DEF z
    <2>9. x \in Realms /\ x.queued = z /\ x.bgs = s.bgs /\ x.aborted = s.aborted
      BY <1>1, <2>1, <2>8 DEF Realms
    <2>10. \A c \in BGTypes, r \in Ranks, t \in Teams :
             Range(x.queued[c][r][t]) = Range(s.queued[c][r][t]) \cup
                (IF c = q /\ r = rank /\ t = team THEN {ginfo} ELSE {})
      BY <2>5, <2>6, <2>7, <2>8, <2>9 DEF ap
    <2>11. \A c \in BGTypes, t \in Teams : \A g :
             g \in OfTeam(x, c, t) <=> g \in OfTeam(s, c, t) \/ (c = q /\ t = team /\ g = ginfo)
      <3>. TAKE c \in BGTypes, t \in Teams
      <3>. TAKE g
      <3>1. g \in OfTeam(x, c, t) <=> \E r \in Ranks : g \in Range(x.queued[c][r][t])
        BY DEF OfTeam
      <3>2. g \in OfTeam(s, c, t) <=> \E r \in Ranks : g \in Range(s.queued[c][r][t])
        BY DEF OfTeam
      <3>3. \A r \in Ranks : g \in Range(x.queued[c][r][t]) <=>
               g \in Range(s.queued[c][r][t]) \/ (c = q /\ r = rank /\ t = team /\ g = ginfo)
        BY <2>10
      <3>. QED  BY <3>1, <3>2, <3>3
    <2>12. \A c \in BGTypes : \A g :
             g \in GroupsIn(x, c) <=> g \in GroupsIn(s, c) \/ (c = q /\ g = ginfo)
      BY <2>2, <2>11, QueueOfTeams
    <2>13. \A p \in Fighters, c \in BGTypes :
             InQueue(x, p, c) <=> InQueue(s, p, c) \/ (c = q /\ p \in members)
      BY <2>4, <2>12 DEF InQueue
    <2>14. Sided(x)
      BY <1>1, <2>2, <2>4, <2>11 DEF Sided
    <2>15. Unique(x)
      <3>. SUFFICES ASSUME NEW c \in BGTypes, NEW g \in GroupsIn(x, c), NEW h \in GroupsIn(x, c),
                           g.players \cap h.players # {}
                    PROVE  g = h
        BY DEF Unique
      <3>1. CASE g \in GroupsIn(s, c) /\ h \in GroupsIn(s, c)
        BY <1>1, <3>1 DEF Unique
      <3>2. ASSUME c = q, NEW f \in GroupsIn(s, q) PROVE f.players \cap ginfo.players = {}
        BY <1>3, <2>4 DEF InQueue
      <3>. QED  BY <2>12, <3>1, <3>2
    <2>16. ASSUME NEW b \in Battlegrounds, NEW t PROVE Invitees(x, b, t) = Invitees(s, b, t)
      <3>1. ASSUME NEW pq \in Fighters \X BGTypes
            PROVE  (\E g \in GroupsIn(x, pq[2]) : pq[1] \in g.players /\ g.bg = b) <=>
                      (\E g \in GroupsIn(s, pq[2]) : pq[1] \in g.players /\ g.bg = b)
        BY <2>4, <2>12, BattlegroundAssumption
      <3>. QED  BY <3>1 DEF Invitees
    <2>17. Counted(x, d)
      BY <1>1, <2>9, <2>16 DEF Counted
    <2>18. Vacant(x) /\ Seated(x)
      BY <1>1, <2>9 DEF Vacant, Seated
    <2>. QED  BY <1>3, <2>9, <2>13, <2>14, <2>15, <2>17, <2>18 DEF Sound
  <1>. QED  BY <1>2, <1>3

-----------------------------------------------------------------------------
(* The operations of players and instances keep the invariant. *)

(* What the invariant says before a step. *)
LEMMA BGInvSays ==
  ASSUME BGInv, ~aborted
  PROVE  /\ Sound(Realm, bgData) /\ Realm \in Realms
         /\ Realm.queued = queued /\ Realm.bgs = bgs /\ Realm.timers = timers /\ Realm.aborted = aborted
         /\ bgData \in [Fighters -> Places] /\ queueSlots \in [Fighters -> SUBSET BGTypes]
         /\ \A p \in Fighters, q \in BGTypes : q \in queueSlots[p] <=> InQueue(Realm, p, q)
         /\ \A p \in Fighters : bgData[p].bg # NoBG => queueSlots[p] = {}
         /\ ~Realm.aborted
  <1>1. Realm.queued = queued /\ Realm.bgs = bgs /\ Realm.timers = timers /\ Realm.aborted = aborted
    BY DEF Realm
  <1>2. /\ \A p \in Fighters, q \in BGTypes : q \in queueSlots[p] <=> InQueue(Realm, p, q)
        /\ \A p \in Fighters : bgData[p].bg # NoBG => queueSlots[p] = {}
    BY DEF BGInv, SlotsMatch, InBattleground
  <1>. QED  BY <1>1, <1>2 DEF BGInv, Sound

(* What a step has to show for the invariant to hold after it. *)
LEMMA BGInvConcludes ==
  ASSUME NEW x, Sound(x, bgData'), Become(x),
         bgData' \in [Fighters -> Places], queueSlots' \in [Fighters -> SUBSET BGTypes],
         \/ x.aborted
         \/ \A p \in Fighters : /\ \A q \in BGTypes : q \in queueSlots'[p] <=> InQueue(x, p, q)
                                /\ bgData'[p].bg # NoBG => queueSlots'[p] = {}
  PROVE  BGInv'
  <1>1. Sound(Realm, bgData)' /\ Realm' = x
    BY SoundBecomes
  <1>2. aborted' = x.aborted
    BY DEF Become
  <1>3. SlotsMatch'
    BY <1>1, <1>2 DEF SlotsMatch, InBattleground
  <1>. QED  BY <1>1, <1>3 DEF BGInv

(* A player without a slot for the queue waits in no group of it. *)
LEMMA JoinAloneKeeps ==
  ASSUME BGInv, ~aborted, NEW p \in Fighters, NEW q \in BGTypes, JoinAlone(p, q)
  PROVE  BGInv'
  <1>. DEFINE x == AddGroup(Realm, {p}, q, "normal")
  <1>1. /\ bgData[p].bg = NoBG /\ q \notin queueSlots[p] /\ Become(x)
        /\ queueSlots' = [queueSlots EXCEPT ![p] = queueSlots[p] \cup {q}] /\ bgData' = bgData
    BY DEF JoinAlone, InBattleground
  <1>2. Sound(Realm, bgData) /\ "normal" \in Ranks /\ {p} \in SUBSET Fighters /\ {p} # {}
    BY BGInvSays, TeamsAre
  <1>. HIDE DEF x
  <1>3. /\ Sound(x, bgData)
        /\ (\A r \in {p} : ~InQueue(Realm, r, q)) => x.aborted = Realm.aborted
        /\ \/ x.aborted
           \/ \A r \in Fighters, k \in BGTypes :
                 InQueue(x, r, k) <=> InQueue(Realm, r, k) \/ (k = q /\ r \in {p})
    <2>1. \A a, b \in {p} : Side[a] = Side[b]
      OBVIOUS
    <2>2. x = AddGroup(Realm, {p}, q, "normal")
      BY DEF x
    <2>. QED  BY ONLY <1>2, <2>1, <2>2, AddGroupDoes, q \in BGTypes
  <1>4. queueSlots' \in [Fighters -> SUBSET BGTypes]
        /\ \A r \in Fighters : queueSlots'[r] = IF r = p THEN queueSlots[p] \cup {q} ELSE queueSlots[r]
    BY <1>1, BGInvSays
  <1>5. \/ x.aborted
        \/ \A r \in Fighters : /\ \A k \in BGTypes : k \in queueSlots'[r] <=> InQueue(x, r, k)
                               /\ bgData'[r].bg # NoBG => queueSlots'[r] = {}
    BY <1>1, <1>3, <1>4, BGInvSays
  <1>. QED  BY <1>1, <1>3, <1>4, <1>5, BGInvConcludes, BGInvSays

(* Leaving takes the slot, the place in the queue and the invitation. *)
LEMMA LeaveQueueKeeps ==
  ASSUME BGInv, ~aborted, NEW p \in Fighters, NEW q \in BGTypes, LeaveQueue(p, q)
  PROVE  BGInv'
  <1>. DEFINE x == RemovePlayers(Realm, {<<p, q>>})
  <1>1. /\ InQueue(Realm, p, q) /\ Become(x) /\ bgData' = bgData
        /\ queueSlots' = [queueSlots EXCEPT ![p] = queueSlots[p] \ {q}]
    BY DEF LeaveQueue
  <1>. DEFINE pairs == {<<p, q>>}
  <1>2. pairs \in SUBSET (Fighters \X BGTypes) /\ \A pq \in pairs : InQueue(Realm, pq[1], pq[2])
    BY <1>1
  <1>3. /\ Sound(x, bgData)
        /\ \A r \in Fighters, k \in BGTypes :
              InQueue(x, r, k) <=> InQueue(Realm, r, k) /\ <<r, k>> \notin pairs
    <2>1. x = RemovePlayers(Realm, pairs) /\ Sound(Realm, bgData)
      BY BGInvSays
    <2>. HIDE DEF x, pairs
    <2>. QED  BY ONLY <1>2, <2>1, RemovePlayersDoes
  <1>. HIDE DEF x
  <1>4. queueSlots' \in [Fighters -> SUBSET BGTypes]
        /\ \A r \in Fighters : queueSlots'[r] = IF r = p THEN queueSlots[p] \ {q} ELSE queueSlots[r]
    BY <1>1, BGInvSays
  <1>5. \A r \in Fighters : /\ \A k \in BGTypes : k \in queueSlots'[r] <=> InQueue(x, r, k)
                            /\ bgData'[r].bg # NoBG => queueSlots'[r] = {}
    BY <1>1, <1>3, <1>4, BGInvSays
  <1>. QED  BY <1>1, <1>3, <1>4, <1>5, BGInvConcludes, BGInvSays

(* An expired invitation either matches and is a leave, or changes nothing. *)
LEMMA ExpireKeeps ==
  ASSUME BGInv, ~aborted, NEW tm \in timers, Expire(tm)
  PROVE  BGInv'
  <1>. DEFINE p == tm.player  q == tm.type
              s == [Realm EXCEPT !.timers = timers \ {tm}]
              matches == /\ q \in queueSlots[p] /\ InQueue(s, p, q)
                         /\ GroupOf(s, p, q).bg = tm.bg /\ GroupOf(s, p, q).stamp = tm.stamp
              x == IF matches THEN RemovePlayers(s, {<<p, q>>}) ELSE s
  <1>1. /\ Become(x) /\ bgData' = bgData
        /\ queueSlots' = [queueSlots EXCEPT ![p] = IF matches THEN queueSlots[p] \ {q} ELSE queueSlots[p]]
    BY BGInvSays DEF Expire
  <1>2. p \in Fighters /\ q \in BGTypes
    BY BGInvSays DEF Realms, Timer
  <1>3. s \in Realms /\ s.queued = queued /\ s.bgs = bgs /\ s.aborted = aborted
    BY BGInvSays DEF Realms
  <1>. HIDE DEF s, p, q
  <1>4. Sound(s, bgData) /\ \A r, k : InQueue(s, r, k) <=> InQueue(Realm, r, k)
    <2>1. Vacant(s)
      BY <1>3, BGInvSays DEF Sound, Vacant
    <2>2. Sound(s, bgData)
      BY <1>3, <2>1, BGInvSays, SoundFrame
    <2>. QED  BY <1>3, <2>2, BGInvSays, QueuesDecide
  <1>5. CASE matches
    <2>. DEFINE y == RemovePlayers(s, {<<p, q>>})
    <2>. DEFINE pairs == {<<p, q>>}
    <2>1. pairs \in SUBSET (Fighters \X BGTypes) /\ \A pq \in pairs : InQueue(s, pq[1], pq[2])
      BY <1>2, <1>5
    <2>2. /\ Sound(y, bgData)
          /\ \A r \in Fighters, k \in BGTypes :
                InQueue(y, r, k) <=> InQueue(s, r, k) /\ <<r, k>> \notin pairs
      <3>1. y = RemovePlayers(s, pairs) /\ Sound(s, bgData)
        BY <1>4
      <3>. HIDE DEF y, pairs
      <3>. QED  BY ONLY <2>1, <3>1, RemovePlayersDoes
    <2>3. Become(y)
      BY <1>1, <1>5
    <2>. HIDE DEF y
    <2>4. queueSlots' \in [Fighters -> SUBSET BGTypes]
          /\ \A r \in Fighters : queueSlots'[r] = IF r = p THEN queueSlots[p] \ {q} ELSE queueSlots[r]
      BY <1>1, <1>2, <1>5, BGInvSays
    <2>5. \A r \in Fighters : /\ \A k \in BGTypes : k \in queueSlots'[r] <=> InQueue(y, r, k)
                              /\ bgData'[r].bg # NoBG => queueSlots'[r] = {}
      BY <1>1, <1>2, <1>4, <2>2, <2>4, BGInvSays
    <2>. QED  BY <1>1, <2>2, <2>3, <2>4, <2>5, BGInvConcludes, BGInvSays
  <1>6. CASE ~matches
    <2>1. Become(s) /\ queueSlots' = queueSlots
      BY <1>1, <1>6, BGInvSays
    <2>. QED  BY <1>1, <1>4, <2>1, BGInvConcludes, BGInvSays
  <1>. QED  BY <1>5, <1>6

(* A group joins after its members have left the queues their leader is not in. *)
LEMMA JoinAsGroupKeeps ==
  ASSUME BGInv, ~aborted, NEW leader \in Fighters, NEW members \in SUBSET Fighters,
         NEW q \in BGTypes, JoinAsGroup(leader, members, q)
  PROVE  BGInv'
  <1>. DEFINE left    == [p \in members |-> queueSlots[p] \ queueSlots[leader]]
              pairs   == UNION {{p} \X left[p] : p \in members}
              cleared == RemovePlayers(Realm, pairs)
              mayJoin == /\ Cardinality(members) <= MaxGroupSize
                         /\ \A p \in members : /\ Side[p] = Side[leader] /\ ~InBattleground(p)
                                               /\ Cardinality(queueSlots[p] \ left[p]) < MaxSlots
              rank    == IF Cardinality(members) >= MinPerTeam THEN "premade" ELSE "normal"
              joined  == AddGroup(cleared, members, q, rank)
              slots   == [p \in Fighters |->
                            IF p \notin members THEN queueSlots[p]
                            ELSE (queueSlots[p] \ left[p]) \cup (IF mayJoin THEN {q} ELSE {})]
  <1>1. /\ leader \in members /\ Become(IF mayJoin THEN joined ELSE cleared)
        /\ queueSlots' = slots /\ bgData' = bgData
    BY DEF JoinAsGroup
  <1>2. \A p \in Fighters, k \in BGTypes :
           <<p, k>> \in pairs <=> p \in members /\ k \in queueSlots[p] /\ k \notin queueSlots[leader]
    OBVIOUS
  <1>3. pairs \in SUBSET (Fighters \X BGTypes)
    BY BGInvSays
  <1>4. \A p \in members : left[p] = queueSlots[p] \ queueSlots[leader]
    OBVIOUS
  <1>5. rank \in Ranks
    BY TeamsAre
  <1>. HIDE DEF pairs, rank, left
  <1>6. \A pq \in pairs : InQueue(Realm, pq[1], pq[2])
    <2>1. \A pq \in pairs : pq[1] \in Fighters /\ pq[2] \in BGTypes /\ pq = <<pq[1], pq[2]>>
      BY <1>3
    <2>. QED  BY <1>2, <2>1, BGInvSays
  <1>7. /\ Sound(cleared, bgData) /\ cleared.aborted = Realm.aborted
        /\ \A r \in Fighters, k \in BGTypes :
              InQueue(cleared, r, k) <=> InQueue(Realm, r, k) /\ <<r, k>> \notin pairs
    <2>1. cleared = RemovePlayers(Realm, pairs) /\ Sound(Realm, bgData)
      BY BGInvSays
    <2>. HIDE DEF cleared
    <2>. QED  BY ONLY <1>3, <1>6, <2>1, RemovePlayersDoes
  <1>. HIDE DEF cleared
  <1>8. /\ slots \in [Fighters -> SUBSET BGTypes]
        /\ \A p \in Fighters \ members : slots[p] = queueSlots[p]
        /\ \A p \in members : slots[p] = (queueSlots[p] \cap queueSlots[leader])
                                            \cup (IF mayJoin THEN {q} ELSE {})
    <2>1. \A p \in members : queueSlots[p] \ left[p] = queueSlots[p] \cap queueSlots[leader]
      BY <1>4
    <2>2. \A p \in Fighters : queueSlots[p] \subseteq BGTypes
      BY BGInvSays
    <2>. HIDE DEF mayJoin
    <2>. QED  BY <2>1, <2>2
  <1>9. CASE mayJoin
    <2>1. Become(joined)
      BY <1>1, <1>9
    <2>2. (\A p \in members : Side[p] = Side[leader] /\ bgData[p].bg = NoBG) /\ members # {}
      BY <1>1, <1>9 DEF InBattleground
    <2>3. /\ Sound(joined, bgData)
          /\ \/ joined.aborted
             \/ \A r \in Fighters, k \in BGTypes :
                   InQueue(joined, r, k) <=> InQueue(cleared, r, k) \/ (k = q /\ r \in members)
      <3>1. joined = AddGroup(cleared, members, q, rank)
        OBVIOUS
      <3>2. \A a, b \in members : Side[a] = Side[b]
        BY <2>2
      <3>3. members # {}
        BY <2>2
      <3>4. q \in BGTypes /\ members \in SUBSET Fighters
        OBVIOUS
      <3>. HIDE DEF joined
      <3>. QED  BY ONLY <1>5, <1>7, <3>1, <3>2, <3>3, <3>4, AddGroupDoes
    <2>. HIDE DEF joined
    <2>4. \A p \in members : slots[p] = (queueSlots[p] \cap queueSlots[leader]) \cup {q}
      BY <1>8, <1>9
    <2>. HIDE DEF slots, mayJoin
    <2>5. \/ joined.aborted
          \/ \A r \in Fighters : /\ \A k \in BGTypes : k \in slots[r] <=> InQueue(joined, r, k)
                                 /\ bgData[r].bg # NoBG => slots[r] = {}
      <3>1. SUFFICES ASSUME ~joined.aborted, NEW r \in Fighters
                     PROVE  /\ \A k \in BGTypes : k \in slots[r] <=> InQueue(joined, r, k)
                            /\ bgData[r].bg # NoBG => slots[r] = {}
        OBVIOUS
      <3>2. CASE r \in members
        <4>1. ASSUME NEW k \in BGTypes PROVE k \in slots[r] <=> InQueue(joined, r, k)
          <5>1. InQueue(cleared, r, k) <=> k \in queueSlots[r] /\ k \in queueSlots[leader]
            BY <1>2, <1>7, <3>2, BGInvSays
          <5>2. InQueue(joined, r, k) <=> InQueue(cleared, r, k) \/ k = q
            BY <2>3, <3>1, <3>2
          <5>. QED  BY <2>4, <3>2, <5>1, <5>2
        <4>. QED  BY <2>2, <3>2, <4>1
      <3>3. CASE r \notin members
        BY <1>2, <1>7, <1>8, <2>3, <3>1, <3>3, BGInvSays
      <3>. QED  BY <3>2, <3>3
    <2>. QED  BY <1>1, <1>8, <2>1, <2>3, <2>5, BGInvConcludes, BGInvSays
  <1>10. CASE ~mayJoin
    <2>1. Become(cleared) /\ \A p \in members : slots[p] = queueSlots[p] \cap queueSlots[leader]
      BY <1>1, <1>8, <1>10
    <2>. HIDE DEF slots, mayJoin
    <2>2. ASSUME NEW r \in Fighters
          PROVE  /\ \A k \in BGTypes : k \in slots[r] <=> InQueue(cleared, r, k)
                 /\ bgData[r].bg # NoBG => slots[r] = {}
      <3>2. CASE r \in members
        <4>1. ASSUME NEW k \in BGTypes PROVE k \in slots[r] <=> InQueue(cleared, r, k)
          <5>1. InQueue(cleared, r, k) <=> k \in queueSlots[r] /\ k \in queueSlots[leader]
            BY <1>2, <1>7, <3>2, BGInvSays
          <5>. QED  BY <2>1, <3>2, <5>1
        <4>2. bgData[r].bg # NoBG => queueSlots[r] = {}
          BY BGInvSays
        <4>. QED  BY <2>1, <3>2, <4>1, <4>2
      <3>3. CASE r \notin members
        BY <1>2, <1>7, <1>8, <3>3, BGInvSays
      <3>. QED  BY <3>2, <3>3
    <2>. QED  BY <1>1, <1>7, <1>8, <2>1, <2>2, BGInvConcludes, BGInvSays
  <1>. QED  BY <1>9, <1>10

(* Accepting moves the player from one part of the count to the other. *)
LEMMA AcceptKeeps ==
  ASSUME BGInv, ~aborted, NEW p \in Fighters, NEW q \in BGTypes, Accept(p, q)
  PROVE  BGInv'
  <1>. DEFINE b == GroupOf(Realm, p, q).bg
              pairs == {p} \X queueSlots[p]
              s == RemovePlayers(Realm, pairs)
              y == DecreaseInvited(s, CountsOf({p}))
              x == [y EXCEPT !.bgs[b].invited[Side[p]] = @ + 1]
  <1>1. /\ queueSlots[p] # {} /\ InQueue(Realm, p, q) /\ b # NoBG /\ bgs[b].status # "none"
        /\ Become(SetBattlegroundId(s, p, b))
        /\ queueSlots' = [queueSlots EXCEPT ![p] = {}]
        /\ bgData' = [bgData EXCEPT ![p] = [bg |-> b, inside |-> FALSE]]
    BY DEF Accept
  <1>2. Become(x)
    BY <1>1 DEF SetBattlegroundId
  <1>3. bgData[p].bg = NoBG
    BY <1>1, BGInvSays
  <1>4. b \in Battlegrounds
    <2>1. Realm \in Realms /\ Unique(Realm)
      BY BGInvSays DEF Sound
    <2>2. GroupOf(Realm, p, q) \in GroupsIn(Realm, q)
      BY <1>1, <2>1, OneGroup
    <2>3. GroupOf(Realm, p, q) \in Group
      BY <2>1, <2>2, GroupsAre
    <2>. QED  BY <1>1, <2>3 DEF Group
  <1>5. <<p, q>> \in Invitees(Realm, b, Side[p])
    <2>1. Realm \in Realms /\ Unique(Realm)
      BY BGInvSays DEF Sound
    <2>. QED  BY <1>1, <2>1, InviteesAre
  <1>6. \A r \in Fighters, k \in BGTypes : <<r, k>> \in pairs <=> r = p /\ k \in queueSlots[p]
    OBVIOUS
  <1>7. pairs \in SUBSET (Fighters \X BGTypes)
    BY BGInvSays
  <1>. HIDE DEF pairs, b, x, y
  <1>8. \A pq \in pairs : InQueue(Realm, pq[1], pq[2])
    <2>1. \A pq \in pairs : pq[1] \in Fighters /\ pq[2] \in BGTypes /\ pq = <<pq[1], pq[2]>>
      BY <1>7
    <2>. QED  BY <1>6, <2>1, BGInvSays
  <1>9. /\ Sound(s, bgData) /\ \A c \in Battlegrounds : s.bgs[c].status = Realm.bgs[c].status
        /\ \A r \in Fighters, k \in BGTypes :
              InQueue(s, r, k) <=> InQueue(Realm, r, k) /\ <<r, k>> \notin pairs
        /\ \A c, t : Invitees(s, c, t) = Invitees(Realm, c, t) \ pairs
    <2>1. s = RemovePlayers(Realm, pairs) /\ Sound(Realm, bgData)
      BY BGInvSays
    <2>. HIDE DEF s
    <2>. QED  BY ONLY <1>7, <1>8, <2>1, RemovePlayersDoes
  <1>. HIDE DEF s
  <1>10. /\ Sound(y, bgData) /\ y.queued = s.queued
         /\ \A c \in Battlegrounds : y.bgs[c].status = s.bgs[c].status
    <2>1. {p} \in SUBSET Fighters /\ bgData \in [Fighters -> Places] /\ y = DecreaseInvited(s, CountsOf({p}))
      BY BGInvSays DEF y
    <2>2. \A r \in Fighters : bgData[r].bg = IF r \in {p} THEN NoBG ELSE bgData[r].bg
      BY <1>3
    <2>. QED  BY ONLY <1>9, <2>1, <2>2, PlayersLeave
  <1>11. y.bgs[b].invited[Side[p]] < MaxPerTeam
    <2>. DEFINE t == Side[p]  I == Invitees(Realm, b, t)
    <2>1. Side[p] \in Teams
      BY BattlegroundAssumption
    <2>2. Invitees(y, b, t) = I \ pairs
      BY <1>9, <1>10, QueuesDecide
    <2>3. q \in queueSlots[p]
      BY <1>1, BGInvSays
    <2>4. <<p, q>> \in I /\ <<p, q>> \in pairs
      BY <1>5, <1>6, <2>3
    <2>5. IsFiniteSet(I) /\ Cardinality(I) \in Nat /\ Cardinality(Players(bgData, b, t)) \in Nat
          /\ Cardinality(Invitees(y, b, t)) \in Nat
      BY CountsAreFinite
    <2>6. Cardinality(Invitees(y, b, t)) < Cardinality(I)
      <3>. HIDE DEF I
      <3>1. I \ pairs \in SUBSET I /\ I \ pairs # I
        BY <2>4
      <3>2. Cardinality(I \ pairs) <= Cardinality(I) /\ Cardinality(I) # Cardinality(I \ pairs)
        BY <2>5, <3>1, FS_Subset
      <3>. QED  BY <2>2, <2>5, <3>2
    <2>7. y.bgs[b].invited[t] = Cardinality(Invitees(y, b, t)) + Cardinality(Players(bgData, b, t))
      BY <1>4, <1>10, <2>1 DEF Sound, Counted
    <2>8. Realm.bgs[b].invited[t] = Cardinality(I) + Cardinality(Players(bgData, b, t))
          /\ Realm.bgs[b].invited[t] <= MaxPerTeam
      BY <1>4, <2>1, BGInvSays DEF Sound, Counted, Seated
    <2>. DEFINE m == Cardinality(Invitees(y, b, t))  n == Cardinality(I)
                k == Cardinality(Players(bgData, b, t))
    <2>. HIDE DEF m, n, k
    <2>9. m \in Nat /\ n \in Nat /\ k \in Nat /\ m < n /\ y.bgs[b].invited[t] = m + k /\ n + k <= MaxPerTeam
      BY <2>5, <2>6, <2>7, <2>8 DEF m, n, k
    <2>10. m + k < MaxPerTeam
      BY <2>9, BattlegroundAssumption
    <2>. QED  BY <2>9, <2>10
  <1>12. /\ \A r \in Fighters : bgData'[r] = IF r = p THEN [bg |-> b, inside |-> FALSE] ELSE bgData[r]
         /\ bgData' \in [Fighters -> Places]
    BY <1>1, <1>4, BGInvSays DEF Places
  <1>13. Sound(x, bgData') /\ x.queued = y.queued
    <2>1. bgData'[p].bg = b /\ \A r \in Fighters \ {p} : bgData'[r].bg = bgData[r].bg
      BY <1>12
    <2>2. x = [y EXCEPT !.bgs[b].invited[Side[p]] = @ + 1]
      BY DEF x
    <2>3. y.bgs[b].status # "none" /\ bgData[p].bg \notin Battlegrounds
      BY <1>1, <1>3, <1>4, <1>9, <1>10, BGInvSays, BattlegroundAssumption
    <2>4. p \in Fighters
      OBVIOUS
    <2>5. Sound(y, bgData)
      BY <1>10
    <2>. QED  BY ONLY <1>4, <1>11, <2>1, <2>2, <2>3, <2>4, <2>5, PlayerComes
  <1>14. \A r \in Fighters, k \in BGTypes :
            InQueue(x, r, k) <=> InQueue(Realm, r, k) /\ <<r, k>> \notin pairs
    BY <1>9, <1>10, <1>13, QueuesDecide
  <1>15. queueSlots' \in [Fighters -> SUBSET BGTypes]
         /\ \A r \in Fighters : queueSlots'[r] = IF r = p THEN {} ELSE queueSlots[r]
    BY <1>1, BGInvSays
  <1>16. \A r \in Fighters : /\ \A k \in BGTypes : k \in queueSlots'[r] <=> InQueue(x, r, k)
                             /\ bgData'[r].bg # NoBG => queueSlots'[r] = {}
    BY <1>6, <1>12, <1>14, <1>15, BGInvSays
  <1>. QED  BY <1>2, <1>12, <1>13, <1>15, <1>16, BGInvConcludes

(* Who arrives was counted when he accepted. *)
LEMMA ArriveInBGKeeps ==
  ASSUME BGInv, ~aborted, NEW p \in Fighters, ArriveInBG(p)
  PROVE  BGInv'
  <1>. DEFINE b == bgData[p].bg
              inst == [bgs[b] EXCEPT !.players = bgs[b].players \cup {p}]
              g == [bgs EXCEPT ![b] = inst]
              x == [Realm EXCEPT !.bgs = g]
  <1>1. /\ b # NoBG /\ Become(x) /\ queueSlots' = queueSlots
        /\ bgData' = [bgData EXCEPT ![p].inside = TRUE]
    BY BGInvSays DEF ArriveInBG, Travelling, InBattleground, Enter
  <1>2. b \in Battlegrounds
    BY <1>1, BGInvSays DEF Places
  <1>3. bgs \in [Battlegrounds -> Instance] /\ bgs[b] \in Instance
    BY <1>2, BGInvSays DEF Realms
  <1>4. inst \in Instance /\ inst.invited = bgs[b].invited /\ inst.status = bgs[b].status
    BY <1>3 DEF Instance
  <1>. HIDE DEF inst
  <1>5. g \in [Battlegrounds -> Instance] /\ \A c \in Battlegrounds : g[c] = IF c = b THEN inst ELSE bgs[c]
    BY <1>2, <1>3, <1>4
  <1>. HIDE DEF g
  <1>6. x \in Realms /\ x.bgs = g /\ x.queued = Realm.queued /\ x.aborted = aborted
    BY <1>5, BGInvSays DEF Realms
  <1>. HIDE DEF x
  <1>7. Vacant(x) /\ \A c \in Battlegrounds, t \in Teams : x.bgs[c].invited[t] = Realm.bgs[c].invited[t]
    <2>1. Vacant(Realm)
      BY BGInvSays DEF Sound
    <2>. QED  BY <1>4, <1>5, <1>6, <2>1, BGInvSays DEF Vacant
  <1>8. /\ bgData' \in [Fighters -> Places]
        /\ \A r \in Fighters : bgData'[r].bg = bgData[r].bg
    <2>1. bgData[p] \in Places
      BY BGInvSays
    <2>. DEFINE e == [bgData[p] EXCEPT !.inside = TRUE]
    <2>2. e \in Places /\ e.bg = bgData[p].bg
      BY <2>1 DEF Places
    <2>3. bgData' = [bgData EXCEPT ![p] = e]
      BY <1>1
    <2>. HIDE DEF e
    <2>. QED  BY <2>2, <2>3, BGInvSays
  <1>9. Sound(x, bgData')
    BY <1>6, <1>7, <1>8, BGInvSays, SoundFrame
  <1>10. \A r, k : InQueue(x, r, k) <=> InQueue(Realm, r, k)
    BY <1>6, QueuesDecide
  <1>. QED  BY <1>1, <1>8, <1>9, <1>10, BGInvConcludes, BGInvSays

(* Who lands elsewhere is counted no longer. *)
LEMMA LandElsewhereKeeps ==
  ASSUME BGInv, ~aborted, NEW p \in Fighters, LandElsewhere(p)
  PROVE  BGInv'
  <1>. DEFINE x == DecreaseInvited(Realm, CountsOf({p}))
  <1>1. /\ bgData[p].bg # NoBG /\ Become(x) /\ queueSlots' = queueSlots
        /\ bgData' = [bgData EXCEPT ![p] = Outside]
    BY DEF LandElsewhere, Travelling, InBattleground, SetBattlegroundId
  <1>. HIDE DEF x
  <1>2. /\ bgData' \in [Fighters -> Places]
        /\ \A r \in Fighters : bgData'[r].bg = IF r \in {p} THEN NoBG ELSE bgData[r].bg
    BY <1>1, BGInvSays DEF Outside, Places
  <1>3. Sound(x, bgData') /\ x.queued = Realm.queued
    <2>1. /\ {p} \in SUBSET Fighters /\ bgData \in [Fighters -> Places] /\ Sound(Realm, bgData)
          /\ x = DecreaseInvited(Realm, CountsOf({p}))
      BY BGInvSays DEF x
    <2>. QED  BY ONLY <1>2, <2>1, PlayersLeave
  <1>4. \A r, k : InQueue(x, r, k) <=> InQueue(Realm, r, k)
    BY <1>3, QueuesDecide
  <1>5. \A r \in Fighters : bgData'[r].bg # NoBG => queueSlots[r] = {}
    BY <1>2, BGInvSays
  <1>. QED  BY <1>1, <1>2, <1>3, <1>4, <1>5, BGInvConcludes, BGInvSays

(* Exit takes the players out of the instances and out of what these count. *)
LEMMA ExitDoes ==
  ASSUME BGInv, ~aborted, NEW ps \in SUBSET Fighters, NEW d,
         \A r \in Fighters : d[r].bg = IF r \in ps THEN NoBG ELSE bgData[r].bg,
         NEW x, x = Exit(Realm, ps)
  PROVE  Sound(x, d) /\ x.queued = Realm.queued /\ x.aborted = Realm.aborted
  <1>. DEFINE inst(b) == [bgs[b] EXCEPT !.players = {r \in bgs[b].players : ~(r \in ps /\ bgData[r].bg = b)}]
              g == [b \in Battlegrounds |-> inst(b)]
              s == [Realm EXCEPT !.bgs = g]
  <1>1. x = DecreaseInvited(s, CountsOf(ps))
    BY BGInvSays DEF Exit
  <1>2. bgs \in [Battlegrounds -> Instance]
    BY BGInvSays DEF Realms
  <1>3. \A b \in Battlegrounds : /\ inst(b) \in Instance /\ inst(b).invited = bgs[b].invited
                                 /\ inst(b).status = bgs[b].status
    BY <1>2 DEF Instance
  <1>. HIDE DEF inst
  <1>4. g \in [Battlegrounds -> Instance] /\ \A c \in Battlegrounds : g[c] = inst(c)
    BY <1>3
  <1>. HIDE DEF g
  <1>5. s \in Realms /\ s.bgs = g /\ s.queued = Realm.queued /\ s.aborted = Realm.aborted
    BY <1>4, BGInvSays DEF Realms
  <1>. HIDE DEF s
  <1>6. Vacant(s) /\ \A c \in Battlegrounds, t \in Teams : s.bgs[c].invited[t] = Realm.bgs[c].invited[t]
    <2>1. Vacant(Realm)
      BY BGInvSays DEF Sound
    <2>. QED  BY <1>3, <1>4, <1>5, <2>1, BGInvSays DEF Vacant
  <1>7. Sound(s, bgData)
    BY <1>5, <1>6, BGInvSays, SoundFrame
  <1>8. ps \in SUBSET Fighters /\ bgData \in [Fighters -> Places]
        /\ \A r \in Fighters : d[r].bg = IF r \in ps THEN NoBG ELSE bgData[r].bg
    BY BGInvSays
  <1>9. Sound(x, d) /\ x.queued = s.queued /\ x.aborted = s.aborted
    BY ONLY <1>1, <1>7, <1>8, PlayersLeave
  <1>. QED  BY <1>5, <1>9

(* Who leaves a battleground is counted no longer. *)
LEMMA LeaveBattlegroundKeeps ==
  ASSUME BGInv, ~aborted, NEW p \in Fighters, LeaveBattleground(p)
  PROVE  BGInv'
  <1>. DEFINE x == Exit(Realm, {p})
  <1>1. /\ Become(x) /\ queueSlots' = queueSlots /\ bgData' = [bgData EXCEPT ![p] = Outside]
    BY DEF LeaveBattleground
  <1>. HIDE DEF x
  <1>2. /\ bgData' \in [Fighters -> Places]
        /\ \A r \in Fighters : bgData'[r].bg = IF r \in {p} THEN NoBG ELSE bgData[r].bg
    BY <1>1, BGInvSays DEF Outside, Places
  <1>3. Sound(x, bgData') /\ x.queued = Realm.queued
    <2>1. {p} \in SUBSET Fighters /\ x = Exit(Realm, {p}) /\ BGInv /\ ~aborted
      BY DEF x
    <2>. QED  BY ONLY <1>2, <2>1, ExitDoes
  <1>4. \A r, k : InQueue(x, r, k) <=> InQueue(Realm, r, k)
    BY <1>3, QueuesDecide
  <1>5. \A r \in Fighters : bgData'[r].bg # NoBG => queueSlots[r] = {}
    BY <1>2, BGInvSays
  <1>. QED  BY <1>1, <1>2, <1>3, <1>4, <1>5, BGInvConcludes, BGInvSays

(* A logout takes the player out of his battleground and of his queues. *)
LEMMA LogoutKeeps ==
  ASSUME BGInv, ~aborted, NEW p \in Fighters, Logout(p)
  PROVE  BGInv'
  <1>. DEFINE s == Exit(Realm, {p})
              pairs == {p} \X queueSlots[p]
              x == RemovePlayers(s, pairs)
  <1>1. /\ Become(x) /\ queueSlots' = [queueSlots EXCEPT ![p] = {}]
        /\ bgData' = [bgData EXCEPT ![p] = Outside]
    BY DEF Logout
  <1>2. /\ bgData' \in [Fighters -> Places]
        /\ \A r \in Fighters : bgData'[r].bg = IF r \in {p} THEN NoBG ELSE bgData[r].bg
    BY <1>1, BGInvSays DEF Outside, Places
  <1>. HIDE DEF s, x
  <1>3. Sound(s, bgData') /\ s.queued = Realm.queued
    <2>1. {p} \in SUBSET Fighters /\ s = Exit(Realm, {p}) /\ BGInv /\ ~aborted
      BY DEF s
    <2>. QED  BY ONLY <1>2, <2>1, ExitDoes
  <1>4. \A r, k : InQueue(s, r, k) <=> InQueue(Realm, r, k)
    BY <1>3, QueuesDecide
  <1>6. \A r \in Fighters, k \in BGTypes : <<r, k>> \in pairs <=> r = p /\ k \in queueSlots[p]
    OBVIOUS
  <1>7. pairs \in SUBSET (Fighters \X BGTypes)
    BY BGInvSays
  <1>. HIDE DEF pairs
  <1>8. \A pq \in pairs : InQueue(s, pq[1], pq[2])
    <2>1. \A pq \in pairs : pq[1] \in Fighters /\ pq[2] \in BGTypes /\ pq = <<pq[1], pq[2]>>
      BY <1>7
    <2>. QED  BY <1>4, <1>6, <2>1, BGInvSays
  <1>9. /\ Sound(x, bgData')
        /\ \A r \in Fighters, k \in BGTypes :
              InQueue(x, r, k) <=> InQueue(s, r, k) /\ <<r, k>> \notin pairs
    <2>1. x = RemovePlayers(s, pairs)
      BY DEF x
    <2>. QED  BY ONLY <1>3, <1>7, <1>8, <2>1, RemovePlayersDoes
  <1>10. queueSlots' \in [Fighters -> SUBSET BGTypes]
         /\ \A r \in Fighters : queueSlots'[r] = IF r = p THEN {} ELSE queueSlots[r]
    BY <1>1, BGInvSays
  <1>11. \A r \in Fighters : /\ \A k \in BGTypes : k \in queueSlots'[r] <=> InQueue(x, r, k)
                             /\ bgData'[r].bg # NoBG => queueSlots'[r] = {}
    BY <1>2, <1>4, <1>6, <1>9, <1>10, BGInvSays
  <1>. QED  BY <1>1, <1>2, <1>9, <1>10, <1>11, BGInvConcludes

(* After the end everyone inside leaves at once. *)
LEMMA ProcessLeaveKeeps ==
  ASSUME BGInv, ~aborted, NEW b \in Battlegrounds, ProcessLeave(b)
  PROVE  BGInv'
  <1>. DEFINE ps == bgs[b].players
              x == Exit(Realm, ps)
  <1>1. /\ Become(x) /\ queueSlots' = queueSlots
        /\ bgData' = [r \in Fighters |-> IF r \in ps THEN Outside ELSE bgData[r]]
    BY DEF ProcessLeave
  <1>2. ps \in SUBSET Fighters
    BY BGInvSays DEF Realms, Instance
  <1>. HIDE DEF x, ps
  <1>3. /\ bgData' \in [Fighters -> Places]
        /\ \A r \in Fighters : bgData'[r].bg = IF r \in ps THEN NoBG ELSE bgData[r].bg
    BY <1>1, BGInvSays DEF Outside, Places
  <1>4. Sound(x, bgData') /\ x.queued = Realm.queued
    <2>1. x = Exit(Realm, ps) /\ BGInv /\ ~aborted
      BY DEF x
    <2>. QED  BY ONLY <1>2, <1>3, <2>1, ExitDoes
  <1>5. \A r, k : InQueue(x, r, k) <=> InQueue(Realm, r, k)
    BY <1>4, QueuesDecide
  <1>6. \A r \in Fighters : bgData'[r].bg # NoBG => queueSlots[r] = {}
    BY <1>3, BGInvSays
  <1>. QED  BY <1>1, <1>3, <1>4, <1>5, <1>6, BGInvConcludes, BGInvSays

(* The match ends, or its instance is deleted. *)
LEMMA InstanceKeeps ==
  ASSUME BGInv, ~aborted, NEW b \in Battlegrounds, EndBattleground(b) \/ DeleteBattleground(b)
  PROVE  BGInv'
  <1>1. bgs \in [Battlegrounds -> Instance] /\ bgs[b] \in Instance
    BY BGInvSays DEF Realms
  <1>. DEFINE inst == IF EndBattleground(b) THEN [bgs[b] EXCEPT !.status = "wait_leave"] ELSE Gone
              g == [bgs EXCEPT ![b] = inst]
              x == [Realm EXCEPT !.bgs = g]
  <1>2. /\ g = bgs' /\ UNCHANGED <<queued, timers, aborted, queueSlots, bgData>>
    BY DEF EndBattleground, DeleteBattleground
  <1>3. inst \in Instance /\ \A t \in Teams : inst.invited[t] = bgs[b].invited[t]
    <2>1. CASE EndBattleground(b)
      BY <1>1, <2>1 DEF Instance
    <2>2. CASE ~EndBattleground(b)
      <3>1. \A t \in Teams : bgs[b].invited[t] = 0
        BY <2>2 DEF DeleteBattleground
      <3>2. Gone \in Instance /\ \A t \in Teams : Gone.invited[t] = 0
        BY DEF Gone, Instance
      <3>. QED  BY <2>2, <3>1, <3>2
    <2>. QED  BY <2>1, <2>2
  <1>4. inst.status = "none" => \A t \in Teams : inst.invited[t] = 0
    BY <1>1 DEF Gone, Instance
  <1>. HIDE DEF inst
  <1>5. g \in [Battlegrounds -> Instance] /\ \A c \in Battlegrounds : g[c] = IF c = b THEN inst ELSE bgs[c]
    BY <1>1, <1>3
  <1>. HIDE DEF g
  <1>6. /\ x \in Realms /\ x.bgs = g /\ x.queued = Realm.queued /\ x.aborted = aborted
        /\ x.timers = timers
    BY <1>5, BGInvSays DEF Realms
  <1>. HIDE DEF x
  <1>7. Vacant(x) /\ \A c \in Battlegrounds, t \in Teams : x.bgs[c].invited[t] = Realm.bgs[c].invited[t]
    <2>1. Vacant(Realm)
      BY BGInvSays DEF Sound
    <2>. QED  BY <1>3, <1>4, <1>5, <1>6, <2>1, BGInvSays DEF Vacant
  <1>8. bgData' = bgData /\ queueSlots' = queueSlots /\ Become(x)
    BY <1>2, <1>6, BGInvSays DEF Become
  <1>9. Sound(x, bgData')
    BY <1>6, <1>7, <1>8, BGInvSays, SoundFrame
  <1>10. \A r, k : InQueue(x, r, k) <=> InQueue(Realm, r, k)
    BY <1>6, QueuesDecide
  <1>. QED  BY <1>8, <1>9, <1>10, BGInvConcludes, BGInvSays

-----------------------------------------------------------------------------
(* The queue update keeps the invariant. *)

(* The groups chosen for a battleground wait for it uninvited, and its seats are enough for them. *)
Called(chosen, t) == UNION {g.players : g \in chosen[t]}
Choice(s, q, b, chosen) ==
    \A t \in Teams :
       /\ chosen[t] \subseteq OfTeam(s, q, t) /\ \A g \in chosen[t] : g.bg = NoBG
       /\ s.bgs[b].invited[t] + Cardinality(Called(chosen, t)) <= MaxPerTeam
       /\ s.bgs[b].status = "none" => Cardinality(Called(chosen, t)) = 0

Marked(g, b, chosen) == IF \E t \in Teams : g \in chosen[t]
                        THEN [g EXCEPT !.bg = b, !.stamp = Min(FreshStamp)] ELSE g

(* Inviting the groups of a choice keeps the invariant, and the assertion of InviteGroupToBG holds. *)
LEMMA InviteDoes ==
  ASSUME BGInv, ~aborted, FreshStamp # {}, NEW s, Sound(s, bgData), ~s.aborted,
         NEW q \in BGTypes, NEW b \in Battlegrounds, NEW chosen, Choice(s, q, b, chosen),
         \A p \in Fighters, k \in BGTypes : InQueue(s, p, k) <=> InQueue(Realm, p, k),
         NEW x, x = Invite(s, q, b, chosen)
  PROVE  /\ Sound(x, bgData) /\ ~x.aborted
         /\ \A p \in Fighters, k \in BGTypes : InQueue(x, p, k) <=> InQueue(Realm, p, k)
  <1>. DEFINE m == Min(FreshStamp)
              M(g) == Marked(g, b, chosen)
              mark(gs) == [i \in DOMAIN gs |-> M(gs[i])]
              lists == [r \in Ranks |-> [t \in Teams |-> mark(s.queued[q][r][t])]]
              z == [s.queued EXCEPT ![q] = lists]
              called == [t \in Teams |-> Called(chosen, t)]
              everyone == UNION Range(called)
              inv == [t \in Teams |-> s.bgs[b].invited[t] + Cardinality(called[t])]
              inst == [s.bgs[b] EXCEPT !.invited = inv]
              g == [s.bgs EXCEPT ![b] = inst]
              tms == s.timers \cup {[player |-> p, type |-> q, bg |-> b, stamp |-> m] : p \in everyone}
              ab == s.aborted \/ \E p \in everyone : q \notin queueSlots[p]
  <1>1. x = [s EXCEPT !.queued = z, !.bgs = g, !.timers = tms, !.aborted = ab]
    BY DEF Invite, Marked, Called
  <1>2. s \in Realms /\ Sided(s) /\ Unique(s) /\ Counted(s, bgData) /\ Vacant(s) /\ Seated(s)
    BY DEF Sound
  <1>3. m \in Stamps
    <2>1. FreshStamp \in SUBSET Nat /\ FreshStamp \subseteq Stamps
      BY BattlegroundAssumption DEF FreshStamp
    <2>2. \E i \in FreshStamp : \A j \in FreshStamp : i <= j
      BY <2>1, Least
    <2>3. m \in FreshStamp
      BY <2>2 DEF Min
    <2>. QED  BY <2>1, <2>3
  <1>4. \A t \in Teams : chosen[t] \subseteq OfTeam(s, q, t) /\ \A e \in chosen[t] : e.bg = NoBG /\ e \in Group
    <2>1. \A t \in Teams : OfTeam(s, q, t) \subseteq GroupsIn(s, q)
      BY QueueOfTeams
    <2>2. GroupsIn(s, q) \subseteq Group
      BY <1>2, GroupsAre
    <2>. QED  BY <2>1, <2>2 DEF Choice
  <1>5. \A e \in Group : /\ M(e) \in Group /\ M(e).players = e.players
                         /\ (\E t \in Teams : e \in chosen[t]) => M(e).bg = b
                         /\ ~(\E t \in Teams : e \in chosen[t]) => M(e) = e
    <2>. DEFINE c(e) == [e EXCEPT !.bg = b, !.stamp = m]
    <2>1. \A e \in Group : c(e) \in Group /\ c(e).players = e.players /\ c(e).bg = b
      <3>. HIDE DEF m
      <3>. QED  BY <1>3 DEF Group
    <2>2. \A e : M(e) = IF \E t \in Teams : e \in chosen[t] THEN c(e) ELSE e
      BY DEF Marked
    <2>. HIDE DEF M, c
    <2>. QED  BY <2>1, <2>2
  <1>. HIDE DEF M
  <1>6. \A gs \in Seq(Group) : mark(gs) \in Seq(Group) /\ Range(mark(gs)) = {M(e) : e \in Range(gs)}
    <2>. TAKE gs \in Seq(Group)
    <2>1. DOMAIN gs = 1..Len(gs) /\ Len(gs) \in Nat /\ \A i \in 1..Len(gs) : gs[i] \in Group
      BY LenProperties, ElementOfSeq
    <2>2. mark(gs) \in Seq(Group)
      BY <1>5, <2>1, IsASeq
    <2>. QED  BY <2>2 DEF Range
  <1>. HIDE DEF mark
  <1>7. \A k \in BGTypes, r \in Ranks, t \in Teams : s.queued[k][r][t] \in Seq(Group)
    BY <1>2, GroupsAre
  <1>8. lists \in Lists /\ \A r \in Ranks, t \in Teams : lists[r][t] = mark(s.queued[q][r][t])
    BY <1>6, <1>7 DEF Lists
  <1>. HIDE DEF lists
  <1>9. z \in [BGTypes -> Lists] /\ \A k \in BGTypes : z[k] = IF k = q THEN lists ELSE s.queued[k]
    BY <1>2, <1>8 DEF Realms
  <1>. HIDE DEF z
  <1>10. \A t \in Teams : /\ called[t] = Called(chosen, t)
                          /\ called[t] \subseteq Fighters
                          /\ \A p \in called[t] : Side[p] = t /\ InQueue(s, p, q)
                          /\ \A p : p \in called[t] <=> \E e \in chosen[t] : p \in e.players
    <2>. TAKE t \in Teams
    <2>1. called[t] = Called(chosen, t)
      OBVIOUS
    <2>2. \A p : p \in called[t] <=> \E e \in chosen[t] : p \in e.players
      BY <2>1 DEF Called
    <2>. HIDE DEF called
    <2>3. ASSUME NEW p \in called[t] PROVE p \in Fighters /\ Side[p] = t /\ InQueue(s, p, q)
      <3>1. PICK e \in chosen[t] : p \in e.players
        BY <2>2
      <3>2. e \in OfTeam(s, q, t) /\ e \in Group
        BY <1>4
      <3>3. e \in GroupsIn(s, q)
        BY <3>2, QueueOfTeams
      <3>4. Side[p] = t
        BY <1>2, <3>1, <3>2 DEF Sided
      <3>5. p \in Fighters
        BY <3>1, <3>2 DEF Group
      <3>. QED  BY <3>1, <3>3, <3>4, <3>5 DEF InQueue
    <2>. QED  BY <2>1, <2>2, <2>3
  <1>11. \A p \in everyone : p \in Fighters /\ InQueue(s, p, q)
    <2>1. Range(called) = {called[t] : t \in Teams}
      BY DEF Range
    <2>. HIDE DEF called
    <2>. QED  BY <1>10, <2>1
  <1>12. \A t \in Teams : IsFiniteSet(called[t]) /\ Cardinality(called[t]) \in Nat
    <2>. TAKE t \in Teams
    <2>1. called[t] \in SUBSET Fighters
      BY <1>10
    <2>2. IsFiniteSet(called[t])
      BY <2>1, CountsAreFinite, FS_Subset
    <2>. QED  BY <2>2, FS_CardinalityType
  <1>. HIDE DEF called, everyone
  <1>13. s.bgs \in [Battlegrounds -> Instance] /\ s.bgs[b] \in Instance /\ s.bgs[b].invited \in [Teams -> Nat]
         /\ s.timers \subseteq Timer
    BY <1>2 DEF Realms, Instance
  <1>14. inv \in [Teams -> Nat] /\ \A t \in Teams : inv[t] = s.bgs[b].invited[t] + Cardinality(called[t])
    BY <1>12, <1>13
  <1>. HIDE DEF inv
  <1>15. inst \in Instance /\ inst.invited = inv /\ inst.status = s.bgs[b].status
    BY <1>13, <1>14 DEF Instance
  <1>. HIDE DEF inst
  <1>16. g \in [Battlegrounds -> Instance] /\ \A c \in Battlegrounds : g[c] = IF c = b THEN inst ELSE s.bgs[c]
    BY <1>13, <1>15
  <1>. HIDE DEF g
  <1>17. tms \in SUBSET Timer
    <2>. HIDE DEF m
    <2>. QED  BY <1>3, <1>11, <1>13 DEF Timer
  <1>. HIDE DEF tms
  <1>18. ab = FALSE
    BY <1>11, BGInvSays
  <1>. HIDE DEF ab
  <1>19. x \in Realms /\ x.queued = z /\ x.bgs = g /\ ~x.aborted
    BY <1>1, <1>2, <1>9, <1>16, <1>17, <1>18 DEF Realms
  <1>20. \A t \in Teams : \A e : e \in OfTeam(x, q, t) <=> \E f \in OfTeam(s, q, t) : e = M(f)
    <2>. TAKE t \in Teams
    <2>1. \A r \in Ranks : Range(x.queued[q][r][t]) = {M(e) : e \in Range(s.queued[q][r][t])}
      BY <1>6, <1>7, <1>8, <1>9, <1>19
    <2>2. \A e : e \in OfTeam(x, q, t) <=> \E r \in Ranks : e \in Range(x.queued[q][r][t])
      BY DEF OfTeam
    <2>3. \A e : e \in OfTeam(s, q, t) <=> \E r \in Ranks : e \in Range(s.queued[q][r][t])
      BY DEF OfTeam
    <2>. QED  BY ONLY <2>1, <2>2, <2>3
  <1>21. \A k \in BGTypes, t \in Teams : k # q => OfTeam(x, k, t) = OfTeam(s, k, t)
    BY <1>9, <1>19 DEF OfTeam
  <1>22. \A e : e \in GroupsIn(x, q) <=> \E f \in GroupsIn(s, q) : e = M(f)
    BY <1>20, QueueOfTeams
  <1>23. \A k \in BGTypes : k # q => GroupsIn(x, k) = GroupsIn(s, k)
    <2>. TAKE k \in BGTypes
    <2>. HAVE k # q
    <2>1. \A e : e \in GroupsIn(x, k) <=> e \in GroupsIn(s, k)
      BY <1>21, QueueOfTeams
    <2>. QED  BY <2>1
  <1>24. GroupsIn(s, q) \subseteq Group /\ \A t \in Teams : OfTeam(s, q, t) \subseteq GroupsIn(s, q)
    BY <1>2, GroupsAre
  <1>25. \A p, k : k \in BGTypes => (InQueue(x, p, k) <=> InQueue(s, p, k))
    <2>1. \A p : InQueue(x, p, q) <=> InQueue(s, p, q)
      BY <1>5, <1>22, <1>24 DEF InQueue
    <2>. QED  BY <1>23, <2>1 DEF InQueue
  <1>26. Sided(x)
    <2>. SUFFICES ASSUME NEW k \in BGTypes, NEW t \in Teams, NEW e \in OfTeam(x, k, t), NEW p \in e.players
                  PROVE  Side[p] = t
      BY DEF Sided
    <2>1. CASE k # q
      BY <1>2, <1>21, <2>1 DEF Sided
    <2>2. CASE k = q
      <3>1. PICK f \in OfTeam(s, q, t) : e = M(f)
        BY <1>20, <2>2
      <3>2. f \in Group /\ p \in f.players
        BY <1>5, <1>24, <3>1
      <3>. QED  BY <1>2, <3>2 DEF Sided
    <2>. QED  BY <2>1, <2>2
  <1>27. Unique(x)
    <2>. SUFFICES ASSUME NEW k \in BGTypes, NEW e \in GroupsIn(x, k), NEW h \in GroupsIn(x, k),
                         e.players \cap h.players # {}
                  PROVE  e = h
      BY DEF Unique
    <2>1. CASE k # q
      BY <1>2, <1>23, <2>1 DEF Unique
    <2>2. CASE k = q
      <3>1. PICK e1 \in GroupsIn(s, q) : e = M(e1)
        BY <1>22, <2>2
      <3>2. PICK h1 \in GroupsIn(s, q) : h = M(h1)
        BY <1>22, <2>2
      <3>3. e1.players = e.players /\ h1.players = h.players
        BY <1>5, <1>24, <3>1, <3>2
      <3>. QED  BY <1>2, <3>1, <3>2, <3>3 DEF Unique
    <2>. QED  BY <2>1, <2>2
  <1>28. ASSUME NEW c \in Battlegrounds, NEW t \in Teams
         PROVE  Invitees(x, c, t) = IF c = b THEN Invitees(s, c, t) \cup (called[t] \X {q}) ELSE Invitees(s, c, t)
    <2>1. ASSUME NEW p \in Fighters, NEW k \in BGTypes, Side[p] = t
          PROVE  (\E e \in GroupsIn(x, k) : p \in e.players /\ e.bg = c) <=>
                    \/ \E e \in GroupsIn(s, k) : p \in e.players /\ e.bg = c
                    \/ c = b /\ k = q /\ p \in called[t]
      <3>1. CASE k # q
        BY <1>23, <3>1
      <3>2. CASE k = q
        <4>1. ASSUME NEW e \in GroupsIn(s, q), p \in e.players, \E u \in Teams : e \in chosen[u]
              PROVE  e.bg = NoBG /\ M(e).bg = b /\ p \in called[t]
          <5>1. PICK u \in Teams : e \in chosen[u]
            BY <4>1
          <5>2. p \in called[u]
            BY <1>10, <4>1, <5>1
          <5>3. u = t
            BY <1>10, <2>1, <5>2
          <5>. QED  BY <1>4, <1>5, <1>24, <5>1, <5>2, <5>3
        <4>2. ASSUME NEW e \in GroupsIn(s, q), ~\E u \in Teams : e \in chosen[u] PROVE M(e) = e
          BY <1>5, <1>24, <4>2
        <4>3. p \in called[t] => \E e \in GroupsIn(s, q) : p \in e.players /\ \E u \in Teams : e \in chosen[u]
          BY <1>4, <1>10, <1>24
        <4>4. \A e \in GroupsIn(s, q) : M(e).players = e.players
          BY <1>5, <1>24
        <4>5. c # NoBG
          BY BattlegroundAssumption
        <4>6. ASSUME NEW e \in GroupsIn(x, q), p \in e.players, e.bg = c
              PROVE  \/ \E f \in GroupsIn(s, q) : p \in f.players /\ f.bg = c
                     \/ c = b /\ p \in called[t]
          <5>1. PICK f \in GroupsIn(s, q) : e = M(f)
            BY <1>22
          <5>2. p \in f.players
            BY <4>4, <4>6, <5>1
          <5>. QED  BY <4>1, <4>2, <4>6, <5>1, <5>2
        <4>7. ASSUME NEW f \in GroupsIn(s, q), p \in f.players, f.bg = c
              PROVE  \E e \in GroupsIn(x, q) : p \in e.players /\ e.bg = c
          <5>1. M(f) = f
            BY <4>1, <4>2, <4>5, <4>7
          <5>2. f \in GroupsIn(x, q)
            BY <1>22, <5>1
          <5>. QED  BY <4>7, <5>2
        <4>8. ASSUME c = b, p \in called[t] PROVE \E e \in GroupsIn(x, q) : p \in e.players /\ e.bg = c
          <5>1. PICK f \in GroupsIn(s, q) : p \in f.players /\ \E u \in Teams : f \in chosen[u]
            BY <4>3, <4>8
          <5>2. M(f) \in GroupsIn(x, q) /\ M(f).bg = b /\ p \in M(f).players
            BY <1>22, <4>1, <4>4, <5>1
          <5>. QED  BY <4>8, <5>2
        <4>. QED  BY <3>2, <4>6, <4>7, <4>8
      <3>. QED  BY <3>1, <3>2
    <2>2. ASSUME NEW pq \in Fighters \X BGTypes
          PROVE  pq \in Invitees(x, c, t) <=>
                    pq \in (IF c = b THEN Invitees(s, c, t) \cup (called[t] \X {q}) ELSE Invitees(s, c, t))
      <3>1. pq[1] \in Fighters /\ pq[2] \in BGTypes /\ pq = <<pq[1], pq[2]>>
        OBVIOUS
      <3>2. pq \in called[t] \X {q} <=> pq[1] \in called[t] /\ pq[2] = q
        BY <3>1
      <3>3. pq[1] \in called[t] => Side[pq[1]] = t
        BY <1>10
      <3>. QED  BY <2>1, <3>1, <3>2, <3>3 DEF Invitees
    <2>3. called[t] \X {q} \subseteq Fighters \X BGTypes
      BY <1>10
    <2>4. Invitees(x, c, t) \subseteq Fighters \X BGTypes /\ Invitees(s, c, t) \subseteq Fighters \X BGTypes
      BY DEF Invitees
    <2>. QED  BY <2>2, <2>3, <2>4
  <1>29. ASSUME NEW t \in Teams PROVE Invitees(s, b, t) \cap (called[t] \X {q}) = {}
    <2>. SUFFICES ASSUME NEW p \in called[t], <<p, q>> \in Invitees(s, b, t) PROVE FALSE
      OBVIOUS
    <2>1. PICK e \in chosen[t] : p \in e.players
      BY <1>10
    <2>2. PICK f \in GroupsIn(s, q) : p \in f.players /\ f.bg = b
      BY DEF Invitees
    <2>3. e \in GroupsIn(s, q) /\ e.bg = NoBG
      BY <1>4, <1>24
    <2>4. e = f
      BY <1>2, <2>1, <2>2, <2>3 DEF Unique
    <2>. QED  BY <2>2, <2>3, <2>4, BattlegroundAssumption
  <1>30. ASSUME NEW c \in Battlegrounds, NEW t \in Teams
         PROVE  Cardinality(Invitees(x, c, t)) = IF c = b THEN Cardinality(Invitees(s, c, t)) + Cardinality(called[t])
                                                 ELSE Cardinality(Invitees(s, c, t))
    <2>1. CASE c # b
      BY <1>28, <2>1
    <2>2. CASE c = b
      <3>. DEFINE I == Invitees(s, b, t)  K == called[t] \X {q}
      <3>1. IsFiniteSet(I) /\ Cardinality(I) \in Nat
        BY CountsAreFinite
      <3>2. IsFiniteSet(K) /\ Cardinality(K) = Cardinality(called[t])
        <4>1. IsFiniteSet({q}) /\ Cardinality({q}) = 1
          BY FS_Singleton
        <4>2. IsFiniteSet(K) /\ Cardinality(K) = Cardinality(called[t]) * Cardinality({q})
          BY <1>12, <4>1, FS_Product
        <4>. QED  BY <1>12, <4>1, <4>2
      <3>3. I \cap K = {} /\ Invitees(x, c, t) = I \cup K
        BY <1>28, <1>29, <2>2
      <3>. HIDE DEF I, K
      <3>4. Cardinality(I \cup K) = Cardinality(I) + Cardinality(K) - Cardinality(I \cap K)
        BY <3>1, <3>2, FS_Union
      <3>5. Cardinality(I \cap K) = 0
        BY <3>3, FS_EmptySet
      <3>6. Cardinality(Invitees(x, c, t)) = Cardinality(I) + Cardinality(called[t])
        BY <1>12, <3>1, <3>2, <3>3, <3>4, <3>5
      <3>. QED  BY <2>2, <3>6 DEF I
    <2>. QED  BY <2>1, <2>2
  <1>31. \A c \in Battlegrounds, t \in Teams :
            x.bgs[c].invited[t] = IF c = b THEN s.bgs[c].invited[t] + Cardinality(called[t]) ELSE s.bgs[c].invited[t]
    BY <1>14, <1>15, <1>16, <1>19
  <1>32. Counted(x, bgData)
    <2>. SUFFICES ASSUME NEW c \in Battlegrounds, NEW t \in Teams
                  PROVE  x.bgs[c].invited[t] = Cardinality(Invitees(x, c, t)) + Cardinality(Players(bgData, c, t))
      BY DEF Counted
    <2>1. s.bgs[c].invited[t] = Cardinality(Invitees(s, c, t)) + Cardinality(Players(bgData, c, t))
      BY <1>2 DEF Counted
    <2>2. Cardinality(Invitees(s, c, t)) \in Nat /\ Cardinality(Players(bgData, c, t)) \in Nat
      BY CountsAreFinite
    <2>. DEFINE I == Cardinality(Invitees(s, c, t))  P == Cardinality(Players(bgData, c, t))
                K == Cardinality(called[t])  Q == Cardinality(Invitees(x, c, t))
    <2>3. Q = IF c = b THEN I + K ELSE I
      BY <1>30
    <2>4. x.bgs[c].invited[t] = IF c = b THEN (I + P) + K ELSE I + P
      BY <1>31, <2>1
    <2>5. I \in Nat /\ P \in Nat /\ K \in Nat
      BY <1>12, <2>2
    <2>. HIDE DEF I, P, K, Q
    <2>6. x.bgs[c].invited[t] = Q + P
      BY <2>3, <2>4, <2>5
    <2>. QED  BY <2>6 DEF P, Q
  <1>33. Vacant(x)
    <2>. SUFFICES ASSUME NEW c \in Battlegrounds, x.bgs[c].status = "none", NEW t \in Teams
                  PROVE  x.bgs[c].invited[t] = 0
      BY DEF Vacant
    <2>1. s.bgs[c].status = "none"
      BY <1>15, <1>16, <1>19
    <2>2. s.bgs[c].invited[t] = 0
      BY <1>2, <2>1 DEF Vacant
    <2>3. c = b => Cardinality(called[t]) = 0
      BY <1>10, <2>1 DEF Choice
    <2>. QED  BY <1>31, <2>2, <2>3
  <1>34. Seated(x)
    <2>. SUFFICES ASSUME NEW c \in Battlegrounds, NEW t \in Teams PROVE x.bgs[c].invited[t] <= MaxPerTeam
      BY DEF Seated
    <2>1. c = b => s.bgs[c].invited[t] + Cardinality(called[t]) <= MaxPerTeam
      BY <1>10 DEF Choice
    <2>2. s.bgs[c].invited[t] <= MaxPerTeam
      BY <1>2 DEF Seated
    <2>. QED  BY <1>31, <2>1, <2>2
  <1>. QED  BY <1>19, <1>25, <1>26, <1>27, <1>32, <1>33, <1>34 DEF Sound

-----------------------------------------------------------------------------
(* The selection pools: whom they pick waits uninvited, and they pick no more players than may come. *)

(* The size of a pool is a number and grows with its groups. *)
LEMMA SizeOfIs ==
  ASSUME NEW w \in Seq(Group), NEW places \in SUBSET (DOMAIN w)
  PROVE  /\ SizeOf(w, places) \in Nat /\ SizeOf(w, {}) = 0
         /\ \A sub \in SUBSET places : SizeOf(w, sub) <= SizeOf(w, places)
  <1>. DEFINE U(ps) == UNION {w[i].players : i \in ps}
  <1>1. DOMAIN w = 1..Len(w) /\ \A i \in 1..Len(w) : w[i] \in Group
    BY LenProperties, ElementOfSeq
  <1>2. U(places) \in SUBSET Fighters
    BY <1>1 DEF Group
  <1>3. \A sub \in SUBSET places : U(sub) \in SUBSET U(places)
    OBVIOUS
  <1>4. U({}) = {}
    OBVIOUS
  <1>5. \A ps : SizeOf(w, ps) = Cardinality(U(ps))
    BY DEF SizeOf
  <1>. HIDE DEF U
  <1>6. IsFiniteSet(U(places))
    BY <1>2, BattlegroundAssumption, FS_Subset
  <1>7. SizeOf(w, places) \in Nat
    BY <1>5, <1>6, FS_CardinalityType
  <1>8. \A sub \in SUBSET places : SizeOf(w, sub) <= SizeOf(w, places)
    BY <1>3, <1>5, <1>6, FS_Subset
  <1>9. SizeOf(w, {}) = 0
    BY <1>4, <1>5, FS_EmptySet
  <1>. QED  BY <1>7, <1>8, <1>9

(* The pools of at most cap players out of w. *)
Pools(w, cap) == {pool \in [picked : SUBSET (DOMAIN w), next : Nat] :
                     /\ \A i \in pool.picked : w[i].bg = NoBG
                     /\ SizeOf(w, pool.picked) <= cap}

(* The empty pool takes no seats. *)
LEMMA EmptyPoolIs ==
  ASSUME NEW w \in Seq(Group), NEW cap \in Nat
  PROVE  EmptyPool \in Pools(w, cap)
  <1>1. SizeOf(w, {}) = 0
    BY SizeOfIs
  <1>. QED  BY <1>1 DEF EmptyPool, Pools

Take(w, desired, i, s) ==
    CASE i # s.next -> s
      [] i = s.next /\ w[i].bg = NoBG /\ desired >= SizeOf(w, s.picked \cup {i}) ->
           [picked |-> s.picked \cup {i}, next |-> i + 1]
      [] OTHER -> IF SizeOf(w, s.picked) < desired THEN [s EXCEPT !.next = i + 1] ELSE s

(* However long the queue, a pool takes no more than desired. *)
LEMMA TakeFromKeeps ==
  ASSUME NEW w \in Seq(Group), NEW cap \in Nat, NEW desired \in Nat, desired <= cap,
         NEW pool \in Pools(w, cap)
  PROVE  TakeFrom(pool, w, desired) \in Pools(w, cap)
  <1>. DEFINE n == Len(w)
              S == Pools(w, cap)
              Step(i, s) == Take(w, desired, i, s)
  <1>1. n \in Nat /\ DOMAIN w = 1..n
    BY LenProperties
  <1>2. ASSUME NEW i \in 1..n, NEW s \in S PROVE Step(i, s) \in S
    <2>1. /\ s \in [picked : SUBSET (DOMAIN w), next : Nat] /\ \A j \in s.picked : w[j].bg = NoBG
          /\ SizeOf(w, s.picked) <= cap
      BY DEF Pools
    <2>2. CASE i # s.next
      BY <2>2 DEF Take
    <2>3. CASE i = s.next /\ w[i].bg = NoBG /\ desired >= SizeOf(w, s.picked \cup {i})
      <3>. DEFINE y == [picked |-> s.picked \cup {i}, next |-> i + 1]
      <3>1. Step(i, s) = y
        BY <2>3 DEF Take
      <3>2. s.picked \cup {i} \in SUBSET (DOMAIN w) /\ i + 1 \in Nat
        BY <1>1, <2>1
      <3>3. SizeOf(w, s.picked \cup {i}) \in Nat
        BY <3>2, SizeOfIs
      <3>4. SizeOf(w, s.picked \cup {i}) <= cap
        BY <2>3, <3>3
      <3>5. \A j \in s.picked \cup {i} : w[j].bg = NoBG
        BY <2>1, <2>3
      <3>6. y \in S
        BY <3>2, <3>4, <3>5 DEF Pools
      <3>. QED  BY <3>1, <3>6
    <2>4. CASE i = s.next /\ ~(w[i].bg = NoBG /\ desired >= SizeOf(w, s.picked \cup {i}))
      <3>. DEFINE y == [s EXCEPT !.next = i + 1]
      <3>1. Step(i, s) = y \/ Step(i, s) = s
        BY <2>4 DEF Take
      <3>2. y \in S
        BY <2>1 DEF Pools
      <3>. QED  BY <3>1, <3>2
    <2>. QED  BY <2>2, <2>3, <2>4
  <1>. DEFINE Is(f) == f = [i \in 0..n |-> IF i = 0 THEN pool ELSE Step(i, f[i - 1])]
              h == CHOOSE f : Is(f)
  <1>3. TakeFrom(pool, w, desired) = h[n]
    BY DEF TakeFrom, Take
  <1>. HIDE DEF S, Step
  <1>4. \E f : Is(f)
    <2>. DEFINE G == [i \in 1..n |-> [s \in S |-> Step(i, s)]]
    <2>1. G \in [1..n -> [S -> S]]
      BY <1>2
    <2>2. pool \in S
      BY DEF S
    <2>3. \A i \in 1..n, s \in S : G[i][s] = Step(i, s)
      OBVIOUS
    <2>. HIDE DEF G, n
    <2>4. PICK f : Recurs(f, n, S, pool, G)
      <3>1. n \in Nat
        BY <1>1
      <3>. QED  BY ONLY <2>1, <2>2, <3>1, Recursion
    <2>5. \A k \in 1..n : k - 1 \in 0..n
      BY <1>1
    <2>6. \A k \in 1..n : f[k] = Step(k, f[k - 1])
      BY <2>3, <2>4, <2>5 DEF Recurs
    <2>7. f = [i \in 0..n |-> f[i]] /\ f[0] = pool
      BY <2>4 DEF Recurs
    <2>8. \A i \in 0..n : i = 0 \/ i \in 1..n
      BY <1>1
    <2>9. Is(f)
      BY <2>6, <2>7, <2>8
    <2>. QED  BY <2>9
  <1>5. Is(h)
    BY <1>4
  <1>. HIDE DEF h, n
  <1>6. h[0] = pool /\ \A i \in 1..n : h[i] = Step(i, h[i - 1])
    BY <1>1, <1>5
  <1>. DEFINE T == {k \in 0..n : h[k] \in S}
  <1>7. 0 \in T
    <2>1. h[0] \in S /\ 0 \in 0..n
      BY <1>1, <1>6 DEF S
    <2>. QED  BY <2>1
  <1>8. ASSUME NEW m \in 0..n, m + 1 \in 0..n, m \in T PROVE m + 1 \in T
    <2>1. m + 1 \in 1..n /\ (m + 1) - 1 = m
      BY <1>1, <1>8
    <2>2. h[m + 1] = Step(m + 1, h[m])
      BY <1>6, <2>1
    <2>. QED  BY <1>2, <1>8, <2>1, <2>2
  <1>9. n \in T
    <2>. HIDE DEF T
    <2>1. \A k \in 0..n : k \in T
      BY <1>1, <1>7, <1>8, UpTo
    <2>2. n \in 0..n
      BY <1>1
    <2>. QED  BY <2>1, <2>2
  <1>. QED  BY <1>3, <1>9 DEF S

(* Kicking a group takes no seats. *)
LEMMA KickGroupKeeps ==
  ASSUME NEW w \in Seq(Group), NEW cap \in Nat, NEW pool \in Pools(w, cap), NEW size
  PROVE  KickGroup(pool, w, size).pool \in Pools(w, cap)
  <1>1. \E i : KickGroup(pool, w, size).pool = [pool EXCEPT !.picked = pool.picked \ {i}]
    BY DEF KickGroup
  <1>2. PICK i : KickGroup(pool, w, size).pool = [pool EXCEPT !.picked = pool.picked \ {i}]
    BY <1>1
  <1>3. /\ pool \in [picked : SUBSET (DOMAIN w), next : Nat] /\ \A j \in pool.picked : w[j].bg = NoBG
        /\ SizeOf(w, pool.picked) <= cap
    BY DEF Pools
  <1>4. pool.picked \ {i} \in SUBSET pool.picked /\ pool.picked \in SUBSET (DOMAIN w)
    BY <1>3
  <1>5. /\ SizeOf(w, pool.picked \ {i}) <= SizeOf(w, pool.picked) /\ SizeOf(w, pool.picked) \in Nat
        /\ SizeOf(w, pool.picked \ {i}) \in Nat
    <2>1. pool.picked \ {i} \in SUBSET (DOMAIN w)
      BY <1>4
    <2>. QED  BY <1>4, <2>1, SizeOfIs
  <1>6. SizeOf(w, pool.picked \ {i}) <= cap
    BY <1>3, <1>5
  <1>. QED  BY <1>2, <1>3, <1>6 DEF Pools

(* The other team. *)
LEMMA OtherIs ==
  ASSUME NEW t \in Teams
  PROVE  Other(t) \in Teams /\ Other(t) # t
  <1>1. \E u \in Teams : u # t
    BY DEF Teams
  <1>. QED  BY <1>1 DEF Other

(* Pools for both teams, that leave free[t] seats of a team at most taken. *)
BothPools(waiting, free) == {pools \in [Teams -> [picked : SUBSET Nat, next : Nat]] :
                                \A t \in Teams : pools[t] \in Pools(waiting[t], free[t])}

Balance(waiting, free, gap, pools) ==
    LET Diff(t) == free[t] - SizeOf(waiting[t], pools[t].picked)
        t == IF Diff("alliance") < Diff("horde") THEN "alliance" ELSE "horde"
        room    == Diff(Other(t))
        kicked  == KickGroup(pools[t], waiting[t], room - Diff(t))
        desired == IF free[t] >= room THEN free[t] - room ELSE 0
    IN IF Apart(Diff("alliance"), Diff("horde")) <= gap \/ pools[t].picked = {}
       THEN pools
       ELSE [pools EXCEPT ![t] = IF kicked.more THEN TakeFrom(kicked.pool, waiting[t], desired)
                                 ELSE kicked.pool]

(* The places of a pool are numbers. *)
LEMMA PoolsAreNumbers ==
  ASSUME NEW w \in Seq(Group), NEW cap
  PROVE  Pools(w, cap) \subseteq [picked : SUBSET Nat, next : Nat]
  <1>1. DOMAIN w \subseteq Nat
    BY LenProperties
  <1>. QED  BY <1>1 DEF Pools

(* A round of balancing takes no seats that are not free. *)
LEMMA BalanceKeeps ==
  ASSUME NEW waiting \in [Teams -> Seq(Group)], NEW free \in [Teams -> Nat], NEW gap,
         NEW pools \in BothPools(waiting, free)
  PROVE  Balance(waiting, free, gap, pools) \in BothPools(waiting, free)
  <1>. DEFINE Diff(t) == free[t] - SizeOf(waiting[t], pools[t].picked)
              t == IF Diff("alliance") < Diff("horde") THEN "alliance" ELSE "horde"
              room    == Diff(Other(t))
              kicked  == KickGroup(pools[t], waiting[t], room - Diff(t))
              desired == IF free[t] >= room THEN free[t] - room ELSE 0
              new == IF kicked.more THEN TakeFrom(kicked.pool, waiting[t], desired) ELSE kicked.pool
  <1>1. \/ Balance(waiting, free, gap, pools) = pools
        \/ Balance(waiting, free, gap, pools) = [pools EXCEPT ![t] = new]
    BY DEF Balance
  <1>2. t \in Teams
    BY TeamsAre
  <1>3. \A u \in Teams : /\ waiting[u] \in Seq(Group) /\ free[u] \in Nat /\ pools[u] \in Pools(waiting[u], free[u])
    BY DEF BothPools
  <1>4. \A u \in Teams : Diff(u) \in Nat
    <2>. TAKE u \in Teams
    <2>1. waiting[u] \in Seq(Group) /\ free[u] \in Nat
          /\ pools[u].picked \in SUBSET (DOMAIN waiting[u]) /\ SizeOf(waiting[u], pools[u].picked) <= free[u]
      BY <1>3 DEF Pools
    <2>2. SizeOf(waiting[u], pools[u].picked) \in Nat
      BY <2>1, SizeOfIs
    <2>. QED  BY <2>1, <2>2
  <1>. HIDE DEF Diff, t
  <1>5. room \in Nat
    BY <1>2, <1>4, OtherIs
  <1>. HIDE DEF room
  <1>6. desired \in Nat /\ desired <= free[t]
    BY <1>2, <1>3, <1>5
  <1>7. kicked.pool \in Pools(waiting[t], free[t])
    BY <1>2, <1>3, KickGroupKeeps
  <1>. HIDE DEF desired, kicked
  <1>8. TakeFrom(kicked.pool, waiting[t], desired) \in Pools(waiting[t], free[t])
    BY <1>2, <1>3, <1>6, <1>7, TakeFromKeeps
  <1>9. new \in Pools(waiting[t], free[t]) /\ new \in [picked : SUBSET Nat, next : Nat]
    BY <1>2, <1>3, <1>7, <1>8, PoolsAreNumbers
  <1>. HIDE DEF new
  <1>10. [pools EXCEPT ![t] = new] \in BothPools(waiting, free)
    BY <1>2, <1>9 DEF BothPools
  <1>. QED  BY <1>1, <1>10

(* FillPlayersToBG picks no more players than there are free seats. *)
LEMMA FillPlayersKeeps ==
  ASSUME NEW waiting \in [Teams -> Seq(Group)], NEW free \in [Teams -> Nat], NEW invitation
  PROVE  FillPlayersToBG(waiting, free, invitation) \in BothPools(waiting, free)
  <1>. DEFINE gap == IF invitation = "balanced" THEN 1 ELSE 0
              empty  == [t \in Teams |-> EmptyPool]
              filled == [t \in Teams |-> TakeFrom(EmptyPool, waiting[t], free[t])]
              n == Len(waiting["alliance"]) + Len(waiting["horde"])
              S == BothPools(waiting, free)
              Step(s) == Balance(waiting, free, gap, s)
              Is(f) == f = [i \in 0..n |-> IF i = 0 THEN filled ELSE Step(f[i - 1])]
              h == CHOOSE f : Is(f)
  <1>1. \/ FillPlayersToBG(waiting, free, invitation) = empty
        \/ FillPlayersToBG(waiting, free, invitation) = filled
        \/ FillPlayersToBG(waiting, free, invitation) = h[n]
    BY DEF FillPlayersToBG, Balance
  <1>2. \A t \in Teams : waiting[t] \in Seq(Group) /\ free[t] \in Nat
    OBVIOUS
  <1>3. \A t \in Teams : EmptyPool \in Pools(waiting[t], free[t])
    BY <1>2, EmptyPoolIs
  <1>4. \A t \in Teams : TakeFrom(EmptyPool, waiting[t], free[t]) \in Pools(waiting[t], free[t])
    <2>1. \A t \in Teams : free[t] <= free[t]
      BY <1>2
    <2>. QED  BY <1>2, <1>3, <2>1, TakeFromKeeps
  <1>5. empty \in S
    BY <1>2, <1>3, PoolsAreNumbers DEF BothPools
  <1>6. filled \in S
    BY <1>2, <1>4, PoolsAreNumbers DEF BothPools
  <1>7. \A s \in S : Step(s) \in S
    BY BalanceKeeps
  <1>8. n \in Nat
    BY <1>2, TeamsAre, LenProperties
  <1>. HIDE DEF empty, filled, n, S, Step
  <1>9. \E f : Is(f)
    <2>. DEFINE G == [i \in 1..n |-> [s \in S |-> Step(s)]]
    <2>1. G \in [1..n -> [S -> S]]
      BY <1>7
    <2>2. \A i \in 1..n, s \in S : G[i][s] = Step(s)
      OBVIOUS
    <2>. HIDE DEF G
    <2>3. PICK f : Recurs(f, n, S, filled, G)
      BY ONLY <1>6, <1>8, <2>1, Recursion
    <2>4. \A k \in 1..n : k - 1 \in 0..n
      BY <1>8
    <2>5. \A k \in 1..n : f[k] = Step(f[k - 1])
      BY <2>2, <2>3, <2>4 DEF Recurs
    <2>6. f = [i \in 0..n |-> f[i]] /\ f[0] = filled
      BY <2>3 DEF Recurs
    <2>7. \A i \in 0..n : i = 0 \/ i \in 1..n
      BY <1>8
    <2>8. Is(f)
      BY <2>5, <2>6, <2>7
    <2>. QED  BY <2>8
  <1>10. Is(h)
    BY <1>9
  <1>. HIDE DEF h
  <1>11. h[0] = filled /\ \A i \in 1..n : h[i] = Step(h[i - 1])
    BY <1>8, <1>10
  <1>. DEFINE T == {k \in 0..n : h[k] \in S}
  <1>12. 0 \in T
    <2>1. h[0] \in S /\ 0 \in 0..n
      BY <1>6, <1>8, <1>11
    <2>. QED  BY <2>1
  <1>13. ASSUME NEW m \in 0..n, m + 1 \in 0..n, m \in T PROVE m + 1 \in T
    <2>1. m + 1 \in 1..n /\ (m + 1) - 1 = m
      BY <1>8, <1>13
    <2>2. h[m + 1] = Step(h[m])
      BY <1>11, <2>1
    <2>. QED  BY <1>7, <1>13, <2>1, <2>2
  <1>14. h[n] \in S
    <2>. HIDE DEF T
    <2>1. \A k \in 0..n : k \in T
      BY <1>8, <1>12, <1>13, UpTo
    <2>2. n \in T
      BY <1>8, <2>1
    <2>. QED  BY <2>2 DEF T
  <1>. QED  BY <1>1, <1>5, <1>6, <1>14 DEF S

(* What the pools pick is a choice. *)
LEMMA ChosenIs ==
  ASSUME NEW s \in Realms, NEW q \in BGTypes, NEW b \in Battlegrounds,
         NEW waiting \in [Teams -> Seq(Group)], NEW free \in [Teams -> Nat],
         NEW pools \in BothPools(waiting, free),
         \A t \in Teams : /\ Range(waiting[t]) \subseteq OfTeam(s, q, t)
                          /\ s.bgs[b].invited[t] + free[t] <= MaxPerTeam
                          /\ s.bgs[b].status = "none" => free[t] = 0
  PROVE  Choice(s, q, b, Chosen(waiting, pools))
  <1>. SUFFICES ASSUME NEW t \in Teams
                PROVE  LET c == Chosen(waiting, pools)
                       IN  /\ c[t] \subseteq OfTeam(s, q, t) /\ \A g \in c[t] : g.bg = NoBG
                           /\ s.bgs[b].invited[t] + Cardinality(Called(c, t)) <= MaxPerTeam
                           /\ s.bgs[b].status = "none" => Cardinality(Called(c, t)) = 0
    BY DEF Choice
  <1>. DEFINE c == Chosen(waiting, pools)  w == waiting[t]  ps == pools[t].picked
  <1>1. w \in Seq(Group) /\ free[t] \in Nat /\ pools[t] \in Pools(w, free[t])
    BY DEF BothPools
  <1>2. c[t] = {w[i] : i \in ps}
    BY DEF Chosen
  <1>3. ps \in SUBSET (DOMAIN w) /\ (\A i \in ps : w[i].bg = NoBG) /\ SizeOf(w, ps) <= free[t]
    BY <1>1 DEF Pools
  <1>4. SizeOf(w, ps) \in Nat
    BY <1>1, <1>3, SizeOfIs
  <1>5. Called(c, t) = UNION {w[i].players : i \in ps}
    <2>. HIDE DEF c
    <2>. QED  BY <1>2 DEF Called
  <1>6. Cardinality(Called(c, t)) = SizeOf(w, ps)
    BY <1>5 DEF SizeOf
  <1>7. c[t] \subseteq OfTeam(s, q, t) /\ \A g \in c[t] : g.bg = NoBG
    <2>1. c[t] \subseteq Range(w)
      BY <1>2, <1>3 DEF Range
    <2>2. Range(w) \subseteq OfTeam(s, q, t)
      OBVIOUS
    <2>. QED  BY <1>2, <1>3, <2>1, <2>2
  <1>. HIDE DEF c, w, ps
  <1>8. s.bgs[b].invited[t] \in Nat /\ s.bgs[b].invited[t] + free[t] <= MaxPerTeam
        /\ (s.bgs[b].status = "none" => free[t] = 0)
    BY DEF Realms, Instance
  <1>9. s.bgs[b].invited[t] + Cardinality(Called(c, t)) <= MaxPerTeam
    BY <1>1, <1>3, <1>4, <1>6, <1>8, BattlegroundAssumption
  <1>10. s.bgs[b].status = "none" => Cardinality(Called(c, t)) = 0
    BY <1>1, <1>3, <1>4, <1>6, <1>8
  <1>. QED  BY <1>7, <1>9, <1>10 DEF c

(* The free slots are seats that a battleground has left; one that is gone has none. *)
LEMMA FreeSlotsAre ==
  ASSUME NEW s \in Realms, Seated(s), NEW b \in Battlegrounds, NEW t \in Teams, NEW invitation
  PROVE  /\ GetFreeSlotsForTeam(s, b, t, invitation) \in Nat
         /\ s.bgs[b].invited[t] + GetFreeSlotsForTeam(s, b, t, invitation) <= MaxPerTeam
         /\ s.bgs[b].status = "none" => GetFreeSlotsForTeam(s, b, t, invitation) = 0
  <1>. DEFINE inv == s.bgs[b].invited
              present == [u \in Teams |-> Cardinality({p \in s.bgs[b].players : Side[p] = u})]
              Lead(n) == IF n[t] = n[Other(t)] THEN 1
                         ELSE IF n[Other(t)] > n[t] THEN n[Other(t)] - n[t] ELSE 0
              room    == IF inv[t] < MaxPerTeam THEN MaxPerTeam - inv[t] ELSE 0
              inside  == IF present[t] > present[Other(t)] /\ inv[t] <= MinPerTeam
                         THEN MinPerTeam - inv[t] + 1 ELSE Lead(present)
              least == Min({Lead(inv), room, inside})
              f == GetFreeSlotsForTeam(s, b, t, invitation)
  <1>1. f = IF s.bgs[b].status # "open" THEN 0 ELSE IF invitation = "no_balance" THEN room ELSE least
    BY DEF GetFreeSlotsForTeam
  <1>2. s.bgs[b] \in Instance
    BY DEF Realms
  <1>3. inv \in [Teams -> Nat] /\ inv[t] <= MaxPerTeam
    BY <1>2 DEF Instance, Seated
  <1>4. \A u \in Teams : present[u] \in Nat
    <2>. TAKE u \in Teams
    <2>1. {p \in s.bgs[b].players : Side[p] = u} \in SUBSET Fighters
      BY <1>2 DEF Instance
    <2>2. IsFiniteSet({p \in s.bgs[b].players : Side[p] = u})
      BY <2>1, BattlegroundAssumption, FS_Subset
    <2>. QED  BY <2>2, FS_CardinalityType
  <1>5. Other(t) \in Teams
    BY OtherIs
  <1>. HIDE DEF present, inv
  <1>6. Lead(inv) \in Nat /\ Lead(present) \in Nat
    BY <1>3, <1>4, <1>5
  <1>. HIDE DEF Lead
  <1>7. room \in Nat /\ inv[t] + room <= MaxPerTeam
    BY <1>3, BattlegroundAssumption
  <1>8. inside \in Nat
    BY <1>3, <1>6, BattlegroundAssumption
  <1>. HIDE DEF room, inside
  <1>9. least \in Nat /\ least <= room
    <2>. DEFINE N == {Lead(inv), room, inside}
    <2>1. N \in SUBSET Nat /\ room \in N
      BY <1>6, <1>7, <1>8
    <2>. HIDE DEF N
    <2>2. \E i \in N : \A j \in N : i <= j
      BY <2>1, Least
    <2>3. Min(N) \in N /\ \A j \in N : Min(N) <= j
      BY <2>2 DEF Min
    <2>4. Min(N) \in Nat /\ Min(N) <= room
      BY <2>1, <2>3
    <2>. QED  BY <2>4 DEF N
  <1>. HIDE DEF least, f
  <1>10. f \in Nat /\ inv[t] + f <= MaxPerTeam /\ (s.bgs[b].status = "none" => f = 0)
    BY <1>1, <1>3, <1>7, <1>9, BattlegroundAssumption
  <1>. QED  BY <1>10 DEF f, inv

(* A realm between two steps of an update: nobody has left or entered a queue. *)
During == {s \in Realms : /\ Sound(s, bgData) /\ ~s.aborted
                          /\ \A p \in Fighters, k \in BGTypes : InQueue(s, p, k) <=> InQueue(Realm, p, k)}

(* Filling a battleground keeps the invariant. *)
LEMMA FillRunningKeeps ==
  ASSUME BGInv, ~aborted, FreshStamp # {}, NEW s \in During, NEW q \in BGTypes,
         NEW b \in Battlegrounds, NEW invitation
  PROVE  FillRunning(s, q, b, invitation) \in During
  <1>. DEFINE waiting == s.queued[q]["normal"]
              free == FreeSlots(s, b, invitation)
              pools == FillPlayersToBG(waiting, free, invitation)
              chosen == Chosen(waiting, pools)
              x == Invite(s, q, b, chosen)
  <1>1. FillRunning(s, q, b, invitation) = x
    BY DEF FillRunning
  <1>2. s \in Realms /\ Sound(s, bgData) /\ ~s.aborted /\ Seated(s)
        /\ \A p \in Fighters, k \in BGTypes : InQueue(s, p, k) <=> InQueue(Realm, p, k)
    BY DEF During, Sound
  <1>3. free \in [Teams -> Nat] /\ \A t \in Teams : free[t] = GetFreeSlotsForTeam(s, b, t, invitation)
    BY <1>2, FreeSlotsAre DEF FreeSlots
  <1>4. waiting \in [Teams -> Seq(Group)] /\ \A t \in Teams : Range(waiting[t]) \subseteq OfTeam(s, q, t)
    <2>1. waiting \in [Teams -> Seq(Group)]
      BY <1>2, TeamsAre DEF Realms, Lists
    <2>. QED  BY <2>1, TeamsAre DEF OfTeam
  <1>. HIDE DEF free, waiting
  <1>5. pools \in BothPools(waiting, free)
    BY <1>3, <1>4, FillPlayersKeeps
  <1>6. \A t \in Teams : /\ s.bgs[b].invited[t] + free[t] <= MaxPerTeam
                         /\ s.bgs[b].status = "none" => free[t] = 0
    BY <1>2, <1>3, FreeSlotsAre
  <1>. HIDE DEF pools
  <1>7. Choice(s, q, b, chosen)
    BY <1>2, <1>3, <1>4, <1>5, <1>6, ChosenIs
  <1>8. x = Invite(s, q, b, chosen)
    OBVIOUS
  <1>9. q \in BGTypes /\ b \in Battlegrounds /\ BGInv /\ ~aborted /\ FreshStamp # {}
    OBVIOUS
  <1>. HIDE DEF chosen, x
  <1>10. /\ Sound(x, bgData) /\ ~x.aborted
         /\ \A p \in Fighters, k \in BGTypes : InQueue(x, p, k) <=> InQueue(Realm, p, k)
    BY ONLY <1>2, <1>7, <1>8, <1>9, InviteDoes
  <1>. QED  BY <1>1, <1>10 DEF During, Sound

(* An update begins with the realm as it is, and what it ends with keeps the invariant. *)
LEMMA RealmIsDuring ==
  ASSUME BGInv, ~aborted
  PROVE  Realm \in During
  BY BGInvSays DEF During

(* What an update ends with keeps the invariant. *)
LEMMA DuringConcludes ==
  ASSUME BGInv, ~aborted, NEW x \in During, Become(x), UNCHANGED <<queueSlots, bgData>>
  PROVE  BGInv'
  <1>1. Sound(x, bgData) /\ \A p \in Fighters, k \in BGTypes : InQueue(x, p, k) <=> InQueue(Realm, p, k)
    BY DEF During
  <1>2. \A p \in Fighters : /\ \A q \in BGTypes : q \in queueSlots[p] <=> InQueue(x, p, q)
                            /\ bgData[p].bg # NoBG => queueSlots[p] = {}
    BY <1>1, BGInvSays
  <1>. QED  BY <1>1, <1>2, BGInvConcludes, BGInvSays

(* Filling one battleground after another keeps the invariant, however many need players. *)
LEMMA FillBattlegroundsKeeps ==
  ASSUME BGInv, ~aborted, FreshStamp # {}, NEW q \in BGTypes, NEW invitation,
         FillBattlegrounds(q, invitation)
  PROVE  BGInv'
  <1>1. PICK l \in Needing(q, invitation) :
           /\ LET Filled[i \in 0..Len(l)] ==
                      IF i = 0 THEN Realm ELSE FillRunning(Filled[i - 1], q, l[i], invitation)
              IN Become(Filled[Len(l)])
           /\ UNCHANGED <<queueSlots, bgData>>
    BY DEF FillBattlegrounds
  <1>. DEFINE n == Len(l)
              Step(i, s) == FillRunning(s, q, l[i], invitation)
              Is(f) == f = [i \in 0..n |-> IF i = 0 THEN Realm ELSE Step(i, f[i - 1])]
              h == CHOOSE f : Is(f)
  <1>2. Become(h[n]) /\ UNCHANGED <<queueSlots, bgData>>
    BY <1>1
  <1>3. n \in Nat /\ \A i \in 1..n : l[i] \in Battlegrounds
    <2>. DEFINE running == {b \in Battlegrounds : bgs[b].type = q /\ HasFreeSlots(Realm, b, invitation)}
    <2>1. l \in SeqOf(running, Cardinality(running))
      BY <1>1 DEF Needing
    <2>2. running \subseteq Battlegrounds
      OBVIOUS
    <2>. HIDE DEF running
    <2>3. IsFiniteSet(running)
      BY <2>2, BattlegroundAssumption, FS_Subset
    <2>4. Cardinality(running) \in Nat
      BY <2>3, FS_CardinalityType
    <2>5. PICK m \in 0..Cardinality(running) : l \in [1..m -> running]
      BY <2>1 DEF SeqOf
    <2>6. l \in Seq(running) /\ Len(l) = m /\ m \in Nat
      <3>1. m \in Nat
        BY <2>4
      <3>2. l = [i \in 1..m |-> l[i]] /\ \A i \in 1..m : l[i] \in running
        BY <2>5
      <3>3. l \in Seq(running)
        BY <3>1, <3>2, IsASeq
      <3>4. DOMAIN l = 1..m /\ DOMAIN l = 1..Len(l) /\ Len(l) \in Nat
        BY <2>5, <3>3, LenProperties
      <3>. QED  BY <3>1, <3>3, <3>4
    <2>. QED  BY <2>2, <2>5, <2>6
  <1>4. \A i \in 1..n, s \in During : Step(i, s) \in During
    BY <1>3, FillRunningKeeps
  <1>5. Realm \in During
    BY RealmIsDuring
  <1>. HIDE DEF n, Step
  <1>6. \E f : Is(f)
    <2>. DEFINE S == During
                G == [i \in 1..n |-> [s \in S |-> Step(i, s)]]
    <2>. HIDE DEF S
    <2>1. G \in [1..n -> [S -> S]]
      BY <1>4 DEF S
    <2>2. \A i \in 1..n, s \in S : G[i][s] = Step(i, s)
      OBVIOUS
    <2>3. n \in Nat /\ Realm \in S
      BY <1>3, <1>5 DEF S
    <2>. HIDE DEF G
    <2>4. PICK f : Recurs(f, n, S, Realm, G)
      BY ONLY <2>1, <2>3, Recursion
    <2>5. \A k \in 1..n : k - 1 \in 0..n
      BY <1>3
    <2>6. \A k \in 1..n : f[k] = Step(k, f[k - 1])
      BY <2>2, <2>4, <2>5 DEF Recurs
    <2>7. f = [i \in 0..n |-> f[i]] /\ f[0] = Realm
      BY <2>4 DEF Recurs
    <2>8. \A i \in 0..n : i = 0 \/ i \in 1..n
      BY <1>3
    <2>9. Is(f)
      BY <2>6, <2>7, <2>8
    <2>. QED  BY <2>9
  <1>7. Is(h)
    BY <1>6
  <1>. HIDE DEF h
  <1>8. h[0] = Realm /\ \A i \in 1..n : h[i] = Step(i, h[i - 1])
    BY <1>3, <1>7
  <1>. DEFINE T == {k \in 0..n : h[k] \in During}
  <1>9. 0 \in T
    <2>1. h[0] \in During /\ 0 \in 0..n
      BY <1>3, <1>5, <1>8
    <2>. QED  BY <2>1
  <1>10. ASSUME NEW m \in 0..n, m + 1 \in 0..n, m \in T PROVE m + 1 \in T
    <2>1. m + 1 \in 1..n /\ (m + 1) - 1 = m
      BY <1>3, <1>10
    <2>2. h[m + 1] = Step(m + 1, h[m])
      BY <1>8, <2>1
    <2>. QED  BY <1>4, <1>10, <2>1, <2>2
  <1>11. h[n] \in During
    <2>. HIDE DEF T
    <2>1. \A k \in 0..n : k \in T
      BY <1>3, <1>9, <1>10, UpTo
    <2>2. n \in T
      BY <1>3, <2>1
    <2>. QED  BY <2>2 DEF T
  <1>. QED  BY <1>2, <1>11, DuringConcludes

(* Moving groups between the lists of a team and changing instances that invited nobody is a step. *)
LEMMA DuringFrame ==
  ASSUME NEW s \in During, NEW x \in Realms, x.aborted = s.aborted, Vacant(x),
         \A b \in Battlegrounds, t \in Teams : x.bgs[b].invited[t] = s.bgs[b].invited[t],
         \A k \in BGTypes, t \in Teams : OfTeam(x, k, t) = OfTeam(s, k, t)
  PROVE  x \in During
  <1>1. /\ s \in Realms /\ Sound(s, bgData) /\ ~s.aborted /\ Sided(s) /\ Unique(s)
        /\ Counted(s, bgData) /\ Seated(s)
        /\ \A p \in Fighters, k \in BGTypes : InQueue(s, p, k) <=> InQueue(Realm, p, k)
    BY DEF During, Sound
  <1>2. \A k \in BGTypes : GroupsIn(x, k) = GroupsIn(s, k)
    <2>. TAKE k \in BGTypes
    <2>1. \A g : g \in GroupsIn(x, k) <=> g \in GroupsIn(s, k)
      BY QueueOfTeams
    <2>. QED  BY <2>1
  <1>3. Sided(x) /\ Unique(x)
    BY <1>1, <1>2 DEF Sided, Unique
  <1>4. \A p, k : k \in BGTypes => (InQueue(x, p, k) <=> InQueue(s, p, k))
    BY <1>2 DEF InQueue
  <1>5. ASSUME NEW b, NEW t PROVE Invitees(x, b, t) = Invitees(s, b, t)
    <2>1. \A pq \in Fighters \X BGTypes : GroupsIn(x, pq[2]) = GroupsIn(s, pq[2])
      BY <1>2
    <2>. QED  BY <2>1 DEF Invitees
  <1>6. Counted(x, bgData) /\ Seated(x)
    BY <1>1, <1>5 DEF Counted, Seated
  <1>. QED  BY <1>1, <1>3, <1>4, <1>6 DEF During, Sound

(* A new instance has invited nobody. *)
LEMMA CreateKeeps ==
  ASSUME NEW s \in During, NEW q \in BGTypes, NEW b \in Battlegrounds, s.bgs[b].status = "none"
  PROVE  /\ Create(s, q, b) \in During /\ Create(s, q, b).queued = s.queued
         /\ Create(s, q, b).bgs[b].status = "open"
         /\ \A t \in Teams : Create(s, q, b).bgs[b].invited[t] = 0
  <1>. DEFINE inst == [Gone EXCEPT !.status = "open", !.type = q]
              g == [s.bgs EXCEPT ![b] = inst]
              x == Create(s, q, b)
  <1>1. x = [s EXCEPT !.bgs = g]
    BY DEF Create
  <1>2. s \in Realms /\ Vacant(s)
    BY DEF During, Sound
  <1>3. inst \in Instance /\ inst.status = "open" /\ \A t \in Teams : inst.invited[t] = 0
    BY DEF Gone, Instance
  <1>. HIDE DEF inst
  <1>4. g \in [Battlegrounds -> Instance] /\ \A c \in Battlegrounds : g[c] = IF c = b THEN inst ELSE s.bgs[c]
    BY <1>2, <1>3 DEF Realms
  <1>. HIDE DEF g, x
  <1>5. x \in Realms /\ x.bgs = g /\ x.queued = s.queued /\ x.aborted = s.aborted
    BY <1>1, <1>2, <1>4 DEF Realms
  <1>6. \A c \in Battlegrounds, t \in Teams : x.bgs[c].invited[t] = s.bgs[c].invited[t]
    BY <1>2, <1>3, <1>4, <1>5 DEF Vacant
  <1>7. Vacant(x)
    BY <1>2, <1>3, <1>4, <1>5 DEF Vacant
  <1>8. \A k \in BGTypes, t \in Teams : OfTeam(x, k, t) = OfTeam(s, k, t)
    BY <1>5, QueuesDecide
  <1>9. x \in During
    BY <1>5, <1>6, <1>7, <1>8, DuringFrame
  <1>. QED  BY <1>3, <1>4, <1>5, <1>9 DEF x

(* Reversing a list and putting it in front of another loses no element. *)
LEMMA ReverseKeeps ==
  ASSUME NEW S, NEW a \in Seq(S), NEW b \in Seq(S)
  PROVE  Reverse(a) \o b \in Seq(S) /\ Range(Reverse(a) \o b) = Range(a) \cup Range(b)
  <1>. DEFINE n == Len(a)  m == Len(b)  r == Reverse(a)  c == r \o b
  <1>1. /\ n \in Nat /\ m \in Nat /\ DOMAIN a = 1..n /\ DOMAIN b = 1..m
        /\ (\A i \in 1..n : a[i] \in S) /\ (\A i \in 1..m : b[i] \in S)
    BY LenProperties, ElementOfSeq
  <1>2. r = [i \in 1..n |-> a[(n - i) + 1]]
    BY DEF Reverse
  <1>3. \A i \in 1..n : (n - i) + 1 \in 1..n /\ (n - ((n - i) + 1)) + 1 = i
    BY <1>1
  <1>4. r \in Seq(S) /\ DOMAIN r = 1..n
    BY <1>1, <1>2, <1>3, IsASeq
  <1>5. Len(r) = n
    BY <1>1, <1>4, LenProperties
  <1>6. Range(r) = Range(a)
    <2>1. \A i \in 1..n : r[i] = a[(n - i) + 1]
      BY <1>2
    <2>2. Range(r) = {r[i] : i \in 1..n} /\ Range(a) = {a[i] : i \in 1..n}
      BY <1>1, <1>4 DEF Range
    <2>. HIDE DEF r, n
    <2>3. \A i \in 1..n : (n - i) + 1 \in 1..n /\ a[i] = r[(n - i) + 1]
      BY <1>3, <2>1
    <2>4. \A e : e \in Range(r) <=> e \in Range(a)
      BY <1>3, <2>1, <2>2, <2>3
    <2>. QED  BY <2>4
  <1>. HIDE DEF r, n, m
  <1>7. c \in Seq(S) /\ Len(c) = n + m
        /\ \A i \in 1..n + m : c[i] = IF i <= n THEN r[i] ELSE b[i - n]
    BY <1>4, <1>5, ConcatProperties DEF m
  <1>8. DOMAIN c = 1..n + m
    BY <1>7, LenProperties
  <1>. HIDE DEF c
  <1>9. Range(c) = Range(r) \cup Range(b)
    <2>1. \A i \in 1..n : i \in 1..n + m /\ c[i] = r[i]
      BY <1>1, <1>7
    <2>2. \A i \in 1..m : i + n \in 1..n + m /\ c[i + n] = b[i]
      BY <1>1, <1>7
    <2>3. \A i \in 1..n + m : i \in 1..n \/ (i - n \in 1..m /\ (i - n) + n = i)
      BY <1>1
    <2>4. Range(r) = {r[i] : i \in 1..n} /\ Range(b) = {b[i] : i \in 1..m} /\ Range(c) = {c[i] : i \in 1..n + m}
      BY <1>1, <1>4, <1>8 DEF Range
    <2>. QED  BY <2>1, <2>2, <2>3, <2>4
  <1>. QED  BY <1>6, <1>7, <1>9 DEF c, r

(* Moving premade groups to the normal queue changes no group. *)
LEMMA MovePremadeKeeps ==
  ASSUME NEW s \in During, NEW q \in BGTypes, NEW waited
  PROVE  MovePremade(s, q, waited) \in During
  <1>. DEFINE premade(t) == s.queued[q]["premade"][t]
              leaving(t) == {i \in DOMAIN premade(t) :
                                /\ premade(t)[i].bg = NoBG
                                /\ i <= waited[t] \/ Cardinality(premade(t)[i].players) < MinPerTeam}
              L(t) == leaving(t)
              K(t) == DOMAIN premade(t) \ leaving(t)
              normal  == [t \in Teams |-> Reverse(Only(premade(t), L(t))) \o s.queued[q]["normal"][t]]
              staying == [t \in Teams |-> Only(premade(t), K(t))]
              lists == [r \in Ranks |-> IF r = "normal" THEN normal ELSE staying]
              z == [s.queued EXCEPT ![q] = lists]
              x == MovePremade(s, q, waited)
  <1>1. x = [s EXCEPT !.queued = z]
    BY DEF MovePremade
  <1>2. s \in Realms /\ Vacant(s)
    BY DEF During, Sound
  <1>3. \A t \in Teams : premade(t) \in Seq(Group) /\ s.queued[q]["normal"][t] \in Seq(Group)
    BY <1>2, GroupsAre, TeamsAre
  <1>4. \A t \in Teams : L(t) \cap DOMAIN premade(t) = L(t) /\ K(t) \cap DOMAIN premade(t) = K(t)
                         /\ L(t) \cup K(t) = DOMAIN premade(t)
    OBVIOUS
  <1>. HIDE DEF L, K
  <1>5. \A t \in Teams : /\ Only(premade(t), L(t)) \in Seq(Group)
                         /\ Only(premade(t), K(t)) \in Seq(Group)
                         /\ Range(Only(premade(t), L(t))) = {premade(t)[i] : i \in L(t)}
                         /\ Range(Only(premade(t), K(t))) = {premade(t)[i] : i \in K(t)}
    <2>. TAKE t \in Teams
    <2>. DEFINE y == premade(t)
    <2>1. y \in Seq(Group)
      BY <1>3
    <2>. HIDE DEF y
    <2>2. \A keep : Only(y, keep) \in Seq(Group) /\ Range(Only(y, keep)) = {y[i] : i \in keep \cap DOMAIN y}
      BY <2>1, OnlyKeeps
    <2>3. L(t) \cap DOMAIN y = L(t) /\ K(t) \cap DOMAIN y = K(t)
      BY <1>4 DEF y
    <2>4. /\ Only(y, L(t)) \in Seq(Group) /\ Range(Only(y, L(t))) = {y[i] : i \in L(t)}
          /\ Only(y, K(t)) \in Seq(Group) /\ Range(Only(y, K(t))) = {y[i] : i \in K(t)}
      BY <2>2, <2>3
    <2>. QED  BY <2>4 DEF y
  <1>6. \A t \in Teams : /\ normal[t] \in Seq(Group)
                         /\ Range(normal[t]) = {premade(t)[i] : i \in L(t)} \cup Range(s.queued[q]["normal"][t])
    <2>. TAKE t \in Teams
    <2>. DEFINE a == Only(premade(t), L(t))  b == s.queued[q]["normal"][t]
    <2>1. a \in Seq(Group) /\ b \in Seq(Group) /\ normal[t] = Reverse(a) \o b
      BY <1>3, <1>5
    <2>2. Range(a) = {premade(t)[i] : i \in L(t)}
      BY <1>5
    <2>. HIDE DEF a, normal
    <2>3. normal[t] \in Seq(Group) /\ Range(normal[t]) = Range(a) \cup Range(b)
      BY <2>1, ReverseKeeps
    <2>. QED  BY <2>2, <2>3
  <1>7. \A t \in Teams : staying[t] \in Seq(Group) /\ Range(staying[t]) = {premade(t)[i] : i \in K(t)}
    BY <1>5
  <1>8. normal \in [Teams -> Seq(Group)] /\ staying \in [Teams -> Seq(Group)]
    BY <1>6, <1>7
  <1>. HIDE DEF normal, staying
  <1>9. lists \in Lists /\ lists["normal"] = normal /\ lists["premade"] = staying
    BY <1>8, TeamsAre DEF Lists
  <1>. HIDE DEF lists
  <1>10. z \in [BGTypes -> Lists] /\ \A k \in BGTypes : z[k] = IF k = q THEN lists ELSE s.queued[k]
    BY <1>2, <1>9 DEF Realms
  <1>. HIDE DEF z, x
  <1>11. x \in Realms /\ x.queued = z /\ x.bgs = s.bgs /\ x.aborted = s.aborted
    BY <1>1, <1>2, <1>10 DEF Realms
  <1>12. ASSUME NEW k \in BGTypes, NEW t \in Teams PROVE OfTeam(x, k, t) = OfTeam(s, k, t)
    <2>1. CASE k # q
      BY <1>10, <1>11, <2>1 DEF OfTeam
    <2>2. CASE k = q
      <3>1. OfTeam(x, q, t) = Range(normal[t]) \cup Range(staying[t])
        BY <1>9, <1>10, <1>11, TeamsAre DEF OfTeam
      <3>2. OfTeam(s, q, t) = Range(s.queued[q]["normal"][t]) \cup Range(premade(t))
        BY TeamsAre DEF OfTeam
      <3>3. Range(premade(t)) = {premade(t)[i] : i \in L(t)} \cup {premade(t)[i] : i \in K(t)}
        BY <1>4 DEF Range
      <3>. QED  BY <1>6, <1>7, <2>2, <3>1, <3>2, <3>3
    <2>. QED  BY <2>1, <2>2
  <1>13. Vacant(x)
    BY <1>2, <1>11 DEF Vacant
  <1>14. x \in During
    BY <1>11, <1>12, <1>13, DuringFrame
  <1>. QED  BY <1>14 DEF x

(* The premade groups that a match may be made of. *)
LEMMA PremadeIs ==
  ASSUME NEW s \in During, NEW x \in Realms, NEW q \in BGTypes, NEW b \in Battlegrounds,
         x.queued = s.queued, x.bgs[b].status = "open", \A t \in Teams : x.bgs[b].invited[t] = 0,
         \A t \in Teams : Fitting(s, q, t) # <<>>
  PROVE  Choice(x, q, b, PremadeMatch(s, q))
  <1>. DEFINE first(t) == <<Head(Fitting(s, q, t))>>
              waiting == [t \in Teams |-> first(t)]
              pools == [t \in Teams |-> TakeFrom(EmptyPool, first(t), MaxPerTeam)]
              free == [t \in Teams |-> MaxPerTeam]
  <1>1. PremadeMatch(s, q) = Chosen(waiting, pools)
    BY DEF PremadeMatch
  <1>2. s \in Realms
    BY DEF During
  <1>3. ASSUME NEW t \in Teams
        PROVE  /\ first(t) \in Seq(Group) /\ Range(first(t)) \subseteq OfTeam(x, q, t)
    <2>. DEFINE gs == s.queued[q]["premade"][t]
                keep == {i \in DOMAIN gs : gs[i].bg = NoBG /\ Cardinality(gs[i].players) >= MinPerTeam}
                fit == Fitting(s, q, t)
    <2>1. gs \in Seq(Group)
      BY <1>2, GroupsAre, TeamsAre
    <2>2. fit = Only(gs, keep)
      BY DEF Fitting
    <2>. HIDE DEF gs, keep, fit
    <2>3. fit \in Seq(Group) /\ Range(fit) \subseteq Range(gs)
      <3>1. Only(gs, keep) \in Seq(Group) /\ Range(Only(gs, keep)) = {gs[i] : i \in keep \cap DOMAIN gs}
        BY <2>1, OnlyKeeps
      <3>2. Range(gs) = {gs[i] : i \in DOMAIN gs}
        BY DEF Range
      <3>3. {gs[i] : i \in keep \cap DOMAIN gs} \subseteq {gs[i] : i \in DOMAIN gs}
        OBVIOUS
      <3>. QED  BY <2>2, <3>1, <3>2, <3>3
    <2>4. fit # <<>>
      BY DEF fit
    <2>5. Head(fit) \in Range(fit) /\ Head(fit) \in Group
      <3>1. Len(fit) \in Nat /\ Len(fit) # 0 /\ DOMAIN fit = 1..Len(fit) /\ Head(fit) = fit[1]
        BY <2>3, <2>4, LenProperties, EmptySeq, HeadTailProperties
      <3>2. 1 \in DOMAIN fit
        BY <3>1
      <3>. QED  BY <2>3, <3>1, <3>2, ElementOfSeq DEF Range
    <2>6. Range(gs) \subseteq OfTeam(x, q, t)
      BY TeamsAre DEF OfTeam, gs
    <2>. DEFINE e == Head(fit)
    <2>7. e \in Group /\ e \in OfTeam(x, q, t)
      BY <2>3, <2>5, <2>6
    <2>. HIDE DEF e
    <2>8. <<e>> \in Seq(Group) /\ Range(<<e>>) = {e}
      BY <2>7 DEF Range
    <2>. QED  BY <2>7, <2>8 DEF e, fit
  <1>. HIDE DEF first
  <1>4. waiting \in [Teams -> Seq(Group)] /\ \A t \in Teams : waiting[t] = first(t)
    BY <1>3
  <1>5. free \in [Teams -> Nat] /\ \A t \in Teams : free[t] = MaxPerTeam
    BY BattlegroundAssumption
  <1>6. \A t \in Teams : TakeFrom(EmptyPool, first(t), MaxPerTeam) \in Pools(first(t), MaxPerTeam)
    <2>1. MaxPerTeam \in Nat /\ MaxPerTeam <= MaxPerTeam
      BY BattlegroundAssumption
    <2>. QED  BY <1>3, <2>1, EmptyPoolIs, TakeFromKeeps
  <1>7. pools \in BothPools(waiting, free)
    BY <1>3, <1>4, <1>5, <1>6, PoolsAreNumbers DEF BothPools
  <1>. HIDE DEF waiting, pools, free
  <1>8. \A t \in Teams : /\ Range(waiting[t]) \subseteq OfTeam(x, q, t)
                         /\ x.bgs[b].invited[t] + free[t] <= MaxPerTeam
                         /\ x.bgs[b].status = "none" => free[t] = 0
    BY <1>3, <1>4, <1>5, BattlegroundAssumption
  <1>. QED  BY <1>1, <1>4, <1>5, <1>7, <1>8, ChosenIs

(* A new instance invites the groups chosen for it. *)
LEMMA OpenKeeps ==
  ASSUME BGInv, ~aborted, FreshStamp # {}, NEW s \in During, NEW q \in BGTypes,
         NEW b \in Battlegrounds, NEW chosen, Choice(s, q, b, chosen)
  PROVE  Invite(s, q, b, chosen) \in During
  <1>. DEFINE x == Invite(s, q, b, chosen)
  <1>1. /\ Sound(s, bgData) /\ ~s.aborted /\ q \in BGTypes /\ b \in Battlegrounds
        /\ BGInv /\ ~aborted /\ FreshStamp # {} /\ Choice(s, q, b, chosen)
        /\ \A p \in Fighters, k \in BGTypes : InQueue(s, p, k) <=> InQueue(Realm, p, k)
    BY DEF During
  <1>2. x = Invite(s, q, b, chosen)
    OBVIOUS
  <1>. HIDE DEF x
  <1>3. /\ Sound(x, bgData) /\ ~x.aborted
        /\ \A p \in Fighters, k \in BGTypes : InQueue(x, p, k) <=> InQueue(Realm, p, k)
    BY ONLY <1>1, <1>2, InviteDoes
  <1>. QED  BY <1>3 DEF During, Sound, x

(* A normal match is a choice for an instance that has invited nobody yet. *)
LEMMA NormalMatchIs ==
  ASSUME NEW s \in During, NEW x \in Realms, NEW q \in BGTypes, NEW b \in Battlegrounds,
         NEW invitation, x.queued = s.queued, x.bgs[b].status = "open",
         \A t \in Teams : x.bgs[b].invited[t] = 0
  PROVE  Choice(x, q, b, Chosen(s.queued[q]["normal"], NormalPools(s, q, invitation)))
  <1>. DEFINE waiting == s.queued[q]["normal"]
              free == [t \in Teams |-> MaxPerTeam]
              pools == NormalPools(s, q, invitation)
  <1>1. waiting \in [Teams -> Seq(Group)] /\ \A t \in Teams : Range(waiting[t]) \subseteq OfTeam(x, q, t)
    <2>1. waiting \in [Teams -> Seq(Group)]
      BY TeamsAre DEF During, Realms, Lists
    <2>. QED  BY <2>1, TeamsAre DEF OfTeam
  <1>2. free \in [Teams -> Nat] /\ \A t \in Teams : free[t] = MaxPerTeam
    BY BattlegroundAssumption
  <1>3. pools = FillPlayersToBG(waiting, free, invitation)
    BY DEF NormalPools
  <1>. HIDE DEF waiting, free, pools
  <1>4. pools \in BothPools(waiting, free)
    BY <1>1, <1>2, <1>3, FillPlayersKeeps
  <1>5. \A t \in Teams : /\ x.bgs[b].invited[t] + free[t] <= MaxPerTeam
                         /\ x.bgs[b].status = "none" => free[t] = 0
    BY <1>2, BattlegroundAssumption
  <1>6. Choice(x, q, b, Chosen(waiting, pools))
    BY <1>1, <1>2, <1>4, <1>5, ChosenIs
  <1>. QED  BY <1>6 DEF waiting, pools

(* Creating battlegrounds keeps the invariant. *)
LEMMA CreateMatchesKeeps ==
  ASSUME BGInv, ~aborted, FreshStamp # {}, NEW q \in BGTypes, NEW invitation, NEW waited,
         CreateMatches(q, invitation, waited)
  PROVE  BGInv'
  <1>. DEFINE premade == PremadeMatch(Realm, q)
              found   == \A t \in Teams : Fitting(Realm, q, t) # <<>>
              pairing == found /\ \A t \in Teams : premade[t] # {}
              first   == CHOOSE b \in FreeIds(Realm) : TRUE
              opened  == Invite(Create(Realm, q, first), q, first, premade)
              filled  == IF HasFreeSlots(opened, first, invitation)
                         THEN FillRunning(opened, q, first, invitation) ELSE opened
              rest    == IF pairing THEN filled
                         ELSE IF found THEN Realm ELSE MovePremade(Realm, q, waited)
              chosen  == Chosen(rest.queued[q]["normal"], NormalPools(rest, q, invitation))
              second  == CHOOSE b \in FreeIds(rest) : TRUE
              match   == IsMatch(rest.queued[q]["normal"], NormalPools(rest, q, invitation), invitation)
              x == IF match THEN Invite(Create(rest, q, second), q, second, chosen) ELSE rest
  <1>1. /\ pairing => FreeIds(Realm) # {}
        /\ match => FreeIds(rest) # {}
        /\ Become(x) /\ UNCHANGED <<queueSlots, bgData>>
    BY Zenon DEF CreateMatches
  <1>2. Realm \in During
    BY RealmIsDuring
  <1>3. \A s : \A b \in FreeIds(s) : b \in Battlegrounds /\ s.bgs[b].status = "none"
    BY DEF FreeIds
  <1>4. ASSUME pairing PROVE filled \in During
    <2>1. first \in Battlegrounds /\ Realm.bgs[first].status = "none"
      <3>1. first \in FreeIds(Realm)
        BY <1>1, <1>4
      <3>. HIDE DEF first
      <3>. QED  BY <1>3, <3>1
    <2>. DEFINE y == Create(Realm, q, first)
    <2>. HIDE DEF first
    <2>2. /\ y \in During /\ y.queued = Realm.queued /\ y.bgs[first].status = "open"
          /\ \A t \in Teams : y.bgs[first].invited[t] = 0
      BY <1>2, <2>1, CreateKeeps
    <2>. HIDE DEF y
    <2>3. Choice(y, q, first, premade)
      BY <1>2, <1>4, <2>1, <2>2, PremadeIs DEF During
    <2>4. Invite(y, q, first, premade) \in During
      BY <2>1, <2>2, <2>3, OpenKeeps
    <2>5. opened \in During
      BY <2>4 DEF y
    <2>. HIDE DEF opened
    <2>. QED  BY <2>1, <2>5, FillRunningKeeps
  <1>. HIDE DEF filled, first
  <1>5. rest \in During
    BY <1>2, <1>4, MovePremadeKeeps
  <1>. HIDE DEF rest
  <1>6. ASSUME match PROVE Invite(Create(rest, q, second), q, second, chosen) \in During
    <2>1. second \in Battlegrounds /\ rest.bgs[second].status = "none"
      <3>1. second \in FreeIds(rest)
        BY <1>1, <1>6
      <3>. HIDE DEF second
      <3>. QED  BY <1>3, <3>1
    <2>. DEFINE y == Create(rest, q, second)
    <2>. HIDE DEF second
    <2>2. /\ y \in During /\ y.queued = rest.queued /\ y.bgs[second].status = "open"
          /\ \A t \in Teams : y.bgs[second].invited[t] = 0
      BY <1>5, <2>1, CreateKeeps
    <2>. HIDE DEF y
    <2>3. Choice(y, q, second, chosen)
      BY <1>5, <2>1, <2>2, NormalMatchIs DEF During
    <2>. HIDE DEF chosen
    <2>4. Invite(y, q, second, chosen) \in During
      BY <2>1, <2>2, <2>3, OpenKeeps
    <2>. QED  BY <2>4 DEF y
  <1>. HIDE DEF second, chosen, match
  <1>7. x \in During
    BY <1>5, <1>6
  <1>. HIDE DEF x
  <1>. QED  BY <1>1, <1>7, DuringConcludes

(* The queue update keeps the invariant. *)
LEMMA QueueUpdateKeeps ==
  ASSUME BGInv, ~aborted, NEW q \in BGTypes, QueueUpdate(q)
  PROVE  BGInv'
  <1>1. FreshStamp # {}
    BY DEF QueueUpdate
  <1>2. PICK invitation \in InvitationTypes :
           \/ FillBattlegrounds(q, invitation)
           \/ \E waited : CreateMatches(q, invitation, waited)
    BY Zenon DEF QueueUpdate
  <1>3. CASE FillBattlegrounds(q, invitation)
    BY <1>1, <1>3, FillBattlegroundsKeeps
  <1>4. CASE \E waited : CreateMatches(q, invitation, waited)
    BY <1>1, <1>4, CreateMatchesKeeps
  <1>. QED  BY <1>2, <1>3, <1>4

-----------------------------------------------------------------------------
(* The invariant holds, and what follows from it. *)

(* The invariant holds at the start: nobody waits, nobody is invited. *)
LEMMA InitBGInv == BGInit => BGInv
  <1>. SUFFICES ASSUME BGInit PROVE BGInv
    OBVIOUS
  <1>1. <<>> \in Seq(Group) /\ Range(<<>>) = {}
    BY DEF Range
  <1>2. Gone \in Instance /\ \A t \in Teams : Gone.invited[t] = 0
    BY DEF Gone, Instance
  <1>3. Realm.queued = queued /\ Realm.bgs = bgs /\ Realm.timers = timers /\ Realm.aborted = aborted
    BY DEF Realm
  <1>4. Realm \in Realms
    <2>1. queued \in [BGTypes -> Lists]
      BY <1>1 DEF BGInit, Lists
    <2>2. bgs \in [Battlegrounds -> Instance]
      BY <1>2 DEF BGInit
    <2>. QED  BY <2>1, <2>2 DEF BGInit, Realm, Realms
  <1>5. \A q \in BGTypes : GroupsIn(Realm, q) = {} /\ \A t \in Teams : OfTeam(Realm, q, t) = {}
    <2>1. \A q \in BGTypes, r \in Ranks, t \in Teams : Realm.queued[q][r][t] = <<>>
      BY <1>3 DEF BGInit
    <2>. QED  BY <1>1, <2>1 DEF GroupsIn, OfTeam
  <1>6. Sided(Realm) /\ Unique(Realm)
    BY <1>5 DEF Sided, Unique
  <1>7. \A b \in Battlegrounds, t \in Teams : bgs[b].invited[t] = 0
    BY <1>2 DEF BGInit
  <1>8. Counted(Realm, bgData)
    <2>1. \A b, t : Invitees(Realm, b, t) = {}
      BY <1>5 DEF Invitees
    <2>2. \A b \in Battlegrounds : \A t : Players(bgData, b, t) = {}
      BY BattlegroundAssumption DEF BGInit, Players, Outside
    <2>3. Cardinality({}) = 0
      BY FS_EmptySet
    <2>4. \A b \in Battlegrounds, t \in Teams :
             Cardinality(Invitees(Realm, b, t)) + Cardinality(Players(bgData, b, t)) = 0
      BY <2>1, <2>2, <2>3
    <2>. QED  BY <1>3, <1>7, <2>4 DEF Counted
  <1>9. Vacant(Realm) /\ Seated(Realm)
    BY <1>3, <1>7, BattlegroundAssumption DEF Vacant, Seated
  <1>10. SlotsMatch
    BY <1>5 DEF BGInit, SlotsMatch, InQueue, InBattleground, Outside
  <1>11. bgData \in [Fighters -> Places] /\ queueSlots \in [Fighters -> SUBSET BGTypes]
    BY DEF BGInit, Places, Outside
  <1>. QED  BY <1>4, <1>6, <1>8, <1>9, <1>10, <1>11 DEF BGInv, Sound

(* A stutter keeps the invariant. *)
LEMMA StutterKeeps ==
  ASSUME BGInv, UNCHANGED bgVars
  PROVE  BGInv'
  <1>1. Realm' = Realm /\ bgData' = bgData /\ queueSlots' = queueSlots /\ aborted' = aborted
    BY DEF bgVars, Realm
  <1>2. SlotsMatch'
    BY <1>1 DEF BGInv, SlotsMatch, InBattleground
  <1>. QED  BY <1>1, <1>2 DEF BGInv

(* Every step keeps the invariant. *)
LEMMA NextBGInv == BGInv /\ [BGNext]_bgVars => BGInv'
  <1>. SUFFICES ASSUME BGInv, BGNext, ~aborted PROVE BGInv'
    BY StutterKeeps DEF BGNext
  <1>1. ASSUME NEW p \in Fighters, NEW q \in BGTypes, JoinAlone(p, q) PROVE BGInv'
    BY <1>1, JoinAloneKeeps
  <1>2. ASSUME NEW p \in Fighters, NEW q \in BGTypes, LeaveQueue(p, q) PROVE BGInv'
    BY <1>2, LeaveQueueKeeps
  <1>3. ASSUME NEW p \in Fighters, NEW q \in BGTypes, Accept(p, q) PROVE BGInv'
    BY <1>3, AcceptKeeps
  <1>4. ASSUME NEW p \in Fighters, NEW members \in SUBSET Fighters, NEW q \in BGTypes,
               JoinAsGroup(p, members, q)
        PROVE  BGInv'
    BY <1>4, JoinAsGroupKeeps
  <1>5. ASSUME NEW p \in Fighters, ArriveInBG(p) PROVE BGInv'
    BY <1>5, ArriveInBGKeeps
  <1>6. ASSUME NEW p \in Fighters, LandElsewhere(p) PROVE BGInv'
    BY <1>6, LandElsewhereKeeps
  <1>7. ASSUME NEW p \in Fighters, LeaveBattleground(p) PROVE BGInv'
    BY <1>7, LeaveBattlegroundKeeps
  <1>8. ASSUME NEW p \in Fighters, Logout(p) PROVE BGInv'
    BY <1>8, LogoutKeeps
  <1>9. ASSUME NEW tm \in timers, Expire(tm) PROVE BGInv'
    BY <1>9, ExpireKeeps
  <1>10. ASSUME NEW b \in Battlegrounds, EndBattleground(b) \/ DeleteBattleground(b) PROVE BGInv'
    BY <1>10, InstanceKeeps
  <1>11. ASSUME NEW b \in Battlegrounds, ProcessLeave(b) PROVE BGInv'
    BY <1>11, ProcessLeaveKeeps
  <1>12. ASSUME NEW q \in BGTypes, QueueUpdate(q) PROVE BGInv'
    BY <1>12, QueueUpdateKeeps
  <1>. QED  BY <1>1, <1>2, <1>3, <1>4, <1>5, <1>6, <1>7, <1>8, <1>9, <1>10, <1>11, <1>12 DEF BGNext

(* The invariant holds whatever the players, the types, the limits and the invitation type. *)
THEOREM BattlegroundInvariant == BGSpec => []BGInv
  <1>1. BGInit => BGInv
    BY InitBGInv
  <1>2. BGInv /\ [BGNext]_bgVars => BGInv'
    BY NextBGInv
  <1>. QED  BY <1>1, <1>2, PTL DEF BGSpec

(* A player holds a slot for a queue exactly if he waits in it, so that RemovePlayer finds whom it
   is called for, and nobody who is in a battleground or on his way to one waits in a queue. *)
THEOREM SlotsMatchHolds == BGSpec => []SlotsMatch
  <1>1. BGInv => SlotsMatch
    BY DEF BGInv
  <1>. QED  BY <1>1, BattlegroundInvariant, PTL

(* The invited count of a battleground is the number of invited players who still queue and of those
   who travel to it or are inside: no leave, expiry, logout or detour makes it drift. *)
THEOREM InvitedMatchesHolds == BGSpec => []InvitedMatches
  <1>1. BGInv => InvitedMatches
    <2>. SUFFICES ASSUME BGInv, NEW b \in Battlegrounds, NEW t \in Teams
                  PROVE  bgs[b].invited[t] =
                           Cardinality({pq \in Fighters \X BGTypes :
                                          /\ Side[pq[1]] = t /\ InQueue(Realm, pq[1], pq[2])
                                          /\ GroupOf(Realm, pq[1], pq[2]).bg = b})
                           + Cardinality({p \in Fighters : Side[p] = t /\ bgData[p].bg = b})
      BY DEF InvitedMatches
    <2>1. Realm \in Realms /\ Unique(Realm) /\ Counted(Realm, bgData)
      BY DEF BGInv, Sound
    <2>2. bgs[b].invited[t] = Cardinality(Invitees(Realm, b, t)) + Cardinality(Players(bgData, b, t))
      BY <2>1 DEF Counted, Realm
    <2>3. Invitees(Realm, b, t) = {pq \in Fighters \X BGTypes :
                                     /\ Side[pq[1]] = t /\ InQueue(Realm, pq[1], pq[2])
                                     /\ GroupOf(Realm, pq[1], pq[2]).bg = b}
      BY <2>1, InviteesAre
    <2>. QED  BY <2>2, <2>3 DEF Players
  <1>. QED  BY <1>1, BattlegroundInvariant, PTL

(* Whatever the invitation type, and however running battlegrounds, premade and normal matches take
   turns, no team of a battleground is ever invited beyond its seats. *)
THEOREM NoOverfillHolds == BGSpec => []NoOverfill
  <1>1. BGInv => NoOverfill
    BY DEF BGInv, Sound, Seated, NoOverfill, Realm
  <1>. QED  BY <1>1, BattlegroundInvariant, PTL
=============================================================================
