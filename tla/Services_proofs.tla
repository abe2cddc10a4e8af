---------------------------- MODULE Services_proofs ----------------------------
(***************************************************************************)
(* Proofs about four services that share no state with each other:         *)
(* SavingSystem (no save that is due is lost), Trade (acceptances are for  *)
(* what is on the table, and items and gold change hands as both players   *)
(* have accepted), GroupLoot (while the group exists, an item blocked for  *)
(* everyone has a roll that runs and a timer that will end it, and however *)
(* a roll ends the item goes to those whom its votes favour) and           *)
(* DungeonFinder (whoever is asked is in a proposal that stands, and but   *)
(* for what a search left out or a proposal named, nobody waits beside his *)
(* match).                                                                 *)
(***************************************************************************)
EXTENDS SavingSystem, Trade, GroupLoot, DungeonFinder, SequenceTheorems, FiniteSetTheorems,
        WellFoundedInduction, TLAPS

-----------------------------------------------------------------------------
(* Numbers. *)

LEMMA Least ==
  ASSUME NEW S \in SUBSET Nat, S # {}
  PROVE  \E i \in S : \A j \in S : i <= j
  <1>1. \E i \in S : \A j \in S : ~ (<<j, i>> \in OpToRel(<, Nat))
    <2>. DEFINE R == OpToRel(<, Nat)
    <2>1. IsWellFoundedOn(R, Nat)
      BY NatLessThanWellFounded, Zenon
    <2>. HIDE DEF R
    <2>2. \E i \in S : \A j \in S : ~ (<<j, i>> \in R)
      BY <2>1, WFMin
    <2>. QED  BY <2>2 DEF R
  <1>2. PICK i \in S : \A j \in S : ~ (<<j, i>> \in OpToRel(<, Nat))
    BY <1>1, Zenon
  <1>3. ASSUME NEW j \in S PROVE i <= j
    <2>1. ~ (j < i)
      BY <1>2 DEF OpToRel
    <2>. QED  BY <2>1
  <1>. QED  BY <1>2, <1>3

(* What holds at 0 and of each successor up to n holds up to n: T is the set where it does. *)
LEMMA UpTo ==
  ASSUME NEW n \in Nat, NEW T, 0 \in T, \A k \in 0..n : k + 1 \in 0..n /\ k \in T => k + 1 \in T
  PROVE  \A k \in 0..n : k \in T
  <1>. DEFINE Bad == {k \in 0..n : k \notin T}
  <1>1. SUFFICES ASSUME Bad # {} PROVE FALSE
    OBVIOUS
  <1>2. PICK m \in Bad : \A j \in Bad : m <= j
    <2>1. Bad \in SUBSET Nat
      OBVIOUS
    <2>. HIDE DEF Bad
    <2>. QED  BY <1>1, <2>1, Least
  <1>3. m # 0 /\ m - 1 \in 0..n /\ (m - 1) + 1 = m /\ ~(m <= m - 1)
    OBVIOUS
  <1>4. m - 1 \in T
    BY <1>2, <1>3
  <1>. QED  BY <1>3, <1>4

-----------------------------------------------------------------------------
(* After is what its recursion says. *)

-----------------------------------------------------------------------------
(* SavingSystem. *)

SVTypeOK ==
    /\ current \in Nat /\ assigned \in Nat /\ skip \in Seq(Nat)
    /\ ticket \in [Savers -> Nat]
    /\ presence \in [Savers -> {"offline", "online", "far", "delayed"}]

(* A state of the loop of Update. *)
Turns == [current : Nat, skip : Seq(Nat)]

(* One turn of the loop moves the counter forward. *)
LEMMA AdvanceForward ==
  ASSUME NEW s \in Turns
  PROVE  Advance(s) \in Turns /\ s.current <= Advance(s).current
  <1>. DEFINE Ends == {n \in 0..Len(s.skip) : \/ n = Len(s.skip)
                                              \/ s.skip[n + 1] > s.current + 1 + n}
  <1>1. s.current \in Nat /\ s.skip \in Seq(Nat) /\ Len(s.skip) \in Nat
    BY DEF Turns
  <1>2. Len(s.skip) \in Ends /\ Ends \in SUBSET Nat /\ Ends \subseteq 0..Len(s.skip)
    BY <1>1
  <1>3. PICK m \in Ends : \A j \in Ends : m <= j
    <2>. HIDE DEF Ends
    <2>. QED  BY <1>2, Least
  <1>4. Min(Ends) \in Ends
    <2>. HIDE DEF Ends
    <2>1. \E x \in Ends : \A y \in Ends : x <= y
      BY <1>3
    <2>. QED  BY <2>1 DEF Min
  <1>. DEFINE popped == Min(Ends)
  <1>5. Advance(s) = [current |-> s.current + 1 + popped,
                      skip |-> SubSeq(s.skip, popped + 1, Len(s.skip))]
    BY DEF Advance
  <1>6. popped \in Nat /\ popped <= Len(s.skip)
    <2>1. popped \in 0..Len(s.skip)
      <3>. HIDE DEF Ends
      <3>. QED  BY <1>2, <1>4
    <2>. HIDE DEF popped
    <2>. QED  BY <1>1, <2>1
  <1>. HIDE DEF popped, Ends
  <1>7. SubSeq(s.skip, popped + 1, Len(s.skip)) \in Seq(Nat)
    <2>1. \A i \in popped + 1 .. Len(s.skip) : s.skip[i] \in Nat
      BY <1>1, <1>6
    <2>. QED  BY <1>1, <1>6, <2>1, SubSeqProperties
  <1>. QED  BY <1>1, <1>5, <1>6, <1>7 DEF Turns

(* What the loop of Update does in a number of turns is what its recursion says, and it never
   moves the counter back. *)
LoopUnfolds(g, s, last, n) ==
    g = [k \in 0..n |-> IF k = 0 THEN s ELSE IF g[k - 1].current > last THEN g[k - 1]
                        ELSE Advance(g[k - 1])]

LEMMA LoopExists ==
  ASSUME NEW s, NEW last, NEW n \in Nat
  PROVE  \E g : LoopUnfolds(g, s, last, n)
  <1>. DEFINE Step(t) == IF t.current > last THEN t ELSE Advance(t)
              T == {k \in 0..n : \E g : LoopUnfolds(g, s, last, k)}
  <1>. HIDE DEF Step
  <1>0. \A g, k : LoopUnfolds(g, s, last, k) <=>
                     g = [i \in 0..k |-> IF i = 0 THEN s ELSE Step(g[i - 1])]
    BY DEF LoopUnfolds, Step
  <1>1. 0 \in T
    <2>. DEFINE g == [k \in 0..0 |-> s]
    <2>1. g = [k \in 0..0 |-> IF k = 0 THEN s ELSE Step(g[k - 1])]
      OBVIOUS
    <2>. HIDE DEF g
    <2>2. LoopUnfolds(g, s, last, 0)
      BY <1>0, <2>1
    <2>. QED  BY <2>2
  <1>2. ASSUME NEW m \in 0..n, m + 1 \in 0..n, m \in T PROVE m + 1 \in T
    <2>1. PICK g : g = [i \in 0..m |-> IF i = 0 THEN s ELSE Step(g[i - 1])]
      BY <1>0, <1>2
    <2>. DEFINE h == [k \in 0..m + 1 |-> IF k <= m THEN g[k] ELSE Step(g[m])]
    <2>2. ASSUME NEW k \in 0..m + 1
          PROVE  h[k] = IF k = 0 THEN s ELSE Step(h[k - 1])
      <3>1. CASE k = 0
        BY <2>1, <3>1
      <3>2. CASE k # 0 /\ k <= m
        <4>1. h[k] = g[k] /\ k - 1 \in 0..m + 1 /\ k - 1 <= m /\ k \in 0..m
          BY <3>2
        <4>2. h[k - 1] = g[k - 1]
          BY <4>1
        <4>3. g[k] = Step(g[k - 1])
          BY <2>1, <3>2, <4>1
        <4>. QED  BY <3>2, <4>1, <4>2, <4>3
      <3>3. CASE k = m + 1
        BY <3>3
      <3>. QED  BY <3>1, <3>2, <3>3
    <2>3. h = [k \in 0..m + 1 |-> h[k]]
      OBVIOUS
    <2>. HIDE DEF h
    <2>4. h = [k \in 0..m + 1 |-> IF k = 0 THEN s ELSE Step(h[k - 1])]
      BY <2>2, <2>3
    <2>. QED  BY <1>0, <1>2, <2>4
  <1>3. \A k \in 0..n : k \in T
    <2>. HIDE DEF T
    <2>. QED  BY <1>1, <1>2, UpTo
  <1>. QED  BY <1>3

LEMMA LoopForward ==
  ASSUME NEW s \in Turns, NEW last, NEW n \in Nat, NEW g, LoopUnfolds(g, s, last, n)
  PROVE  g[n] \in Turns /\ s.current <= g[n].current
  <1>. DEFINE T == {k \in 0..n : g[k] \in Turns /\ s.current <= g[k].current}
  <1>1. 0 \in T
    BY DEF LoopUnfolds, Turns
  <1>2. ASSUME NEW m \in 0..n, m + 1 \in 0..n, m \in T PROVE m + 1 \in T
    <2>1. m + 1 # 0 /\ (m + 1) - 1 = m
      OBVIOUS
    <2>2. g[m + 1] = IF g[m].current > last THEN g[m] ELSE Advance(g[m])
      BY <1>2, <2>1 DEF LoopUnfolds
    <2>3. g[m] \in Turns /\ s.current <= g[m].current
      BY <1>2
    <2>4. Advance(g[m]) \in Turns /\ g[m].current <= Advance(g[m]).current
      BY <2>3, AdvanceForward
    <2>5. g[m + 1] \in Turns /\ g[m].current <= g[m + 1].current
      BY <2>2, <2>3, <2>4 DEF Turns
    <2>6. s.current \in Nat /\ g[m].current \in Nat /\ g[m + 1].current \in Nat
      BY <2>3, <2>5 DEF Turns
    <2>7. s.current <= g[m + 1].current
      BY <2>3, <2>5, <2>6
    <2>. QED  BY <1>2, <2>5, <2>7
  <1>3. \A k \in 0..n : k \in T
    <2>. HIDE DEF T
    <2>. QED  BY <1>1, <1>2, UpTo
  <1>. QED  BY <1>3

LEMMA UpdateForward ==
  ASSUME SVTypeOK, NEW turns \in Nat, UpdateSaving(turns)
  PROVE  current' \in Nat /\ skip' \in Seq(Nat) /\ current <= current'
  <1>. DEFINE s == [current |-> current, skip |-> skip]
              last == Clamped
              loop == CHOOSE g : LoopUnfolds(g, s, last, turns)
  <1>1. current' = loop[turns].current /\ skip' = loop[turns].skip
    BY DEF UpdateSaving, LoopUnfolds
  <1>2. LoopUnfolds(loop, s, last, turns)
    <2>. HIDE DEF s, last
    <2>. QED  BY LoopExists
  <1>3. s \in Turns
    BY DEF SVTypeOK, Turns
  <1>4. loop[turns] \in Turns /\ s.current <= loop[turns].current
    <2>. HIDE DEF s, last, loop
    <2>. QED  BY <1>2, <1>3, LoopForward
  <1>. QED  BY <1>1, <1>4 DEF Turns

(* With nobody counted everybody is offline. *)
LEMMA NobodyCounted ==
  ASSUME SavingAssumption, PlayerCount = 0
  PROVE  \A p \in Savers : presence[p] = "offline"
  <1>. DEFINE There == {p \in Savers : presence[p] # "offline"}
  <1>1. IsFiniteSet(There)
    BY FS_Subset DEF SavingAssumption
  <1>2. There = {}
    BY <1>1, FS_EmptySet DEF PlayerCount
  <1>. QED  BY <1>2

(* The counters are numbers, the skip list is one of tickets. *)
LEMMA SVTypeInvariant ==
  ASSUME SavingAssumption, SVTypeOK, [SVNext]_savingVars
  PROVE  SVTypeOK'
  <1>1. CASE \E turns \in 0..2 : UpdateSaving(turns)
    <2>1. PICK turns \in Nat : UpdateSaving(turns)
      BY <1>1
    <2>2. Clamped \in Nat
      <3>1. PlayerCount \in Nat
        <4>1. IsFiniteSet({p \in Savers : presence[p] # "offline"})
          BY FS_Subset DEF SavingAssumption
        <4>. QED  BY <4>1, FS_CardinalityType DEF PlayerCount
      <3>. QED  BY <3>1, LenProperties DEF Clamped, SVTypeOK
    <2>3. current' \in Nat /\ skip' \in Seq(Nat)
      BY <2>1, UpdateForward
    <2>4. assigned' = Clamped /\ UNCHANGED <<ticket, presence>>
      BY <2>1 DEF UpdateSaving
    <2>. QED  BY <2>2, <2>3, <2>4 DEF SVTypeOK
  <1>2. CASE ResetSaving
    BY <1>2 DEF SVTypeOK, ResetSaving
  <1>3. CASE FleetingPlayer
    BY <1>3 DEF SVTypeOK, FleetingPlayer
  <1>4. ASSUME NEW p \in Savers, EnterRealm(p) PROVE SVTypeOK'
    BY <1>4 DEF SVTypeOK, EnterRealm
  <1>5. ASSUME NEW p \in Savers, SaveToDB(p), presence' \in [Savers -> {"offline", "online", "far", "delayed"}]
        PROVE SVTypeOK'
    BY <1>5, AppendProperties DEF SVTypeOK, SaveToDB, GivenBack, SavingAssumption
  <1>6. ASSUME NEW p \in Savers, PeriodicSave(p) \/ ImportantSave(p) PROVE SVTypeOK'
    <2>1. SaveToDB(p) /\ presence' \in [Savers -> {"offline", "online", "far", "delayed"}]
      BY <1>6 DEF PeriodicSave, ImportantSave, SVTypeOK
    <2>. QED  BY <1>5, <2>1
  <1>7. ASSUME NEW p \in Savers, TeleportFar(p) PROVE SVTypeOK'
    BY <1>7 DEF SVTypeOK, TeleportFar
  <1>8. ASSUME NEW p \in Savers, DelaySave(p) PROVE SVTypeOK'
    BY <1>8 DEF SVTypeOK, DelaySave, SavingAssumption
  <1>9. ASSUME NEW p \in Savers, ArriveOnMap(p) PROVE SVTypeOK'
    <2>1. presence' \in [Savers -> {"offline", "online", "far", "delayed"}]
      BY <1>9 DEF ArriveOnMap, SVTypeOK
    <2>2. CASE UNCHANGED <<current, assigned, skip, ticket>>
      BY <2>1, <2>2 DEF SVTypeOK
    <2>3. CASE SaveToDB(p)
      BY <2>1, <2>3, <1>5
    <2>. QED  BY <1>9, <2>2, <2>3 DEF ArriveOnMap
  <1>10. ASSUME NEW p \in Savers, LeaveRealm(p) PROVE SVTypeOK'
    BY <1>10, AppendProperties DEF SVTypeOK, LeaveRealm, GivenBack
  <1>11. CASE UNCHANGED savingVars
    BY <1>11 DEF savingVars, SVTypeOK
  <1>. QED
    BY <1>1, <1>2, <1>3, <1>4, <1>6, <1>7, <1>8, <1>9, <1>10, <1>11 DEF SVNext

(* No step takes away what is due. *)
LEMMA StepStaysDue ==
  ASSUME SavingAssumption, SVTypeOK, [SVNext]_savingVars
  PROVE  \A p \in Savers :
            presence[p] # "offline" /\ ticket[p] <= current =>
               \/ ticket'[p] <= current'
               \/ ticket'[p] # ticket[p]
  <1>. SUFFICES ASSUME NEW d \in Savers, presence[d] # "offline", ticket[d] <= current,
                       ticket'[d] = ticket[d]
                PROVE  ticket[d] <= current'
    OBVIOUS
  <1>0. current \in Nat /\ ticket[d] \in Nat
    BY DEF SVTypeOK
  <1>1. CASE \E turns \in 0..2 : UpdateSaving(turns)
    <2>1. PICK turns \in Nat : UpdateSaving(turns)
      BY <1>1
    <2>2. current' \in Nat /\ current <= current'
      BY <2>1, UpdateForward
    <2>. QED  BY <1>0, <2>2
  <1>2. CASE ResetSaving
    BY <1>2, NobodyCounted DEF ResetSaving
  <1>3. CASE UNCHANGED current
    BY <1>3
  <1>4. CASE \/ FleetingPlayer
             \/ \E p \in Savers : \/ EnterRealm(p) \/ PeriodicSave(p) \/ ImportantSave(p)
                                  \/ TeleportFar(p) \/ DelaySave(p) \/ ArriveOnMap(p) \/ LeaveRealm(p)
    <2>1. UNCHANGED current
      BY <1>4 DEF FleetingPlayer, EnterRealm, PeriodicSave, ImportantSave, SaveToDB, TeleportFar,
                  DelaySave, ArriveOnMap, LeaveRealm
    <2>. QED  BY <1>3, <2>1
  <1>5. CASE UNCHANGED savingVars
    BY <1>3, <1>5 DEF savingVars
  <1>. QED  BY <1>1, <1>2, <1>4, <1>5 DEF SVNext

THEOREM SavingTypesHold == SVSpec => []SVTypeOK
  <1>1. SVInit => SVTypeOK
    BY EmptySeq DEF SVInit, SVTypeOK
  <1>2. SVTypeOK /\ [SVNext]_savingVars => SVTypeOK'
    BY SavingAssumption, SVTypeInvariant
  <1>. QED  BY <1>1, <1>2, PTL DEF SVSpec

(* A save that is due stays due until the player is saved: neither a reset nor the clamp takes
   a ticket that was reached away from a player who is still there. *)
THEOREM DueStaysHolds == SVSpec => DueStays
  <1>1. SVTypeOK /\ [SVNext]_savingVars =>
          [\A p \in Savers :
             presence[p] # "offline" /\ ticket[p] <= current =>
                \/ ticket'[p] <= current'
                \/ ticket'[p] # ticket[p]]_savingVars
    BY SavingAssumption, StepStaysDue
  <1>. QED  BY <1>1, SavingTypesHold, PTL DEF SVSpec, DueStays

-----------------------------------------------------------------------------
(* Trade. *)

(* AcceptsWhatIsThere is inductive only together with Paired: otherwise a trade that opens or
   ends could touch the table of a third player.  OwnedByEligible needs the checks of both. *)
TradeInv == TRTypeOK /\ TradeSound

-----------------------------------------------------------------------------
(* TradeData is born empty. *)
LEMMA EmptyTyped == Empty \in [TradeSlots -> TradeItems \cup {NoItem}]
  BY DEF Empty

(* At first nobody trades. *)
LEMMA InitTradeInv == TRInit => TradeInv
<1> SUFFICES ASSUME TRInit PROVE TradeInv
  OBVIOUS
<1> USE TradeAssumption
<1>1. TRTypeOK
  <2>1. Sums \subseteq Int
    OBVIOUS
  <2>2. gold \in [Traders -> Int]
    BY <2>1 DEF TRInit
  <2> QED
    BY <2>1, <2>2, EmptyTyped DEF TRInit, TRTypeOK
<1>2. Paired /\ AcceptsWhatIsThere
  BY DEF TRInit, Paired, AcceptsWhatIsThere, Trading
<1>3. OnceOnTable
  BY DEF TRInit, OnceOnTable, Empty
<1>4. OwnedByEligible
  BY DEF TRInit, OwnedByEligible
<1> QED
  BY <1>1, <1>2, <1>3, <1>4 DEF TradeInv, TradeSound

(* An acceptance stands only where the player accepts now or had accepted, and both sides of
   the table stay as they are. *)
LEMMA WatchKeeps ==
    ASSUME AcceptsWhatIsThere, NEW S, Watch(S),
           \A r \in Traders : accepted'[r] => (accepted[r] \/ r \in S) /\ TableKept(r)
    PROVE  AcceptsWhatIsThere' /\ agreed' \in [Traders -> BOOLEAN]
<1>1. \A r \in Traders : TableKept(r) => Trading(r)'
  <2> SUFFICES ASSUME NEW r \in Traders, TableKept(r) PROVE Trading(r)'
    OBVIOUS
  <2>1. Trading(r) /\ partner'[r] = partner[r]
    BY DEF TableKept
  <2> QED
    BY <2>1 DEF Trading
<1>2. \A r \in Traders : accepted[r] => agreed[r]
  BY DEF AcceptsWhatIsThere
<1>3. \A r \in Traders : agreed'[r] = (TableKept(r) /\ (agreed[r] \/ r \in S))
  BY DEF Watch
<1>4. AcceptsWhatIsThere'
  BY <1>1, <1>2, <1>3 DEF AcceptsWhatIsThere
<1>5. agreed' \in [Traders -> BOOLEAN]
  BY DEF Watch
<1> QED
  BY <1>4, <1>5

(* A trade opens with two empty sides. *)
LEMMA InitiateTradeInv ==
    ASSUME TradeInv, NEW p \in Traders, NEW q \in Traders, InitiateTrade(p, q)
    PROVE  TradeInv'
<1> USE TradeAssumption
<1>1. /\ p # q /\ ~Trading(p) /\ ~Trading(q)
      /\ partner' = [partner EXCEPT ![p] = q, ![q] = p]
      /\ slots' = [slots EXCEPT ![p] = Empty, ![q] = Empty]
      /\ money' = [money EXCEPT ![p] = 0, ![q] = 0]
      /\ spell' = [spell EXCEPT ![p] = FALSE, ![q] = FALSE]
      /\ accepted' = [accepted EXCEPT ![p] = FALSE, ![q] = FALSE]
      /\ owner' = owner /\ gold' = gold /\ Watch({})
  BY DEF InitiateTrade, possessionVars
<1>2. Paired'
  <2>1. /\ partner'[p] = q /\ partner'[q] = p
        /\ \A r \in Traders \ {p, q} : partner'[r] = partner[r]
    BY <1>1 DEF TradeInv, TRTypeOK
  <2>2. \A r \in Traders \ {p, q} : Trading(r) => partner[r] \in Traders \ {p, q, r}
    BY <1>1 DEF TradeInv, TradeSound, Paired, Trading
  <2>3. ASSUME NEW r \in Traders \ {p, q}, partner'[r] # NoTrader
        PROVE  partner'[r] \in Traders \ {r} /\ partner'[partner'[r]] = r
    BY <2>1, <2>2, <2>3 DEF TradeInv, TradeSound, Paired, Trading
  <2> QED
    BY <1>1, <2>1, <2>3 DEF Paired, Trading
<1>3. OnceOnTable'
  <2>1. \A r \in Traders : slots'[r] = Empty \/ slots'[r] = slots[r]
    BY <1>1 DEF TradeInv, TRTypeOK
  <2>2. \A s \in TradeSlots : Empty[s] = NoItem
    BY DEF Empty
  <2> QED
    BY <2>1, <2>2 DEF TradeInv, TradeSound, OnceOnTable
<1>4. \A r \in Traders : accepted'[r] => accepted[r] /\ TableKept(r)
  <2> SUFFICES ASSUME NEW r \in Traders, accepted'[r] PROVE accepted[r] /\ TableKept(r)
    OBVIOUS
  <2>1. r \notin {p, q} /\ accepted[r]
    BY <1>1 DEF TradeInv, TRTypeOK
  <2>2. Trading(r) /\ partner[r] \in Traders /\ partner[partner[r]] = r
    BY <2>1 DEF TradeInv, TradeSound, AcceptsWhatIsThere, Paired
  <2>3. partner[r] \notin {p, q}
    BY <1>1, <2>2 DEF Trading
  <2>4. \A u \in Traders \ {p, q} : /\ partner'[u] = partner[u] /\ slots'[u] = slots[u]
                                     /\ money'[u] = money[u] /\ spell'[u] = spell[u]
    BY <1>1 DEF TradeInv, TRTypeOK
  <2> QED
    BY <2>1, <2>2, <2>3, <2>4 DEF TableKept
<1>5. AcceptsWhatIsThere' /\ agreed' \in [Traders -> BOOLEAN]
  BY <1>1, <1>4, WatchKeeps DEF TradeInv, TradeSound
<1>6. TRTypeOK'
  BY <1>1, <1>5, EmptyTyped DEF TradeInv, TRTypeOK
<1>7. OwnedByEligible'
  BY <1>1 DEF TradeInv, TradeSound, OwnedByEligible
<1> QED
  BY <1>2, <1>3, <1>5, <1>6, <1>7 DEF TradeInv, TradeSound

(* When a trade ends both sides are gone together, whatever became of items and gold. *)
LEMMA DeleteTradeInv ==
    ASSUME TradeInv, NEW p \in Traders, Trading(p), DeleteTrade(p),
           owner' \in [TradeItems -> Traders \cup {NoTrader}], gold' \in [Traders -> Int],
           OwnedByEligible'
    PROVE  TradeInv'
<1> USE TradeAssumption
<1> DEFINE both == {p, partner[p]}
<1>1. /\ partner' = [r \in Traders |-> IF r \in both THEN NoTrader ELSE partner[r]]
      /\ slots' = [r \in Traders |-> IF r \in both THEN Empty ELSE slots[r]]
      /\ money' = [r \in Traders |-> IF r \in both THEN 0 ELSE money[r]]
      /\ spell' = [r \in Traders |-> IF r \in both THEN FALSE ELSE spell[r]]
      /\ accepted' = [r \in Traders |-> IF r \in both THEN FALSE ELSE accepted[r]]
      /\ Watch({})
  BY DEF DeleteTrade
<1>2. partner[p] \in Traders /\ partner[partner[p]] = p
  BY DEF TradeInv, TradeSound, Paired
<1>3. \A r \in Traders \ both : Trading(r) => partner[r] \in Traders \ both
  BY <1>2 DEF TradeInv, TradeSound, Paired, Trading
<1>4. Paired'
  BY <1>1, <1>3 DEF TradeInv, TradeSound, Paired, Trading
<1>5. OnceOnTable'
  BY <1>1 DEF TradeInv, TradeSound, OnceOnTable, Empty
<1>6. \A r \in Traders : accepted'[r] => accepted[r] /\ TableKept(r)
  <2> SUFFICES ASSUME NEW r \in Traders, accepted'[r] PROVE accepted[r] /\ TableKept(r)
    OBVIOUS
  <2>1. r \notin both /\ accepted[r]
    BY <1>1
  <2>2. Trading(r)
    BY <2>1 DEF TradeInv, TradeSound, AcceptsWhatIsThere
  <2>3. partner[r] \in Traders \ both
    BY <1>3, <2>1, <2>2
  <2> QED
    BY <1>1, <2>1, <2>2, <2>3 DEF TableKept
<1>7. AcceptsWhatIsThere' /\ agreed' \in [Traders -> BOOLEAN]
  BY <1>1, <1>6, WatchKeeps DEF TradeInv, TradeSound
<1>8. TRTypeOK'
  BY <1>1, <1>7, EmptyTyped DEF TradeInv, TRTypeOK
<1> QED
  BY <1>4, <1>5, <1>7, <1>8 DEF TradeInv, TradeSound

(* A change of an offer takes back the acceptance of both sides. *)
LEMMA OfferTradeInv ==
    ASSUME TradeInv, NEW p \in Traders, Trading(p), Unaccept(p), Watch({}),
           partner' = partner, owner' = owner, gold' = gold,
           slots' \in [Traders -> [TradeSlots -> TradeItems \cup {NoItem}]],
           money' \in [Traders -> Nat], spell' \in [Traders -> BOOLEAN],
           \A r \in Traders \ {p, partner[p]} :
               slots'[r] = slots[r] /\ money'[r] = money[r] /\ spell'[r] = spell[r],
           OnceOnTable'
    PROVE  TradeInv'
<1>1. Paired' /\ OwnedByEligible'
  BY DEF TradeInv, TradeSound, Paired, OwnedByEligible, Trading
<1>2. \A r \in Traders : accepted'[r] => accepted[r] /\ TableKept(r)
  <2> SUFFICES ASSUME NEW r \in Traders, accepted'[r] PROVE accepted[r] /\ TableKept(r)
    OBVIOUS
  <2>1. r \notin {p, partner[p]} /\ accepted[r]
    BY DEF Unaccept
  <2>2. Trading(r) /\ partner[r] \in Traders \ {p, partner[p]}
    BY <2>1 DEF TradeInv, TradeSound, AcceptsWhatIsThere, Paired
  <2> QED
    BY <2>1, <2>2 DEF TableKept
<1>3. AcceptsWhatIsThere' /\ agreed' \in [Traders -> BOOLEAN]
  BY <1>2, WatchKeeps DEF TradeInv, TradeSound
<1>4. TRTypeOK'
  BY <1>3 DEF TradeInv, TRTypeOK, Unaccept
<1> QED
  BY <1>1, <1>3, <1>4 DEF TradeInv, TradeSound, OnceOnTable

(* Where both sides of the table stay as they are, nobody accepts but the players of S. *)
LEMMA SameTableTradeInv ==
    ASSUME TradeInv, NEW S, Watch(S), S \subseteq {p \in Traders : Trading(p)},
           partner' = partner, slots' = slots, money' = money, spell' = spell,
           accepted' \in [Traders -> BOOLEAN],
           \A r \in Traders : accepted'[r] => accepted[r] \/ r \in S,
           owner' \in [TradeItems -> Traders \cup {NoTrader}], gold' \in [Traders -> Int],
           OwnedByEligible'
    PROVE  TradeInv'
<1>1. Paired' /\ OnceOnTable'
  BY DEF TradeInv, TradeSound, Paired, OnceOnTable, Trading
<1>2. \A r \in Traders : accepted'[r] => (accepted[r] \/ r \in S) /\ TableKept(r)
  BY DEF TradeInv, TradeSound, AcceptsWhatIsThere, TableKept
<1>3. AcceptsWhatIsThere' /\ agreed' \in [Traders -> BOOLEAN]
  BY <1>2, WatchKeeps DEF TradeInv, TradeSound
<1>4. TRTypeOK'
  BY <1>3 DEF TradeInv, TRTypeOK
<1> QED
  BY <1>1, <1>3, <1>4 DEF TradeInv, TradeSound

(* A slot gets an item that lies in no other slot of the player, or none. *)
LEMMA SetItemTradeInv ==
    ASSUME TradeInv, NEW p \in Traders, NEW s \in TradeSlots, NEW i \in TradeItems \cup {NoItem},
           Trading(p), SetItem(p, s, i), i = NoItem \/ \A t \in TradeSlots : slots[p][t] # i
    PROVE  TradeInv'
<1>1. /\ slots' = [slots EXCEPT ![p][s] = i]
      /\ spell' = [r \in Traders |-> IF r = p \/ (s = ShownSlot /\ r = partner[p]) THEN FALSE
                                     ELSE spell[r]]
      /\ Unaccept(p) /\ Watch({})
      /\ partner' = partner /\ money' = money /\ owner' = owner /\ gold' = gold
  BY DEF SetItem, possessionVars
<1>2. slots' \in [Traders -> [TradeSlots -> TradeItems \cup {NoItem}]]
  BY <1>1 DEF TradeInv, TRTypeOK
<1>3. \A r \in Traders \ {p} : slots'[r] = slots[r]
  BY <1>1 DEF TradeInv, TRTypeOK
<1>4. slots'[p][s] = i /\ \A t \in TradeSlots \ {s} : slots'[p][t] = slots[p][t]
  BY <1>1 DEF TradeInv, TRTypeOK
<1>5. OnceOnTable'
  BY <1>3, <1>4 DEF TradeInv, TradeSound, OnceOnTable
<1>6. spell' \in [Traders -> BOOLEAN]
  BY <1>1 DEF TradeInv, TRTypeOK
<1>7. money' \in [Traders -> Nat]
  BY <1>1 DEF TradeInv, TRTypeOK
<1>8. \A r \in Traders \ {p, partner[p]} : spell'[r] = spell[r]
  BY <1>1
<1> QED
  BY <1>1, <1>2, <1>3, <1>5, <1>6, <1>7, <1>8, OfferTradeInv

(* moveItems gives an item that is on the table to the other side, or to nobody, or back; and
   what lies in the same slot on both sides changes hands together. *)
LEMMA MoveItemsDoes ==
    ASSUME TradeInv, NEW p \in Traders, Exchange(p)
    PROVE  LET q == partner[p] IN
           /\ owner' \in [TradeItems -> Traders \cup {NoTrader}]
           /\ \A i \in TradeItems :
                 \/ owner'[i] = owner[i]
                 \/ i \in OnTable(p) /\ owner'[i] \in {q, NoTrader}
                 \/ i \in OnTable(q) /\ owner'[i] \in {p, NoTrader}
           /\ \A s \in TradedSlots : Present(p, s) /\ Present(q, s) =>
                 (owner'[slots[p][s]] = q <=> owner'[slots[q][s]] = p)
<1> DEFINE q == partner[p]
<1>1. q \in Traders /\ p # q /\ q # NoTrader /\ p # NoTrader
  BY TradeAssumption DEF Exchange, Settled, TradeInv, TradeSound, Paired
<1>2a. PICK stuck \in SUBSET TradedSlots :
         \E lost \in SUBSET (ItemsIn(p, stuck) \cup ItemsIn(q, stuck)) : MoveItems(p, stuck, lost)
  BY DEF Exchange
<1>2. PICK lost \in SUBSET (ItemsIn(p, stuck) \cup ItemsIn(q, stuck)) :
         owner' = [i \in TradeItems |-> IF i \in lost THEN NoTrader
                                       ELSE IF i \in ItemsIn(p, TradedSlots \ stuck) THEN q
                                       ELSE IF i \in ItemsIn(q, TradedSlots \ stuck) THEN p ELSE owner[i]]
  BY <1>2a DEF MoveItems
<1> HIDE DEF q
<1>3. ASSUME NEW r \in Traders, NEW S \in SUBSET TradedSlots
      PROVE  ItemsIn(r, S) \subseteq OnTable(r) /\ \A i \in ItemsIn(r, S) : owner[i] = r
  BY DEF OnTable, ItemsIn, Present
<1>4. owner' \in [TradeItems -> Traders \cup {NoTrader}]
  BY <1>1, <1>2 DEF TradeInv, TRTypeOK
<1>5. ASSUME NEW i \in TradeItems
      PROVE  \/ owner'[i] = owner[i]
             \/ i \in OnTable(p) /\ owner'[i] \in {q, NoTrader}
             \/ i \in OnTable(q) /\ owner'[i] \in {p, NoTrader}
  BY <1>1, <1>2, <1>3
(* A slot that is stuck keeps both its items from the other side, any other hands both over. *)
<1>6. ASSUME NEW r \in {p, q}, NEW u \in {p, q}, r # u, NEW s \in TradedSlots, Present(r, s)
      PROVE  owner'[slots[r][s]] = u <=> s \notin stuck
  <2> DEFINE i == slots[r][s]
  <2>1. i \in TradeItems /\ owner[i] = r /\ s \in TradeSlots
    BY <1>1, <1>6 DEF Present, TradeInv, TRTypeOK, TradeSlots
  <2>2. ASSUME NEW S \in SUBSET TradedSlots PROVE i \in ItemsIn(r, S) <=> s \in S
    <3>1. \A t \in S : slots[r][t] = i => t = s
      BY <1>1, <1>6, <2>1 DEF TradeInv, TradeSound, OnceOnTable, TradeSlots, Present
    <3> QED
      BY <1>6, <3>1 DEF ItemsIn
  <2>3. ASSUME NEW S \in SUBSET TradedSlots PROVE i \notin ItemsIn(u, S)
    BY <1>1, <1>3, <1>6, <2>1
  <2> HIDE DEF i
  <2>4. i \in lost => s \in stuck
    BY <1>2, <1>6, <2>2, <2>3
  <2>5. i \in ItemsIn(r, TradedSlots \ stuck) <=> s \notin stuck
    BY <2>2
  <2>6. i \notin ItemsIn(u, TradedSlots \ stuck)
    BY <2>3
  <2> QED
    BY <1>1, <1>2, <1>6, <2>1, <2>4, <2>5, <2>6 DEF i
<1>7. \A s \in TradedSlots : Present(p, s) /\ Present(q, s) =>
         (owner'[slots[p][s]] = q <=> owner'[slots[q][s]] = p)
  BY <1>1, <1>6
<1> QED
  BY <1>4, <1>5, <1>7 DEF q

(* HandleAcceptTradeOpcode hands the items of both sides to players who may have them. *)
LEMMA ExchangeEligible ==
    ASSUME TradeInv, NEW p \in Traders, Exchange(p)
    PROVE  /\ owner' \in [TradeItems -> Traders \cup {NoTrader}] /\ gold' \in [Traders -> Int]
           /\ OwnedByEligible'
<1> DEFINE q == partner[p]
<1>1. q \in Traders /\ p # q /\ partner[q] = p
  BY DEF Exchange, Settled, TradeInv, TradeSound, Paired
<1>2. /\ \A i \in OnTable(p) : q \in Eligible[i]
      /\ \A i \in OnTable(q) : p \in Eligible[i]
  BY <1>1 DEF Exchange, Settled, ItemsTradable, CanStoreItems
<1>3. \A i \in TradeItems : \/ owner'[i] = owner[i]
                            \/ i \in OnTable(p) /\ owner'[i] \in {q, NoTrader}
                            \/ i \in OnTable(q) /\ owner'[i] \in {p, NoTrader}
  BY MoveItemsDoes
<1>4. OwnedByEligible'
  BY <1>2, <1>3 DEF TradeInv, TradeSound, OwnedByEligible
<1>5. owner' \in [TradeItems -> Traders \cup {NoTrader}]
  BY MoveItemsDoes
<1>6. gold' \in [Traders -> Int]
  <2>1. gold' = [gold EXCEPT ![p] = (@ - money[p]) + money[q], ![q] = (@ - money[q]) + money[p]]
    BY DEF Exchange
  <2>2. money[p] \in Nat /\ money[q] \in Nat
    BY <1>1 DEF TradeInv, TRTypeOK
  <2> QED
    BY <1>1, <2>1, <2>2 DEF TradeInv, TRTypeOK
<1> QED
  BY <1>4, <1>5, <1>6

(* No answer to an acceptance breaks the invariant. *)
LEMMA AcceptTradeInv ==
    ASSUME TradeInv, NEW p \in Traders, AcceptTrade(p)
    PROVE  TradeInv'
<1>1. CASE Agree(p)
  <2>1. /\ Trading(p) /\ Watch({p})
        /\ partner' = partner /\ slots' = slots /\ money' = money /\ spell' = spell
        /\ owner' = owner /\ gold' = gold
    BY <1>1 DEF Agree, Answer, possessionVars
  <2>2. Answer({p}, {p}) \/ Answer({p}, {partner[p]}) \/ Answer({p}, {})
    BY <1>1 DEF Agree
  <2>3. accepted' \in [Traders -> BOOLEAN] /\ \A r \in Traders : accepted'[r] => accepted[r] \/ r \in {p}
    BY <2>2 DEF Answer, TradeInv, TRTypeOK
  <2>4. /\ owner' \in [TradeItems -> Traders \cup {NoTrader}] /\ gold' \in [Traders -> Int]
        /\ OwnedByEligible'
    BY <2>1 DEF TradeInv, TRTypeOK, TradeSound, OwnedByEligible
  <2> QED
    BY <2>1, <2>3, <2>4, SameTableTradeInv
<1>2. CASE SpellFails(p)
  <2>1. Trading(p)
    BY <1>2 DEF SpellFails, Settled
  <2>2. /\ partner' = partner /\ slots' = slots /\ money' = money
        /\ owner' = owner /\ gold' = gold /\ Unaccept(p) /\ Watch({})
    BY <1>2 DEF SpellFails, possessionVars
  <2>3. PICK r \in {p, partner[p]} : spell' = [spell EXCEPT ![r] = FALSE]
    BY <1>2 DEF SpellFails
  <2>4. OnceOnTable'
    BY <2>2 DEF TradeInv, TradeSound, OnceOnTable
  <2>5. /\ slots' \in [Traders -> [TradeSlots -> TradeItems \cup {NoItem}]]
        /\ money' \in [Traders -> Nat] /\ spell' \in [Traders -> BOOLEAN]
    BY <2>2, <2>3 DEF TradeInv, TRTypeOK
  <2>6. \A u \in Traders \ {p, partner[p]} :
            slots'[u] = slots[u] /\ money'[u] = money[u] /\ spell'[u] = spell[u]
    BY <2>2, <2>3 DEF TradeInv, TRTypeOK
  <2> QED
    BY <2>1, <2>2, <2>4, <2>5, <2>6, OfferTradeInv
<1>3. CASE NoSpace(p)
  <2>1. Trading(p)
    BY <1>3 DEF NoSpace, Settled
  <2>2. /\ partner' = partner /\ slots' = slots /\ money' = money /\ spell' = spell
        /\ owner' = owner /\ gold' = gold /\ Unaccept(p) /\ Watch({})
    BY <1>3 DEF NoSpace, possessionVars
  <2>3. OnceOnTable'
    BY <2>2 DEF TradeInv, TradeSound, OnceOnTable
  <2>4. /\ slots' \in [Traders -> [TradeSlots -> TradeItems \cup {NoItem}]]
        /\ money' \in [Traders -> Nat] /\ spell' \in [Traders -> BOOLEAN]
    BY <2>2 DEF TradeInv, TRTypeOK
  <2> QED
    BY <2>1, <2>2, <2>3, <2>4, OfferTradeInv
<1>4. CASE Exchange(p)
  <2>1. Trading(p) /\ DeleteTrade(p)
    BY <1>4 DEF Exchange, Settled
  <2> QED
    BY <1>4, <2>1, ExchangeEligible, DeleteTradeInv
<1> QED
  BY <1>1, <1>2, <1>3, <1>4 DEF AcceptTrade

(* What happens to items and gold outside the window changes no table. *)
LEMMA OutsideTradeInv ==
    ASSUME TradeInv, UNCHANGED tradeDataVars, Watch({}),
           owner' \in [TradeItems -> Traders \cup {NoTrader}], gold' \in [Traders -> Int],
           OwnedByEligible'
    PROVE  TradeInv'
<1>1. /\ partner' = partner /\ slots' = slots /\ money' = money /\ spell' = spell
      /\ accepted' = accepted
  BY DEF tradeDataVars
<1>2. accepted' \in [Traders -> BOOLEAN]
  BY <1>1 DEF TradeInv, TRTypeOK
<1> QED
  BY <1>1, <1>2, SameTableTradeInv

(* Every step keeps the invariant. *)
LEMMA NextTradeInv == TradeInv /\ [TRNext]_tradeVars => TradeInv'
<1> SUFFICES ASSUME TradeInv, [TRNext]_tradeVars PROVE TradeInv'
  OBVIOUS
<1> USE TradeAssumption
<1>0. Sums \subseteq Nat
  OBVIOUS
<1>1. ASSUME NEW p \in Traders, NEW q \in Traders, InitiateTrade(p, q) PROVE TradeInv'
  BY <1>1, InitiateTradeInv
<1>2. ASSUME NEW p \in Traders, TradeCancel(p) PROVE TradeInv'
  <2>1. Trading(p) /\ DeleteTrade(p) /\ owner' = owner /\ gold' = gold
    BY <1>2 DEF TradeCancel, possessionVars
  <2>2. /\ owner' \in [TradeItems -> Traders \cup {NoTrader}] /\ gold' \in [Traders -> Int]
        /\ OwnedByEligible'
    BY <2>1 DEF TradeInv, TRTypeOK, TradeSound, OwnedByEligible
  <2> QED
    BY <2>1, <2>2, DeleteTradeInv
<1>3. ASSUME NEW p \in Traders, UnacceptTrade(p) PROVE TradeInv'
  <2>1. /\ Watch({}) /\ partner' = partner /\ slots' = slots /\ money' = money
        /\ spell' = spell /\ owner' = owner /\ gold' = gold
    BY <1>3 DEF UnacceptTrade, possessionVars
  <2>2. /\ accepted' \in [Traders -> BOOLEAN]
        /\ \A r \in Traders : accepted'[r] => accepted[r]
    BY <1>3 DEF UnacceptTrade, TradeInv, TRTypeOK
  <2>3. /\ owner' \in [TradeItems -> Traders \cup {NoTrader}] /\ gold' \in [Traders -> Int]
        /\ OwnedByEligible'
    BY <2>1 DEF TradeInv, TRTypeOK, TradeSound, OwnedByEligible
  <2> QED
    BY <2>1, <2>2, <2>3, SameTableTradeInv
<1>4. ASSUME NEW p \in Traders, AcceptTrade(p) PROVE TradeInv'
  BY <1>4, AcceptTradeInv
<1>5. ASSUME NEW p \in Traders, CastSpell(p) PROVE TradeInv'
  <2>1. /\ Trading(p) /\ spell' = [spell EXCEPT ![p] = TRUE] /\ Unaccept(p) /\ Watch({})
        /\ partner' = partner /\ slots' = slots /\ money' = money
        /\ owner' = owner /\ gold' = gold
    BY <1>5 DEF CastSpell, possessionVars
  <2>2. OnceOnTable'
    BY <2>1 DEF TradeInv, TradeSound, OnceOnTable
  <2>3. /\ slots' \in [Traders -> [TradeSlots -> TradeItems \cup {NoItem}]]
        /\ money' \in [Traders -> Nat] /\ spell' \in [Traders -> BOOLEAN]
        /\ \A r \in Traders \ {p, partner[p]} : spell'[r] = spell[r]
    BY <2>1 DEF TradeInv, TRTypeOK
  <2> QED
    BY <2>1, <2>2, <2>3, OfferTradeInv
<1>6. ASSUME NEW p \in Traders, NEW n \in Sums, SetMoney(p, n) PROVE TradeInv'
  <2>1. /\ Trading(p) /\ money' = [money EXCEPT ![p] = n] /\ Unaccept(p) /\ Watch({})
        /\ partner' = partner /\ slots' = slots /\ spell' = spell
        /\ owner' = owner /\ gold' = gold
    BY <1>6 DEF SetMoney, possessionVars
  <2>2. OnceOnTable'
    BY <2>1 DEF TradeInv, TradeSound, OnceOnTable
  <2>3. /\ slots' \in [Traders -> [TradeSlots -> TradeItems \cup {NoItem}]]
        /\ money' \in [Traders -> Nat] /\ spell' \in [Traders -> BOOLEAN]
        /\ \A r \in Traders \ {p, partner[p]} : money'[r] = money[r]
    BY <1>0, <2>1 DEF TradeInv, TRTypeOK
  <2> QED
    BY <2>1, <2>2, <2>3, OfferTradeInv
<1>7. ASSUME NEW p \in Traders, NEW n \in Sums, GoldChanges(p, n) PROVE TradeInv'
  <2>1. UNCHANGED tradeDataVars /\ Watch({}) /\ owner' = owner /\ gold' = [gold EXCEPT ![p] = n]
    BY <1>7 DEF GoldChanges
  <2>2. /\ owner' \in [TradeItems -> Traders \cup {NoTrader}] /\ gold' \in [Traders -> Int]
        /\ OwnedByEligible'
    BY <1>0, <2>1 DEF TradeInv, TRTypeOK, TradeSound, OwnedByEligible
  <2> QED
    BY <2>1, <2>2, OutsideTradeInv
<1>8. ASSUME NEW p \in Traders, NEW s \in TradeSlots, ClearTradeItem(p, s) PROVE TradeInv'
  BY <1>8, SetItemTradeInv DEF ClearTradeItem
<1>9. ASSUME NEW p \in Traders, NEW s \in TradeSlots, NEW i \in TradeItems, SetTradeItem(p, s, i)
      PROVE  TradeInv'
  BY <1>9, SetItemTradeInv DEF SetTradeItem
<1>10. ASSUME NEW i \in TradeItems, ItemLeaves(i) PROVE TradeInv'
  <2>1. /\ UNCHANGED tradeDataVars /\ Watch({}) /\ gold' = gold
        /\ owner' = [owner EXCEPT ![i] = NoTrader]
    BY <1>10 DEF ItemLeaves
  <2>2. /\ owner' \in [TradeItems -> Traders \cup {NoTrader}] /\ gold' \in [Traders -> Int]
        /\ OwnedByEligible'
    BY <2>1 DEF TradeInv, TRTypeOK, TradeSound, OwnedByEligible
  <2> QED
    BY <2>1, <2>2, OutsideTradeInv
<1>11. ASSUME NEW i \in TradeItems, ItemBinds(i) PROVE TradeInv'
  <2>1. UNCHANGED tradeDataVars /\ Watch({}) /\ owner' = owner /\ gold' = gold
    BY <1>11 DEF ItemBinds
  <2>2. /\ owner' \in [TradeItems -> Traders \cup {NoTrader}] /\ gold' \in [Traders -> Int]
        /\ OwnedByEligible'
    BY <2>1 DEF TradeInv, TRTypeOK, TradeSound, OwnedByEligible
  <2> QED
    BY <2>1, <2>2, OutsideTradeInv
<1>12. ASSUME NEW i \in TradeItems, NEW p \in Traders, ItemComes(i, p) PROVE TradeInv'
  <2>1. /\ UNCHANGED tradeDataVars /\ Watch({}) /\ gold' = gold
        /\ p \in Eligible[i] /\ owner' = [owner EXCEPT ![i] = p]
    BY <1>12 DEF ItemComes
  <2>2. /\ owner' \in [TradeItems -> Traders \cup {NoTrader}] /\ gold' \in [Traders -> Int]
        /\ OwnedByEligible'
    BY <2>1 DEF TradeInv, TRTypeOK, TradeSound, OwnedByEligible
  <2> QED
    BY <2>1, <2>2, OutsideTradeInv
<1>13. CASE UNCHANGED tradeVars
  BY <1>13 DEF tradeVars, tradeDataVars, possessionVars, TradeInv, TRTypeOK, TradeSound, Paired,
               OnceOnTable, AcceptsWhatIsThere, OwnedByEligible, Trading
<1> QED
  BY <1>1, <1>2, <1>3, <1>4, <1>5, <1>6, <1>7, <1>8, <1>9, <1>10, <1>11, <1>12, <1>13 DEF TRNext

(* The invariant holds in every state of the players' trades. *)
LEMMA TradeInvariant == TRSpec => []TradeInv
  BY InitTradeInv, NextTradeInv, PTL DEF TRSpec

-----------------------------------------------------------------------------
(* For any number of players and items: TradeData come in pairs, and whoever accepts does so
   for what both sides of the table still show. *)
THEOREM TradesSound == TRSpec => []TradeSound
<1>1. TradeInv => TradeSound
  BY DEF TradeInv
<1> QED
  BY <1>1, TradeInvariant, PTL

(* What an exchange does to the items and the gold of one player.  From the acceptances of
   both, TradeInv tells that they are for this table. *)
LEMMA ExchangeOf ==
    ASSUME TradeInv, NEW p \in Traders, Exchange(p), NEW r \in Traders, NEW s \in Traders,
           (r = p /\ s = partner[p]) \/ (r = partner[p] /\ s = p)
    PROVE  /\ Trading(r) /\ partner[r] = s
           /\ \E u \in {r, s} : accepted[u] /\ agreed[u]
           /\ \A i \in TradeItems : owner[i] = r /\ owner'[i] # r =>
                 owner'[i] \in {s, NoTrader} /\ i \in Contents(slots[r]) \cap tradable
           /\ \A t \in TradedSlots : Present(r, t) /\ Present(s, t) =>
                 (owner'[slots[r][t]] = s <=> owner'[slots[s][t]] = r)
           /\ gold[r] >= money[r]
           /\ gold'[r] = (gold[r] - money[r]) + money[s]
           /\ gold'[r] + gold'[s] = gold[r] + gold[s]
<1> DEFINE q == partner[p]
<1>1. q \in Traders /\ p # q /\ partner[q] = p /\ Trading(p) /\ Trading(q)
  BY TradeAssumption DEF Exchange, Settled, TradeInv, TradeSound, Paired, Trading
<1>2. accepted[q] /\ agreed[q]
  BY <1>1 DEF Exchange, Settled, TradeInv, TradeSound, AcceptsWhatIsThere
<1>3. /\ OnTable(p) \cup OnTable(q) \subseteq tradable
      /\ \A i \in OnTable(p) : owner[i] = p /\ i \in Contents(slots[p])
      /\ \A i \in OnTable(q) : owner[i] = q /\ i \in Contents(slots[q])
  BY DEF Exchange, Settled, ItemsTradable, OnTable, ItemsIn, Present, Contents
<1>4. /\ \A i \in TradeItems : \/ owner'[i] = owner[i]
                               \/ i \in OnTable(p) /\ owner'[i] \in {q, NoTrader}
                               \/ i \in OnTable(q) /\ owner'[i] \in {p, NoTrader}
      /\ \A t \in TradedSlots : Present(p, t) /\ Present(q, t) =>
            (owner'[slots[p][t]] = q <=> owner'[slots[q][t]] = p)
  BY MoveItemsDoes
<1>5. /\ \A i \in TradeItems : owner[i] = r /\ owner'[i] # r =>
            owner'[i] \in {s, NoTrader} /\ i \in Contents(slots[r]) \cap tradable
      /\ \A t \in TradedSlots : Present(r, t) /\ Present(s, t) =>
            (owner'[slots[r][t]] = s <=> owner'[slots[s][t]] = r)
  BY <1>1, <1>3, <1>4
<1>6. /\ gold \in [Traders -> Int] /\ money[p] \in Nat /\ money[q] \in Nat
      /\ gold[p] \in Int /\ gold[q] \in Int
  BY <1>1 DEF TradeInv, TRTypeOK
<1>7. gold[p] >= money[p] /\ gold[q] >= money[q]
  BY <1>6 DEF Exchange, Settled, Poor
<1>8. gold'[p] = (gold[p] - money[p]) + money[q] /\ gold'[q] = (gold[q] - money[q]) + money[p]
  BY <1>1, <1>6 DEF Exchange
<1> QED
  BY <1>1, <1>2, <1>5, <1>6, <1>7, <1>8

(* A step that moves no item of p to another player and ends no trade with a change of his
   items or gold. *)
Harmless(p) ==
    /\ \A i \in TradeItems : owner[i] = p => owner'[i] \in {p, NoTrader}
    /\ Trading(p) /\ partner'[p] = NoTrader =>
          gold'[p] = gold[p] /\ \A i \in TradeItems : owner[i] = p => owner'[i] = p

(* Every step either is harmless to a player or is an exchange of his. *)
LEMMA OnlyExchange ==
    ASSUME TradeInv, TRNext, NEW p \in Traders
    PROVE  \/ Harmless(p)
           \/ \E r \in Traders : Exchange(r) /\ p \in {r, partner[r]}
<1> USE TradeAssumption
<1>1. ASSUME UNCHANGED <<owner, gold>> PROVE Harmless(p)
  BY <1>1 DEF Harmless
<1>2. ASSUME NEW r \in Traders, InitiateTrade(r, p) \/ \E q \in Traders : InitiateTrade(r, q)
      PROVE  Harmless(p)
  BY <1>1, <1>2 DEF InitiateTrade, possessionVars
<1>3. ASSUME NEW r \in Traders, TradeCancel(r) \/ UnacceptTrade(r) \/ CastSpell(r)
      PROVE  Harmless(p)
  BY <1>1, <1>3 DEF TradeCancel, UnacceptTrade, CastSpell, possessionVars
<1>4. ASSUME NEW r \in Traders, Agree(r) \/ SpellFails(r) \/ NoSpace(r)
      PROVE  Harmless(p)
  BY <1>1, <1>4 DEF Agree, Answer, SpellFails, NoSpace, possessionVars
<1>5. ASSUME NEW r \in Traders, Exchange(r), p \notin {r, partner[r]} PROVE Harmless(p)
  <2>1. /\ \A i \in TradeItems : \/ owner'[i] = owner[i]
                                 \/ i \in OnTable(r) \/ i \in OnTable(partner[r])
        /\ gold' = [gold EXCEPT ![r] = (@ - money[r]) + money[partner[r]],
                               ![partner[r]] = (@ - money[partner[r]]) + money[r]]
    BY <1>5, MoveItemsDoes DEF Exchange
  <2>2. \A i \in TradeItems : owner[i] = p => i \notin OnTable(r) /\ i \notin OnTable(partner[r])
    BY <1>5 DEF OnTable, ItemsIn, Present
  <2>3. gold'[p] = gold[p]
    BY <1>5, <2>1 DEF TradeInv, TRTypeOK
  <2> QED
    BY <2>1, <2>2, <2>3 DEF Harmless
<1>6. ASSUME NEW r \in Traders, NEW n \in Sums, SetMoney(r, n) PROVE Harmless(p)
  BY <1>1, <1>6 DEF SetMoney, possessionVars
<1>7. ASSUME NEW r \in Traders, NEW n \in Sums, GoldChanges(r, n) PROVE Harmless(p)
  BY <1>7 DEF GoldChanges, tradeDataVars, Harmless, Trading
<1>8. ASSUME NEW r \in Traders, NEW s \in TradeSlots,
             ClearTradeItem(r, s) \/ \E i \in TradeItems : SetTradeItem(r, s, i)
      PROVE  Harmless(p)
  BY <1>1, <1>8 DEF ClearTradeItem, SetTradeItem, SetItem, possessionVars
<1>9. ASSUME NEW i \in TradeItems, ItemLeaves(i) \/ ItemBinds(i) PROVE Harmless(p)
  BY <1>9 DEF ItemLeaves, ItemBinds, Harmless, TradeInv, TRTypeOK, tradeDataVars, Trading
<1>10. ASSUME NEW i \in TradeItems, NEW r \in Traders, ItemComes(i, r) PROVE Harmless(p)
  BY <1>10 DEF ItemComes, Harmless, TradeInv, TRTypeOK, tradeDataVars, Trading
<1> QED
  BY <1>2, <1>3, <1>4, <1>5, <1>6, <1>7, <1>8, <1>9, <1>10 DEF TRNext, AcceptTrade

(* For any number of players, items and amounts of gold: HandleAcceptTradeOpcode moves, or where
   moveItems fails drops, only what both players accepted, never one item of a slot without the
   other, it pays what both can pay, and nothing else changes hands. *)
THEOREM ExchangesHonoured == TRSpec => ExchangeHonoured
<1>1. TradeInv /\ [TRNext]_tradeVars => [\A p \in Traders : Moves(p) => Honoured(p)]_tradeVars
  <2> SUFFICES ASSUME TradeInv, TRNext, NEW p \in Traders, Moves(p) PROVE Honoured(p)
    OBVIOUS
  <2>1. PICK r \in Traders : Exchange(r) /\ p \in {r, partner[r]}
    BY OnlyExchange DEF Harmless, Moves
  <2>2. partner[r] \in Traders /\ partner[partner[r]] = r
    BY <2>1 DEF Exchange, Settled, TradeInv, TradeSound, Paired
  <2>3. PICK s \in Traders : (p = r /\ s = partner[r]) \/ (p = partner[r] /\ s = r)
    <3>1. CASE p = r
      BY <2>2, <3>1
    <3>2. CASE p = partner[r]
      BY <3>2
    <3> QED
      BY <2>1, <3>1, <3>2
  <2>4. /\ Trading(p) /\ partner[p] = s
        /\ \E u \in {p, s} : accepted[u] /\ agreed[u]
        /\ \A i \in TradeItems : owner[i] = p /\ owner'[i] # p =>
              owner'[i] \in {s, NoTrader} /\ i \in Contents(slots[p]) \cap tradable
        /\ \A t \in TradedSlots : Present(p, t) /\ Present(s, t) =>
              (owner'[slots[p][t]] = s <=> owner'[slots[s][t]] = p)
        /\ gold[p] >= money[p]
        /\ gold'[p] = (gold[p] - money[p]) + money[s]
        /\ gold'[p] + gold'[s] = gold[p] + gold[s]
    BY <2>1, <2>3, ExchangeOf
  <2> QED
    BY <2>4 DEF Honoured
<1> QED
  BY <1>1, TradeInvariant, PTL DEF TRSpec, ExchangeHonoured

-----------------------------------------------------------------------------
(* GroupLoot. *)

Items == [blocked : BOOLEAN, taker : Looters \cup {NoLooter}, winner : Looters \cup {NoLooter}]
VoteMaps == UNION {[S -> Votes \cup {"none"}] : S \in SUBSET Looters}
Rolls == [votes : VoteMaps, rolling : Nat, need : Nat, greed : Nat, pass : Nat, on : BOOLEAN]

(* totalPlayersRolling counts those in the roll, and each total at least the votes that are of
   its kind now: a vote cast again adds to a total and is not taken off the other one. *)
Counted(r) ==
    /\ r.rolling = Cardinality(DOMAIN r.votes)
    /\ Cardinality(Voters(r, {"need"})) <= r.need
    /\ Cardinality(Voters(r, Greedy)) <= r.greed
    /\ Cardinality(Voters(r, {"pass"})) <= r.pass

(* A roll with all its votes is over, unless everyone passed before it began. *)
Runs(r) ==
    /\ r \in Rolls /\ r.on /\ Counted(r)
    /\ Cast(r) < r.rolling \/ (r.need = 0 /\ r.greed = 0)

(* A roll that may be counted: without voters its totals are zero.  If they were not, nobody
   would be drawn and the item would stay blocked. *)
Countable(r) == r \in Rolls /\ Counted(r) /\ (DOMAIN r.votes = {} => r.need = 0 /\ r.greed = 0)

(* BlockedHasRoll is inductive only with Runs, which makes the rolls countable when the last
   voter leaves, and with nothing blocked while there is no loot, when the next group forms. *)
LootTyped == lootItem \in [LootItems -> Items] /\ roll = [i \in LootItems |-> roll[i]]
RollsRun == \A i \in LootItems : roll[i] = NoRoll \/ (Runs(roll[i]) /\ opened /\ timer)
ClosedUnblocked == ~opened => \A i \in LootItems : ~lootItem[i].blocked
LootInv == LootTyped /\ RollsRun /\ ClosedUnblocked /\ BlockedHasRoll

(* Nobody takes an item that is rolled for: who gets it is left to the votes. *)
RollingKept == \A i \in LootItems : roll[i].on => lootItem[i].blocked /\ lootItem[i].taker = NoLooter

-----------------------------------------------------------------------------
(* The votes of a kind are a finite set. *)
LEMMA VotersFinite ==
    ASSUME NEW r \in Rolls, NEW kinds
    PROVE  /\ IsFiniteSet(DOMAIN r.votes)
           /\ IsFiniteSet(Voters(r, kinds))
           /\ Voters(r, kinds) \subseteq DOMAIN r.votes
           /\ Cardinality(Voters(r, kinds)) \in Nat
           /\ Cardinality(DOMAIN r.votes) \in Nat
<1>1. DOMAIN r.votes \subseteq Looters
  BY DEF Rolls, VoteMaps
<1>2. IsFiniteSet(DOMAIN r.votes)
  BY <1>1, FS_Subset, LootAssumption
<1>3. Voters(r, kinds) \subseteq DOMAIN r.votes
  BY DEF Voters
<1>4. IsFiniteSet(Voters(r, kinds))
  BY <1>2, <1>3, FS_Subset
<1> QED
  BY <1>2, <1>3, <1>4, FS_CardinalityType

(* CountTheRoll settles a countable roll: the item is free or with someone. *)
LEMMA OutcomesSettle ==
    ASSUME NEW it \in Items, NEW r, Countable(r), NEW timeUp,
           NEW out \in Outcomes(it, r, timeUp)
    PROVE  out \in Items /\ (out.blocked => out.taker # NoLooter)
<1> DEFINE SettledRolls(u) == u \in Items /\ (u.blocked => u.taker # NoLooter)
<1>1. ASSUME NEW total, NEW kinds, total # 0, DOMAIN r.votes # {},
             Remaining(total, r, kinds, timeUp) # 0,
             out \in HandOut(it, total, r, kinds, timeUp)
      PROVE  SettledRolls(out)
  <2>1. Takers(r, kinds, timeUp) # {}
    BY <1>1 DEF Remaining
  <2>2. PICK p \in Takers(r, kinds, timeUp) : out \in HandedTo(it, p, r.votes[p])
    BY <1>1, <2>1 DEF HandOut
  <2>3. p \in Looters
    BY DEF Takers, Voters, Countable, Rolls, VoteMaps
  <2>4. \/ out = [it EXCEPT !.taker = p]
        \/ out = [it EXCEPT !.blocked = FALSE, !.winner = p]
    BY <2>2 DEF HandedTo
  <2> QED
    BY <2>3, <2>4, LootAssumption DEF Items
<1>2. CASE Remaining(r.need, r, {"need"}, timeUp) > 0
  <2>1. out \in HandOut(it, r.need, r, {"need"}, timeUp)
    BY <1>2 DEF Outcomes
  <2>2. r.need # 0 /\ DOMAIN r.votes # {}
    BY <1>2 DEF Remaining, Countable, Rolls
  <2>3. Remaining(r.need, r, {"need"}, timeUp) # 0
    BY <1>2
  <2> QED
    BY <1>1, <2>1, <2>2, <2>3
<1>3. CASE /\ ~(Remaining(r.need, r, {"need"}, timeUp) > 0)
           /\ Remaining(r.greed, r, Greedy, timeUp) > 0
  <2>1. out \in HandOut(it, r.greed, r, Greedy, timeUp)
    BY <1>3 DEF Outcomes
  <2>2. r.greed # 0 /\ DOMAIN r.votes # {}
    BY <1>3 DEF Remaining, Countable, Rolls
  <2>3. Remaining(r.greed, r, Greedy, timeUp) # 0
    BY <1>3
  <2> QED
    BY <1>1, <2>1, <2>2, <2>3
<1>4. CASE /\ ~(Remaining(r.need, r, {"need"}, timeUp) > 0)
           /\ ~(Remaining(r.greed, r, Greedy, timeUp) > 0)
  <2>1. out = [it EXCEPT !.blocked = FALSE]
    BY <1>4 DEF Outcomes
  <2> QED
    BY <2>1 DEF Items
<1> QED
  BY <1>2, <1>3, <1>4

(* What CountRolls does to each item and its roll. *)
LEMMA CountRollsItems ==
    ASSUME LootTyped, NEW rs, NEW complete \in SUBSET LootItems, NEW timeUp,
           \A i \in complete : Countable(rs[i]),
           CountRolls(rs, complete, timeUp)
    PROVE  /\ lootItem' \in [LootItems -> Items]
           /\ roll' = [i \in LootItems |-> roll'[i]]
           /\ \A i \in complete : /\ roll'[i] = NoRoll
                                  /\ lootItem'[i].blocked => lootItem'[i].taker # NoLooter
           /\ \A i \in LootItems \ complete : roll'[i] = rs[i] /\ lootItem'[i] = lootItem[i]
<1>1. roll' = [i \in LootItems |-> IF i \in complete THEN NoRoll ELSE rs[i]]
  BY DEF CountRolls
<1>2. /\ DOMAIN lootItem' = LootItems /\ lootItem' = [i \in LootItems |-> lootItem'[i]]
      /\ \A i \in LootItems :
           lootItem'[i] \in IF i \in complete THEN Outcomes(lootItem[i], rs[i], timeUp)
                                              ELSE {lootItem[i]}
  BY DEF CountRolls
<1>3. ASSUME NEW i \in complete
      PROVE  lootItem'[i] \in Items /\ (lootItem'[i].blocked => lootItem'[i].taker # NoLooter)
  <2>1. lootItem'[i] \in Outcomes(lootItem[i], rs[i], timeUp) /\ lootItem[i] \in Items
    BY <1>2 DEF LootTyped
  <2> QED
    BY <2>1, OutcomesSettle
<1>4. ASSUME NEW i \in LootItems \ complete PROVE lootItem'[i] = lootItem[i] /\ lootItem[i] \in Items
  BY <1>2 DEF LootTyped
<1>5. lootItem' \in [LootItems -> Items]
  BY <1>2, <1>3, <1>4
<1> QED
  BY <1>1, <1>3, <1>4, <1>5

(* A roll that runs may be counted when the minute is over. *)
LEMMA RunningCountable == ASSUME NEW r, Runs(r) PROVE Countable(r)
<1>1. r \in Rolls /\ Counted(r)
  BY DEF Runs
<1>2. ASSUME DOMAIN r.votes = {} PROVE r.need = 0 /\ r.greed = 0
  <2>1. r.rolling = 0
    BY <1>1, <1>2, FS_EmptySet DEF Counted
  <2> QED
    BY <1>1, <2>1 DEF Runs, Cast, Rolls
<1> QED
  BY <1>1, <1>2 DEF Countable

(* A vote keeps the totals of a roll, and completes it or lets it run. *)
LEMMA VotedRuns ==
    ASSUME NEW r, Runs(r), NEW p \in DOMAIN r.votes, NEW choice \in Votes
    PROVE  /\ Countable(Voted(r, p, choice))
           /\ ~Complete(Voted(r, p, choice)) => Runs(Voted(r, p, choice))
<1> DEFINE v == Voted(r, p, choice)
<1>1. r \in Rolls /\ r.on /\ Counted(r)
  BY DEF Runs
<1>2. /\ v.votes = [r.votes EXCEPT ![p] = choice] /\ v.on /\ v.rolling = r.rolling
      /\ v.pass  = r.pass + (IF choice = "pass" THEN 1 ELSE 0)
      /\ v.need  = r.need + (IF choice = "need" THEN 1 ELSE 0)
      /\ v.greed = r.greed + (IF choice \in Greedy THEN 1 ELSE 0)
  BY <1>1 DEF Voted, Rolls
<1>2a. v = [votes |-> v.votes, rolling |-> v.rolling, need |-> v.need, greed |-> v.greed,
           pass |-> v.pass, on |-> v.on]
  <2>1. DOMAIN v = DOMAIN r
    BY <1>1 DEF Voted, Rolls
  <2>2. DOMAIN r = {"votes", "rolling", "need", "greed", "pass", "on"}
    BY <1>1 DEF Rolls
  <2>3. v = [x \in DOMAIN v |-> v[x]]
    BY <1>1 DEF Voted, Rolls
  <2> HIDE DEF v
  <2> QED
    BY <2>1, <2>2, <2>3
<1>3. v.votes \in VoteMaps /\ DOMAIN v.votes = DOMAIN r.votes
  BY <1>1, <1>2 DEF Rolls, VoteMaps
<1>4. v \in Rolls
  <2>1. v.pass \in Nat /\ v.need \in Nat /\ v.greed \in Nat /\ v.rolling \in Nat /\ v.on \in BOOLEAN
    BY <1>1, <1>2 DEF Rolls
  <2> HIDE DEF v
  <2> QED
    BY <1>2a, <1>3, <2>1 DEF Rolls
<1>5. ASSUME NEW kinds
      PROVE  Cardinality(Voters(v, kinds))
               <= Cardinality(Voters(r, kinds)) + (IF choice \in kinds THEN 1 ELSE 0)
  <2>1. /\ IsFiniteSet(Voters(r, kinds)) /\ Cardinality(Voters(r, kinds)) \in Nat
        /\ IsFiniteSet(Voters(v, kinds)) /\ Cardinality(Voters(v, kinds)) \in Nat
    BY <1>1, <1>4, VotersFinite
  <2>2. CASE choice \in kinds
    <3>1. Voters(v, kinds) = Voters(r, kinds) \cup {p}
      BY <1>1, <1>2, <1>3, <2>2 DEF Voters, Rolls, VoteMaps
    <3> QED
      BY <2>1, <2>2, <3>1, FS_AddElement
  <2>3. CASE choice \notin kinds
    <3>1. Voters(v, kinds) \subseteq Voters(r, kinds)
      BY <1>1, <1>2, <1>3, <2>3 DEF Voters, Rolls, VoteMaps
    <3>2. Cardinality(Voters(v, kinds)) <= Cardinality(Voters(r, kinds))
      BY <2>1, <3>1, FS_Subset
    <3> QED
      BY <2>1, <2>3, <3>2
  <2> QED
    BY <2>2, <2>3
<1>6. \A kinds : Cardinality(Voters(r, kinds)) \in Nat /\ Cardinality(Voters(v, kinds)) \in Nat
  BY <1>1, <1>4, VotersFinite
<1>7. Cardinality(Voters(v, {"need"})) <= v.need
  BY <1>1, <1>2, <1>5, <1>6 DEF Counted, Rolls
<1>8. Cardinality(Voters(v, Greedy)) <= v.greed
  BY <1>1, <1>2, <1>5, <1>6 DEF Counted, Rolls
<1>9. Cardinality(Voters(v, {"pass"})) <= v.pass
  BY <1>1, <1>2, <1>5, <1>6 DEF Counted, Rolls
<1>10. Counted(v)
  BY <1>1, <1>2, <1>3, <1>7, <1>8, <1>9 DEF Counted
<1>11. Countable(v)
  BY <1>3, <1>4, <1>10 DEF Countable
<1>12. ASSUME ~Complete(v) PROVE Cast(v) < v.rolling
  BY <1>2, <1>4, <1>12 DEF Complete, Cast, Rolls
<1> QED
  BY <1>2, <1>4, <1>10, <1>11, <1>12 DEF Runs

(* A member who leaves takes his vote with him, and the roll is complete or runs on. *)
LEMMA TakenOffRuns ==
    ASSUME NEW r, Runs(r), NEW p \in DOMAIN r.votes
    PROVE  /\ Countable(TakenOff(r, p))
           /\ ~Complete(TakenOff(r, p)) => Runs(TakenOff(r, p))
<1> DEFINE t == TakenOff(r, p)
<1>1. r \in Rolls /\ r.on /\ Counted(r)
  BY DEF Runs
<1>2. /\ t.votes = [q \in DOMAIN r.votes \ {p} |-> r.votes[q]] /\ t.on
      /\ t.rolling = r.rolling - 1
      /\ t.need = Less(r.need, r, p, {"need"}) /\ t.pass = Less(r.pass, r, p, {"pass"})
      /\ t.greed = Less(r.greed, r, p, Greedy)
      /\ t = [votes |-> t.votes, rolling |-> t.rolling, need |-> t.need, greed |-> t.greed,
              pass |-> t.pass, on |-> t.on]
  BY <1>1 DEF TakenOff, Rolls
<1>3. t.votes \in VoteMaps /\ DOMAIN t.votes = DOMAIN r.votes \ {p}
  <2>1. DOMAIN r.votes \ {p} \in SUBSET Looters
    BY <1>1 DEF Rolls, VoteMaps
  <2>2. t.votes \in [DOMAIN r.votes \ {p} -> Votes \cup {"none"}]
    BY <1>1, <1>2 DEF Rolls, VoteMaps
  <2> QED
    BY <2>1, <2>2 DEF VoteMaps
<1>4. t.rolling \in Nat /\ t.rolling = Cardinality(DOMAIN t.votes)
  <2>1. Cardinality(DOMAIN r.votes \ {p}) = Cardinality(DOMAIN r.votes) - 1
    BY <1>1, VotersFinite, FS_RemoveElement
  <2>2. IsFiniteSet(DOMAIN r.votes \ {p})
    BY <1>1, VotersFinite, FS_RemoveElement
  <2>3. Cardinality(DOMAIN r.votes \ {p}) \in Nat
    BY <2>2, FS_CardinalityType
  <2> QED
    BY <1>1, <1>2, <1>3, <2>1, <2>3 DEF Counted
<1>5. ASSUME NEW kinds, NEW n \in Nat, Cardinality(Voters(r, kinds)) <= n
      PROVE  /\ Less(n, r, p, kinds) \in Nat
             /\ Cardinality(Voters(t, kinds)) <= Less(n, r, p, kinds)
             /\ Less(n, r, p, kinds) <= n
  <2>1. /\ IsFiniteSet(Voters(r, kinds)) /\ Cardinality(Voters(r, kinds)) \in Nat
    BY <1>1, VotersFinite
  <2>2. Voters(t, kinds) = Voters(r, kinds) \ {p}
    BY <1>2, <1>3 DEF Voters
  <2>3. p \in Voters(r, kinds) <=> r.votes[p] \in kinds
    BY DEF Voters
  <2>4. /\ Cardinality(Voters(t, kinds)) \in Nat
        /\ Cardinality(Voters(t, kinds)) =
             IF r.votes[p] \in kinds THEN Cardinality(Voters(r, kinds)) - 1
                                     ELSE Cardinality(Voters(r, kinds))
    BY <2>1, <2>2, <2>3, FS_RemoveElement, FS_CardinalityType
  <2> QED
    BY <1>5, <2>1, <2>4 DEF Less
<1>6. /\ t.need \in Nat /\ t.greed \in Nat /\ t.pass \in Nat
      /\ t.need <= r.need /\ t.greed <= r.greed
      /\ Cardinality(Voters(t, {"need"})) <= t.need
      /\ Cardinality(Voters(t, Greedy)) <= t.greed
      /\ Cardinality(Voters(t, {"pass"})) <= t.pass
  BY <1>1, <1>2, <1>5 DEF Counted, Rolls
<1>7. t \in Rolls
  BY <1>2, <1>3, <1>4, <1>6 DEF Rolls
<1>8. ASSUME DOMAIN t.votes = {} PROVE t.need = 0 /\ t.greed = 0
  <2>1. t.rolling = 0
    BY <1>4, <1>8, FS_EmptySet
  <2>2. r.rolling = 1
    BY <1>1, <1>2, <2>1 DEF Rolls
  <2>3. r.need = 0 /\ r.greed = 0
    BY <1>1, <2>2 DEF Runs, Cast, Rolls
  <2> QED
    BY <1>1, <1>6, <2>3 DEF Rolls
<1>9. ASSUME ~Complete(t) PROVE Cast(t) < t.rolling
  BY <1>2, <1>7, <1>9 DEF Complete, Cast, Rolls
<1> QED
  BY <1>2, <1>4, <1>6, <1>7, <1>8, <1>9 DEF Runs, Counted, Countable

-----------------------------------------------------------------------------
(* At first there is neither group nor loot. *)
LEMMA InitLootInv == GLInit => LootInv
<1> SUFFICES ASSUME GLInit PROVE LootInv
  OBVIOUS
<1>1. Fresh \in Items
  BY DEF Fresh, Items
<1>2. LootTyped
  BY <1>1 DEF GLInit, LootTyped
<1> QED
  BY <1>2 DEF GLInit, LootInv, RollsRun, ClosedUnblocked, BlockedHasRoll, Fresh

(* Each roll that is opened runs: those who pass on everything are in its total. *)
LEMMA OpenLootStep ==
    ASSUME LootInv, NEW rollers \in [LootItems -> SUBSET Looters], NEW passers \in SUBSET Looters,
           OpenLoot(rollers, passers)
    PROVE  LootInv'
<1> DEFINE Start(i) ==
              [votes   |-> [p \in rollers[i] |-> IF p \in passers THEN "pass" ELSE "none"],
               rolling |-> Cardinality(rollers[i]), need |-> 0, greed |-> 0,
               pass    |-> Cardinality(rollers[i] \cap passers), on |-> TRUE]
<1>1. /\ roll' = [i \in LootItems |-> IF rollers[i] # {} THEN Start(i) ELSE NoRoll]
      /\ lootItem' = [i \in LootItems |-> [Fresh EXCEPT !.blocked = rollers[i] # {}]]
      /\ opened' = TRUE
      /\ timer' = (\E i \in LootItems : rollers[i] # {})
  BY DEF OpenLoot
<1>2. ASSUME NEW i \in LootItems PROVE Runs(Start(i))
  <2> DEFINE votes == [p \in rollers[i] |-> IF p \in passers THEN "pass" ELSE "none"]
  <2>1. rollers[i] \in SUBSET Looters
    OBVIOUS
  <2>2. votes \in [rollers[i] -> Votes \cup {"none"}]
    BY DEF Votes
  <2>3. votes \in VoteMaps
    BY <2>1, <2>2 DEF VoteMaps
  <2>4. /\ Cardinality(rollers[i]) \in Nat
        /\ Cardinality(rollers[i] \cap passers) \in Nat
    BY <2>1, FS_Subset, FS_CardinalityType, LootAssumption
  <2>5. Start(i) \in Rolls
    BY <2>3, <2>4 DEF Rolls
  <2>6. Voters(Start(i), {"need"}) = {} /\ Voters(Start(i), Greedy) = {}
    BY DEF Voters, Greedy
  <2>7. Voters(Start(i), {"pass"}) = rollers[i] \cap passers
    BY DEF Voters
  <2>8. Counted(Start(i))
    <3>1. Cardinality({}) = 0
      BY FS_EmptySet
    <3>2. DOMAIN Start(i).votes = rollers[i]
      OBVIOUS
    <3>3. /\ Start(i).rolling = Cardinality(rollers[i])
          /\ Start(i).need = 0 /\ Start(i).greed = 0
          /\ Start(i).pass = Cardinality(rollers[i] \cap passers)
      OBVIOUS
    <3>4. /\ Cardinality(Voters(Start(i), {"need"})) <= Start(i).need
          /\ Cardinality(Voters(Start(i), Greedy)) <= Start(i).greed
      <4>1. /\ Cardinality(Voters(Start(i), {"need"})) = 0
            /\ Cardinality(Voters(Start(i), Greedy)) = 0
        BY <2>6, <3>1
      <4> HIDE DEF Start
      <4> QED
        BY <3>3, <4>1
    <3>5. Cardinality(Voters(Start(i), {"pass"})) <= Start(i).pass
      <4>1. Cardinality(Voters(Start(i), {"pass"})) = Cardinality(rollers[i] \cap passers)
        BY <2>7
      <4> HIDE DEF Start
      <4> QED
        BY <2>4, <3>3, <4>1
    <3>6. Start(i).rolling = Cardinality(DOMAIN Start(i).votes)
      BY <3>2, <3>3
    <3> HIDE DEF Start
    <3> QED
      BY <3>4, <3>5, <3>6 DEF Counted
  <2> QED
    BY <2>5, <2>8 DEF Runs
<1>3. ASSUME NEW i \in LootItems
      PROVE  /\ lootItem'[i].taker = NoLooter /\ lootItem'[i].winner = NoLooter
             /\ lootItem'[i].blocked = (rollers[i] # {})
             /\ lootItem'[i] \in Items
  <2>1. lootItem'[i] = [Fresh EXCEPT !.blocked = rollers[i] # {}]
    BY <1>1
  <2> QED
    BY <2>1 DEF Fresh, Items
<1>4. LootTyped'
  BY <1>1, <1>3 DEF LootTyped
<1>5. \A i \in LootItems :
        \/ rollers[i] # {} /\ roll'[i] = Start(i) /\ roll'[i].on /\ timer'
        \/ rollers[i] = {} /\ roll'[i] = NoRoll
  BY <1>1
<1>6. RollsRun'
  <2> SUFFICES ASSUME NEW i \in LootItems
               PROVE  roll'[i] = NoRoll \/ (Runs(roll'[i]) /\ opened' /\ timer')
    BY DEF RollsRun, Runs, Counted, Voters, Cast
  <2> QED
    BY <1>1, <1>2, <1>5
<1>7. BlockedHasRoll'
  <2> SUFFICES ASSUME NEW i \in LootItems, lootItem'[i].blocked PROVE roll'[i].on /\ timer'
    BY DEF BlockedHasRoll
  <2>1. rollers[i] # {}
    BY <1>3
  <2> QED
    BY <1>5, <2>1
<1> QED
  BY <1>1, <1>4, <1>6, <1>7 DEF LootInv, ClosedUnblocked

(* Counting rolls that are complete keeps the invariant, when the others run on or, with the
   group, end. *)
LEMMA CountStep ==
    ASSUME LootInv, NEW rs, NEW complete \in SUBSET LootItems, NEW timeUp,
           CountRolls(rs, complete, timeUp),
           \A i \in complete : Countable(rs[i]) /\ opened,
           \A i \in LootItems \ complete :
               \/ rs[i] = NoRoll /\ (party' = {} \/ roll[i] = NoRoll)
               \/ Runs(rs[i]) /\ opened /\ timer /\ timer',
           opened' = opened, party' # {} => party # {}
    PROVE  LootInv'
<1>1. /\ lootItem' \in [LootItems -> Items]
      /\ roll' = [i \in LootItems |-> roll'[i]]
      /\ \A i \in complete : /\ roll'[i] = NoRoll
                             /\ lootItem'[i].blocked => lootItem'[i].taker # NoLooter
      /\ \A i \in LootItems \ complete : roll'[i] = rs[i] /\ lootItem'[i] = lootItem[i]
  BY CountRollsItems DEF LootInv
<1>2. LootTyped'
  BY <1>1 DEF LootTyped
<1>3. RollsRun'
  <2> SUFFICES ASSUME NEW i \in LootItems
               PROVE  roll'[i] = NoRoll \/ (Runs(roll'[i]) /\ opened' /\ timer')
    BY DEF RollsRun, Runs, Counted, Voters, Cast
  <2> QED
    BY <1>1
<1>4. ClosedUnblocked'
  <2> SUFFICES ASSUME ~opened, NEW i \in LootItems PROVE ~lootItem'[i].blocked
    BY DEF ClosedUnblocked
  <2> QED
    BY <1>1 DEF LootInv, ClosedUnblocked
<1>5. BlockedHasRoll'
  <2> SUFFICES ASSUME party' # {}, NEW i \in LootItems,
                      lootItem'[i].blocked, lootItem'[i].taker = NoLooter
               PROVE  roll'[i].on /\ timer'
    BY DEF BlockedHasRoll
  <2>1. i \notin complete
    BY <1>1
  <2>2. roll[i].on
    BY <1>1, <2>1 DEF LootInv, BlockedHasRoll
  <2>3. Runs(rs[i]) /\ timer'
    BY <2>1, <2>2 DEF NoRoll
  <2> QED
    BY <1>1, <2>1, <2>3 DEF Runs
<1> QED
  BY <1>2, <1>3, <1>4, <1>5 DEF LootInv

(* A vote completes its roll or lets it run on; the others are as they were. *)
LEMMA VoteStep ==
    ASSUME LootInv, NEW p \in Looters, NEW i \in LootItems, NEW choice \in Votes, Vote(p, i, choice)
    PROVE  LootInv'
<1> DEFINE voted == Voted(roll[i], p, choice)
           rs == [roll EXCEPT ![i] = voted]
           complete == IF Complete(voted) THEN {i} ELSE {}
<1>1. /\ roll[i].on /\ p \in DOMAIN roll[i].votes
      /\ CountRolls(rs, complete, FALSE)
      /\ UNCHANGED <<party, opened, timer>>
  BY DEF Vote
<1>2. Runs(roll[i]) /\ opened /\ timer
  BY <1>1 DEF LootInv, RollsRun, NoRoll
<1>3. Countable(voted) /\ (~Complete(voted) => Runs(voted))
  BY <1>1, <1>2, VotedRuns
<1>4. rs[i] = voted /\ \A j \in LootItems : j # i => rs[j] = roll[j]
  BY DEF LootInv, LootTyped
<1>5. \A j \in complete : Countable(rs[j]) /\ opened
  BY <1>2, <1>3, <1>4
<1>6. ASSUME NEW j \in LootItems \ complete
      PROVE  \/ rs[j] = NoRoll /\ roll[j] = NoRoll
             \/ Runs(rs[j]) /\ opened /\ timer /\ timer'
  <2>1. CASE j = i
    BY <1>1, <1>2, <1>3, <1>4, <2>1
  <2>2. CASE j # i
    BY <1>1, <1>4, <2>2 DEF LootInv, RollsRun
  <2> QED
    BY <2>1, <2>2
<1>7. complete \in SUBSET LootItems
  OBVIOUS
<1> QED
  BY <1>1, <1>5, <1>6, <1>7, CountStep

(* When the minute is over every roll is counted. *)
LEMMA EndRollStep == ASSUME LootInv, EndRoll PROVE LootInv'
<1> DEFINE complete == {i \in LootItems : roll[i].on}
<1>1. /\ CountRolls(roll, complete, TRUE)
      /\ UNCHANGED <<party, opened>>
  BY DEF EndRoll
<1>2. \A i \in complete : Countable(roll[i]) /\ opened
  BY RunningCountable DEF LootInv, RollsRun, NoRoll
<1>3. \A i \in LootItems \ complete : roll[i] = NoRoll
  BY DEF LootInv, RollsRun, Runs
<1> QED
  BY <1>1, <1>2, <1>3, CountStep

(* Disband leaves no group, and nothing to keep but the types. *)
LEMMA DisbandStep == ASSUME LootInv, Disband, UNCHANGED opened PROVE LootInv'
<1>1. /\ party' = {} /\ roll' = [i \in LootItems |-> NoRoll] /\ lootItem' = lootItem
  BY DEF Disband
<1>2. LootTyped'
  BY <1>1 DEF LootInv, LootTyped
<1>3. RollsRun'
  BY <1>1 DEF RollsRun
<1>4. ClosedUnblocked' /\ BlockedHasRoll'
  BY <1>1 DEF LootInv, ClosedUnblocked, BlockedHasRoll
<1> QED
  BY <1>2, <1>3, <1>4 DEF LootInv

(* A member who leaves completes the rolls that waited for him alone. *)
LEMMA RemoveMemberStep == ASSUME LootInv, NEW p \in Looters, RemoveMember(p) PROVE LootInv'
<1> DEFINE rest  == party \ {p}
           few   == Cardinality({q \in rest : place[q] # "gone"}) < 2
           rolls == [i \in LootItems |-> TakenOff(roll[i], p)]
           done  == {i \in LootItems : p \in DOMAIN roll[i].votes /\ Complete(rolls[i])}
           left  == [i \in LootItems |-> IF i \in done THEN rolls[i] ELSE NoRoll]
<1>1. /\ p \in party /\ UNCHANGED <<opened, timer>>
      /\ \/ Disband
         \/ CountRolls(rolls, done, FALSE) /\ party' = rest
         \/ CountRolls(left, done, FALSE) /\ party' = {}
  BY DEF RemoveMember
<1>2. ASSUME NEW i \in LootItems
      PROVE  \/ p \notin DOMAIN roll[i].votes /\ rolls[i] = roll[i]
             \/ /\ p \in DOMAIN roll[i].votes /\ Runs(roll[i]) /\ opened /\ timer
                /\ Countable(rolls[i]) /\ (~Complete(rolls[i]) => Runs(rolls[i]))
  <2>1. CASE p \notin DOMAIN roll[i].votes
    BY <2>1 DEF TakenOff
  <2>2. CASE p \in DOMAIN roll[i].votes
    <3>1. roll[i] # NoRoll
      BY <2>2 DEF NoRoll
    <3>2. Runs(roll[i]) /\ opened /\ timer
      BY <3>1 DEF LootInv, RollsRun
    <3> QED
      BY <2>2, <3>2, TakenOffRuns
  <2> QED
    BY <2>1, <2>2
<1>3. \A i \in done : Countable(rolls[i]) /\ opened
  BY <1>2
<1>4. ASSUME NEW i \in LootItems \ done
      PROVE  \/ rolls[i] = NoRoll /\ roll[i] = NoRoll
             \/ Runs(rolls[i]) /\ opened /\ timer
  BY <1>2 DEF LootInv, RollsRun
<1>5. done \in SUBSET LootItems
  OBVIOUS
<1>6. CASE Disband
  BY <1>1, <1>6, DisbandStep
<1>7. CASE CountRolls(rolls, done, FALSE) /\ party' = rest
  BY <1>1, <1>3, <1>4, <1>5, <1>7, CountStep
<1>8. CASE CountRolls(left, done, FALSE) /\ party' = {}
  <2>1. \A i \in done : Countable(left[i]) /\ opened
    BY <1>3
  <2>2. \A i \in LootItems \ done : left[i] = NoRoll
    OBVIOUS
  <2> QED
    BY <1>1, <1>5, <1>8, <2>1, <2>2, CountStep
<1> QED
  BY <1>1, <1>6, <1>7, <1>8

(* An item is taken, or its corpse goes. *)
LEMMA StoreStep == ASSUME LootInv, NEW p \in Looters, NEW i \in LootItems, StoreLootItem(p, i) PROVE LootInv'
<1>1. /\ lootItem' = [lootItem EXCEPT ![i].taker = p] /\ opened
      /\ UNCHANGED <<party, opened, roll, timer>>
  BY DEF StoreLootItem
<1>2. lootItem \in [LootItems -> Items]
  BY DEF LootInv, LootTyped
<1>3. /\ lootItem' \in [LootItems -> Items]
      /\ lootItem'[i].taker # NoLooter
      /\ \A j \in LootItems : j # i => lootItem'[j] = lootItem[j]
  BY <1>1, <1>2, LootAssumption DEF Items
<1>4. LootTyped' /\ RollsRun' /\ ClosedUnblocked'
  BY <1>1, <1>3 DEF LootInv, LootTyped, RollsRun, ClosedUnblocked
<1>5. BlockedHasRoll'
  BY <1>1, <1>3 DEF LootInv, BlockedHasRoll
<1> QED
  BY <1>4, <1>5 DEF LootInv

LEMMA RemoveCorpseStep == ASSUME LootInv, RemoveCorpse PROVE LootInv'
<1>1. /\ lootItem' = [i \in LootItems |-> Fresh] /\ roll' = [i \in LootItems |-> NoRoll]
  BY DEF RemoveCorpse
<1>2. LootTyped'
  BY <1>1 DEF LootTyped, Fresh, Items
<1>3. RollsRun'
  BY <1>1 DEF RollsRun
<1>4. ClosedUnblocked' /\ BlockedHasRoll'
  BY <1>1 DEF ClosedUnblocked, BlockedHasRoll, Fresh
<1> QED
  BY <1>2, <1>3, <1>4 DEF LootInv

(* Who is in the group and where does not matter, as long as a new one finds nothing blocked. *)
LEMMA PartyStep ==
    ASSUME LootInv, UNCHANGED <<opened, lootItem, roll, timer>>, party' # {} => party # {} \/ ~opened
    PROVE  LootInv'
<1>1. LootTyped' /\ RollsRun' /\ ClosedUnblocked'
  BY DEF LootInv, LootTyped, RollsRun, ClosedUnblocked
<1>2. BlockedHasRoll'
  BY DEF LootInv, BlockedHasRoll, ClosedUnblocked
<1> QED
  BY <1>1, <1>2 DEF LootInv

(* Every step keeps the invariant. *)
LEMMA NextLootInv == ASSUME LootInv, [GLNext]_lootVars PROVE LootInv'
<1>1. ASSUME NEW rollers \in [LootItems -> SUBSET Looters], NEW passers \in SUBSET Looters,
             OpenLoot(rollers, passers)
      PROVE  LootInv'
  BY <1>1, OpenLootStep
<1>2. ASSUME NEW p \in Looters, NEW i \in LootItems, NEW choice \in Votes, Vote(p, i, choice)
      PROVE  LootInv'
  BY <1>2, VoteStep
<1>3. ASSUME NEW p \in Looters, NEW i \in LootItems, StoreLootItem(p, i) PROVE LootInv'
  BY <1>3, StoreStep
<1>4. ASSUME NEW p \in Looters, AddMember(p) PROVE LootInv'
  BY <1>4, PartyStep DEF AddMember
<1>5. ASSUME NEW p \in Looters, RemoveMember(p) PROVE LootInv'
  BY <1>5, RemoveMemberStep
<1>6. ASSUME NEW p \in Looters, NEW where \in {"here", "away", "gone"}, Travel(p, where) PROVE LootInv'
  BY <1>6, PartyStep DEF Travel
<1>7. ASSUME NEW players \in SUBSET Looters, Form(players) PROVE LootInv'
  BY <1>7, PartyStep DEF Form
<1>8. CASE EndRoll
  BY <1>8, EndRollStep
<1>9. CASE DisbandGroup
  BY <1>9, DisbandStep DEF DisbandGroup
<1>10. CASE RemoveCorpse
  BY <1>10, RemoveCorpseStep
<1>11. CASE UNCHANGED lootVars
  BY <1>11, PartyStep DEF lootVars
<1> QED
  BY <1>1, <1>2, <1>3, <1>4, <1>5, <1>6, <1>7, <1>8, <1>9, <1>10, <1>11 DEF GLNext

-----------------------------------------------------------------------------
(* For any group and any number of items: as long as the group exists, no item stays blocked for
   everyone without a roll and a timer that will settle it, however members vote, leave, travel
   and disconnect (Group::CountRollVote, Group::RemoveMember, Group::CountTheRoll). *)
THEOREM RollsNeverStuck == GLSpec => []BlockedHasRoll
<1>1. GLInit => LootInv
  BY InitLootInv
<1>2. LootInv /\ [GLNext]_lootVars => LootInv'
  BY NextLootInv
<1>3. LootInv => BlockedHasRoll
  BY DEF LootInv
<1> QED
  BY <1>1, <1>2, <1>3, PTL DEF GLSpec

-----------------------------------------------------------------------------
(* The votes decide. *)

(* Something remains of a total exactly when one who voted so can be found: the total covers
   the votes of its kind, so those who cannot be found never use it up. *)
LEMMA RemainingTakers ==
    ASSUME NEW r, Countable(r), NEW kinds, NEW total \in Nat, NEW timeUp,
           Cardinality(Voters(r, kinds)) <= total, DOMAIN r.votes = {} => total = 0
    PROVE  Remaining(total, r, kinds, timeUp) > 0 <=> Takers(r, kinds, timeUp) # {}
<1> DEFINE V == Voters(r, kinds)
           T == Takers(r, kinds, timeUp)
<1>1. /\ IsFiniteSet(V) /\ Cardinality(V) \in Nat /\ V \subseteq DOMAIN r.votes /\ T \in SUBSET V
  BY VotersFinite DEF Countable, Takers
<1>2. V \cap T = T
  BY <1>1
<1> HIDE DEF V, T
<1>3. /\ IsFiniteSet(T) /\ Cardinality(T) \in Nat
      /\ Cardinality(V \ T) = Cardinality(V) - Cardinality(T)
      /\ T = {} <=> Cardinality(T) = 0
      /\ V = {} <=> Cardinality(V) = 0
  <2>1. IsFiniteSet(T) /\ Cardinality(T) \in Nat
    BY <1>1, FS_Subset, FS_CardinalityType
  <2>2. Cardinality(V \ T) = Cardinality(V) - Cardinality(V \cap T)
    BY <1>1, <2>1, FS_Difference
  <2>3. (T = {} <=> Cardinality(T) = 0) /\ (V = {} <=> Cardinality(V) = 0)
    BY <1>1, <2>1, FS_EmptySet
  <2> QED
    BY <1>2, <2>1, <2>2, <2>3
<1>4. CASE total = 0
  <2>1. V = {} /\ T = {}
    BY <1>1, <1>3, <1>4 DEF V
  <2> QED
    BY <1>4, <2>1 DEF Remaining, T
<1>5. CASE total # 0 /\ T = {}
  BY <1>5 DEF Remaining, T
<1>6. CASE total # 0 /\ T # {}
  <2>1. Remaining(total, r, kinds, timeUp) = total - Cardinality(V \ T)
    BY <1>6 DEF Remaining, V, T
  <2>2. Cardinality(V) <= total
    BY DEF V
  <2>3. total - Cardinality(V \ T) > 0
    BY <1>1, <1>3, <1>6, <2>2
  <2> QED
    BY <1>6, <2>1, <2>3 DEF T
<1> QED
  BY <1>4, <1>5, <1>6

(* What HandOut makes of an item belongs to one of the takers. *)
LEMMA HandedOut ==
    ASSUME NEW it \in Items, it.taker = NoLooter, NEW r, Countable(r), NEW kinds, NEW timeUp,
           NEW total, total # 0, Takers(r, kinds, timeUp) # {},
           NEW out \in HandOut(it, total, r, kinds, timeUp)
    PROVE  (IF out.taker = NoLooter THEN out.winner ELSE out.taker) \in Takers(r, kinds, timeUp)
<1>1. PICK p \in Takers(r, kinds, timeUp) : out \in HandedTo(it, p, r.votes[p])
  BY DEF HandOut
<1>2. p \in Looters /\ p # NoLooter
  BY LootAssumption DEF Takers, Voters, Countable, Rolls, VoteMaps
<1>3. \/ out = [it EXCEPT !.taker = p]
      \/ out = [it EXCEPT !.blocked = FALSE, !.winner = p]
  BY <1>1 DEF HandedTo
<1>4. (IF out.taker = NoLooter THEN out.winner ELSE out.taker) = p
  BY <1>2, <1>3 DEF Items
<1> QED
  BY <1>4

(* CountTheRoll: need before greed, and only those who can be found. *)
LEMMA OutcomesFair ==
    ASSUME NEW i \in LootItems, lootItem[i] \in Items, lootItem[i].taker = NoLooter,
           NEW r, Countable(r), NEW timeUp \in BOOLEAN,
           lootItem'[i] \in Outcomes(lootItem[i], r, timeUp)
    PROVE  Deserved(i, r.votes, timeUp)
<1> DEFINE among(kinds) == {p \in DOMAIN r.votes : r.votes[p] \in kinds /\ CanFind(p, timeUp)}
           it == lootItem[i]
           out == lootItem'[i]
           to == IF out.taker = NoLooter THEN out.winner ELSE out.taker
           need  == Remaining(r.need, r, {"need"}, timeUp)
           greed == Remaining(r.greed, r, Greedy, timeUp)
<1>1. \A kinds : among(kinds) = Takers(r, kinds, timeUp)
  BY DEF Takers, Voters
<1>2. need > 0 <=> among({"need"}) # {}
  <2>1. r.need \in Nat /\ Cardinality(Voters(r, {"need"})) <= r.need /\ (DOMAIN r.votes = {} => r.need = 0)
    BY DEF Countable, Counted, Rolls
  <2> QED
    BY <1>1, <2>1, RemainingTakers
<1>3. greed > 0 <=> among(Greedy) # {}
  <2>1. r.greed \in Nat /\ Cardinality(Voters(r, Greedy)) <= r.greed /\ (DOMAIN r.votes = {} => r.greed = 0)
    BY DEF Countable, Counted, Rolls
  <2> QED
    BY <1>1, <2>1, RemainingTakers
<1>4. out \in IF need > 0 THEN HandOut(it, r.need, r, {"need"}, timeUp)
              ELSE IF greed > 0 THEN HandOut(it, r.greed, r, Greedy, timeUp)
              ELSE {[it EXCEPT !.blocked = FALSE]}
  BY DEF Outcomes
<1>5. ASSUME NEW total, NEW kinds, Remaining(total, r, kinds, timeUp) > 0,
             Takers(r, kinds, timeUp) # {}
      PROVE  total # 0
  BY <1>5 DEF Remaining
<1>6. IF among({"need"}) # {} THEN to \in among({"need"})
      ELSE IF among(Greedy) # {} THEN to \in among(Greedy)
      ELSE out = [it EXCEPT !.blocked = FALSE]
  <2>1. CASE need > 0
    <3>1. r.need # 0 /\ Takers(r, {"need"}, timeUp) # {}
      BY <1>1, <1>2, <1>5, <2>1
    <3>2. to \in Takers(r, {"need"}, timeUp)
      BY <1>4, <2>1, <3>1, HandedOut
    <3> QED
      BY <1>1, <3>1, <3>2
  <2>2. CASE ~(need > 0) /\ greed > 0
    <3>1. r.greed # 0 /\ Takers(r, Greedy, timeUp) # {}
      BY <1>1, <1>3, <1>5, <2>2
    <3>2. to \in Takers(r, Greedy, timeUp)
      BY <1>4, <2>2, <3>1, HandedOut
    <3> QED
      BY <1>1, <1>2, <2>2, <3>1, <3>2
  <2>3. CASE ~(need > 0) /\ ~(greed > 0)
    BY <1>2, <1>3, <1>4, <2>3
  <2> QED
    BY <2>1, <2>2, <2>3
<1> QED
  BY <1>6 DEF Deserved

(* What CountRolls leaves of each item and its roll. *)
LEMMA CountRollsMoves ==
    ASSUME NEW rs, NEW complete, NEW timeUp, CountRolls(rs, complete, timeUp), NEW i \in LootItems
    PROVE  /\ i \in complete => /\ lootItem'[i] \in Outcomes(lootItem[i], rs[i], timeUp)
                                /\ roll'[i] = NoRoll
           /\ i \notin complete => lootItem'[i] = lootItem[i] /\ roll'[i] = rs[i]
  BY DEF CountRolls

(* Items that are rolled for stay blocked until the roll is over. *)
LEMMA InitRollingKept == GLInit => RollingKept
  BY DEF GLInit, RollingKept, NoRoll

LEMMA NextRollingKept == ASSUME LootInv, RollingKept, [GLNext]_lootVars PROVE RollingKept'
<1> SUFFICES ASSUME NEW i \in LootItems, roll'[i].on
             PROVE  lootItem'[i].blocked /\ lootItem'[i].taker = NoLooter
  BY DEF RollingKept
<1>1. roll[i].on => lootItem[i].blocked /\ lootItem[i].taker = NoLooter
  BY DEF RollingKept
<1>2. ~NoRoll.on
  BY DEF NoRoll
<1>3. ASSUME NEW rs, NEW complete, NEW timeUp, CountRolls(rs, complete, timeUp), rs[i].on => roll[i].on
      PROVE  lootItem'[i].blocked /\ lootItem'[i].taker = NoLooter
  BY <1>1, <1>2, <1>3, CountRollsMoves
<1>4. ASSUME UNCHANGED <<lootItem, roll>>
      PROVE  lootItem'[i].blocked /\ lootItem'[i].taker = NoLooter
  BY <1>1, <1>4
<1>5. ASSUME \A j \in LootItems : roll'[j] = NoRoll
      PROVE  lootItem'[i].blocked /\ lootItem'[i].taker = NoLooter
  BY <1>2, <1>5
<1>6. ASSUME NEW rollers \in [LootItems -> SUBSET Looters], NEW passers \in SUBSET Looters,
             OpenLoot(rollers, passers)
      PROVE  lootItem'[i].blocked /\ lootItem'[i].taker = NoLooter
  <2>1. /\ rollers[i] = {} => roll'[i] = NoRoll
        /\ lootItem'[i] = [Fresh EXCEPT !.blocked = rollers[i] # {}]
    BY <1>6 DEF OpenLoot
  <2> QED
    BY <1>2, <2>1 DEF Fresh
<1>7. ASSUME NEW p \in Looters, NEW j \in LootItems, NEW choice \in Votes, Vote(p, j, choice)
      PROVE  lootItem'[i].blocked /\ lootItem'[i].taker = NoLooter
  <2> DEFINE rs == [roll EXCEPT ![j] = Voted(roll[j], p, choice)]
  <2>1. roll[j].on /\ CountRolls(rs, IF Complete(Voted(roll[j], p, choice)) THEN {j} ELSE {}, FALSE)
    BY <1>7 DEF Vote
  <2>2. rs[i].on => roll[i].on
    BY <2>1 DEF LootInv, LootTyped
  <2> QED
    BY <1>3, <2>1, <2>2
<1>8. ASSUME NEW p \in Looters, NEW j \in LootItems, StoreLootItem(p, j)
      PROVE  lootItem'[i].blocked /\ lootItem'[i].taker = NoLooter
  <2>1. /\ lootItem' = [lootItem EXCEPT ![j].taker = p] /\ ~lootItem[j].blocked /\ roll' = roll
    BY <1>8 DEF StoreLootItem
  <2>2. i # j
    BY <1>1, <2>1
  <2> QED
    BY <1>1, <2>1, <2>2 DEF LootInv, LootTyped
<1>9. ASSUME NEW p \in Looters, RemoveMember(p)
      PROVE  lootItem'[i].blocked /\ lootItem'[i].taker = NoLooter
  <2> DEFINE rolls == [j \in LootItems |-> TakenOff(roll[j], p)]
             done  == {j \in LootItems : p \in DOMAIN roll[j].votes /\ Complete(rolls[j])}
             left  == [j \in LootItems |-> IF j \in done THEN rolls[j] ELSE NoRoll]
  <2>1. Disband \/ CountRolls(rolls, done, FALSE) \/ CountRolls(left, done, FALSE)
    BY <1>9 DEF RemoveMember
  <2>2. rolls[i].on => roll[i].on
    <3>1. CASE p \notin DOMAIN roll[i].votes
      BY <3>1 DEF TakenOff
    <3>2. CASE p \in DOMAIN roll[i].votes
      <4>1. roll[i] # NoRoll
        BY <3>2 DEF NoRoll
      <4> QED
        BY <4>1 DEF LootInv, RollsRun, Runs
    <3> QED
      BY <3>1, <3>2
  <2>3. left[i].on => roll[i].on
    BY <1>2, <2>2
  <2> HIDE DEF rolls, left
  <2> QED
    BY <1>3, <1>5, <2>1, <2>2, <2>3 DEF Disband
<1> QED
  BY <1>3, <1>4, <1>5, <1>6, <1>7, <1>8, <1>9
     DEF GLNext, AddMember, Travel, Form, EndRoll, DisbandGroup, Disband, RemoveCorpse, lootVars

(* Only a vote, a departure or the end of the minute ends a roll while the loot is there and
   the group goes on, and then the votes decide. *)
LEMMA FairStep ==
    ASSUME LootInv, RollingKept, GLNext, NEW i \in LootItems,
           roll[i].on, opened',
           lootItem'[i] # lootItem[i] \/ (~roll'[i].on /\ party' # {})
    PROVE  LET votes == roll[i].votes
           IN \/ \E p \in DOMAIN votes, choice \in Votes :
                     Vote(p, i, choice) /\ Deserved(i, Voted(roll[i], p, choice).votes, FALSE)
              \/ \E p \in DOMAIN votes :
                     RemoveMember(p) /\ Deserved(i, TakenOff(roll[i], p).votes, FALSE)
              \/ EndRoll /\ Deserved(i, votes, TRUE)
<1> DEFINE Fair == LET votes == roll[i].votes
           IN \/ \E p \in DOMAIN votes, choice \in Votes :
                     Vote(p, i, choice) /\ Deserved(i, Voted(roll[i], p, choice).votes, FALSE)
              \/ \E p \in DOMAIN votes :
                     RemoveMember(p) /\ Deserved(i, TakenOff(roll[i], p).votes, FALSE)
              \/ EndRoll /\ Deserved(i, votes, TRUE)
<1> SUFFICES Fair
  OBVIOUS
<1>1. /\ lootItem[i] \in Items /\ lootItem[i].taker = NoLooter /\ lootItem[i].blocked
      /\ Runs(roll[i]) /\ opened /\ ~NoRoll.on
  <2>1. roll[i] # NoRoll
    BY DEF NoRoll
  <2> QED
    BY <2>1 DEF LootInv, LootTyped, RollsRun, RollingKept, NoRoll
<1>2. ASSUME lootItem'[i] = lootItem[i], roll'[i].on \/ party' = {} PROVE FALSE
  BY <1>2
<1>3. ASSUME NEW rollers \in [LootItems -> SUBSET Looters], NEW passers \in SUBSET Looters,
             OpenLoot(rollers, passers)
      PROVE  Fair
  BY <1>1, <1>3 DEF OpenLoot
<1>4. ASSUME NEW p \in Looters, NEW j \in LootItems, NEW choice \in Votes, Vote(p, j, choice)
      PROVE  Fair
  <2> DEFINE voted == Voted(roll[j], p, choice)
             rs == [roll EXCEPT ![j] = voted]
             complete == IF Complete(voted) THEN {j} ELSE {}
  <2>1. /\ p \in DOMAIN roll[j].votes /\ CountRolls(rs, complete, FALSE)
    BY <1>4 DEF Vote
  <2>2. rs[j] = voted /\ (i # j => rs[i] = roll[i])
    BY DEF LootInv, LootTyped
  <2>3. i \in complete
    <3> SUFFICES ASSUME i \notin complete PROVE FALSE
      OBVIOUS
    <3>1. lootItem'[i] = lootItem[i] /\ roll'[i] = rs[i]
      BY <2>1, CountRollsMoves
    <3>2. rs[i].on
      <4>1. CASE i = j
        <5>1. voted.on = roll[j].on
          BY <1>1, <4>1 DEF Voted, Runs, Rolls
        <5> QED
          BY <2>2, <4>1, <5>1
      <4>2. CASE i # j
        BY <2>2, <4>2
      <4> QED
        BY <4>1, <4>2
    <3> QED
      BY <1>2, <3>1, <3>2
  <2>4. i = j
    BY <2>3
  <2>5. lootItem'[i] \in Outcomes(lootItem[i], voted, FALSE)
    BY <2>1, <2>2, <2>3, <2>4, CountRollsMoves
  <2>6. Countable(voted)
    BY <1>1, <2>1, <2>4, VotedRuns
  <2>7. Deserved(i, voted.votes, FALSE)
    BY <1>1, <2>5, <2>6, OutcomesFair
  <2> QED
    BY <1>4, <2>1, <2>4, <2>7
<1>5. ASSUME NEW p \in Looters, NEW j \in LootItems, StoreLootItem(p, j) PROVE Fair
  <2>1. lootItem' = [lootItem EXCEPT ![j].taker = p] /\ ~lootItem[j].blocked /\ roll' = roll
    BY <1>5 DEF StoreLootItem
  <2>2. lootItem'[i] = lootItem[i]
    BY <1>1, <2>1 DEF LootInv, LootTyped
  <2> QED
    BY <1>2, <2>1, <2>2
<1>6. ASSUME NEW p \in Looters, RemoveMember(p) PROVE Fair
  <2> DEFINE rest  == party \ {p}
             rolls == [j \in LootItems |-> TakenOff(roll[j], p)]
             done  == {j \in LootItems : p \in DOMAIN roll[j].votes /\ Complete(rolls[j])}
             left  == [j \in LootItems |-> IF j \in done THEN rolls[j] ELSE NoRoll]
  <2>1. \/ Disband
        \/ CountRolls(rolls, done, FALSE) /\ party' = rest
        \/ CountRolls(left, done, FALSE) /\ party' = {}
    BY <1>6 DEF RemoveMember
  <2>2. rolls[i] = TakenOff(roll[i], p) /\ (i \in done => left[i] = rolls[i])
    OBVIOUS
  <2>3. i \in done
    <3> SUFFICES ASSUME i \notin done PROVE FALSE
      OBVIOUS
    <3>1. rolls[i].on
      <4>1. CASE p \notin DOMAIN roll[i].votes
        BY <2>2, <4>1 DEF TakenOff
      <4>2. CASE p \in DOMAIN roll[i].votes
        BY <1>1, <2>2, <4>2 DEF TakenOff, Runs, Rolls
      <4> QED
        BY <4>1, <4>2
    <3> HIDE DEF rolls, done, left
    <3>2. CASE Disband
      BY <1>2, <3>2 DEF Disband
    <3>3. CASE CountRolls(rolls, done, FALSE)
      BY <1>2, <3>1, <3>3, CountRollsMoves
    <3>4. CASE CountRolls(left, done, FALSE) /\ party' = {}
      BY <1>2, <3>4, CountRollsMoves
    <3> QED
      BY <2>1, <3>2, <3>3, <3>4
  <2>4. p \in DOMAIN roll[i].votes
    BY <2>3
  <2> HIDE DEF rolls, done, left
  <2>5. lootItem'[i] \in Outcomes(lootItem[i], TakenOff(roll[i], p), FALSE)
    <3>1. ~Disband
      BY <1>2 DEF Disband
    <3> QED
      BY <2>1, <2>2, <2>3, <3>1, CountRollsMoves
  <2>6. Countable(TakenOff(roll[i], p))
    BY <1>1, <2>4, TakenOffRuns
  <2>7. Deserved(i, TakenOff(roll[i], p).votes, FALSE)
    BY <1>1, <2>5, <2>6, OutcomesFair
  <2> QED
    BY <1>6, <2>4, <2>7
<1>7. CASE EndRoll
  <2>1. lootItem'[i] \in Outcomes(lootItem[i], roll[i], TRUE)
    BY <1>7, CountRollsMoves DEF EndRoll
  <2>2. Deserved(i, roll[i].votes, TRUE)
    BY <1>1, <2>1, RunningCountable, OutcomesFair
  <2> QED
    BY <1>7, <2>2
<1>8. CASE DisbandGroup
  BY <1>2, <1>8 DEF DisbandGroup, Disband
<1>9. CASE RemoveCorpse
  BY <1>9 DEF RemoveCorpse
<1>10. ASSUME UNCHANGED <<lootItem, roll>> PROVE Fair
  BY <1>2, <1>10
<1> HIDE DEF Fair
<1> QED
  BY <1>3, <1>4, <1>5, <1>6, <1>7, <1>8, <1>9, <1>10 DEF GLNext, AddMember, Travel, Form

(* For any group and any number of items: however a roll ends, and whoever has left, travelled or
   voted again meanwhile, its item goes to one who needs it and can be found, else to one who is
   greedy, else it is free for all (Group::CountTheRoll). *)
THEOREM RollsAreFair == GLSpec => RollFair
<1> DEFINE Inv == LootInv /\ RollingKept
           Fair == \A i \in LootItems :
              (/\ roll[i].on /\ opened'
               /\ lootItem'[i] # lootItem[i] \/ (~roll'[i].on /\ party' # {})) =>
                  LET votes == roll[i].votes
                  IN \/ \E p \in DOMAIN votes, choice \in Votes :
                            Vote(p, i, choice) /\ Deserved(i, Voted(roll[i], p, choice).votes, FALSE)
                     \/ \E p \in DOMAIN votes :
                            RemoveMember(p) /\ Deserved(i, TakenOff(roll[i], p).votes, FALSE)
                     \/ EndRoll /\ Deserved(i, votes, TRUE)
<1>1. GLInit => Inv
  BY InitLootInv, InitRollingKept
<1>2. Inv /\ [GLNext]_lootVars => Inv'
  BY NextLootInv, NextRollingKept
<1>3. Inv /\ [GLNext]_lootVars => [Fair]_lootVars
  BY FairStep
<1>4. RollFair <=> [][Fair]_lootVars
  BY DEF RollFair
<1> HIDE DEF Inv, Fair
<1> QED
  BY <1>1, <1>2, <1>3, <1>4, PTL DEF GLSpec

-----------------------------------------------------------------------------
(* The dungeon finder. *)

(* A record of the finder's state, as far as the steps of a handler rely on it. *)
Fielded(s) == s = [state |-> s.state, old |-> s.old, parties |-> s.parties, online |-> s.online,
                   data |-> s.data, new |-> s.new, compatible |-> s.compatible,
                   proposals |-> s.proposals, checks |-> s.checks]
ProposalOK(P) == /\ P = [answer |-> P.answer, from |-> P.from, entries |-> P.entries, group |-> P.group]
                 /\ P.group \in Parties \cup {NoParty} /\ DOMAIN P.answer \subseteq Finders
Manned(f) == \A x \in DOMAIN f : f[x] \subseteq Finders
GroupOK(G) == /\ G = [members |-> G.members, leader |-> G.leader, invited |-> G.invited, lfg |-> G.lfg]
              /\ G.members \subseteq Finders
Grouped(f) == f = [g \in Parties |-> f[g]] /\ \A g \in Parties : GroupOK(f[g])
Checked(f) == \A g \in DOMAIN f : DOMAIN f[g] \subseteq Finders
FinderOK(s) == /\ Fielded(s) /\ s.online \subseteq Finders
               /\ Manned(s.data) /\ Grouped(s.parties) /\ Checked(s.checks)
               /\ \A x \in Entries : s.old[x] \in {"none", "dungeon"}
               /\ s.proposals \in Seq(Range(s.proposals))
               /\ \A i \in DOMAIN s.proposals : ProposalOK(s.proposals[i])

(* Whoever is asked is in a proposal. *)
Asked(s) == \A p \in Finders : s.state[p] = "proposal" =>
                \E i \in DOMAIN s.proposals : p \in DOMAIN s.proposals[i].answer
AskedWell(s) == FinderOK(s) /\ Asked(s)

(* A step that asks nobody and leaves the proposals alone, and one that besides uses no group that
   is not in use. *)
Calm(s, t) == /\ FinderOK(t) /\ t.proposals = s.proposals
              /\ \A p \in Finders : t.state[p] = "proposal" => s.state[p] = "proposal"
Quiet(s, t) == /\ Calm(s, t)
               /\ DOMAIN t.data \subseteq DOMAIN s.data /\ t.new \subseteq s.new
               /\ DOMAIN t.checks \subseteq DOMAIN s.checks /\ t.compatible \subseteq s.compatible
               /\ \A g \in Parties : s.parties[g] = NoGroup => t.parties[g] = NoGroup

LEMMA CalmKeeps ==
  ASSUME NEW s, NEW t, AskedWell(s), Calm(s, t)
  PROVE  AskedWell(t)
  BY DEF AskedWell, Asked, Calm

LEMMA CalmFollows ==
  ASSUME NEW s, NEW t, NEW u, Calm(s, t), Calm(t, u)
  PROVE  Calm(s, u)
  BY DEF Calm

LEMMA QuietFollows ==
  ASSUME NEW s, NEW t, NEW u, Quiet(s, t), Quiet(t, u)
  PROVE  Quiet(s, u)
  BY CalmFollows DEF Quiet

LEMMA QuietItself ==
  ASSUME NEW s, FinderOK(s)
  PROVE  Quiet(s, s)
  BY DEF Quiet, Calm

LEMMA QuietSpares ==
  ASSUME NEW s, NEW t, Quiet(s, t), NEW g \in Parties, Unused(s, g)
  PROVE  Unused(t, g)
  BY DEF Quiet, Calm, Unused

LEMMA PlayersAndParties ==
  /\ Finders \subseteq Entries /\ Parties \subseteq Entries /\ NoParty \notin Entries
  /\ \A p \in Finders : p \notin Parties
  BY DungeonAssumption DEF Entries

LEMMA PartyOfIs ==
  ASSUME NEW s, NEW p
  PROVE  /\ PartyOf(s, p) \in Parties \cup {NoParty}
         /\ PartyOf(s, p) # NoParty => p \in s.parties[PartyOf(s, p)].members
  <1>. DEFINE gs == {g \in Parties : p \in s.parties[g].members}
  <1>1. PartyOf(s, p) = IF gs = {} THEN NoParty ELSE CHOOSE g \in gs : TRUE
    BY DEF PartyOf
  <1>2. gs # {} => (CHOOSE g \in gs : TRUE) \in gs
    OBVIOUS
  <1>. QED  BY <1>1, <1>2

LEMMA SetStateDoes ==
  ASSUME NEW s, FinderOK(s), NEW X, NEW st
  PROVE  LET t == SetState(s, X, st)
         IN  /\ FinderOK(t) /\ t.proposals = s.proposals /\ t.parties = s.parties
             /\ t.online = s.online /\ t.data = s.data /\ t.new = s.new
             /\ t.compatible = s.compatible /\ t.checks = s.checks
             /\ \A x \in Entries : t.state[x] = IF x \in X THEN st ELSE s.state[x]
             /\ \A x \in Entries \ X : t.old[x] = s.old[x]
             /\ st # "proposal" => Quiet(s, t)
             /\ (\A p \in Finders : p \notin X) => Quiet(s, t)
  <1>. DEFINE t == SetState(s, X, st)
              f == [x \in Entries |-> IF x \in X THEN st ELSE s.state[x]]
              o == [x \in Entries |-> IF x \in X /\ st \in {"none", "dungeon"} THEN st ELSE s.old[x]]
  <1>1. t = [s EXCEPT !.state = f, !.old = o]
    BY DEF SetState
  <1>2. /\ \A x \in Entries : o[x] \in {"none", "dungeon"} /\ f[x] = IF x \in X THEN st ELSE s.state[x]
        /\ \A x \in Entries \ X : o[x] = s.old[x]
    BY DEF FinderOK
  <1>. HIDE DEF t, f, o
  <1>3. /\ Fielded(t) /\ t.state = f /\ t.old = o /\ t.proposals = s.proposals /\ t.parties = s.parties
        /\ t.online = s.online /\ t.data = s.data /\ t.new = s.new
        /\ t.compatible = s.compatible /\ t.checks = s.checks
    BY <1>1 DEF FinderOK, Fielded
  <1>4. FinderOK(t)
    BY <1>2, <1>3 DEF FinderOK
  <1>5. (st # "proposal" \/ \A p \in Finders : p \notin X) => Quiet(s, t)
    BY <1>2, <1>3, <1>4, PlayersAndParties DEF Quiet, Calm
  <1>. QED  BY <1>2, <1>3, <1>4, <1>5 DEF t

LEMMA RestoreStateDoes ==
  ASSUME NEW s, FinderOK(s), NEW X
  PROVE  LET t == RestoreState(s, X)
         IN  /\ t.parties = s.parties /\ Quiet(s, t)
             /\ t.online = s.online /\ t.data = s.data /\ t.checks = s.checks
             /\ t.old = s.old /\ t.new = s.new /\ t.compatible = s.compatible
             /\ \A x \in Entries : t.state[x] = IF x \in X THEN s.old[x] ELSE s.state[x]
  <1>. DEFINE t == RestoreState(s, X)
              f == [x \in Entries |-> IF x \in X THEN s.old[x] ELSE s.state[x]]
  <1>1. t = [s EXCEPT !.state = f]
    BY DEF RestoreState
  <1>2. \A x \in Entries : f[x] = IF x \in X THEN s.old[x] ELSE s.state[x]
    OBVIOUS
  <1>. HIDE DEF t, f
  <1>3. /\ Fielded(t) /\ t.state = f /\ t.old = s.old /\ t.proposals = s.proposals /\ t.parties = s.parties
        /\ t.online = s.online /\ t.data = s.data /\ t.new = s.new
        /\ t.compatible = s.compatible /\ t.checks = s.checks
    BY <1>1 DEF FinderOK, Fielded
  <1>4. FinderOK(t)
    BY <1>3 DEF FinderOK
  <1>5. Quiet(s, t)
    BY <1>2, <1>3, <1>4, PlayersAndParties DEF FinderOK, Quiet, Calm
  <1>. QED  BY <1>2, <1>3, <1>5 DEF t

(* Leaving the queue changes nobody's state. *)
LEMMA RemoveFromQueueDoes ==
  ASSUME NEW s, FinderOK(s), NEW X
  PROVE  LET t == RemoveFromQueue(s, X)
         IN  /\ t.parties = s.parties /\ t.state = s.state /\ t.old = s.old
             /\ t.online = s.online /\ t.checks = s.checks /\ t.data = Drop(s.data, X) /\ Quiet(s, t)
             /\ t.new = s.new \ X /\ t.compatible = {e \in s.compatible : e \cap X = {}}
  <1>. DEFINE t == RemoveFromQueue(s, X)
              n == s.new \ X
              c == {e \in s.compatible : e \cap X = {}}
              d == Drop(s.data, X)
  <1>1. t = [s EXCEPT !.new = n, !.compatible = c, !.data = d]
    <2>. DEFINE v == Unlist(s, X)
    <2>1. v = [s EXCEPT !.new = n, !.compatible = c]
      BY DEF Unlist
    <2>2. v.data = s.data
      BY <2>1 DEF FinderOK, Fielded
    <2>3. t = [v EXCEPT !.data = Drop(v.data, X)]
      BY DEF RemoveFromQueue
    <2>. HIDE DEF v, t, n, c
    <2>. QED  BY <2>1, <2>2, <2>3 DEF FinderOK, Fielded
  <1>2. /\ DOMAIN d \subseteq DOMAIN s.data /\ n \subseteq s.new /\ c \subseteq s.compatible
        /\ Manned(s.data) => Manned(d)
    BY DEF Drop, Manned
  <1>. HIDE DEF t, n, c, d
  <1>3. /\ Fielded(t) /\ t.state = s.state /\ t.old = s.old /\ t.proposals = s.proposals /\ t.parties = s.parties
        /\ t.online = s.online /\ t.data = d /\ t.new = n /\ t.compatible = c /\ t.checks = s.checks
    BY <1>1 DEF FinderOK, Fielded
  <1>4. FinderOK(t)
    BY <1>2, <1>3 DEF FinderOK
  <1>5. Quiet(s, t)
    BY <1>2, <1>3, <1>4 DEF Quiet, Calm
  <1>. QED  BY <1>3, <1>5 DEF t, n, c, d

(* Nor does entering it. *)
LEMMA AddToQueueDoes ==
  ASSUME NEW s, FinderOK(s), NEW X
  PROVE  LET t == AddToQueue(s, X)
         IN  /\ t.parties = s.parties /\ t.state = s.state /\ t.old = s.old
             /\ t.online = s.online /\ t.checks = s.checks /\ t.data = s.data /\ Calm(s, t)
             /\ t.new = s.new \cup (X \cap DOMAIN s.data) /\ t.compatible = s.compatible
  <1>. DEFINE t == AddToQueue(s, X)
              n == s.new \cup (X \cap DOMAIN s.data)
  <1>1. t = [s EXCEPT !.new = n]
    BY DEF AddToQueue
  <1>. HIDE DEF t, n
  <1>2. /\ Fielded(t) /\ t.state = s.state /\ t.old = s.old /\ t.proposals = s.proposals /\ t.parties = s.parties
        /\ t.online = s.online /\ t.data = s.data /\ t.checks = s.checks
        /\ t.new = n /\ t.compatible = s.compatible
    BY <1>1 DEF FinderOK, Fielded
  <1>3. FinderOK(t)
    BY <1>2 DEF FinderOK
  <1>. QED  BY <1>2, <1>3 DEF Calm, t, n

(* Entries, role checks, players in the realm and groups may change: nobody is asked by that. *)
LEMMA FieldsFree ==
  ASSUME NEW s, FinderOK(s), NEW v
  PROVE  /\ Manned(v) => /\ Calm(s, [s EXCEPT !.data = v])
                         /\ DOMAIN v \subseteq DOMAIN s.data => Quiet(s, [s EXCEPT !.data = v])
         /\ v \subseteq Finders => Calm(s, [s EXCEPT !.online = v])
         /\ Calm(s, [s EXCEPT !.new = v]) /\ Calm(s, [s EXCEPT !.compatible = v])
         /\ [s EXCEPT !.data = v].state = s.state /\ [s EXCEPT !.data = v].parties = s.parties
         /\ Checked(v) => /\ Calm(s, [s EXCEPT !.checks = v])
                          /\ DOMAIN v \subseteq DOMAIN s.checks => Quiet(s, [s EXCEPT !.checks = v])
         /\ Grouped(v) =>
               /\ Calm(s, [s EXCEPT !.parties = v]) /\ [s EXCEPT !.parties = v].parties = v
               /\ [s EXCEPT !.parties = v].state = s.state /\ [s EXCEPT !.parties = v].old = s.old
               /\ [s EXCEPT !.parties = v].online = s.online
               /\ (\A g \in Parties : s.parties[g] = NoGroup => v[g] = NoGroup)
                     => Quiet(s, [s EXCEPT !.parties = v])
  <1>. DEFINE Same(t) == Fielded(t) /\ t.state = s.state /\ t.old = s.old /\ t.proposals = s.proposals
  <1>1. ASSUME NEW t, Same(t), t.online \subseteq Finders, Manned(t.data), Grouped(t.parties), Checked(t.checks)
        PROVE  Calm(s, t)
    <2>1. FinderOK(t)
      BY <1>1 DEF FinderOK
    <2>. QED  BY <1>1, <2>1 DEF Calm
  <1>2. s.online \subseteq Finders /\ Manned(s.data) /\ Grouped(s.parties) /\ Checked(s.checks)
    BY DEF FinderOK
  <1>3. LET t == [s EXCEPT !.data = v]
        IN  Same(t) /\ t.parties = s.parties /\ t.new = s.new /\ t.checks = s.checks /\ t.compatible = s.compatible
            /\ t.data = v /\ t.online = s.online
    BY DEF FinderOK, Fielded
  <1>4. LET t == [s EXCEPT !.checks = v]
        IN  Same(t) /\ t.parties = s.parties /\ t.new = s.new /\ t.data = s.data /\ t.compatible = s.compatible
            /\ t.checks = v /\ t.online = s.online
    BY DEF FinderOK, Fielded
  <1>5. LET t == [s EXCEPT !.parties = v]
        IN  Same(t) /\ t.parties = v /\ t.new = s.new /\ t.data = s.data /\ t.compatible = s.compatible
            /\ t.checks = s.checks /\ t.online = s.online
    BY DEF FinderOK, Fielded
  <1>6. LET t == [s EXCEPT !.online = v]
        IN  Same(t) /\ t.parties = s.parties /\ t.data = s.data /\ t.checks = s.checks /\ t.online = v
    BY DEF FinderOK, Fielded
  <1>7. LET t == [s EXCEPT !.new = v]
        IN  Same(t) /\ t.parties = s.parties /\ t.data = s.data /\ t.checks = s.checks /\ t.online = s.online
    BY DEF FinderOK, Fielded
  <1>8. LET t == [s EXCEPT !.compatible = v]
        IN  Same(t) /\ t.parties = s.parties /\ t.data = s.data /\ t.checks = s.checks /\ t.online = s.online
    BY DEF FinderOK, Fielded
  <1>. HIDE DEF Same
  <1>9. /\ v \subseteq Finders => Calm(s, [s EXCEPT !.online = v])
        /\ Calm(s, [s EXCEPT !.new = v]) /\ Calm(s, [s EXCEPT !.compatible = v])
    BY <1>1, <1>2, <1>6, <1>7, <1>8
  <1>10. /\ Manned(v) => /\ Calm(s, [s EXCEPT !.data = v])
                         /\ DOMAIN v \subseteq DOMAIN s.data => Quiet(s, [s EXCEPT !.data = v])
         /\ [s EXCEPT !.data = v].state = s.state /\ [s EXCEPT !.data = v].parties = s.parties
    <2>. DEFINE t == [s EXCEPT !.data = v]
    <2>1. Same(t) /\ t.parties = s.parties /\ t.new = s.new /\ t.checks = s.checks /\ t.compatible = s.compatible
          /\ t.data = v /\ t.online = s.online
      BY <1>3
    <2>. HIDE DEF t
    <2>2. Manned(v) => Calm(s, t)
      BY <1>1, <1>2, <2>1
    <2>3. Manned(v) /\ DOMAIN v \subseteq DOMAIN s.data => Quiet(s, t)
      BY <2>1, <2>2 DEF Quiet
    <2>. QED  BY <2>1, <2>2, <2>3 DEF t, Same
  <1>11. Checked(v) => /\ Calm(s, [s EXCEPT !.checks = v])
                       /\ DOMAIN v \subseteq DOMAIN s.checks => Quiet(s, [s EXCEPT !.checks = v])
    <2>. DEFINE t == [s EXCEPT !.checks = v]
    <2>1. Same(t) /\ t.parties = s.parties /\ t.new = s.new /\ t.data = s.data /\ t.compatible = s.compatible
          /\ t.checks = v /\ t.online = s.online
      BY <1>4
    <2>. HIDE DEF t
    <2>2. Checked(v) => Calm(s, t)
      BY <1>1, <1>2, <2>1
    <2>3. Checked(v) /\ DOMAIN v \subseteq DOMAIN s.checks => Quiet(s, t)
      BY <2>1, <2>2 DEF Quiet
    <2>. QED  BY <2>2, <2>3 DEF t
  <1>12. ASSUME Grouped(v)
         PROVE  /\ Calm(s, [s EXCEPT !.parties = v]) /\ [s EXCEPT !.parties = v].parties = v
                /\ [s EXCEPT !.parties = v].state = s.state /\ [s EXCEPT !.parties = v].old = s.old
                /\ [s EXCEPT !.parties = v].online = s.online
                /\ (\A g \in Parties : s.parties[g] = NoGroup => v[g] = NoGroup)
                      => Quiet(s, [s EXCEPT !.parties = v])
    <2>. DEFINE t == [s EXCEPT !.parties = v]
    <2>1. Same(t) /\ t.parties = v /\ t.new = s.new /\ t.data = s.data /\ t.compatible = s.compatible
          /\ t.checks = s.checks /\ t.online = s.online
      BY <1>5
    <2>. HIDE DEF t
    <2>2. Calm(s, t)
      BY <1>1, <1>2, <1>12, <2>1
    <2>3. (\A g \in Parties : s.parties[g] = NoGroup => v[g] = NoGroup) => Quiet(s, t)
      BY <2>1, <2>2 DEF Quiet
    <2>. QED  BY <2>1, <2>2, <2>3 DEF t, Same
  <1>. QED  BY <1>9, <1>10, <1>11, <1>12

LEMMA DropKeeps ==
  ASSUME NEW f, NEW S
  PROVE  /\ DOMAIN Drop(f, S) \subseteq DOMAIN f
         /\ (Manned(f) => Manned(Drop(f, S))) /\ (Checked(f) => Checked(Drop(f, S)))
  BY DEF Drop, Manned, Checked

LEMMA GroupEdit ==
  ASSUME NEW G, GroupOK(G), NEW v
  PROVE  /\ GroupOK([G EXCEPT !.invited = v]) /\ GroupOK([G EXCEPT !.leader = v]) /\ GroupOK([G EXCEPT !.lfg = v])
         /\ v \subseteq Finders => GroupOK([G EXCEPT !.members = v])
  BY DEF GroupOK

LEMMA GroupEdits ==
  ASSUME NEW G, GroupOK(G), NEW v, NEW w
  PROVE  /\ GroupOK([G EXCEPT !.leader = v, !.lfg = w]) /\ GroupOK([G EXCEPT !.leader = v, !.invited = w])
  <1>. DEFINE H == [G EXCEPT !.leader = v]
  <1>1. GroupOK(H)
    BY GroupEdit
  <1>2. /\ [G EXCEPT !.leader = v, !.lfg = w] = [H EXCEPT !.lfg = w]
        /\ [G EXCEPT !.leader = v, !.invited = w] = [H EXCEPT !.invited = w]
    OBVIOUS
  <1>. HIDE DEF H
  <1>. QED  BY <1>1, <1>2, GroupEdit

LEMMA GroupsEdited ==
  ASSUME NEW f, Grouped(f), NEW g, NEW G, GroupOK(G)
  PROVE  Grouped([f EXCEPT ![g] = G])
  BY DEF Grouped

LEMMA NewGroups ==
  /\ GroupOK(NoGroup)
  /\ \A l, b : GroupOK([NoGroup EXCEPT !.leader = l, !.lfg = b])
  /\ \A l, I : GroupOK([NoGroup EXCEPT !.leader = l, !.invited = I])
  <1>1. GroupOK(NoGroup)
    BY DEF GroupOK, NoGroup
  <1>. QED  BY <1>1, GroupEdits

LEMMA LeaveAllLfgQueuesDoes ==
  ASSUME NEW s, FinderOK(s), NEW p, NEW g
  PROVE  /\ Quiet(s, LeaveAllLfgQueues(s, p, g)) /\ LeaveAllLfgQueues(s, p, g).parties = s.parties
         /\ LeaveAllLfgQueues(s, p, g).online = s.online
         /\ \A x \in Entries : LeaveAllLfgQueues(s, p, g).state[x] \in {s.state[x], "none"}
  <1>. DEFINE t    == RemoveFromQueue(s, {p, g})
              left == IF g = NoParty THEN {p} ELSE {g} \cup t.parties[g].members
              u    == SetState(t, left, "none")
  <1>1. LeaveAllLfgQueues(s, p, g) = t \/ LeaveAllLfgQueues(s, p, g) = u
    BY DEF LeaveAllLfgQueues
  <1>2. Quiet(s, t) /\ t.parties = s.parties /\ t.state = s.state /\ t.online = s.online
    BY RemoveFromQueueDoes
  <1>. HIDE DEF t, left
  <1>3. FinderOK(t)
    BY <1>2 DEF Quiet, Calm
  <1>4. /\ Quiet(t, u) /\ u.parties = t.parties /\ u.online = t.online
        /\ \A x \in Entries : u.state[x] = IF x \in left THEN "none" ELSE t.state[x]
    BY <1>3, SetStateDoes
  <1>. HIDE DEF u
  <1>5. Quiet(s, u)
    BY <1>2, <1>4, QuietFollows
  <1>. QED  BY <1>1, <1>2, <1>4, <1>5

LEMMA EndRoleCheckDoes ==
  ASSUME NEW s, FinderOK(s), NEW g
  PROVE  Quiet(s, EndRoleCheck(s, g)) /\ EndRoleCheck(s, g).parties = s.parties
  <1>. DEFINE t == RestoreState(s, DOMAIN s.checks[g] \cup {g})
              u == [t EXCEPT !.checks = Drop(t.checks, {g})]
  <1>1. EndRoleCheck(s, g) = s \/ EndRoleCheck(s, g) = u
    BY DEF EndRoleCheck
  <1>2. Quiet(s, t) /\ t.parties = s.parties
    BY RestoreStateDoes
  <1>. HIDE DEF t
  <1>3. FinderOK(t)
    BY <1>2 DEF Quiet, Calm
  <1>4. Quiet(t, u) /\ u.parties = t.parties
    <2>. DEFINE v == Drop(t.checks, {g})
    <2>1. DOMAIN v \subseteq DOMAIN t.checks /\ Checked(v)
      BY <1>3, DropKeeps DEF FinderOK
    <2>. HIDE DEF v
    <2>2. Quiet(t, [t EXCEPT !.checks = v])
      BY <1>3, <2>1, FieldsFree
    <2>3. [t EXCEPT !.checks = v].parties = t.parties
      BY <1>3 DEF FinderOK, Fielded
    <2>. QED  BY <2>2, <2>3 DEF v
  <1>. HIDE DEF u
  <1>5. Quiet(s, u)
    BY <1>2, <1>4, QuietFollows
  <1>. QED  BY <1>1, <1>2, <1>4, <1>5, QuietItself

LEMMA AddQueueDataDoes ==
  ASSUME NEW s, FinderOK(s), NEW x, NEW who \in SUBSET Finders
  PROVE  Calm(s, AddQueueData(s, x, who))
  <1>. DEFINE v == With(s.data, x, who)
              t == [s EXCEPT !.data = v]
  <1>1. AddQueueData(s, x, who) = AddToQueue(t, {x})
    BY DEF AddQueueData
  <1>2. Manned(v)
    BY DEF FinderOK, Manned, With
  <1>. HIDE DEF v
  <1>3. Calm(s, t)
    BY <1>2, FieldsFree
  <1>. HIDE DEF t
  <1>4. Calm(t, AddToQueue(t, {x}))
    BY <1>3, AddToQueueDoes DEF Calm
  <1>. QED  BY <1>1, <1>3, <1>4, CalmFollows

LEMMA UpdateRoleCheckDoes ==
  ASSUME NEW s, FinderOK(s), NEW g, NEW p \in Finders, NEW answer
  PROVE  Calm(s, UpdateRoleCheck(s, g, p, answer))
  <1>. DEFINE roles == With(s.checks[g], p, TRUE)
              v == [s.checks EXCEPT ![g] = roles]
              t == [s EXCEPT !.checks = v]
              who == DOMAIN roles
              u == SetState(t, who \cup {g}, "queued")
              w == AddQueueData(u, g, who)
              x == [w EXCEPT !.checks = Drop(w.checks, {g})]
  <1>1. IF g \in DOMAIN s.checks
        THEN UpdateRoleCheck(s, g, p, answer) \in {EndRoleCheck(s, g), t, EndRoleCheck(t, g), x}
        ELSE UpdateRoleCheck(s, g, p, answer) = s
    BY DEF UpdateRoleCheck
  <1>2. CASE g \notin DOMAIN s.checks
    BY <1>1, <1>2, QuietItself DEF Quiet
  <1>3. CASE g \in DOMAIN s.checks
    <2>1. Checked(v) /\ who \subseteq Finders
      <3>1. Checked(s.checks)
        BY DEF FinderOK
      <3>2. who \subseteq Finders
        BY <1>3, <3>1 DEF Checked, With
      <3>. HIDE DEF roles
      <3>3. DOMAIN v = DOMAIN s.checks /\ \A k \in DOMAIN v : v[k] = IF k = g THEN roles ELSE s.checks[k]
        OBVIOUS
      <3>. HIDE DEF v
      <3>. QED  BY <3>1, <3>2, <3>3 DEF Checked
    <2>. HIDE DEF v, roles
    <2>2. Calm(s, t)
      BY <2>1, FieldsFree
    <2>. HIDE DEF t
    <2>3. FinderOK(t)
      BY <2>2 DEF Calm
    <2>4. Calm(t, u)
      BY <2>3, SetStateDoes DEF Quiet
    <2>. HIDE DEF u
    <2>5. Calm(u, w)
      BY <2>1, <2>4, AddQueueDataDoes DEF Calm
    <2>. HIDE DEF w
    <2>6. Calm(w, x)
      <3>. DEFINE c == Drop(w.checks, {g})
      <3>1. FinderOK(w) /\ Checked(c)
        BY <2>5, DropKeeps DEF Calm, FinderOK
      <3>. HIDE DEF c
      <3>2. Calm(w, [w EXCEPT !.checks = c])
        BY <3>1, FieldsFree
      <3>. QED  BY <3>2 DEF c
    <2>. HIDE DEF x
    <2>7. Calm(s, x)
      BY <2>2, <2>4, <2>5, <2>6, CalmFollows
    <2>8. Calm(s, EndRoleCheck(s, g)) /\ Calm(t, EndRoleCheck(t, g))
      BY <2>3, EndRoleCheckDoes DEF Quiet
    <2>9. Calm(s, EndRoleCheck(t, g))
      BY <2>2, <2>8, CalmFollows
    <2>. QED  BY <1>1, <1>3, <2>2, <2>7, <2>8, <2>9
  <1>. QED  BY <1>2, <1>3

(* RemoveAt takes out one element and moves the others without changing them. *)
LEMMA RemoveAtElements ==
  ASSUME NEW S, NEW q \in Seq(S), NEW i \in DOMAIN q
  PROVE  /\ RemoveAt(q, i) \in Seq(S)
         /\ DOMAIN RemoveAt(q, i) = 1..Len(q) - 1
         /\ \A k \in 1..Len(q) - 1 : RemoveAt(q, i)[k] = IF k < i THEN q[k] ELSE q[k + 1]
  <1>. DEFINE n == Len(q)
              a == SubSeq(q, 1, i - 1)
              b == SubSeq(q, i + 1, n)
              r == RemoveAt(q, i)
  <1>1. n \in Nat /\ DOMAIN q = 1..n /\ i \in 1..n /\ \A k \in 1..n : q[k] \in S
    BY LenProperties
  <1>. HIDE DEF n
  <1>2. /\ a \in Seq(S) /\ Len(a) = i - 1
        /\ \A k \in 1..i - 1 : a[k] = q[k]
    <2>1. \A k \in 1..i - 1 : q[k] \in S
      BY <1>1
    <2>2. /\ a \in Seq(S) /\ Len(a) = IF 1 <= i - 1 THEN (i - 1) - 1 + 1 ELSE 0
          /\ \A k \in 1..(i - 1) - 1 + 1 : a[k] = q[1 + k - 1]
      <3>1. i - 1 \in Int /\ 1 \in Int
        BY <1>1
      <3>. QED  BY <2>1, <3>1, SubSeqProperties
    <2>3. \A k \in 1..i - 1 : 1 + k - 1 = k
      BY <1>1
    <2>. HIDE DEF a
    <2>4. Len(a) = i - 1 /\ 1..(i - 1) - 1 + 1 = 1..i - 1
      BY <1>1, <2>2
    <2>. QED  BY <2>2, <2>3, <2>4
  <1>3. /\ b \in Seq(S) /\ Len(b) = n - i
        /\ \A k \in 1..n - i : b[k] = q[i + k]
    <2>1. \A k \in i + 1..n : q[k] \in S
      BY <1>1
    <2>2. /\ b \in Seq(S) /\ Len(b) = IF i + 1 <= n THEN n - (i + 1) + 1 ELSE 0
          /\ \A k \in 1..n - (i + 1) + 1 : b[k] = q[(i + 1) + k - 1]
      <3>1. i + 1 \in Int /\ n \in Int
        BY <1>1
      <3>. QED  BY <2>1, <3>1, SubSeqProperties
    <2>3. \A k \in 1..n - i : (i + 1) + k - 1 = i + k
      BY <1>1
    <2>. HIDE DEF b
    <2>4. Len(b) = n - i /\ 1..n - (i + 1) + 1 = 1..n - i
      BY <1>1, <2>2
    <2>. QED  BY <2>2, <2>3, <2>4
  <1>. HIDE DEF a, b
  <1>4. r = a \o b
    BY DEF RemoveAt, a, b, n
  <1>. HIDE DEF r
  <1>5. /\ r \in Seq(S) /\ Len(r) = n - 1
        /\ \A k \in 1..n - 1 : r[k] = IF k <= i - 1 THEN a[k] ELSE b[k - (i - 1)]
    <2>1. /\ r \in Seq(S) /\ Len(r) = (i - 1) + (n - i)
          /\ \A k \in 1..(i - 1) + (n - i) : r[k] = IF k <= i - 1 THEN a[k] ELSE b[k - (i - 1)]
      BY <1>2, <1>3, <1>4, ConcatProperties
    <2>2. (i - 1) + (n - i) = n - 1
      BY <1>1
    <2>. QED  BY <2>1, <2>2
  <1>6. ASSUME NEW k \in 1..n - 1 PROVE r[k] = IF k < i THEN q[k] ELSE q[k + 1]
    <2>1. CASE k < i
      <3>1. k <= i - 1 /\ k \in 1..i - 1
        BY <1>1, <2>1
      <3>. QED  BY <1>2, <1>5, <2>1, <3>1
    <2>2. CASE ~(k < i)
      <3>1. ~(k <= i - 1) /\ k - (i - 1) \in 1..n - i /\ i + (k - (i - 1)) = k + 1
        BY <1>1, <2>2
      <3>. QED  BY <1>3, <1>5, <2>2, <3>1
    <2>. QED  BY <2>1, <2>2
  <1>7. DOMAIN r = 1..n - 1
    BY <1>5, LenProperties
  <1>. QED  BY <1>5, <1>6, <1>7 DEF r, n

(* Every element but the one that is erased is still there. *)
LEMMA RemoveAtKeeps ==
  ASSUME NEW S, NEW ps \in Seq(S), NEW i \in DOMAIN ps
  PROVE  /\ RemoveAt(ps, i) \in Seq(S)
         /\ \A j \in DOMAIN RemoveAt(ps, i) : \E k \in DOMAIN ps : RemoveAt(ps, i)[j] = ps[k]
         /\ \A k \in DOMAIN ps : k # i => \E j \in DOMAIN RemoveAt(ps, i) : RemoveAt(ps, i)[j] = ps[k]
  <1>. DEFINE n == Len(ps)  r == RemoveAt(ps, i)
  <1>1. n \in Nat /\ DOMAIN ps = 1..n /\ i \in 1..n
    BY LenProperties
  <1>2. r \in Seq(S) /\ DOMAIN r = 1..n - 1 /\ \A k \in 1..n - 1 : r[k] = IF k < i THEN ps[k] ELSE ps[k + 1]
    BY RemoveAtElements
  <1>. HIDE DEF r, n
  <1>3. \A j \in 1..n - 1 : j \in 1..n /\ j + 1 \in 1..n
    BY <1>1
  <1>4. ASSUME NEW k \in 1..n, k # i PROVE \E j \in DOMAIN r : r[j] = ps[k]
    <2>1. CASE k < i
      <3>1. k \in 1..n - 1
        BY <1>1, <2>1
      <3>. QED  BY <1>2, <2>1, <3>1
    <2>2. CASE ~(k < i)
      <3>1. k - 1 \in 1..n - 1 /\ ~(k - 1 < i) /\ (k - 1) + 1 = k
        BY <1>1, <1>4, <2>2
      <3>. QED  BY <1>2, <3>1
    <2>. QED  BY <2>1, <2>2
  <1>. QED  BY <1>1, <1>2, <1>3, <1>4 DEF r

(* A proposal may be erased once none of its players is asked any more. *)
LEMMA ErasedKeeps ==
  ASSUME NEW s, AskedWell(s), NEW i \in DOMAIN s.proposals, NEW u, Calm(s, u),
         \A p \in Finders : p \in DOMAIN s.proposals[i].answer => u.state[p] # "proposal"
  PROVE  AskedWell([u EXCEPT !.proposals = RemoveAt(u.proposals, i)])
  <1>. DEFINE qs == s.proposals
              ps == RemoveAt(u.proposals, i)
              w  == [u EXCEPT !.proposals = ps]
  <1>1. FinderOK(s) /\ Asked(s)
    BY DEF AskedWell
  <1>2. FinderOK(u) /\ u.proposals = qs
    BY DEF Calm
  <1>3. /\ ps \in Seq(Range(qs)) /\ \A j \in DOMAIN ps : \E k \in DOMAIN qs : ps[j] = qs[k]
        /\ \A k \in DOMAIN qs : k # i => \E j \in DOMAIN ps : ps[j] = qs[k]
    <2>1. ps = RemoveAt(qs, i) /\ qs \in Seq(Range(qs)) /\ i \in DOMAIN qs
      BY <1>1, <1>2 DEF FinderOK
    <2>. HIDE DEF ps, qs
    <2>. QED  BY <2>1, RemoveAtKeeps
  <1>. HIDE DEF ps
  <1>4. /\ Fielded(w) /\ w.online = u.online /\ w.proposals = ps /\ w.state = u.state /\ w.old = u.old
        /\ w.parties = u.parties /\ w.data = u.data /\ w.checks = u.checks
    BY <1>2 DEF FinderOK, Fielded
  <1>. HIDE DEF w
  <1>5. FinderOK(w)
    <2>1. ps \in Seq(Range(ps))
      <3>1. DOMAIN ps = 1..Len(ps) /\ Len(ps) \in Nat
        BY <1>3, LenProperties
      <3>2. ps = [j \in 1..Len(ps) |-> ps[j]] /\ \A j \in 1..Len(ps) : ps[j] \in Range(ps)
        BY <1>3, <3>1, SeqDef DEF Range
      <3>. QED  BY <3>1, <3>2, IsASeq
    <2>2. \A j \in DOMAIN ps : ProposalOK(ps[j])
      BY <1>1, <1>3 DEF FinderOK
    <2>. QED  BY <1>2, <1>4, <2>1, <2>2 DEF FinderOK
  <1>6. Asked(w)
    <2>. SUFFICES ASSUME NEW p \in Finders, w.state[p] = "proposal"
                  PROVE  \E j \in DOMAIN w.proposals : p \in DOMAIN w.proposals[j].answer
      BY DEF Asked
    <2>1. s.state[p] = "proposal" /\ p \notin DOMAIN qs[i].answer
      BY <1>4 DEF Calm
    <2>2. PICK k \in DOMAIN qs : p \in DOMAIN qs[k].answer
      BY <1>1, <2>1 DEF Asked
    <2>3. k # i
      BY <2>1, <2>2
    <2>. QED  BY <1>3, <1>4, <2>2, <2>3
  <1>. QED  BY <1>5, <1>6 DEF AskedWell, w, ps

(* However a proposal fails, whoever was asked by it is asked no longer, and who is asked by
   another one still is. *)
LEMMA RemoveProposalDoes ==
  ASSUME NEW s, AskedWell(s), NEW i \in DOMAIN s.proposals, NEW failed
  PROVE  AskedWell(RemoveProposal(s, i, failed))
  <1>. DEFINE P       == s.proposals[i]
              removed == {EntryOf(P, p) : p \in {q \in DOMAIN P.answer :
                             P.answer[q] = "deny" \/ (failed /\ P.answer[q] = "pending")}}
              back    == {p \in DOMAIN P.answer : EntryOf(P, p) \notin removed}
              out     == DOMAIN P.answer \ back
              X == WithEntries(P, out)
              Y == WithEntries(P, back)
              r == RestoreState(s, X)
              t == SetState(r, Y, "queued")
              u == AddToQueue(RemoveFromQueue(t, removed), P.entries \ removed)
  <1>1. RemoveProposal(s, i, failed) = [u EXCEPT !.proposals = RemoveAt(u.proposals, i)]
    BY DEF RemoveProposal
  <1>2. DOMAIN P.answer \subseteq X \cup Y
    BY DEF WithEntries
  <1>. HIDE DEF removed, X, Y
  <1>3. FinderOK(s) /\ Asked(s)
    BY DEF AskedWell
  <1>4. /\ Quiet(s, r) /\ \A x \in Entries : r.state[x] = IF x \in X THEN s.old[x] ELSE s.state[x]
    BY <1>3, RestoreStateDoes
  <1>. HIDE DEF r
  <1>5. Quiet(r, t) /\ \A x \in Entries : t.state[x] = IF x \in Y THEN "queued" ELSE r.state[x]
    BY <1>4, SetStateDoes DEF Quiet, Calm
  <1>. HIDE DEF t
  <1>6. Calm(t, u) /\ u.state = t.state
    <2>. DEFINE v == RemoveFromQueue(t, removed)
    <2>1. Quiet(t, v) /\ v.state = t.state
      BY <1>5, RemoveFromQueueDoes DEF Quiet, Calm
    <2>. HIDE DEF v
    <2>2. Calm(v, u) /\ u.state = v.state
      <3>1. u = AddToQueue(v, P.entries \ removed)
        BY DEF v
      <3>. HIDE DEF u, P
      <3>. QED  BY <2>1, <3>1, AddToQueueDoes DEF Quiet, Calm
    <2>. HIDE DEF u
    <2>. QED  BY <2>1, <2>2, CalmFollows DEF Quiet
  <1>. HIDE DEF u
  <1>7. Calm(s, u)
    BY <1>4, <1>5, <1>6, CalmFollows DEF Quiet, Calm
  <1>8. \A p \in Finders : p \in DOMAIN P.answer => u.state[p] # "proposal"
    BY <1>2, <1>3, <1>4, <1>5, <1>6, PlayersAndParties DEF FinderOK
  <1>. QED  BY <1>1, <1>7, <1>8, ErasedKeeps

(* An answer changes nobody's state and no proposal's players. *)
LEMMA AnsweredKeeps ==
  ASSUME NEW s, AskedWell(s), NEW i \in DOMAIN s.proposals, NEW p, NEW a
  PROVE  LET t == [s EXCEPT !.proposals[i].answer[p] = a]
         IN  /\ AskedWell(t) /\ i \in DOMAIN t.proposals /\ t.state = s.state /\ t.parties = s.parties
             /\ t.data = s.data /\ t.new = s.new /\ t.compatible = s.compatible /\ t.checks = s.checks
             /\ t.online = s.online /\ DOMAIN t.proposals[i].answer = DOMAIN s.proposals[i].answer
             /\ \A j \in DOMAIN t.proposals :
                   \E k \in DOMAIN s.proposals : t.proposals[j].entries = s.proposals[k].entries
  <1>. DEFINE qs == s.proposals
              P == qs[i]
              f == [P.answer EXCEPT ![p] = a]
              Q == [P EXCEPT !.answer = f]
              ps == [qs EXCEPT ![i] = Q]
              t == [s EXCEPT !.proposals = ps]
  <1>1. [s EXCEPT !.proposals[i].answer[p] = a] = t
    OBVIOUS
  <1>2. FinderOK(s) /\ Asked(s)
    BY DEF AskedWell
  <1>3. DOMAIN f = DOMAIN P.answer
    OBVIOUS
  <1>. HIDE DEF f
  <1>4. ProposalOK(Q) /\ Q.answer = f /\ Q.group = P.group /\ Q.entries = P.entries
    <2>1. ProposalOK(P)
      BY <1>2 DEF FinderOK
    <2>. HIDE DEF P
    <2>. QED  BY <1>3, <2>1 DEF ProposalOK
  <1>. HIDE DEF Q
  <1>5. qs \in Seq(Range(qs)) /\ DOMAIN qs = 1..Len(qs) /\ Len(qs) \in Nat /\ qs = [j \in 1..Len(qs) |-> qs[j]]
    <2>1. qs \in Seq(Range(qs))
      BY <1>2 DEF FinderOK
    <2>. HIDE DEF qs
    <2>. QED  BY <2>1, LenProperties, SeqDef
  <1>6. DOMAIN ps = DOMAIN qs /\ \A j \in DOMAIN qs : ps[j] = IF j = i THEN Q ELSE qs[j]
    OBVIOUS
  <1>7. ps \in Seq(Range(ps))
    <2>1. ps = [j \in 1..Len(qs) |-> ps[j]]
      BY <1>5
    <2>2. \A j \in 1..Len(qs) : ps[j] \in Range(ps)
      BY <1>5, <1>6 DEF Range
    <2>. HIDE DEF ps, qs
    <2>. QED  BY <1>5, <2>1, <2>2, IsASeq
  <1>. HIDE DEF ps
  <1>8. /\ Fielded(t) /\ t.proposals = ps /\ t.state = s.state /\ t.old = s.old /\ t.parties = s.parties
        /\ t.data = s.data /\ t.new = s.new /\ t.compatible = s.compatible /\ t.checks = s.checks
        /\ t.online = s.online
    BY <1>2 DEF FinderOK, Fielded
  <1>. HIDE DEF t
  <1>9. FinderOK(t)
    BY <1>2, <1>4, <1>6, <1>7, <1>8 DEF FinderOK
  <1>10. \A j \in DOMAIN qs : DOMAIN ps[j].answer = DOMAIN qs[j].answer /\ ps[j].entries = qs[j].entries
    BY <1>3, <1>4, <1>6
  <1>11. Asked(t)
    BY <1>2, <1>6, <1>8, <1>10 DEF Asked
  <1>. QED  BY <1>1, <1>6, <1>8, <1>9, <1>10, <1>11 DEF AskedWell

(* Leaving the finder: a step that asks nobody, or the end of the first proposal the player is in. *)
LEMMA DenyFirstDoes ==
  ASSUME NEW s, AskedWell(s), NEW p
  PROVE  AskedWell(DenyFirst(s, p))
  <1>. DEFINE with == {i \in DOMAIN s.proposals : p \in DOMAIN s.proposals[i].answer}
              m == Min(with)
              t == [s EXCEPT !.proposals[m].answer[p] = "deny"]
  <1>1. DenyFirst(s, p) = IF with = {} THEN s ELSE RemoveProposal(t, m, FALSE)
    BY DEF DenyFirst
  <1>2. ASSUME with # {} PROVE m \in DOMAIN s.proposals
    <2>1. with \in SUBSET Nat
      <3>1. s.proposals \in Seq(Range(s.proposals))
        BY DEF AskedWell, FinderOK
      <3>. DEFINE qs == s.proposals
      <3>. HIDE DEF qs
      <3>2. qs \in Seq(Range(qs)) => DOMAIN qs \subseteq Nat
        BY LenProperties
      <3>. QED  BY <3>1, <3>2 DEF qs
    <2>. HIDE DEF with
    <2>2. \E i \in with : \A j \in with : i <= j
      BY <1>2, <2>1, Least
    <2>3. m \in with
      BY <2>2 DEF Min
    <2>. QED  BY <2>3 DEF with
  <1>. HIDE DEF m, with
  <1>3. ASSUME m \in DOMAIN s.proposals PROVE AskedWell(t) /\ m \in DOMAIN t.proposals
    BY <1>3, AnsweredKeeps
  <1>. HIDE DEF t
  <1>4. ASSUME m \in DOMAIN s.proposals PROVE AskedWell(RemoveProposal(t, m, FALSE))
    BY <1>3, <1>4, RemoveProposalDoes
  <1>. QED  BY <1>1, <1>2, <1>4

LEMMA LeaveLfgDoes ==
  ASSUME NEW s, FinderOK(s), NEW x \in Entries
  PROVE  /\ AskedWell(s) => AskedWell(LeaveLfg(s, x))
         /\ s.state[x] # "proposal" => Quiet(s, LeaveLfg(s, x))
         /\ s.state[x] \in {"queued", "none"} =>
               /\ LeaveLfg(s, x).parties = s.parties
               /\ \A y \in Entries : LeaveLfg(s, x).state[y] \in {s.state[y], "none"}
  <1>. DEFINE g == IF x \in Parties THEN x ELSE PartyOf(s, x)
              who == IF g = NoParty THEN {x} ELSE {g} \cup s.parties[g].members
              r == RemoveFromQueue(s, {IF g = NoParty THEN x ELSE g})
              t == SetState(r, who, "none")
              e == EndRoleCheck(s, g)
              d == DenyFirst(s, IF g = x THEN s.parties[g].leader ELSE x)
              n == SetState(s, {x}, "none")
  <1>1. /\ s.state[x] = "queued" => LeaveLfg(s, x) = t
        /\ s.state[x] # "queued" => LeaveLfg(s, x) \in {e, d, n, s}
        /\ s.state[x] = "none" => LeaveLfg(s, x) = s
        /\ s.state[x] \notin {"queued", "proposal"} => LeaveLfg(s, x) \in {e, n, s}
    BY DEF LeaveLfg
  <1>. HIDE DEF g, who
  <1>2. Quiet(s, t) /\ t.parties = s.parties /\ \A y \in Entries : t.state[y] \in {s.state[y], "none"}
    <2>1. Quiet(s, r) /\ r.state = s.state /\ r.parties = s.parties
      BY RemoveFromQueueDoes
    <2>. HIDE DEF r
    <2>2. Quiet(r, t) /\ t.parties = r.parties /\ \A y \in Entries : t.state[y] = IF y \in who THEN "none" ELSE r.state[y]
      BY <2>1, SetStateDoes DEF Quiet, Calm
    <2>. HIDE DEF t
    <2>3. Quiet(s, t)
      BY <2>1, <2>2, QuietFollows
    <2>. QED  BY <2>1, <2>2, <2>3
  <1>3. Quiet(s, e) /\ Quiet(s, n) /\ Quiet(s, s)
    BY EndRoleCheckDoes, SetStateDoes, QuietItself
  <1>4. AskedWell(s) => AskedWell(d)
    BY DenyFirstDoes
  <1>. HIDE DEF t, e, d, n
  <1>5. AskedWell(s) => AskedWell(t) /\ AskedWell(e) /\ AskedWell(n)
    BY <1>2, <1>3, CalmKeeps DEF Quiet
  <1>. QED  BY <1>1, <1>2, <1>3, <1>4, <1>5

-----------------------------------------------------------------------------
(* Parties. *)

(* Who gets into a party leaves the queue, and so does the party. *)
LEMMA OnAddMemberDoes ==
  ASSUME NEW s, FinderOK(s), NEW g \in Parties, NEW p \in Finders
  PROVE  Quiet(s, OnAddMember(s, g, p)) /\ OnAddMember(s, g, p).parties = s.parties
  <1>. DEFINE leader == s.parties[g].leader
              Unqueue(t, x) == IF p # leader /\ s.state[x] = "queued" THEN LeaveLfg(t, x) ELSE t
              a == Unqueue(s, p)
              u == Unqueue(a, g)
              l == LeaveAllLfgQueues(u, leader, g)
              m == LeaveAllLfgQueues(l, p, NoParty)
  <1>1. OnAddMember(s, g, p) = IF s.parties[g].lfg THEN u ELSE m
    BY DEF OnAddMember
  <1>2. Quiet(s, a) /\ FinderOK(a) /\ a.parties = s.parties /\ \A y \in Entries : a.state[y] \in {s.state[y], "none"}
    <2>1. CASE a = s
      BY <2>1, QuietItself
    <2>2. CASE s.state[p] = "queued" /\ a = LeaveLfg(s, p)
      <3>1. p \in Entries
        BY PlayersAndParties
      <3>. HIDE DEF a
      <3>. QED  BY <2>2, <3>1, LeaveLfgDoes DEF Quiet, Calm
    <2>. QED  BY <2>1, <2>2
  <1>. HIDE DEF a
  <1>3. Quiet(a, u) /\ u.parties = a.parties
    <2>1. CASE u = a
      BY <1>2, <2>1, QuietItself
    <2>2. CASE s.state[g] = "queued" /\ u = LeaveLfg(a, g)
      <3>1. g \in Entries
        BY PlayersAndParties
      <3>2. a.state[g] \in {"queued", "none"}
        BY <1>2, <2>2, <3>1
      <3>. HIDE DEF u
      <3>. QED  BY <1>2, <2>2, <3>1, <3>2, LeaveLfgDoes
    <2>. QED  BY <2>1, <2>2
  <1>. HIDE DEF u, leader
  <1>4. Quiet(u, l) /\ l.parties = u.parties
    BY <1>3, LeaveAllLfgQueuesDoes DEF Quiet, Calm
  <1>. HIDE DEF l
  <1>5. Quiet(l, m) /\ m.parties = l.parties
    BY <1>4, LeaveAllLfgQueuesDoes DEF Quiet, Calm
  <1>. HIDE DEF m
  <1>. QED  BY <1>1, <1>2, <1>3, <1>4, <1>5, QuietFollows

LEMMA JoinPartyDoes ==
  ASSUME NEW s, FinderOK(s), NEW g \in Parties, NEW p \in Finders
  PROVE  Calm(s, JoinParty(s, g, p))
  <1>. DEFINE v == [h \in Parties |-> [s.parties[h] EXCEPT !.invited = s.parties[h].invited \ {p}]]
              t == [s EXCEPT !.parties = v]
              u == OnAddMember(t, g, p)
              m == [u.parties[g] EXCEPT !.members = u.parties[g].members \cup {p}]
              w == [u.parties EXCEPT ![g] = m]
              x == [u EXCEPT !.parties = w]
  <1>1. JoinParty(s, g, p) = x
    BY DEF JoinParty
  <1>2. Grouped(v)
    <2>1. \A h \in Parties : GroupOK([s.parties[h] EXCEPT !.invited = s.parties[h].invited \ {p}])
      BY GroupEdit DEF FinderOK, Grouped
    <2>. QED  BY <2>1 DEF Grouped
  <1>. HIDE DEF v
  <1>3. Calm(s, t)
    BY <1>2, FieldsFree
  <1>. HIDE DEF t
  <1>4. Calm(t, u)
    BY <1>3, OnAddMemberDoes DEF Quiet, Calm
  <1>. HIDE DEF u
  <1>5. Calm(u, x)
    <2>1. Grouped(u.parties) /\ GroupOK(u.parties[g])
      BY <1>4 DEF Calm, FinderOK, Grouped
    <2>2. Grouped(w)
      <3>1. u.parties[g].members \cup {p} \subseteq Finders
        BY <2>1 DEF GroupOK
      <3>2. GroupOK(m)
        BY <2>1, <3>1, GroupEdit
      <3>. HIDE DEF m
      <3>. QED  BY <2>1, <3>2, GroupsEdited
    <2>3. FinderOK(u)
      BY <1>4 DEF Calm
    <2>. HIDE DEF w
    <2>. QED  BY <2>2, <2>3, FieldsFree
  <1>. HIDE DEF x
  <1>. QED  BY <1>1, <1>3, <1>4, <1>5, CalmFollows

LEMMA OnRemoveMemberDoes ==
  ASSUME NEW s, FinderOK(s), NEW g \in Parties, NEW p \in Finders, NEW method
  PROVE  /\ AskedWell(s) => AskedWell(OnRemoveMember(s, g, p, method))
         /\ s.state[p] # "proposal" => Quiet(s, OnRemoveMember(s, g, p, method))
  <1>. DEFINE l == LeaveLfg(s, p)
              m == LeaveAllLfgQueues(l, p, g)
              t == IF s.state[g] = "proposal" /\ method = "default" THEN s ELSE m
              v == [t.parties[g] EXCEPT !.members = t.parties[g].members \ {p}]
              w == [t.parties EXCEPT ![g] = v]
              x == [t EXCEPT !.parties = w]
  <1>1. OnRemoveMember(s, g, p, method) = x
    BY DEF OnRemoveMember
  <1>2. /\ AskedWell(s) => AskedWell(l)
        /\ s.state[p] # "proposal" => Quiet(s, l)
    BY PlayersAndParties, LeaveLfgDoes
  <1>. HIDE DEF l
  <1>3. FinderOK(l) => Quiet(l, m)
    BY LeaveAllLfgQueuesDoes
  <1>. HIDE DEF m
  <1>4. /\ AskedWell(s) => AskedWell(m)
        /\ s.state[p] # "proposal" => Quiet(s, m)
    <2>1. ASSUME AskedWell(s) PROVE AskedWell(m)
      <3>1. AskedWell(l) /\ Calm(l, m)
        BY <1>2, <1>3, <2>1 DEF AskedWell, Quiet
      <3>. QED  BY <3>1, CalmKeeps
    <2>2. ASSUME s.state[p] # "proposal" PROVE Quiet(s, m)
      <3>1. Quiet(s, l) /\ Quiet(l, m)
        BY <1>2, <1>3, <2>2 DEF Quiet, Calm
      <3>. QED  BY <3>1, QuietFollows
    <2>. QED  BY <2>1, <2>2
  <1>5. /\ AskedWell(s) => AskedWell(t)
        /\ s.state[p] # "proposal" => Quiet(s, t)
    BY <1>4, QuietItself
  <1>. HIDE DEF t
  <1>6. FinderOK(t) => Quiet(t, x)
    <2>. SUFFICES ASSUME FinderOK(t) PROVE Quiet(t, x)
      OBVIOUS
    <2>1. Grouped(t.parties) /\ GroupOK(t.parties[g])
      BY DEF FinderOK, Grouped
    <2>2. t.parties[g] = NoGroup => v = NoGroup
      <3>1. NoGroup.members \ {p} = NoGroup.members
        BY DEF NoGroup
      <3>2. [NoGroup EXCEPT !.members = NoGroup.members] = NoGroup
        BY DEF NoGroup
      <3>3. t.parties[g] = NoGroup => v = [NoGroup EXCEPT !.members = NoGroup.members \ {p}]
        OBVIOUS
      <3>. HIDE DEF v
      <3>. QED  BY <3>1, <3>2, <3>3
    <2>3. GroupOK(v)
      <3>1. t.parties[g].members \ {p} \subseteq Finders
        BY <2>1 DEF GroupOK
      <3>. QED  BY <2>1, <3>1, GroupEdit
    <2>. HIDE DEF v
    <2>4. Grouped(w) /\ \A h \in Parties : t.parties[h] = NoGroup => w[h] = NoGroup
      BY <2>1, <2>2, <2>3, GroupsEdited DEF Grouped
    <2>. HIDE DEF w
    <2>. QED  BY <2>4, FieldsFree
  <1>. HIDE DEF x
  <1>7. ASSUME AskedWell(s) PROVE AskedWell(x)
    <2>1. AskedWell(t) /\ Calm(t, x)
      BY <1>5, <1>6, <1>7 DEF AskedWell, Quiet
    <2>. QED  BY <2>1, CalmKeeps
  <1>8. ASSUME s.state[p] # "proposal" PROVE Quiet(s, x)
    <2>1. Quiet(s, t) /\ Quiet(t, x)
      BY <1>5, <1>6, <1>8 DEF Quiet, Calm
    <2>. QED  BY <2>1, QuietFollows
  <1>. QED  BY <1>1, <1>7, <1>8

LEMMA DisbandPartyDoes ==
  ASSUME NEW s, FinderOK(s), NEW g \in Parties
  PROVE  Quiet(s, DisbandParty(s, g))
  <1>. DEFINE t == IF s.state[g] = "proposal" THEN s ELSE SetState(s, s.parties[g].members, "none")
              u == SetState(t, {g}, "none")
              w == [u.parties EXCEPT ![g] = NoGroup]
              x == [u EXCEPT !.parties = w]
  <1>1. DisbandParty(s, g) = x
    BY DEF DisbandParty
  <1>2. Quiet(s, t)
    BY SetStateDoes, QuietItself
  <1>. HIDE DEF t
  <1>3. Quiet(t, u)
    BY <1>2, SetStateDoes DEF Quiet, Calm
  <1>. HIDE DEF u
  <1>4. Quiet(u, x)
    <2>1. Grouped(u.parties) /\ FinderOK(u)
      BY <1>3 DEF Quiet, Calm, FinderOK
    <2>2. Grouped(w) /\ \A h \in Parties : u.parties[h] = NoGroup => w[h] = NoGroup
      BY <2>1, NewGroups, GroupsEdited DEF Grouped
    <2>. HIDE DEF w
    <2>. QED  BY <2>1, <2>2, FieldsFree
  <1>. HIDE DEF x
  <1>. QED  BY <1>1, <1>2, <1>3, <1>4, QuietFollows

LEMMA LeaveGroupDoes ==
  ASSUME NEW s, FinderOK(s), NEW g \in Parties, NEW p \in Finders, NEW method, NEW inside
  PROVE  /\ AskedWell(s) => AskedWell(LeaveGroup(s, g, p, method, inside))
         /\ s.state[p] # "proposal" /\ s.parties[g] # NoGroup
               => Quiet(s, LeaveGroup(s, g, p, method, inside))
  <1>. DEFINE G      == s.parties[g]
              others == (G.members \ {p}) \cap s.online
              leader == IF G.leader = p /\ others # {} THEN CHOOSE q \in others : TRUE ELSE G.leader
              H == [G EXCEPT !.leader = leader]
              w == [s.parties EXCEPT ![g] = H]
              led == [s EXCEPT !.parties = w]
              a == OnRemoveMember(s, g, p, method)
              b == OnRemoveMember(led, g, p, method)
              c == DisbandIfFew(b, g, inside)
  <1>1. LeaveGroup(s, g, p, method, inside) = DisbandParty(a, g) \/ LeaveGroup(s, g, p, method, inside) = c
    BY DEF LeaveGroup
  <1>2. /\ Calm(s, led) /\ led.state = s.state
        /\ s.parties[g] # NoGroup => Quiet(s, led)
    <2>1. Grouped(s.parties) /\ GroupOK(H)
      BY GroupEdit DEF FinderOK, Grouped
    <2>. HIDE DEF H
    <2>2. Grouped(w)
          /\ (s.parties[g] # NoGroup => \A h \in Parties : s.parties[h] = NoGroup => w[h] = NoGroup)
      BY <2>1, GroupsEdited DEF Grouped
    <2>. HIDE DEF w
    <2>. QED  BY <2>2, FieldsFree
  <1>. HIDE DEF led
  <1>3. FinderOK(led) /\ (AskedWell(s) => AskedWell(led))
    BY <1>2, CalmKeeps DEF Calm
  <1>4. /\ AskedWell(s) => AskedWell(a) /\ AskedWell(b)
        /\ s.state[p] # "proposal" => Quiet(s, a) /\ Quiet(led, b)
    BY <1>2, <1>3, OnRemoveMemberDoes
  <1>. HIDE DEF a, b
  <1>5. \A d : FinderOK(d) => Quiet(d, DisbandParty(d, g))
    BY DisbandPartyDoes
  <1>6. c = b \/ c = DisbandParty(b, g)
    BY DEF DisbandIfFew
  <1>. HIDE DEF c
  <1>7. ASSUME AskedWell(s) PROVE AskedWell(DisbandParty(a, g)) /\ AskedWell(c)
    <2>1. AskedWell(a) /\ AskedWell(b) /\ Calm(a, DisbandParty(a, g)) /\ Calm(b, DisbandParty(b, g))
      BY <1>4, <1>5, <1>7 DEF AskedWell, Quiet
    <2>. QED  BY <1>6, <2>1, CalmKeeps
  <1>8. ASSUME s.state[p] # "proposal", s.parties[g] # NoGroup
        PROVE  Quiet(s, DisbandParty(a, g)) /\ Quiet(s, c)
    <2>1. Quiet(s, a) /\ Quiet(s, b)
      BY <1>2, <1>4, <1>8, QuietFollows
    <2>2. Quiet(a, DisbandParty(a, g)) /\ Quiet(b, DisbandParty(b, g))
      BY <1>5, <2>1 DEF Quiet, Calm
    <2>. QED  BY <1>6, <2>1, <2>2, QuietFollows
  <1>. QED  BY <1>1, <1>7, <1>8

-----------------------------------------------------------------------------
(* A new group.  While players are taken out of their groups nobody is asked, the proposals stay
   as they are, and until there is a new group an unused one is left. *)

Ready(acc) == /\ FinderOK(acc.s) /\ acc.g \in Parties \cup {NoParty}
              /\ acc.g = NoParty => \E g \in Parties : Unused(acc.s, g)

LEMMA PlaceDoes ==
  ASSUME NEW acc, Ready(acc), NEW p \in Finders
  PROVE  LET r == Place(acc.s, acc.g, p)
         IN  Ready(r) /\ Calm(acc.s, r.s)
  <1>. DEFINE s == acc.s  g == acc.g
              n   == CHOOSE h \in Parties : Unused(s, h)
              new == [NoGroup EXCEPT !.leader = p, !.lfg = TRUE]
              a == SetState(s, {n}, "none")
              w == [a.parties EXCEPT ![n] = new]
              b == [a EXCEPT !.parties = w]
              c == JoinParty(b, n, p)
              d == SetState(c, {n}, "proposal")
              e == JoinParty(s, g, p)
  <1>1. /\ g = NoParty => Place(s, g, p) = [g |-> n, s |-> d]
        /\ g # NoParty => Place(s, g, p) \in {[g |-> g, s |-> s], [g |-> g, s |-> e]}
    BY DEF Place
  <1>2. CASE g = NoParty
    <2>1. n \in Parties /\ n # NoParty
      BY <1>2, DungeonAssumption DEF Ready
    <2>. HIDE DEF n
    <2>2. Calm(s, a)
      BY SetStateDoes DEF Ready, Quiet
    <2>. HIDE DEF a
    <2>3. Calm(a, b)
      <3>1. FinderOK(a) /\ Grouped(a.parties) /\ GroupOK(new)
        BY <2>2, NewGroups DEF Calm, FinderOK
      <3>. HIDE DEF new
      <3>2. Grouped(w)
        BY <3>1, GroupsEdited
      <3>. HIDE DEF w
      <3>. QED  BY <3>1, <3>2, FieldsFree
    <2>. HIDE DEF b
    <2>4. Calm(b, c)
      BY <2>1, <2>3, JoinPartyDoes DEF Calm
    <2>. HIDE DEF c
    <2>5. Calm(c, d)
      <3>1. FinderOK(c) /\ \A q \in Finders : q \notin {n}
        BY <2>1, <2>4, PlayersAndParties DEF Calm
      <3>. QED  BY <3>1, SetStateDoes DEF Quiet
    <2>. HIDE DEF d
    <2>6. Calm(s, d) /\ FinderOK(d)
      BY <2>2, <2>3, <2>4, <2>5, CalmFollows DEF Calm
    <2>. QED  BY <1>1, <1>2, <2>1, <2>6 DEF Ready
  <1>3. CASE g # NoParty
    <2>1. g \in Parties /\ FinderOK(s)
      BY <1>3 DEF Ready
    <2>2. Calm(s, e) /\ Calm(s, s)
      BY <2>1, JoinPartyDoes, QuietItself DEF Quiet
    <2>. HIDE DEF e
    <2>3. \A r : Calm(s, r) => FinderOK(r)
      BY DEF Calm
    <2>. HIDE DEF s, g
    <2>4. PICK r \in {s, e} : Place(s, g, p) = [g |-> g, s |-> r]
      BY <1>1, <1>3
    <2>5. Place(s, g, p).s = r /\ Place(s, g, p).g = g /\ Calm(s, r) /\ FinderOK(r)
      BY <2>2, <2>3, <2>4
    <2>6. Ready(Place(s, g, p)) /\ Calm(s, Place(s, g, p).s)
      BY <1>3, <2>1, <2>5 DEF Ready
    <2>. QED  BY <2>6 DEF s, g
  <1>. QED  BY <1>2, <1>3

(* One player is taken out of his group and into the new one. *)
Takes(acc, p, inside) ==
    LET g == PartyOf(acc.s, p)
    IN IF p \notin acc.s.online THEN acc
       ELSE Place(IF g \in {NoParty, acc.g} THEN acc.s
                  ELSE LeaveGroup(acc.s, g, p, "default", inside), acc.g, p)

LEMMA TakesDoes ==
  ASSUME NEW acc, Ready(acc), NEW p \in Finders, acc.s.state[p] # "proposal", NEW inside
  PROVE  Ready(Takes(acc, p, inside)) /\ Calm(acc.s, Takes(acc, p, inside).s)
  <1>. DEFINE s == acc.s
              g == PartyOf(s, p)
              l == IF g \in {NoParty, acc.g} THEN s ELSE LeaveGroup(s, g, p, "default", inside)
              a == [g |-> acc.g, s |-> l]
  <1>1. Takes(acc, p, inside) = IF p \notin s.online THEN acc ELSE Place(l, acc.g, p)
    BY DEF Takes
  <1>2. FinderOK(s) /\ Quiet(s, s)
    BY QuietItself DEF Ready
  <1>3. Quiet(s, l)
    <2>1. CASE g \in {NoParty, acc.g}
      BY <1>2, <2>1
    <2>2. CASE g \notin {NoParty, acc.g}
      <3>1. g \in Parties /\ p \in s.parties[g].members
        BY <2>2, PartyOfIs
      <3>2. s.parties[g] # NoGroup
        BY <3>1 DEF NoGroup
      <3>3. l = LeaveGroup(s, g, p, "default", inside)
        BY <2>2
      <3>. HIDE DEF l, g
      <3>. QED  BY <1>2, <3>1, <3>2, <3>3, LeaveGroupDoes
    <2>. QED  BY <2>1, <2>2
  <1>. HIDE DEF l
  <1>4. Ready(a) /\ a.s = l /\ a.g = acc.g
    BY <1>3, QuietSpares DEF Ready, Quiet, Calm
  <1>. HIDE DEF a
  <1>5. Ready(Place(l, acc.g, p)) /\ Calm(l, Place(l, acc.g, p).s)
    BY <1>4, PlaceDoes
  <1>6. Calm(s, Place(l, acc.g, p).s)
    BY <1>3, <1>5, CalmFollows DEF Quiet
  <1>. QED  BY <1>1, <1>2, <1>5, <1>6 DEF Quiet

(* One player after the other. *)
Walks(f, order, start, inside, n) ==
    f = [i \in 0..n |-> IF i = 0 THEN start ELSE Takes(f[i - 1], order[i], inside)]

LEMMA WalksExist ==
  ASSUME NEW order, NEW start, NEW inside, NEW n \in Nat
  PROVE  \E f : Walks(f, order, start, inside, n)
  <1>. DEFINE Step(x, k) == Takes(x, order[k], inside)
              T == {k \in 0..n : \E f : Walks(f, order, start, inside, k)}
  <1>. HIDE DEF Step
  <1>0. \A f, k : Walks(f, order, start, inside, k) <=>
                     f = [i \in 0..k |-> IF i = 0 THEN start ELSE Step(f[i - 1], i)]
    BY DEF Walks, Step
  <1>1. 0 \in T
    <2>. DEFINE f == [k \in 0..0 |-> start]
    <2>1. f = [k \in 0..0 |-> IF k = 0 THEN start ELSE Step(f[k - 1], k)]
      OBVIOUS
    <2>. HIDE DEF f
    <2>2. Walks(f, order, start, inside, 0)
      BY <1>0, <2>1
    <2>. QED  BY <2>2
  <1>2. ASSUME NEW m \in 0..n, m + 1 \in 0..n, m \in T PROVE m + 1 \in T
    <2>1. PICK f : f = [i \in 0..m |-> IF i = 0 THEN start ELSE Step(f[i - 1], i)]
      BY <1>0, <1>2
    <2>. DEFINE h == [k \in 0..m + 1 |-> IF k <= m THEN f[k] ELSE Step(f[m], m + 1)]
    <2>2. ASSUME NEW k \in 0..m + 1
          PROVE  h[k] = IF k = 0 THEN start ELSE Step(h[k - 1], k)
      <3>1. CASE k = 0
        BY <2>1, <3>1
      <3>2. CASE k # 0 /\ k <= m
        <4>1. h[k] = f[k] /\ k - 1 \in 0..m + 1 /\ k - 1 <= m /\ k \in 0..m
          BY <3>2
        <4>2. h[k - 1] = f[k - 1]
          BY <4>1
        <4>3. f[k] = Step(f[k - 1], k)
          BY <2>1, <3>2, <4>1
        <4>. QED  BY <3>2, <4>1, <4>2, <4>3
      <3>3. CASE k = m + 1
        BY <3>3
      <3>. QED  BY <3>1, <3>2, <3>3
    <2>3. h = [k \in 0..m + 1 |-> h[k]]
      OBVIOUS
    <2>. HIDE DEF h
    <2>4. h = [k \in 0..m + 1 |-> IF k = 0 THEN start ELSE Step(h[k - 1], k)]
      BY <2>2, <2>3
    <2>5. Walks(h, order, start, inside, m + 1)
      BY <1>0, <2>4
    <2>. QED  BY <1>2, <2>5
  <1>. HIDE DEF T
  <1>3. n \in T
    BY <1>1, <1>2, UpTo
  <1>. QED  BY <1>3 DEF T

(* The sequence of a finite set holds its elements and nothing else. *)
LEMMA SequenceOfSet ==
  ASSUME NEW S, IsFiniteSet(S)
  PROVE  SetToSeq(S) \in Seq(S)
  <1>. DEFINE c == Cardinality(S)
  <1>1. c \in Nat /\ ExistsBijection(1..c, S)
    BY FS_CardinalityType
  <1>. HIDE DEF c
  <1>2. \E f \in [1..c -> S] : IsInjective(f)
    BY <1>1 DEF ExistsBijection, Bijection, Injection
  <1>3. SetToSeq(S) \in [1..c -> S]
    BY <1>2 DEF SetToSeq, c
  <1>. QED  BY <1>1, <1>3, SeqDef

LEMMA FirstOfSequence ==
  ASSUME NEW S, NEW x \in S, NEW q \in Seq(S)
  PROVE  <<x>> \o q \in Seq(S) /\ Len(<<x>> \o q) \in Nat
  <1>1. <<x>> \in Seq(S)
    OBVIOUS
  <1>. QED  BY <1>1, ConcatProperties, LenProperties

LEMMA MakeNewGroupDoes ==
  ASSUME NEW s, FinderOK(s), NEW P, ProposalOK(P),
         NEW leader \in DOMAIN P.answer, NEW inside,
         \E g \in Parties : Unused(s, g),
         \A p \in Finders : p \in DOMAIN P.answer => s.state[p] # "proposal"
  PROVE  Calm(s, MakeNewGroup(s, P, leader, inside))
  <1>. DEFINE rest  == SetToSeq(DOMAIN P.answer \ {leader})
              order == <<leader>> \o rest
              n     == Len(order)
              start == [g |-> IF Exists(s, P.group) THEN P.group ELSE NoParty, s |-> s]
              h == CHOOSE f : Walks(f, order, start, inside, n)
              Enter(m) == IF m.g = NoParty THEN m.s ELSE SetState(m.s, {m.g}, "dungeon")
              T == {k \in 0..n : Ready(h[k]) /\ Calm(s, h[k].s)}
  <1>1. MakeNewGroup(s, P, leader, inside) = Enter(h[n])
    BY DEF MakeNewGroup, Takes, Walks
  <1>2. DOMAIN P.answer \subseteq Finders
    BY DEF ProposalOK
  <1>3. order \in Seq(DOMAIN P.answer) /\ n \in Nat
    <2>1. IsFiniteSet(DOMAIN P.answer \ {leader})
      <3>1. DOMAIN P.answer \ {leader} \in SUBSET Finders
        BY <1>2
      <3>. QED  BY <3>1, FS_Subset, DungeonAssumption
    <2>2. rest \in Seq(DOMAIN P.answer \ {leader})
      BY <2>1, SequenceOfSet
    <2>. HIDE DEF rest
    <2>3. rest \in Seq(DOMAIN P.answer)
      BY <2>2
    <2>. DEFINE S == DOMAIN P.answer
    <2>. HIDE DEF S
    <2>. QED  BY <2>3, FirstOfSequence DEF S
  <1>. HIDE DEF order, start
  <1>4. \A k \in 1..n : order[k] \in Finders /\ order[k] \in DOMAIN P.answer
    BY <1>2, <1>3, ElementOfSeq
  <1>. HIDE DEF n
  <1>5. Walks(h, order, start, inside, n)
    <2>1. \E f : Walks(f, order, start, inside, n)
      BY <1>3, WalksExist
    <2>. QED  BY <2>1
  <1>. HIDE DEF h
  <1>6. Ready(start) /\ start.s = s
    BY DEF Ready, start, ProposalOK
  <1>7. 0 \in T
    <2>1. h[0] = start /\ 0 \in 0..n
      BY <1>3, <1>5 DEF Walks
    <2>2. Calm(s, s)
      BY QuietItself DEF Quiet
    <2>. QED  BY <1>6, <2>1, <2>2
  <1>8. ASSUME NEW m \in 0..n, m + 1 \in 0..n, m \in T PROVE m + 1 \in T
    <2>1. m + 1 # 0 /\ (m + 1) - 1 = m /\ m + 1 \in 1..n
      BY <1>8
    <2>2. h[m + 1] = Takes(h[m], order[m + 1], inside)
      BY <1>5, <1>8, <2>1 DEF Walks
    <2>. DEFINE acc == h[m]  p == order[m + 1]
    <2>3. p \in Finders /\ acc.s.state[p] # "proposal" /\ Ready(acc) /\ Calm(s, acc.s)
      BY <1>4, <1>8, <2>1 DEF Calm
    <2>. HIDE DEF acc, p
    <2>4. Ready(Takes(acc, p, inside)) /\ Calm(acc.s, Takes(acc, p, inside).s)
      BY <2>3, TakesDoes
    <2>5. Calm(s, Takes(acc, p, inside).s)
      BY <2>3, <2>4, CalmFollows
    <2>. QED  BY <1>8, <2>2, <2>4, <2>5 DEF acc, p
  <1>9. n \in T
    <2>. HIDE DEF T
    <2>1. n \in Nat
      BY <1>3
    <2>2. \A k \in 0..n : k \in T
      BY ONLY <2>1, <1>7, <1>8, UpTo
    <2>. QED  BY <2>1, <2>2
  <1>. DEFINE r == h[n]
  <1>10. Ready(r) /\ Calm(s, r.s)
    BY <1>9
  <1>. HIDE DEF r
  <1>11. Calm(s, Enter(r))
    <2>1. Calm(r.s, SetState(r.s, {r.g}, "dungeon"))
      BY <1>10, SetStateDoes DEF Ready, Quiet
    <2>. QED  BY <1>10, <2>1, CalmFollows
  <1>. QED  BY <1>1, <1>11 DEF r

(* A denial ends the proposal; the last agreement moves its players into the dungeon, where nobody
   is asked, before they are put into one group. *)
LEMMA UpdateProposalDoes ==
  ASSUME NEW s, AskedWell(s), NEW i \in DOMAIN s.proposals, NEW p, NEW accept,
         NEW leader \in DOMAIN s.proposals[i].answer, NEW inside, NEW g \in Parties, Unused(s, g)
  PROVE  AskedWell(UpdateProposal(s, i, p, accept, leader, inside))
  <1>. DEFINE a == IF accept THEN "agree" ELSE "deny"
              t == [s EXCEPT !.proposals[i].answer[p] = a]
              P == t.proposals[i]
              players == DOMAIN P.answer
              v == SetState(t, players, "dungeon")
              d == Drop(v.data, P.entries)
              u == [v EXCEPT !.data = d]
              m == MakeNewGroup(u, P, leader, inside)
              w == [m EXCEPT !.proposals = RemoveAt(m.proposals, i)]
  <1>1. UpdateProposal(s, i, p, accept, leader, inside) \in {RemoveProposal(t, i, FALSE), t, w}
    BY DEF UpdateProposal
  <1>2. /\ AskedWell(t) /\ i \in DOMAIN t.proposals
        /\ DOMAIN t.proposals[i].answer = DOMAIN s.proposals[i].answer
        /\ t.parties = s.parties /\ t.data = s.data /\ t.new = s.new
        /\ t.compatible = s.compatible /\ t.checks = s.checks
        /\ \A j \in DOMAIN t.proposals : \E k \in DOMAIN s.proposals : t.proposals[j].entries = s.proposals[k].entries
    <2>. HIDE DEF a
    <2>. QED  BY AnsweredKeeps
  <1>. HIDE DEF t
  <1>3. Unused(t, g)
    <2>1. \A Q \in Range(t.proposals) : \E R \in Range(s.proposals) : Q.entries = R.entries
      BY <1>2 DEF Range
    <2>. QED  BY <1>2, <2>1 DEF Unused
  <1>4. FinderOK(t) /\ ProposalOK(P) /\ leader \in players /\ players \subseteq Finders
    BY <1>2 DEF AskedWell, FinderOK, ProposalOK
  <1>5. Quiet(t, v) /\ \A x \in players : v.state[x] = "dungeon"
    BY <1>4, PlayersAndParties, SetStateDoes
  <1>. HIDE DEF v
  <1>6. Quiet(v, u) /\ u.state = v.state
    <2>1. FinderOK(v) /\ Manned(v.data)
      BY <1>5 DEF Quiet, Calm, FinderOK
    <2>2. Manned(d) /\ DOMAIN d \subseteq DOMAIN v.data
      BY <2>1, DropKeeps
    <2>. HIDE DEF d
    <2>. QED  BY <2>1, <2>2, FieldsFree
  <1>. HIDE DEF u
  <1>7. Quiet(t, u) /\ FinderOK(u) /\ Unused(u, g)
    BY <1>3, <1>5, <1>6, QuietFollows, QuietSpares DEF Quiet, Calm
  <1>8. \A q \in Finders : q \in players => u.state[q] # "proposal"
    BY <1>5, <1>6
  <1>9. Calm(u, m)
    <2>. HIDE DEF P
    <2>. QED  BY <1>4, <1>7, <1>8, MakeNewGroupDoes
  <1>. HIDE DEF m
  <1>10. AskedWell(w)
    <2>1. Calm(t, m) /\ \A q \in Finders : q \in players => m.state[q] # "proposal"
      BY <1>7, <1>8, <1>9, CalmFollows DEF Quiet, Calm
    <2>. QED  BY <1>2, <2>1, ErasedKeeps
  <1>11. AskedWell(RemoveProposal(t, i, FALSE))
    BY <1>2, RemoveProposalDoes
  <1>. QED  BY <1>1, <1>2, <1>10, <1>11

-----------------------------------------------------------------------------
(* The queue finds a match, and asks its players. *)

LEMMA UnlistDoes ==
  ASSUME NEW s, FinderOK(s), NEW X
  PROVE  LET t == Unlist(s, X)
         IN  /\ Calm(s, t) /\ t.new = s.new \ X /\ t.compatible = {e \in s.compatible : e \cap X = {}}
             /\ t.data = s.data /\ t.parties = s.parties /\ t.checks = s.checks
             /\ t.state = s.state /\ t.old = s.old
  <1>. DEFINE n == s.new \ X
              c == {e \in s.compatible : e \cap X = {}}
              t == Unlist(s, X)
  <1>1. t = [s EXCEPT !.new = n, !.compatible = c]
    BY DEF Unlist
  <1>. HIDE DEF t, n, c
  <1>2. /\ Fielded(t) /\ t.state = s.state /\ t.old = s.old /\ t.proposals = s.proposals /\ t.parties = s.parties
        /\ t.online = s.online /\ t.data = s.data /\ t.checks = s.checks
        /\ t.new = n /\ t.compatible = c
    BY <1>1 DEF FinderOK, Fielded
  <1>3. FinderOK(t)
    BY <1>2 DEF FinderOK
  <1>. QED  BY <1>2, <1>3 DEF Calm, t, n, c

LEMMA NewProposalIs ==
  ASSUME NEW s, FinderOK(s), NEW e \in SUBSET DOMAIN s.data, NEW x
  PROVE  ProposalOK(NewProposal(s, e, x))
  <1>. DEFINE lfg   == LfgGroupsIn(s, e)
              group == IF lfg = {} THEN NoParty ELSE CHOOSE g \in lfg : TRUE
              from  == [p \in PlayersOf(s, e) |->
                          LET gs == {g \in e \cap Parties : p \in s.data[g]}
                          IN IF gs = {} THEN NoParty ELSE CHOOSE g \in gs : TRUE]
              agreesNow(p) == lfg # {} /\ s.old[x] = "dungeon" /\ from[p] = group
              answer == [p \in DOMAIN from |-> IF agreesNow(p) THEN "agree" ELSE "pending"]
  <1>1. NewProposal(s, e, x) = [answer |-> answer, from |-> from, entries |-> e, group |-> group]
    BY DEF NewProposal
  <1>2. group \in Parties \cup {NoParty}
    <2>1. lfg \subseteq Parties
      BY DEF LfgGroupsIn
    <2>. HIDE DEF lfg
    <2>2. lfg # {} => (CHOOSE g \in lfg : TRUE) \in lfg
      OBVIOUS
    <2>. QED  BY <2>1, <2>2
  <1>3. DOMAIN answer \subseteq Finders
    <2>1. \A y \in e : s.data[y] \subseteq Finders
      BY DEF FinderOK, Manned
    <2>. QED  BY <2>1 DEF PlayersOf
  <1>. HIDE DEF answer, from, group
  <1>. QED  BY <1>1, <1>2, <1>3 DEF ProposalOK

LEMMA MatchDoes ==
  ASSUME NEW s, AskedWell(s), NEW e \in SUBSET DOMAIN s.data, NEW x
  PROVE  AskedWell(Match(s, e, x))
  <1>. DEFINE P   == NewProposal(s, e, x)
              who == DOMAIN P.answer
              gs  == {PartyOf(s, p) : p \in who} \ {NoParty}
              a   == Unlist(s, e)
              ps  == Append(a.proposals, P)
              b   == [a EXCEPT !.proposals = ps]
              t   == SetState(b, who \cup gs, "proposal")
  <1>1. Match(s, e, x) = t
    BY DEF Match
  <1>2. FinderOK(s) /\ Asked(s)
    BY DEF AskedWell
  <1>3. ProposalOK(P)
    BY <1>2, NewProposalIs
  <1>. HIDE DEF P
  <1>4. \A p \in Finders : p \notin gs
    BY PartyOfIs, PlayersAndParties
  <1>. HIDE DEF gs
  <1>5. Calm(s, a)
    BY <1>2, UnlistDoes
  <1>. HIDE DEF a
  <1>6. /\ ps \in Seq(Range(ps)) /\ \A j \in DOMAIN ps : ProposalOK(ps[j])
        /\ \A k \in DOMAIN s.proposals : \E j \in DOMAIN ps : ps[j] = s.proposals[k]
        /\ \E j \in DOMAIN ps : ps[j] = P
    <2>. DEFINE qs == s.proposals  n == Len(qs)
    <2>1. ps = Append(qs, P) /\ qs \in Seq(Range(qs)) /\ \A j \in DOMAIN qs : ProposalOK(qs[j])
      BY <1>2, <1>5 DEF Calm, FinderOK
    <2>. HIDE DEF qs, ps
    <2>2. qs \in Seq(Range(qs) \cup {P})
      BY <2>1
    <2>3. n \in Nat /\ DOMAIN qs = 1..n
      BY <2>2, LenProperties
    <2>4. /\ ps \in Seq(Range(qs) \cup {P}) /\ Len(ps) = n + 1 /\ ps[n + 1] = P
          /\ \A k \in 1..n : ps[k] = qs[k]
      BY <2>1, <2>2, AppendProperties
    <2>. HIDE DEF n
    <2>5. DOMAIN ps = 1..n + 1 /\ ps = [j \in 1..n + 1 |-> ps[j]]
      BY <2>4, LenProperties, SeqDef
    <2>6. \A k \in 1..n : k \in 1..n + 1
      BY <2>3
    <2>7. \A j \in 1..n + 1 : j \in 1..n \/ j = n + 1
      BY <2>3
    <2>8. n + 1 \in 1..n + 1 /\ n + 1 \in Nat
      BY <2>3
    <2>9. ps \in Seq(Range(ps))
      <3>1. \A j \in 1..n + 1 : ps[j] \in Range(ps)
        BY <2>5 DEF Range
      <3>. QED  BY <2>5, <2>8, <3>1, IsASeq
    <2>10. \A j \in DOMAIN ps : ProposalOK(ps[j])
      BY <1>3, <2>1, <2>3, <2>4, <2>5, <2>7
    <2>11. \A k \in DOMAIN qs : \E j \in DOMAIN ps : ps[j] = qs[k]
      BY <2>3, <2>4, <2>5, <2>6
    <2>12. \E j \in DOMAIN ps : ps[j] = P
      BY <2>4, <2>5, <2>8
    <2>. QED  BY <2>9, <2>10, <2>11, <2>12 DEF qs
  <1>. HIDE DEF ps
  <1>7. FinderOK(b) /\ b.proposals = ps /\ b.state = a.state
    <2>1. /\ Fielded(b) /\ b.online = a.online /\ b.proposals = ps /\ b.state = a.state /\ b.old = a.old
          /\ b.parties = a.parties /\ b.data = a.data /\ b.checks = a.checks
      BY <1>5 DEF Calm, FinderOK, Fielded
    <2>. HIDE DEF b
    <2>. QED  BY <1>5, <1>6, <2>1 DEF Calm, FinderOK
  <1>. HIDE DEF b
  <1>8. /\ FinderOK(t) /\ t.proposals = ps
        /\ \A y \in Entries : t.state[y] = IF y \in who \cup gs THEN "proposal" ELSE b.state[y]
    BY <1>7, SetStateDoes
  <1>. HIDE DEF t
  <1>9. Asked(t)
    <2>. SUFFICES ASSUME NEW p \in Finders, t.state[p] = "proposal"
                  PROVE  \E j \in DOMAIN ps : p \in DOMAIN ps[j].answer
      BY <1>8 DEF Asked
    <2>1. CASE p \in who
      BY <1>6, <2>1
    <2>2. CASE p \notin who
      <3>1. s.state[p] = "proposal"
        BY <1>4, <1>5, <1>7, <1>8, <2>2, PlayersAndParties DEF Calm
      <3>2. PICK k \in DOMAIN s.proposals : p \in DOMAIN s.proposals[k].answer
        BY <1>2, <3>1 DEF Asked
      <3>. QED  BY <1>6, <3>2
    <2>. QED  BY <2>1, <2>2
  <1>. QED  BY <1>1, <1>8, <1>9 DEF AskedWell

(* What a handler installs is the finder's next state. *)
LEMMA Installed ==
  ASSUME NEW x, AskedWell(x), Install(x)
  PROVE  AskedWell(Finder)'
  <1>1. Finder' = x
    BY DEF Finder, Install, AskedWell, FinderOK, Fielded
  <1>. QED  BY <1>1 DEF Finder

LEMMA InstalledCalm ==
  ASSUME NEW s, NEW x, AskedWell(s), Calm(s, x), Install(x)
  PROVE  AskedWell(Finder)'
  BY CalmKeeps, Installed

LEMMA GroupChanged ==
  ASSUME NEW s, FinderOK(s), NEW h \in Parties, NEW G, GroupOK(G)
  PROVE  LET t == [s EXCEPT !.parties[h] = G]
         IN  Calm(s, t) /\ t.parties[h] = G /\ t.state = s.state /\ t.online = s.online
  <1>. DEFINE w == [s.parties EXCEPT ![h] = G]
  <1>1. Grouped(s.parties)
    BY DEF FinderOK
  <1>2. Grouped(w) /\ w[h] = G
    BY <1>1, GroupsEdited DEF Grouped
  <1>. HIDE DEF w
  <1>3. LET t == [s EXCEPT !.parties = w] IN Calm(s, t) /\ t.parties = w /\ t.state = s.state /\ t.online = s.online
    BY <1>2, FieldsFree
  <1>. QED  BY <1>2, <1>3 DEF w

LEMMA InvitedChanged ==
  ASSUME NEW s, FinderOK(s), NEW h \in Parties, NEW v
  PROVE  LET t == [s EXCEPT !.parties[h].invited = v]
         IN  Calm(s, t) /\ t.state = s.state /\ t.online = s.online
  <1>. DEFINE G == [s.parties[h] EXCEPT !.invited = v]
  <1>1. GroupOK(G)
    BY GroupEdit DEF FinderOK, Grouped
  <1>2. [s EXCEPT !.parties[h].invited = v] = [s EXCEPT !.parties[h] = G]
    OBVIOUS
  <1>. HIDE DEF G
  <1>. QED  BY <1>1, <1>2, GroupChanged

LEMMA FindGroupsKeeps ==
  ASSUME AskedWell(Finder), NEW x, FindGroups(x)
  PROVE  AskedWell(Finder)'
  <1>. DEFINE m       == Finder.new \ {x}
              s       == [Finder EXCEPT !.new = m]
              known   == {c \in s.compatible : x \in c}
              more    == {c \cup {x} : c \in s.compatible} \ known
              alone   == x \in DOMAIN s.data => Full(s, {x})
              tried   == CASE known # {} -> more
                           [] known = {} /\ alone -> {{x}}
                           [] OTHER -> more \cup {{x}}
              absent(e) == CASE x \notin DOMAIN s.data -> {x}
                             [] e \subseteq DOMAIN s.data -> {}
                             [] OTHER -> {CHOOSE y \in e : y \notin DOMAIN s.data}
              good    == {e \in tried : absent(e) = {} /\ Fits(s, e)}
              full    == {e \in good : Full(s, e)}
              out(e)  == IF e \in full THEN {y \in e : s.state[y] # "queued"} ELSE absent(e)
              matches == {e \in full : out(e) = {}}
              c(d)    == s.compatible \cup ((good \ full) \ d)
              l(d)    == [s EXCEPT !.compatible = c(d)]
  <1>1. \E gone : \/ \E d : Install(RemoveFromQueue(l(d), gone))
                  \/ \E e \in matches : gone \cap e = {} /\ Install(Match(RemoveFromQueue(s, gone), e, x))
    BY DEF FindGroups
  <1>2. \A e \in matches : e \in SUBSET DOMAIN s.data
    <2>1. \A e : absent(e) = {} => e \subseteq DOMAIN s.data
      OBVIOUS
    <2>. HIDE DEF absent
    <2>. QED  BY <2>1
  <1>3. FinderOK(Finder)
    BY DEF AskedWell
  <1>. HIDE DEF matches, m, c
  <1>4. Calm(Finder, s)
    BY <1>3, FieldsFree
  <1>. HIDE DEF s
  <1>5. \A d : Calm(s, l(d))
    <2>1. FinderOK(s)
      BY <1>4 DEF Calm
    <2>. QED  BY <2>1, FieldsFree
  <1>. HIDE DEF l
  <1>6. PICK gone : \/ \E d : Install(RemoveFromQueue(l(d), gone))
                    \/ \E e \in matches : gone \cap e = {} /\ Install(Match(RemoveFromQueue(s, gone), e, x))
    BY <1>1
  <1>7. CASE \E d : Install(RemoveFromQueue(l(d), gone))
    <2>0. PICK d : Install(RemoveFromQueue(l(d), gone))
      BY <1>7
    <2>. DEFINE k == l(d)
                r == RemoveFromQueue(k, gone)
    <2>1. Calm(s, k)
      BY <1>5
    <2>. HIDE DEF k
    <2>2. Calm(k, r)
      BY <2>1, RemoveFromQueueDoes DEF Calm, Quiet
    <2>. HIDE DEF r
    <2>3. Calm(Finder, r)
      BY <1>4, <2>1, <2>2, CalmFollows
    <2>4. Install(r)
      BY <2>0 DEF k, r
    <2>. QED  BY <2>3, <2>4, InstalledCalm
  <1>8. CASE \E e \in matches : gone \cap e = {} /\ Install(Match(RemoveFromQueue(s, gone), e, x))
    <2>1. PICK e \in matches : gone \cap e = {} /\ Install(Match(RemoveFromQueue(s, gone), e, x))
      BY <1>8
    <2>. DEFINE r == RemoveFromQueue(s, gone)
    <2>2. Calm(s, r) /\ r.data = Drop(s.data, gone)
      BY <1>4, RemoveFromQueueDoes DEF Calm, Quiet
    <2>. HIDE DEF r
    <2>3. e \in SUBSET DOMAIN r.data
      BY <1>2, <2>1, <2>2 DEF Drop
    <2>4. AskedWell(r)
      BY <1>4, <2>2, CalmFollows, CalmKeeps
    <2>5. AskedWell(Match(r, e, x))
      BY <2>3, <2>4, MatchDoes
    <2>. QED  BY <2>1, <2>5, Installed DEF r
  <1>. QED  BY <1>6, <1>7, <1>8

LEMMA UpdatesKeep ==
  ASSUME AskedWell(Finder), Updates
  PROVE  AskedWell(Finder)'
  <1>1. FinderOK(Finder)
    BY DEF AskedWell
  <1>2. ASSUME NEW x \in Entries, QueuedTooLong(x) PROVE AskedWell(Finder)'
    <2>. DEFINE d == Drop(Finder.data, {x})
                s == [Finder EXCEPT !.data = d]
    <2>1. \E g : Install(LeaveAllLfgQueues(s, x, g))
      BY <1>2 DEF QueuedTooLong
    <2>2. Manned(d)
      BY <1>1, DropKeeps DEF FinderOK
    <2>. HIDE DEF d
    <2>3. Calm(Finder, s)
      BY <1>1, <2>2, FieldsFree
    <2>. HIDE DEF s
    <2>4. \A g : Calm(s, LeaveAllLfgQueues(s, x, g))
      BY <2>3, LeaveAllLfgQueuesDoes DEF Calm, Quiet
    <2>. QED  BY <2>1, <2>3, <2>4, CalmKeeps, InstalledCalm
  <1>3. ASSUME NEW X, Refresh(X) PROVE AskedWell(Finder)'
    <2>1. Calm(Finder, AddToQueue(Finder, X))
      BY <1>1, AddToQueueDoes
    <2>. QED  BY <1>3, <2>1, InstalledCalm DEF Refresh
  <1>4. ASSUME NEW i \in DOMAIN proposals, ProposalExpires(i) PROVE AskedWell(Finder)'
    <2>1. i \in DOMAIN Finder.proposals
      BY DEF Finder
    <2>2. AskedWell(RemoveProposal(Finder, i, TRUE))
      BY <2>1, RemoveProposalDoes
    <2>. QED  BY <1>4, <2>2, Installed DEF ProposalExpires
  <1>5. ASSUME NEW g \in Parties, RoleCheckExpires(g) PROVE AskedWell(Finder)'
    <2>1. Calm(Finder, EndRoleCheck(Finder, g))
      BY <1>1, EndRoleCheckDoes DEF Quiet
    <2>. QED  BY <1>5, <2>1, InstalledCalm DEF RoleCheckExpires
  <1>. QED  BY <1>2, <1>3, <1>4, <1>5, FindGroupsKeeps DEF Updates

-----------------------------------------------------------------------------
(* Handlers. *)

LEMMA JoinLfgKeeps ==
  ASSUME AskedWell(Finder), NEW p \in Finders, NEW valid, NEW answer, JoinLfg(p, valid, answer)
  PROVE  AskedWell(Finder)'
  <1>. DEFINE g == PartyOf(Finder, p)
              x == IF g = NoParty THEN p ELSE g
              s == CASE lfgState[x] = "rolecheck" /\ g # NoParty -> EndRoleCheck(Finder, g)
                     [] lfgState[x] = "queued" -> RemoveFromQueue(Finder, {x})
                     [] OTHER -> Finder
              who == parties[g].members
              a == SetState(s, who \cup {g}, "rolecheck")
              f == [q \in who |-> FALSE]
              c == With(a.checks, g, f)
              t == [a EXCEPT !.checks = c]
              b == AddQueueData(s, p, {p})
              alone == SetState(b, {p}, "queued")
              together == UpdateRoleCheck(t, g, p, answer)
  <1>1. \/ Install(s)
        \/ Install(alone)
        \/ g # NoParty /\ Install(together)
    BY DEF JoinLfg
  <1>2. FinderOK(Finder)
    BY DEF AskedWell
  <1>3. Calm(Finder, s)
    <2>1. s \in {EndRoleCheck(Finder, g), RemoveFromQueue(Finder, {x}), Finder}
      OBVIOUS
    <2>. HIDE DEF s, g, x
    <2>2. /\ Calm(Finder, EndRoleCheck(Finder, g)) /\ Calm(Finder, RemoveFromQueue(Finder, {x}))
          /\ Calm(Finder, Finder)
      BY <1>2, EndRoleCheckDoes, RemoveFromQueueDoes, QuietItself DEF Quiet
    <2>. QED  BY <2>1, <2>2
  <1>4. g # NoParty => who \subseteq Finders
    <2>1. g # NoParty => g \in Parties
      BY PartyOfIs
    <2>2. Grouped(Finder.parties) /\ Finder.parties = parties
      BY <1>2 DEF FinderOK, Finder
    <2>. HIDE DEF g
    <2>. QED  BY <2>1, <2>2 DEF Grouped, GroupOK
  <1>. HIDE DEF s, g, who
  <1>5. FinderOK(s)
    BY <1>3 DEF Calm
  <1>6. Calm(s, alone)
    <2>1. Calm(s, b)
      <3>1. {p} \in SUBSET Finders
        OBVIOUS
      <3>. QED  BY <1>5, <3>1, AddQueueDataDoes
    <2>. HIDE DEF b
    <2>2. Calm(b, alone)
      BY <2>1, SetStateDoes DEF Calm, Quiet
    <2>. HIDE DEF alone
    <2>. QED  BY <2>1, <2>2, CalmFollows
  <1>7. g # NoParty => Calm(s, together)
    <2>. SUFFICES ASSUME g # NoParty PROVE Calm(s, together)
      OBVIOUS
    <2>1. Calm(s, a)
      BY <1>5, SetStateDoes DEF Quiet
    <2>. HIDE DEF a
    <2>2. FinderOK(a)
      BY <2>1 DEF Calm
    <2>3. Checked(c)
      <3>1. Checked(a.checks)
        BY <2>2 DEF FinderOK
      <3>2. DOMAIN f \subseteq Finders
        BY <1>4
      <3>. HIDE DEF f
      <3>. QED  BY <3>1, <3>2 DEF Checked, With
    <2>. HIDE DEF c
    <2>4. Calm(a, t)
      BY <2>2, <2>3, FieldsFree
    <2>. HIDE DEF t
    <2>5. Calm(t, together)
      BY <2>4, UpdateRoleCheckDoes DEF Calm
    <2>. HIDE DEF together
    <2>. QED  BY <2>1, <2>4, <2>5, CalmFollows
  <1>. HIDE DEF alone, together
  <1>8. Calm(Finder, alone) /\ (g # NoParty => Calm(Finder, together))
    BY <1>3, <1>6, <1>7, CalmFollows
  <1>. QED  BY <1>1, <1>3, <1>8, InstalledCalm

LEMMA LeavesFinder ==
  ASSUME NEW s, AskedWell(s), NEW x \in Entries, NEW p, NEW g
  PROVE  AskedWell(LeaveAllLfgQueues(LeaveLfg(s, x), p, g))
  <1>. DEFINE l == LeaveLfg(s, x)
  <1>1. AskedWell(l)
    BY LeaveLfgDoes DEF AskedWell
  <1>. HIDE DEF l
  <1>2. Calm(l, LeaveAllLfgQueues(l, p, g))
    BY <1>1, LeaveAllLfgQueuesDoes DEF AskedWell, Quiet
  <1>3. AskedWell(LeaveAllLfgQueues(l, p, g))
    BY <1>1, <1>2, CalmKeeps
  <1>. QED  BY <1>3 DEF l

LEMMA LeaveFinderKeeps ==
  ASSUME AskedWell(Finder), NEW p \in Finders, LeaveFinder(p)
  PROVE  AskedWell(Finder)'
  <1>. DEFINE g == PartyOf(Finder, p)
              x == IF g = NoParty THEN p ELSE g
  <1>1. Install(LeaveAllLfgQueues(LeaveLfg(Finder, x), p, g))
    BY DEF LeaveFinder
  <1>2. x \in Entries
    BY PartyOfIs, PlayersAndParties
  <1>. HIDE DEF g, x
  <1>3. AskedWell(LeaveAllLfgQueues(LeaveLfg(Finder, x), p, g))
    BY <1>2, LeavesFinder
  <1>. QED  BY <1>1, <1>3, Installed

LEMMA ChooseRoleKeeps ==
  ASSUME AskedWell(Finder), NEW p \in Finders, NEW answer, ChooseRole(p, answer)
  PROVE  AskedWell(Finder)'
  <1>. DEFINE g == PartyOf(Finder, p)
  <1>1. Install(UpdateRoleCheck(Finder, g, p, answer))
    BY DEF ChooseRole
  <1>. HIDE DEF g
  <1>2. Calm(Finder, UpdateRoleCheck(Finder, g, p, answer))
    BY UpdateRoleCheckDoes DEF AskedWell
  <1>. QED  BY <1>1, <1>2, InstalledCalm

LEMMA AnswerProposalKeeps ==
  ASSUME AskedWell(Finder), NEW i \in DOMAIN proposals, NEW p, NEW accept, NEW leader, NEW inside,
         AnswerProposal(i, p, accept, leader, inside)
  PROVE  AskedWell(Finder)'
  <1>1. i \in DOMAIN Finder.proposals /\ leader \in DOMAIN Finder.proposals[i].answer
    BY DEF AnswerProposal, Finder
  <1>2. PICK g \in Parties : Unused(Finder, g)
    BY DEF AnswerProposal
  <1>. DEFINE x == UpdateProposal(Finder, i, p, accept, leader, inside)
  <1>3. AskedWell(x)
    BY <1>1, <1>2, UpdateProposalDoes
  <1>4. Install(x)
    BY DEF AnswerProposal
  <1>. HIDE DEF x
  <1>. QED  BY <1>3, <1>4, Installed

LEMMA InviteToPartyKeeps ==
  ASSUME AskedWell(Finder), NEW l \in Finders, NEW p \in Finders, InviteToParty(l, p)
  PROVE  AskedWell(Finder)'
  <1>. DEFINE s(h) == [Finder EXCEPT !.parties[h].invited = Finder.parties[h].invited \cup {p}]
              G    == [NoGroup EXCEPT !.leader = l, !.invited = {l, p}]
              t(h) == [Finder EXCEPT !.parties[h] = G]
              left(u) == LeaveAllLfgQueues(LeaveLfg(u, l), l, NoParty)
  <1>1. \E h \in Parties : Install(s(h)) \/ Install(left(s(h))) \/ Install(left(t(h)))
    <2>1. PartyOf(Finder, l) # NoParty => PartyOf(Finder, l) \in Parties
      BY PartyOfIs
    <2>2. \A q : InvitedBy(Finder, q) \subseteq Parties
      BY DEF InvitedBy
    <2>. QED  BY <2>1, <2>2 DEF InviteToParty
  <1>2. FinderOK(Finder) /\ GroupOK(G)
    BY NewGroups DEF AskedWell
  <1>. HIDE DEF G
  <1>3. \A h \in Parties : AskedWell(s(h)) /\ AskedWell(t(h))
    <2>. TAKE h \in Parties
    <2>1. Calm(Finder, s(h))
      BY <1>2, InvitedChanged
    <2>2. Calm(Finder, t(h))
      BY <1>2, GroupChanged
    <2>. HIDE DEF s, t
    <2>. QED  BY <2>1, <2>2, CalmKeeps
  <1>. HIDE DEF s, t
  <1>4. \A u : AskedWell(u) => AskedWell(left(u))
    BY LeavesFinder, PlayersAndParties
  <1>. HIDE DEF left
  <1>. QED  BY <1>1, <1>3, <1>4, Installed

LEMMA AcceptInvitationKeeps ==
  ASSUME AskedWell(Finder), NEW p \in Finders, AcceptInvitation(p)
  PROVE  AskedWell(Finder)'
  <1>1. PICK g \in InvitedBy(Finder, p) :
          LET l == parties[g].leader
              s == [Finder EXCEPT !.parties[g].invited = Finder.parties[g].invited \ {p}]
              t == IF Exists(s, g) THEN s ELSE JoinParty(SetState(s, {g}, "none"), g, l)
          IN Install(IF l = p \/ IsFull(s, g) THEN s
                     ELSE IF ~Exists(s, g) /\ l \notin online
                          THEN [s EXCEPT !.parties[g] = NoGroup]
                     ELSE JoinParty(t, g, p))
    BY DEF AcceptInvitation
  <1>. DEFINE l == parties[g].leader
              s == [Finder EXCEPT !.parties[g].invited = Finder.parties[g].invited \ {p}]
              a == SetState(s, {g}, "none")
              b == JoinParty(a, g, l)
              t == IF Exists(s, g) THEN s ELSE b
              n == [s EXCEPT !.parties[g] = NoGroup]
              u == JoinParty(t, g, p)
  <1>2. Install(s) \/ Install(n) \/ ((Exists(s, g) \/ l \in online) /\ Install(u))
    BY <1>1
  <1>3. g \in Parties /\ FinderOK(Finder) /\ online \subseteq Finders
    BY DEF AskedWell, FinderOK, InvitedBy, Finder
  <1>. HIDE DEF l
  <1>4. Calm(Finder, s) /\ FinderOK(s)
    BY <1>3, InvitedChanged DEF Calm
  <1>. HIDE DEF s
  <1>5. Calm(s, n)
    BY <1>3, <1>4, NewGroups, GroupChanged
  <1>. HIDE DEF n
  <1>6. (Exists(s, g) \/ l \in online) => Calm(s, t)
    <2>1. CASE Exists(s, g)
      BY <1>4, <2>1, QuietItself DEF Quiet
    <2>2. CASE ~Exists(s, g) /\ l \in online
      <3>1. Calm(s, a)
        BY <1>4, SetStateDoes DEF Quiet
      <3>. HIDE DEF a
      <3>2. Calm(a, b)
        BY <1>3, <2>2, <3>1, JoinPartyDoes DEF Calm
      <3>. HIDE DEF b
      <3>. QED  BY <2>2, <3>1, <3>2, CalmFollows
    <2>. QED  BY <2>1, <2>2
  <1>. HIDE DEF t
  <1>7. Calm(s, t) => Calm(t, u)
    BY <1>3, JoinPartyDoes DEF Calm
  <1>. HIDE DEF u
  <1>8. Calm(Finder, n) /\ ((Exists(s, g) \/ l \in online) => Calm(Finder, u))
    BY <1>4, <1>5, <1>6, <1>7, CalmFollows
  <1>. QED  BY <1>2, <1>4, <1>8, InstalledCalm

LEMMA UninviteFromGroupDoes ==
  ASSUME NEW s, FinderOK(s), NEW p
  PROVE  Calm(s, UninviteFromGroup(s, p))
  <1>. DEFINE g == CHOOSE h \in InvitedBy(s, p) : TRUE
              t == [s EXCEPT !.parties[g].invited = s.parties[g].invited \ {p}]
              n == [t EXCEPT !.parties[g] = NoGroup]
              d == DisbandParty(t, g)
  <1>1. UninviteFromGroup(s, p) = s \/ (InvitedBy(s, p) # {} /\ UninviteFromGroup(s, p) \in {t, n, d})
    BY DEF UninviteFromGroup
  <1>2. CASE UninviteFromGroup(s, p) = s
    BY <1>2, QuietItself DEF Quiet
  <1>3. CASE InvitedBy(s, p) # {} /\ UninviteFromGroup(s, p) \in {t, n, d}
    <2>1. g \in Parties
      <3>1. g \in InvitedBy(s, p)
        BY <1>3
      <3>. HIDE DEF g
      <3>. QED  BY <3>1 DEF InvitedBy
    <2>. HIDE DEF g
    <2>2. Calm(s, t) /\ FinderOK(t)
      BY <2>1, InvitedChanged DEF Calm
    <2>. HIDE DEF t
    <2>3. Calm(t, n) /\ Calm(t, d)
      BY <2>1, <2>2, NewGroups, GroupChanged, DisbandPartyDoes DEF Quiet
    <2>. HIDE DEF n, d
    <2>. QED  BY <1>3, <2>2, <2>3, CalmFollows
  <1>. QED  BY <1>1, <1>2, <1>3

LEMMA PartyRequestsKeep ==
  ASSUME AskedWell(Finder), NEW p \in Finders, NEW b,
         DeclineInvitation(p) \/ LeaveParty(p, b) \/ ChangeMap(p) \/ LoginFinder(p)
  PROVE  AskedWell(Finder)'
  <1>1. FinderOK(Finder)
    BY DEF AskedWell
  <1>2. CASE DeclineInvitation(p)
    <2>1. Calm(Finder, UninviteFromGroup(Finder, p))
      BY <1>1, UninviteFromGroupDoes
    <2>. QED  BY <1>2, <2>1, InstalledCalm DEF DeclineInvitation
  <1>. DEFINE g == PartyOf(Finder, p)
  <1>3. g # NoParty => g \in Parties
    BY PartyOfIs
  <1>4. CASE LeaveParty(p, b)
    <2>1. g # NoParty /\ Install(LeaveGroup(Finder, g, p, "leave", b))
      BY <1>4 DEF LeaveParty
    <2>. HIDE DEF g
    <2>2. AskedWell(LeaveGroup(Finder, g, p, "leave", b))
      BY <1>1, <1>3, <2>1, LeaveGroupDoes
    <2>. QED  BY <2>1, <2>2, Installed
  <1>5. CASE ChangeMap(p)
    <2>1. g # NoParty /\ Install(DisbandParty(Finder, g))
      BY <1>5 DEF ChangeMap
    <2>. HIDE DEF g
    <2>2. Calm(Finder, DisbandParty(Finder, g))
      BY <1>1, <1>3, <2>1, DisbandPartyDoes DEF Quiet
    <2>. QED  BY <2>1, <2>2, InstalledCalm
  <1>6. CASE LoginFinder(p)
    <2>. DEFINE v == Finder.online \cup {p}
                x == [Finder EXCEPT !.online = v]
    <2>1. Install(x)
      BY <1>6 DEF LoginFinder
    <2>2. v \subseteq Finders
      BY <1>1 DEF FinderOK
    <2>. HIDE DEF v
    <2>3. Calm(Finder, x)
      BY <1>1, <2>2, FieldsFree
    <2>. QED  BY <2>1, <2>3, InstalledCalm
  <1>. QED  BY <1>2, <1>4, <1>5, <1>6

LEMMA LogoutFinderKeeps ==
  ASSUME AskedWell(Finder), NEW p \in Finders, NEW connected, LogoutFinder(p, connected)
  PROVE  AskedWell(Finder)'
  <1>. DEFINE s == UninviteFromGroup(Finder, p)
              g == PartyOf(s, p)
              t == IF g # NoParty /\ ~s.parties[g].lfg /\ connected
                   THEN LeaveGroup(s, g, p, "default", FALSE) ELSE s
              l(h) == LeaveAllLfgQueues(LeaveLfg(t, p), p, h)
              OnLogout(u) == LET h == PartyOf(u, p)
                             IN IF h # NoParty /\ u.parties[h].lfg THEN u
                                ELSE LeaveAllLfgQueues(LeaveLfg(u, p), p, h)
              o == OnLogout(t)
              v == o.online \ {p}
              x == [o EXCEPT !.online = v]
  <1>1. Install(x)
    BY DEF LogoutFinder
  <1>2. AskedWell(s)
    <2>1. Calm(Finder, s)
      BY UninviteFromGroupDoes DEF AskedWell
    <2>. QED  BY <2>1, CalmKeeps
  <1>. HIDE DEF s
  <1>3. AskedWell(t)
    <2>1. g # NoParty => g \in Parties
      BY PartyOfIs
    <2>. HIDE DEF g
    <2>2. g # NoParty => AskedWell(LeaveGroup(s, g, p, "default", FALSE))
      BY <1>2, <2>1, LeaveGroupDoes DEF AskedWell
    <2>. QED  BY <1>2, <2>2
  <1>. HIDE DEF t
  <1>4. AskedWell(o)
    <2>1. o = t \/ \E h : o = l(h)
      OBVIOUS
    <2>2. \A h : AskedWell(l(h))
      BY <1>3, LeavesFinder, PlayersAndParties
    <2>. HIDE DEF o, l
    <2>. QED  BY <1>3, <2>1, <2>2
  <1>. HIDE DEF o
  <1>5. Calm(o, x)
    <2>1. FinderOK(o) /\ v \subseteq Finders
      BY <1>4 DEF AskedWell, FinderOK
    <2>. HIDE DEF v
    <2>. QED  BY <2>1, FieldsFree
  <1>. HIDE DEF x
  <1>. QED  BY <1>1, <1>4, <1>5, InstalledCalm

LEMMA RequestsKeep ==
  ASSUME AskedWell(Finder), Requests
  PROVE  AskedWell(Finder)'
  BY JoinLfgKeeps, ChooseRoleKeeps, AnswerProposalKeeps, InviteToPartyKeeps, PartyRequestsKeep,
     LogoutFinderKeeps, LeaveFinderKeeps, AcceptInvitationKeeps
     DEF Requests

LEMMA FinderStarts == DFInit => AskedWell(Finder)
  <1>. SUFFICES ASSUME DFInit PROVE AskedWell(Finder)
    OBVIOUS
  <1>1. /\ Fielded(Finder) /\ Finder.online = Finders /\ Finder.data = [x \in {} |-> {}]
        /\ Finder.checks = [g \in {} |-> {}] /\ Finder.parties = [g \in Parties |-> NoGroup]
        /\ Finder.proposals = <<>> /\ Finder.old = [x \in Entries |-> "none"]
        /\ Finder.state = [x \in Entries |-> "none"]
    BY DEF DFInit, Finder, Fielded
  <1>. DEFINE s == Finder
  <1>2. s.proposals = <<>> /\ <<>> \in Seq(Range(<<>>)) /\ \A i \in DOMAIN <<>> : FALSE
    BY <1>1, EmptySeq
  <1>. HIDE DEF s
  <1>3. Manned(s.data) /\ Checked(s.checks) /\ Grouped(s.parties)
    BY <1>1, NewGroups DEF Manned, Checked, Grouped, s
  <1>4. \A p \in Finders : s.state[p] # "proposal"
    BY <1>1, PlayersAndParties DEF s
  <1>5. FinderOK(s)
    BY <1>1, <1>2, <1>3 DEF FinderOK, s
  <1>6. AskedWell(s)
    BY <1>4, <1>5 DEF AskedWell, Asked
  <1>. QED  BY <1>6 DEF s

(* Every step of the finder keeps whoever is asked in a proposal that stands (LFGMgr.cpp:1720). *)
LEMMA FinderInvariant == DFSpec => []AskedWell(Finder)
  <1>1. AskedWell(Finder) /\ [DFNext]_finderVars => AskedWell(Finder)'
    <2>. SUFFICES ASSUME AskedWell(Finder), [DFNext]_finderVars PROVE AskedWell(Finder)'
      OBVIOUS
    <2>1. CASE DFNext
      BY <2>1, RequestsKeep, UpdatesKeep DEF DFNext
    <2>2. CASE UNCHANGED finderVars
      <3>1. Finder' = Finder
        BY <2>2 DEF finderVars, Finder
      <3>. QED  BY <3>1
    <2>. QED  BY <2>1, <2>2
  <1>. QED  BY <1>1, FinderStarts, PTL DEF DFSpec

THEOREM AskedHasProposalHolds == DFSpec => []AskedHasProposal
  <1>1. AskedWell(Finder) => AskedHasProposal
    <2>. SUFFICES ASSUME Asked(Finder), NEW p \in Finders, lfgState[p] = "proposal"
                  PROVE  \E P \in Range(proposals) : p \in DOMAIN P.answer
      BY DEF AskedWell, AskedHasProposal
    <2>1. PICK i \in DOMAIN proposals : p \in DOMAIN proposals[i].answer
      BY DEF Asked, Finder
    <2>. QED  BY <2>1 DEF Range
  <1>. QED  BY <1>1, FinderInvariant, PTL

-----------------------------------------------------------------------------
(* The combinations that the dungeon queue keeps.  What its list relies on (QueueOK below) is kept *)
(* by steps that queue nothing (Fades), and is shown anew where an entry joins the queue, is       *)
(* tried, matched or comes back from a proposal.                                                   *)

(* The players of a combination with their entries, and without: a player who is in two entries is
   twice among the first. *)
Seats(f, e) == UNION {{x} \X f[x] : x \in e}
Crowd(f, e) == UNION {f[x] : x \in e}

(* Fits, for entries with players f and groups whose former states are o. *)
Suits(f, o, e) ==
    /\ Cardinality({g \in e \cap Parties : o[g] # "none"}) <= 1
    /\ Cardinality(Seats(f, e)) <= PartySize
    /\ Cardinality(e) > 1 => /\ Cardinality(Seats(f, e)) = Cardinality(Crowd(f, e))
                             /\ \A U \in Unfit : ~(U \subseteq Crowd(f, e))

LEMMA FitsIs ==
  ASSUME NEW s, NEW e
  PROVE  /\ Fits(s, e) <=> Suits(s.data, s.old, e)
         /\ Full(s, e) <=> Cardinality(Seats(s.data, e)) = PartySize
  BY DEF Fits, Full, Suits, Seats, Crowd, SizeOfEntries, PlayersOf, LfgGroupsIn

(* What fits depends on the players and groups of the combination only. *)
LEMMA SuitsSame ==
  ASSUME NEW f, NEW h, NEW o, NEW q, NEW e,
         \A x \in e : f[x] = h[x], \A g \in e \cap Parties : o[g] = q[g]
  PROVE  Seats(f, e) = Seats(h, e) /\ (Suits(f, o, e) <=> Suits(h, q, e))
  <1>1. Seats(f, e) = Seats(h, e) /\ Crowd(f, e) = Crowd(h, e)
    BY DEF Seats, Crowd
  <1>2. {g \in e \cap Parties : o[g] # "none"} = {g \in e \cap Parties : q[g] # "none"}
    OBVIOUS
  <1>. QED  BY <1>1, <1>2 DEF Suits

LEMMA EntriesFinite == \A e \in SUBSET Entries : IsFiniteSet(e)
  BY DungeonAssumption, FS_Union, FS_Subset DEF Entries

LEMMA SeatsFinite ==
  ASSUME NEW f, NEW e \in SUBSET Entries, \A x \in e : f[x] \subseteq Finders
  PROVE  IsFiniteSet(Seats(f, e)) /\ IsFiniteSet(Crowd(f, e))
  <1>1. Seats(f, e) \in SUBSET (Entries \X Finders) /\ Crowd(f, e) \in SUBSET Finders
    BY DEF Seats, Crowd
  <1>2. IsFiniteSet(Entries \X Finders) /\ IsFiniteSet(Finders)
    BY EntriesFinite, DungeonAssumption, FS_Product
  <1>. QED  BY <1>1, <1>2, FS_Subset

(* A part of a combination that fits, fits. *)
LEMMA PartsFit ==
  ASSUME NEW f, NEW o, NEW e \in SUBSET Entries, \A x \in e : f[x] \subseteq Finders,
         Suits(f, o, e), NEW d \in SUBSET e
  PROVE  Suits(f, o, d)
  <1>. DEFINE G(c) == {g \in c \cap Parties : o[g] # "none"}
  <1>1. Cardinality(G(d)) <= 1
    <2>1. G(d) \in SUBSET G(e) /\ G(e) \in SUBSET Entries
      OBVIOUS
    <2>2. Cardinality(G(e)) <= 1
      BY DEF Suits
    <2>. HIDE DEF G
    <2>3. IsFiniteSet(G(e))
      BY <2>1, EntriesFinite
    <2>4. /\ IsFiniteSet(G(d)) /\ Cardinality(G(d)) <= Cardinality(G(e))
          /\ Cardinality(G(d)) \in Nat /\ Cardinality(G(e)) \in Nat
      BY <2>1, <2>3, FS_Subset, FS_CardinalityType
    <2>. QED  BY <2>2, <2>4
  <1>2. /\ Seats(f, d) \in SUBSET Seats(f, e) /\ Crowd(f, d) \in SUBSET Crowd(f, e)
        /\ IsFiniteSet(Seats(f, e)) /\ IsFiniteSet(Seats(f, d)) /\ IsFiniteSet(Crowd(f, e))
    BY SeatsFinite DEF Seats, Crowd
  <1>3. Cardinality(Seats(f, d)) <= PartySize
    <2>1. /\ Cardinality(Seats(f, d)) <= Cardinality(Seats(f, e)) /\ Cardinality(Seats(f, e)) <= PartySize
          /\ Cardinality(Seats(f, d)) \in Nat /\ Cardinality(Seats(f, e)) \in Nat
      BY <1>2, FS_Subset, FS_CardinalityType DEF Suits
    <2>. QED  BY <2>1, DungeonAssumption
  <1>4. ASSUME Cardinality(d) > 1
        PROVE  /\ Cardinality(Seats(f, d)) = Cardinality(Crowd(f, d))
               /\ \A U \in Unfit : ~(U \subseteq Crowd(f, d))
    <2>1. Cardinality(e) > 1
      <3>1. IsFiniteSet(e) /\ IsFiniteSet(d) /\ Cardinality(d) <= Cardinality(e)
        BY EntriesFinite, FS_Subset
      <3>2. Cardinality(d) \in Nat /\ Cardinality(e) \in Nat
        BY <3>1, FS_CardinalityType
      <3>. QED  BY <1>4, <3>1, <3>2
    <2>2. Cardinality(Seats(f, e)) = Cardinality(Crowd(f, e)) /\ \A U \in Unfit : ~(U \subseteq Crowd(f, e))
      BY <2>1 DEF Suits
    <2>. DEFINE p == [c \in Seats(f, e) |-> c[2]]
                q == [c \in Seats(f, d) |-> c[2]]
    <2>3. p \in Surjection(Seats(f, e), Crowd(f, e)) /\ q \in Surjection(Seats(f, d), Crowd(f, d))
      <3>1. \A c : /\ \A k \in Seats(f, c) : k[2] \in Crowd(f, c)
                   /\ \A y \in Crowd(f, c) : \E k \in Seats(f, c) : k[2] = y
        <4>. TAKE c
        <4>1. ASSUME NEW k \in Seats(f, c) PROVE k[2] \in Crowd(f, c)
          <5>1. PICK x \in c : k \in {x} \X f[x]
            BY DEF Seats
          <5>. QED  BY <5>1 DEF Crowd
        <4>2. ASSUME NEW y \in Crowd(f, c) PROVE \E k \in Seats(f, c) : k[2] = y
          <5>1. PICK x \in c : y \in f[x]
            BY DEF Crowd
          <5>2. <<x, y>> \in Seats(f, c) /\ <<x, y>>[2] = y
            BY <5>1 DEF Seats
          <5>. QED  BY <5>2
        <4>. QED  BY <4>1, <4>2
      <3>. DEFINE r(c) == [k \in Seats(f, c) |-> k[2]]
      <3>2. ASSUME NEW c PROVE r(c) \in Surjection(Seats(f, c), Crowd(f, c))
        <4>1. \A k \in Seats(f, c) : k[2] \in Crowd(f, c)
          BY <3>1
        <4>2. r(c) \in [Seats(f, c) -> Crowd(f, c)] /\ \A k \in Seats(f, c) : r(c)[k] = k[2]
          BY <4>1
        <4>3. \A y \in Crowd(f, c) : \E k \in Seats(f, c) : r(c)[k] = y
          BY <3>1, <4>2
        <4>. HIDE DEF r
        <4>. QED  BY <4>2, <4>3 DEF Surjection
      <3>. QED  BY <3>2
    <2>4. p \in Injection(Seats(f, e), Crowd(f, e))
      <3>. HIDE DEF p
      <3>. QED  BY <1>2, <2>2, <2>3, FS_Surjection
    <2>5. \A a, b \in Seats(f, e) : a # b => a[2] # b[2]
      <3>1. \A a, b \in Seats(f, e) : a # b => p[a] # p[b]
        <4>. HIDE DEF p
        <4>. QED  BY <2>4 DEF Injection, IsInjective
      <3>. QED  BY <3>1
    <2>6. q \in Injection(Seats(f, d), Crowd(f, d))
      <3>1. \A a, b \in Seats(f, d) : a # b => q[a] # q[b]
        BY <1>2, <2>5
      <3>2. q \in [Seats(f, d) -> Crowd(f, d)]
        BY <2>3 DEF Surjection
      <3>. HIDE DEF q
      <3>. QED  BY <3>1, <3>2 DEF Injection, IsInjective
    <2>7. Cardinality(Seats(f, d)) = Cardinality(Crowd(f, d))
      <3>. HIDE DEF q
      <3>. QED  BY <1>2, <2>3, <2>6, FS_Surjection
    <2>. QED  BY <1>2, <2>2, <2>7
  <1>. QED  BY <1>1, <1>3, <1>4 DEF Suits

(* Nobody fits beside an entry that is full alone. *)
LEMMA FullAlone ==
  ASSUME NEW f, NEW o, NEW e \in SUBSET Entries, \A x \in e : f[x] \subseteq Finders /\ f[x] # {},
         NEW x \in e, NEW z \in e, x # z, Cardinality(Seats(f, {x})) = PartySize
  PROVE  ~Suits(f, o, e)
  <1>1. Seats(f, {x}) \in SUBSET Seats(f, e) /\ IsFiniteSet(Seats(f, e)) /\ IsFiniteSet(Seats(f, {x}))
    <2>1. Seats(f, {x}) \in SUBSET Seats(f, e)
      BY DEF Seats
    <2>2. {x} \in SUBSET Entries /\ \A y \in {x} : f[y] \subseteq Finders
      OBVIOUS
    <2>. QED  BY <2>1, <2>2, SeatsFinite
  <1>2. Seats(f, {x}) # Seats(f, e)
    <2>1. PICK p : p \in f[z]
      OBVIOUS
    <2>2. <<z, p>> \in Seats(f, e) /\ <<z, p>> \notin Seats(f, {x})
      BY <2>1 DEF Seats
    <2>. QED  BY <2>2
  <1>3. /\ Cardinality(Seats(f, {x})) <= Cardinality(Seats(f, e))
        /\ Cardinality(Seats(f, {x})) # Cardinality(Seats(f, e))
        /\ Cardinality(Seats(f, {x})) \in Nat /\ Cardinality(Seats(f, e)) \in Nat
    BY <1>1, <1>2, FS_Subset, FS_CardinalityType
  <1>4. ~(Cardinality(Seats(f, e)) <= PartySize)
    BY <1>3
  <1>. QED  BY <1>4 DEF Suits

(* The players of the queued entries; a player who is queued alone is his own entry, also while
   he has no data. *)
View(s) == [x \in Entries |-> IF x \in Finders THEN {x}
                              ELSE IF x \in DOMAIN s.data THEN s.data[x] ELSE {}]
SuitsIn(s, e) == Suits(View(s), s.old, e)
FullIn(s, e)  == Cardinality(Seats(View(s), e)) = PartySize

Named(s)       == UNION {s.proposals[i].entries : i \in DOMAIN s.proposals}
Combined(s, x) == \E c \in s.compatible : x \in c
Idle(s, x)     == x \notin DOMAIN s.data /\ ~Combined(s, x)
Queueing(s, e) == \A g \in e \cap Parties : s.state[g] = "queued"

(* What entries that are neither new nor in a proposal make up and fits, is in the list, but for
   entries of S, whose searches left something out, and groups that were queued again. *)
SearchedExcept(s, S) ==
    \A e \in SUBSET (DOMAIN s.data \ (s.new \cup Named(s) \cup S \cup requeued)) :
        e # {} /\ Queueing(s, e) /\ SuitsIn(s, e) => e \in s.compatible /\ ~FullIn(s, e)
(* The list has no full combination of groups that were not queued again, and every entry of a
   combination alone. *)
Listing(s) ==
    \A c \in s.compatible :
        /\ c \in SUBSET Entries /\ c # {} /\ \A x \in c : {x} \in s.compatible
        /\ (\A g \in c \cap Parties : g \in DOMAIN s.data \ requeued) /\ Queueing(s, c)
               => ~(SuitsIn(s, c) /\ FullIn(s, c))
(* A group that is not queued or proposed, has nobody in it or checks its roles, is not in the queue. *)
Resting(s) ==
    /\ DOMAIN s.checks \subseteq Parties /\ \A g \in DOMAIN s.checks \ requeued : Idle(s, g)
    /\ \A g \in Parties \ requeued :
          /\ s.parties[g] # NoGroup
          /\ s.state[g] \notin {"queued", "proposal"} \/ s.parties[g].members = {}
          => Idle(s, g)
Stored(s) ==
    /\ DOMAIN s.data \subseteq Entries
    /\ \A x \in DOMAIN s.data : s.data[x] # {} /\ (x \in Finders => s.data[x] = {x})
(* A group in a proposal is in no combination. *)
Apart(s) ==
    /\ \A g \in (Named(s) \cap Parties) \ requeued : ~Combined(s, g)
    /\ \A i \in DOMAIN s.proposals :
          LET P == s.proposals[i]
          IN  /\ P.entries \subseteq Entries /\ P.group \in P.entries \cup {NoParty}
              /\ \A p \in DOMAIN P.answer : EntryOf(P, p) \in P.entries
Searched(s) == SearchedExcept(s, cutShort)
Tidy(s) == Listing(s) /\ Resting(s) /\ Stored(s) /\ Apart(s)
QueueOK(s) == Searched(s) /\ Tidy(s)

(* A step that queues nothing.  What leaves the queue leaves its combinations; groups of N, and
   those that were queued again, aside, one that comes to rest is idle. *)
Fades(s, t, N) ==
    /\ t.proposals = s.proposals
    /\ DOMAIN t.data \subseteq DOMAIN s.data /\ \A x \in DOMAIN t.data : t.data[x] = s.data[x]
    /\ s.new \cap DOMAIN t.data \subseteq t.new
    /\ DOMAIN t.checks \subseteq DOMAIN s.checks
    /\ \E X : X \cap DOMAIN t.data = {} /\ t.compatible = {c \in s.compatible : c \cap X = {}}
    /\ \A g \in Parties : t.state[g] = "queued" => s.state[g] = "queued" /\ t.old[g] = s.old[g]
    /\ \A g \in Parties \ (N \cup requeued) : t.parties[g] # NoGroup =>
          \/ Idle(t, g)
          \/ /\ s.parties[g] # NoGroup
             /\ s.state[g] \in {"queued", "proposal"} => t.state[g] \in {"queued", "proposal"}
             /\ t.parties[g].members = {} => s.parties[g].members = {}

LEMMA FadesListed ==
  ASSUME NEW s, NEW t, NEW N, Fades(s, t, N)
  PROVE  t.compatible \subseteq s.compatible /\ \A x : Idle(s, x) => Idle(t, x)
  BY DEF Fades, Idle, Combined

LEMMA FadesFollows ==
  ASSUME NEW s, NEW t, NEW u, NEW N, NEW M, Fades(s, t, N), Fades(t, u, M)
  PROVE  Fades(s, u, N \cup M)
  <1>1. PICK X : X \cap DOMAIN t.data = {} /\ t.compatible = {c \in s.compatible : c \cap X = {}}
    BY DEF Fades
  <1>2. PICK Y : Y \cap DOMAIN u.data = {} /\ u.compatible = {c \in t.compatible : c \cap Y = {}}
    BY DEF Fades
  <1>3. /\ (X \cup Y) \cap DOMAIN u.data = {}
        /\ u.compatible = {c \in s.compatible : c \cap (X \cup Y) = {}}
    <2>1. DOMAIN u.data \subseteq DOMAIN t.data
      BY DEF Fades
    <2>. QED  BY <1>1, <1>2, <2>1
  <1>4. ASSUME NEW g \in Parties \ (N \cup M \cup requeued), u.parties[g] # NoGroup
        PROVE  \/ Idle(u, g)
               \/ /\ s.parties[g] # NoGroup
                  /\ s.state[g] \in {"queued", "proposal"} => u.state[g] \in {"queued", "proposal"}
                  /\ u.parties[g].members = {} => s.parties[g].members = {}
    <2>1. \/ Idle(u, g)
          \/ /\ t.parties[g] # NoGroup
             /\ t.state[g] \in {"queued", "proposal"} => u.state[g] \in {"queued", "proposal"}
             /\ u.parties[g].members = {} => t.parties[g].members = {}
      BY <1>4 DEF Fades
    <2>2. t.parties[g] # NoGroup =>
             \/ Idle(u, g)
             \/ /\ s.parties[g] # NoGroup
                /\ s.state[g] \in {"queued", "proposal"} => t.state[g] \in {"queued", "proposal"}
                /\ t.parties[g].members = {} => s.parties[g].members = {}
      BY <1>4, FadesListed DEF Fades
    <2>. QED  BY <2>1, <2>2
  <1>5. /\ u.proposals = s.proposals /\ DOMAIN u.checks \subseteq DOMAIN s.checks
        /\ DOMAIN u.data \subseteq DOMAIN s.data /\ \A x \in DOMAIN u.data : u.data[x] = s.data[x]
        /\ s.new \cap DOMAIN u.data \subseteq u.new
        /\ \A g \in Parties : u.state[g] = "queued" => s.state[g] = "queued" /\ u.old[g] = s.old[g]
    BY DEF Fades
  <1>. QED  BY <1>3, <1>4, <1>5 DEF Fades

LEMMA FadesOn ==
  ASSUME NEW s, NEW t, NEW u, Fades(s, t, {}), Fades(t, u, {})
  PROVE  Fades(s, u, {})
  <1>1. Fades(s, u, {} \cup {})
    BY FadesFollows
  <1>. QED  BY <1>1

LEMMA FadesItself == ASSUME NEW s PROVE Fades(s, s, {})
  <1>1. s.compatible = {c \in s.compatible : c \cap {} = {}} /\ {} \cap DOMAIN s.data = {}
    OBVIOUS
  <1>2. \E X : X \cap DOMAIN s.data = {} /\ s.compatible = {c \in s.compatible : c \cap X = {}}
    BY <1>1
  <1>. QED  BY <1>2 DEF Fades

(* A combination of groups that still have their data is as it was. *)
LEMMA ViewSame ==
  ASSUME NEW s, NEW t, NEW e \in SUBSET Entries,
         \A g \in e \cap Parties : /\ g \in DOMAIN s.data /\ g \in DOMAIN t.data
                                   /\ t.data[g] = s.data[g] /\ t.old[g] = s.old[g]
  PROVE  (SuitsIn(t, e) <=> SuitsIn(s, e)) /\ (FullIn(t, e) <=> FullIn(s, e))
  <1>. DEFINE f == View(s)  h == View(t)
  <1>1. \A x \in e : h[x] = f[x]
    BY DEF View, Entries
  <1>2. \A g \in e \cap Parties : t.old[g] = s.old[g]
    OBVIOUS
  <1>. HIDE DEF f, h
  <1>3. Seats(h, e) = Seats(f, e) /\ (Suits(h, t.old, e) <=> Suits(f, s.old, e))
    BY <1>1, <1>2, SuitsSame
  <1>. QED  BY <1>3 DEF SuitsIn, FullIn, f, h

LEMMA FadesKeeps ==
  ASSUME NEW s, NEW t, QueueOK(s), Fades(s, t, {})
  PROVE  QueueOK(t)
  <1>1. PICK X : X \cap DOMAIN t.data = {} /\ t.compatible = {c \in s.compatible : c \cap X = {}}
    BY DEF Fades
  <1>2. /\ t.proposals = s.proposals /\ DOMAIN t.checks \subseteq DOMAIN s.checks
        /\ DOMAIN t.data \subseteq DOMAIN s.data /\ \A x \in DOMAIN t.data : t.data[x] = s.data[x]
        /\ s.new \cap DOMAIN t.data \subseteq t.new
        /\ \A g \in Parties : t.state[g] = "queued" => s.state[g] = "queued" /\ t.old[g] = s.old[g]
    BY DEF Fades
  <1>3. t.compatible \subseteq s.compatible /\ \A x : Idle(s, x) => Idle(t, x)
    BY FadesListed
  <1>4. Named(t) = Named(s)
    BY <1>2 DEF Named
  <1>5. DOMAIN s.data \subseteq Entries
    BY DEF QueueOK, Tidy, Stored
  <1>6. Searched(t)
    <2>. SUFFICES ASSUME NEW e \in SUBSET (DOMAIN t.data \ (t.new \cup Named(t) \cup cutShort \cup requeued)),
                         e # {}, Queueing(t, e), SuitsIn(t, e)
                  PROVE  e \in t.compatible /\ ~FullIn(t, e)
      BY DEF Searched, SearchedExcept
    <2>1. e \in SUBSET (DOMAIN s.data \ (s.new \cup Named(s) \cup cutShort \cup requeued)) /\ e \in SUBSET Entries
      BY <1>2, <1>4, <1>5
    <2>2. Queueing(s, e)
      BY <1>2 DEF Queueing
    <2>3. (SuitsIn(t, e) <=> SuitsIn(s, e)) /\ (FullIn(t, e) <=> FullIn(s, e))
      <3>1. \A g \in e \cap Parties : /\ g \in DOMAIN s.data /\ g \in DOMAIN t.data
                                      /\ t.data[g] = s.data[g] /\ t.old[g] = s.old[g]
        BY <1>2 DEF Queueing
      <3>. QED  BY <2>1, <3>1, ViewSame
    <2>4. e \in s.compatible /\ ~FullIn(s, e)
      BY <2>1, <2>2, <2>3 DEF QueueOK, Tidy, Searched, SearchedExcept
    <2>5. e \cap X = {}
      BY <1>1
    <2>. QED  BY <1>1, <2>3, <2>4, <2>5
  <1>7. Listing(t)
    <2>. SUFFICES ASSUME NEW c \in t.compatible
                  PROVE  /\ c \in SUBSET Entries /\ c # {} /\ \A x \in c : {x} \in t.compatible
                         /\ (\A g \in c \cap Parties : g \in DOMAIN t.data \ requeued) /\ Queueing(t, c)
                               => ~(SuitsIn(t, c) /\ FullIn(t, c))
      BY DEF Listing
    <2>1. c \in s.compatible /\ c \cap X = {}
      BY <1>1
    <2>2. c \in SUBSET Entries /\ c # {} /\ \A x \in c : {x} \in s.compatible
      BY <2>1 DEF QueueOK, Tidy, Listing
    <2>3. \A x \in c : {x} \in t.compatible
      BY <1>1, <2>1, <2>2
    <2>4. ASSUME \A g \in c \cap Parties : g \in DOMAIN t.data \ requeued, Queueing(t, c)
          PROVE  ~(SuitsIn(t, c) /\ FullIn(t, c))
      <3>1. \A g \in c \cap Parties : /\ g \in DOMAIN s.data /\ g \in DOMAIN t.data
                                      /\ t.data[g] = s.data[g] /\ t.old[g] = s.old[g]
                                      /\ s.state[g] = "queued" /\ g \notin requeued
        BY <1>2, <2>4 DEF Queueing
      <3>2. (SuitsIn(t, c) <=> SuitsIn(s, c)) /\ (FullIn(t, c) <=> FullIn(s, c))
        BY <2>2, <3>1, ViewSame
      <3>3. ~(SuitsIn(s, c) /\ FullIn(s, c))
        BY <2>1, <3>1 DEF QueueOK, Tidy, Listing, Queueing
      <3>. QED  BY <3>2, <3>3
    <2>. QED  BY <2>2, <2>3, <2>4
  <1>8. Resting(t)
    <2>1. DOMAIN t.checks \subseteq Parties /\ \A g \in DOMAIN t.checks \ requeued : Idle(t, g)
      BY <1>2, <1>3 DEF QueueOK, Tidy, Resting
    <2>2. ASSUME NEW g \in Parties \ requeued, t.parties[g] # NoGroup,
                 t.state[g] \notin {"queued", "proposal"} \/ t.parties[g].members = {}
          PROVE  Idle(t, g)
      <3>1. \/ Idle(t, g)
            \/ /\ s.parties[g] # NoGroup
               /\ s.state[g] \in {"queued", "proposal"} => t.state[g] \in {"queued", "proposal"}
               /\ t.parties[g].members = {} => s.parties[g].members = {}
        BY <2>2 DEF Fades
      <3>2. /\ s.parties[g] # NoGroup
            /\ s.state[g] \notin {"queued", "proposal"} \/ s.parties[g].members = {}
            => Idle(s, g)
        BY DEF QueueOK, Tidy, Resting
      <3>. QED  BY <1>3, <2>2, <3>1, <3>2
    <2>. QED  BY <2>1, <2>2 DEF Resting
  <1>9. Stored(t)
    BY <1>2 DEF QueueOK, Tidy, Stored
  <1>10. Apart(t)
    BY <1>2, <1>3, <1>4 DEF QueueOK, Tidy, Apart, Combined
  <1>. QED  BY <1>6, <1>7, <1>8, <1>9, <1>10 DEF QueueOK, Tidy

(* Every state of a group but "queued" may follow, "proposal" always, the others if it is idle. *)
LEMMA SetStateFades ==
  ASSUME NEW s, FinderOK(s), NEW X, NEW st, st # "queued", NEW N,
         \A g \in (X \cap Parties) \ (N \cup requeued) : st = "proposal" \/ Idle(s, g) \/ s.parties[g] = NoGroup
  PROVE  Fades(s, SetState(s, X, st), N)
  <1>. DEFINE t == SetState(s, X, st)
  <1>1. /\ t.proposals = s.proposals /\ t.parties = s.parties
        /\ t.data = s.data /\ t.new = s.new /\ t.compatible = s.compatible /\ t.checks = s.checks
        /\ \A x \in Entries : t.state[x] = IF x \in X THEN st ELSE s.state[x]
        /\ \A x \in Entries \ X : t.old[x] = s.old[x]
    BY SetStateDoes
  <1>. HIDE DEF t
  <1>2. \A g \in Parties : t.state[g] = "queued" => s.state[g] = "queued" /\ t.old[g] = s.old[g]
    BY <1>1, PlayersAndParties
  <1>3. \A g : Idle(s, g) => Idle(t, g)
    BY <1>1 DEF Idle, Combined
  <1>4. ASSUME NEW g \in Parties \ (N \cup requeued), t.parties[g] # NoGroup
        PROVE  \/ Idle(t, g)
               \/ /\ s.parties[g] # NoGroup
                  /\ s.state[g] \in {"queued", "proposal"} => t.state[g] \in {"queued", "proposal"}
                  /\ t.parties[g].members = {} => s.parties[g].members = {}
    <2>1. CASE g \in X /\ st # "proposal"
      BY <1>1, <1>3, <1>4, <2>1
    <2>2. CASE g \notin X \/ st = "proposal"
      BY <1>1, <1>4, <2>2, PlayersAndParties
    <2>. QED  BY <2>1, <2>2
  <1>5. t.compatible = {c \in s.compatible : c \cap {} = {}} /\ {} \cap DOMAIN t.data = {}
    BY <1>1
  <1>6. Fades(s, t, N)
    BY <1>1, <1>2, <1>4, <1>5 DEF Fades
  <1>. QED  BY <1>6 DEF t

LEMMA RestoreStateFades ==
  ASSUME NEW s, FinderOK(s), NEW X,
         \A g \in (X \cap Parties) \ requeued : Idle(s, g)
  PROVE  Fades(s, RestoreState(s, X), {})
  <1>. DEFINE t == RestoreState(s, X)
  <1>1. /\ t.proposals = s.proposals /\ t.parties = s.parties
        /\ t.data = s.data /\ t.new = s.new /\ t.compatible = s.compatible /\ t.checks = s.checks
        /\ \A x \in Entries : t.state[x] = IF x \in X THEN s.old[x] ELSE s.state[x]
        /\ t.old = s.old
    BY RestoreStateDoes DEF Quiet, Calm
  <1>. HIDE DEF t
  <1>2. \A g \in Parties : t.state[g] = "queued" => s.state[g] = "queued" /\ t.old[g] = s.old[g]
    <2>1. \A g \in Parties : s.old[g] # "queued"
      BY PlayersAndParties DEF FinderOK
    <2>. QED  BY <1>1, <2>1, PlayersAndParties
  <1>3. \A g : Idle(s, g) => Idle(t, g)
    BY <1>1 DEF Idle, Combined
  <1>4. ASSUME NEW g \in Parties \ requeued, t.parties[g] # NoGroup
        PROVE  \/ Idle(t, g)
               \/ /\ s.parties[g] # NoGroup
                  /\ s.state[g] \in {"queued", "proposal"} => t.state[g] \in {"queued", "proposal"}
                  /\ t.parties[g].members = {} => s.parties[g].members = {}
    BY <1>1, <1>3, <1>4, PlayersAndParties
  <1>5. t.compatible = {c \in s.compatible : c \cap {} = {}} /\ {} \cap DOMAIN t.data = {}
    BY <1>1
  <1>6. Fades(s, t, {})
    BY <1>1, <1>2, <1>4, <1>5 DEF Fades
  <1>. QED  BY <1>6 DEF t

(* What is taken out of the queue is idle. *)
LEMMA RemoveFromQueueFades ==
  ASSUME NEW s, FinderOK(s), NEW X
  PROVE  /\ Fades(s, RemoveFromQueue(s, X), {})
         /\ \A x \in X : Idle(RemoveFromQueue(s, X), x)
  <1>. DEFINE t == RemoveFromQueue(s, X)
  <1>1. /\ t.proposals = s.proposals /\ t.parties = s.parties /\ t.state = s.state /\ t.old = s.old
        /\ t.data = Drop(s.data, X) /\ t.new = s.new \ X /\ t.checks = s.checks
        /\ t.compatible = {e \in s.compatible : e \cap X = {}}
    BY RemoveFromQueueDoes DEF Quiet, Calm
  <1>. HIDE DEF t
  <1>2. DOMAIN t.data = DOMAIN s.data \ X /\ \A x \in DOMAIN t.data : t.data[x] = s.data[x]
    BY <1>1 DEF Drop
  <1>3. X \cap DOMAIN t.data = {} /\ s.new \cap DOMAIN t.data \subseteq t.new
    BY <1>1, <1>2
  <1>4. Fades(s, t, {})
    BY <1>1, <1>2, <1>3 DEF Fades
  <1>5. \A x \in X : Idle(t, x)
    BY <1>1, <1>2 DEF Idle, Combined
  <1>. QED  BY <1>4, <1>5 DEF t

LEMMA AddToQueueFades ==
  ASSUME NEW s, FinderOK(s), NEW X
  PROVE  Fades(s, AddToQueue(s, X), {})
  <1>. DEFINE t == AddToQueue(s, X)
  <1>1. /\ t.proposals = s.proposals /\ t.parties = s.parties /\ t.state = s.state /\ t.old = s.old
        /\ t.data = s.data /\ t.new = s.new \cup (X \cap DOMAIN s.data) /\ t.checks = s.checks
        /\ t.compatible = s.compatible
    BY AddToQueueDoes DEF Calm
  <1>. HIDE DEF t
  <1>2. t.compatible = {c \in s.compatible : c \cap {} = {}} /\ {} \cap DOMAIN t.data = {}
    BY <1>1
  <1>3. Fades(s, t, {})
    BY <1>1, <1>2 DEF Fades
  <1>. QED  BY <1>3 DEF t

(* Data and role checks may be dropped, and players log in and out. *)
LEMMA FieldsFade ==
  ASSUME NEW s, FinderOK(s), NEW v
  PROVE  /\ Fades(s, [s EXCEPT !.data = Drop(s.data, v)], {})
         /\ DOMAIN v \subseteq DOMAIN s.checks => Fades(s, [s EXCEPT !.checks = v], {})
         /\ Fades(s, [s EXCEPT !.online = v], {})
  <1>. DEFINE Same(t) == /\ t.state = s.state /\ t.old = s.old /\ t.proposals = s.proposals /\ t.parties = s.parties
                         /\ t.new = s.new /\ t.compatible = s.compatible
  <1>1. ASSUME NEW t, Same(t), DOMAIN t.checks \subseteq DOMAIN s.checks, DOMAIN t.data \subseteq DOMAIN s.data,
               \A x \in DOMAIN t.data : t.data[x] = s.data[x]
        PROVE  Fades(s, t, {})
    <2>1. t.compatible = {c \in s.compatible : c \cap {} = {}} /\ {} \cap DOMAIN t.data = {}
      BY <1>1
    <2>. QED  BY <1>1, <2>1 DEF Fades
  <1>2. Fades(s, [s EXCEPT !.data = Drop(s.data, v)], {})
    <2>. DEFINE d == Drop(s.data, v)  t == [s EXCEPT !.data = d]
    <2>1. DOMAIN d \subseteq DOMAIN s.data /\ \A x \in DOMAIN d : d[x] = s.data[x]
      BY DEF Drop
    <2>. HIDE DEF d
    <2>2. Same(t) /\ t.data = d /\ t.checks = s.checks
      BY DEF FinderOK, Fielded
    <2>. HIDE DEF t, Same
    <2>3. Fades(s, t, {})
      BY <1>1, <2>1, <2>2
    <2>. QED  BY <2>3 DEF t, d
  <1>3. Same([s EXCEPT !.checks = v]) /\ [s EXCEPT !.checks = v].data = s.data /\ [s EXCEPT !.checks = v].checks = v
    BY DEF FinderOK, Fielded
  <1>4. Same([s EXCEPT !.online = v]) /\ [s EXCEPT !.online = v].data = s.data /\ [s EXCEPT !.online = v].checks = s.checks
    BY DEF FinderOK, Fielded
  <1>. HIDE DEF Same
  <1>. QED  BY <1>1, <1>2, <1>3, <1>4

(* A group that comes up or loses its members is idle. *)
LEMMA GroupsFade ==
  ASSUME NEW s, FinderOK(s), NEW v, NEW N,
         \A g \in Parties \ (N \cup requeued) : v[g] # NoGroup =>
             \/ Idle(s, g)
             \/ s.parties[g] # NoGroup /\ (v[g].members = {} => s.parties[g].members = {})
  PROVE  /\ Fades(s, [s EXCEPT !.parties = v], N)
         /\ \A g : Idle(s, g) => Idle([s EXCEPT !.parties = v], g)
  <1>. DEFINE t == [s EXCEPT !.parties = v]
  <1>1. /\ t.state = s.state /\ t.old = s.old /\ t.proposals = s.proposals /\ t.parties = v
        /\ t.new = s.new /\ t.compatible = s.compatible /\ t.data = s.data /\ t.checks = s.checks
    BY DEF FinderOK, Fielded
  <1>. HIDE DEF t
  <1>2. \A g : Idle(s, g) => Idle(t, g)
    BY <1>1 DEF Idle, Combined
  <1>3. t.compatible = {c \in s.compatible : c \cap {} = {}} /\ {} \cap DOMAIN t.data = {}
    BY <1>1
  <1>4. Fades(s, t, N)
    BY <1>1, <1>2, <1>3 DEF Fades
  <1>. QED  BY <1>2, <1>4 DEF t

LEMMA GroupFades ==
  ASSUME NEW s, FinderOK(s), NEW g \in Parties, NEW G,
         G = NoGroup \/ g \in requeued \/ Idle(s, g) \/ (s.parties[g] # NoGroup /\ (G.members = {} => s.parties[g].members = {}))
  PROVE  Fades(s, [s EXCEPT !.parties[g] = G], {})
  <1>. DEFINE w == [s.parties EXCEPT ![g] = G]
  <1>1. \A h \in Parties : w[h] = IF h = g THEN G ELSE s.parties[h]
    BY DEF FinderOK, Grouped
  <1>. HIDE DEF w
  <1>2. Fades(s, [s EXCEPT !.parties = w], {})
    BY <1>1, GroupsFade
  <1>. QED  BY <1>2 DEF w

(* A group that is gone does not count. *)
LEMMA FadesGone ==
  ASSUME NEW s, NEW t, NEW g, Fades(s, t, {g}), t.parties[g] = NoGroup
  PROVE  Fades(s, t, {})
  BY DEF Fades

LEMMA FadesMore ==
  ASSUME NEW s, NEW t, NEW N, Fades(s, t, {})
  PROVE  Fades(s, t, N)
  BY DEF Fades

LEMMA LeaveAllLfgQueuesFades ==
  ASSUME NEW s, FinderOK(s), NEW p, NEW g \in Parties \cup {NoParty},
         p \in Finders \/ g \in Parties
  PROVE  /\ Fades(s, LeaveAllLfgQueues(s, p, g), {})
         /\ g \in Parties => Idle(LeaveAllLfgQueues(s, p, g), g)
  <1>. DEFINE t    == RemoveFromQueue(s, {p, g})
              left == IF g = NoParty THEN {p} ELSE {g} \cup t.parties[g].members
              u    == SetState(t, left, "none")
  <1>1. LeaveAllLfgQueues(s, p, g) = t \/ LeaveAllLfgQueues(s, p, g) = u
    BY DEF LeaveAllLfgQueues
  <1>2. FinderOK(t) /\ Fades(s, t, {}) /\ \A x \in {p, g} : Idle(t, x)
    BY RemoveFromQueueDoes, RemoveFromQueueFades DEF Quiet, Calm
  <1>. HIDE DEF t
  <1>3. \A x \in left \cap Parties : Idle(t, x)
    <2>1. CASE g = NoParty
      BY <1>2, <2>1
    <2>2. CASE g # NoParty
      <3>1. t.parties[g].members \subseteq Finders
        BY <1>2, <2>2 DEF FinderOK, Grouped, GroupOK
      <3>. QED  BY <1>2, <2>2, <3>1, PlayersAndParties
    <2>. QED  BY <2>1, <2>2
  <1>. HIDE DEF left
  <1>4. Fades(t, u, {})
    BY <1>2, <1>3, SetStateFades
  <1>. HIDE DEF u
  <1>5. Fades(s, u, {})
    BY <1>2, <1>4, FadesOn
  <1>6. Idle(t, g) /\ Idle(u, g)
    BY <1>2, <1>4, FadesListed
  <1>. QED  BY <1>1, <1>2, <1>5, <1>6

LEMMA EndRoleCheckFades ==
  ASSUME NEW s, FinderOK(s), QueueOK(s), NEW g
  PROVE  Fades(s, EndRoleCheck(s, g), {})
  <1>. DEFINE X == DOMAIN s.checks[g] \cup {g}
              t == RestoreState(s, X)
              u == [t EXCEPT !.checks = Drop(t.checks, {g})]
  <1>1. IF g \notin DOMAIN s.checks THEN EndRoleCheck(s, g) = s ELSE EndRoleCheck(s, g) = u
    BY DEF EndRoleCheck
  <1>2. CASE g \notin DOMAIN s.checks
    BY <1>1, <1>2, FadesItself
  <1>3. CASE g \in DOMAIN s.checks
    <2>1. \A h \in (X \cap Parties) \ requeued : Idle(s, h)
      <3>1. DOMAIN s.checks[g] \subseteq Finders
        BY <1>3 DEF FinderOK, Checked
      <3>2. g \notin requeued => Idle(s, g)
        BY <1>3 DEF QueueOK, Tidy, Resting
      <3>. QED  BY <3>1, <3>2, PlayersAndParties
    <2>. HIDE DEF X
    <2>2. Fades(s, t, {}) /\ FinderOK(t)
      BY <2>1, RestoreStateFades, RestoreStateDoes DEF Quiet, Calm
    <2>. HIDE DEF t
    <2>3. Fades(t, u, {})
      <3>. DEFINE v == Drop(t.checks, {g})
      <3>1. DOMAIN v \subseteq DOMAIN t.checks
        BY DropKeeps
      <3>. HIDE DEF v
      <3>2. Fades(t, [t EXCEPT !.checks = v], {})
        BY <2>2, <3>1, FieldsFade
      <3>. QED  BY <3>2 DEF v
    <2>. HIDE DEF u
    <2>4. Fades(s, u, {})
      BY <2>2, <2>3, FadesOn
    <2>. QED  BY <1>1, <1>3, <2>4
  <1>. QED  BY <1>2, <1>3

(* The entry x, a player alone or a group whose role check is complete, gets its data and is new in
   the queue; X is who is queued by that. *)
Enters(s, x, who, X, u) ==
    /\ x \in Entries /\ who \subseteq Finders /\ who # {} /\ X \cap Parties = {x} \cap Parties
    /\ x \in Finders => who = {x}
    /\ x \in Parties => (Idle(s, x) \/ x \in requeued) /\ s.parties[x].members # {}
    /\ u.data = With(s.data, x, who) /\ u.new = s.new \cup {x} /\ u.compatible = s.compatible
    /\ u.proposals = s.proposals /\ u.parties = s.parties /\ DOMAIN u.checks \subseteq DOMAIN s.checks \ {x}
    /\ \A y \in Entries : u.state[y] = IF y \in X THEN "queued" ELSE s.state[y]
    /\ \A y \in Entries \ X : u.old[y] = s.old[y]

LEMMA EntersQueue ==
  ASSUME NEW s, QueueOK(s), NEW x, NEW who, NEW X, NEW u, Enters(s, x, who, X, u)
  PROVE  QueueOK(u)
  <1>0. /\ x \in Entries /\ who \subseteq Finders /\ who # {} /\ X \cap Parties = {x} \cap Parties
        /\ x \in Finders => who = {x}
        /\ x \in Parties => (Idle(s, x) \/ x \in requeued) /\ s.parties[x].members # {}
        /\ u.data = With(s.data, x, who) /\ u.new = s.new \cup {x} /\ u.compatible = s.compatible
        /\ u.proposals = s.proposals /\ u.parties = s.parties /\ DOMAIN u.checks \subseteq DOMAIN s.checks \ {x}
        /\ \A y \in Entries : u.state[y] = IF y \in X THEN "queued" ELSE s.state[y]
        /\ \A y \in Entries \ X : u.old[y] = s.old[y]
    BY DEF Enters
  <1>1. /\ DOMAIN u.data = DOMAIN s.data \cup {x} /\ u.data[x] = who
        /\ \A y \in DOMAIN s.data \ {x} : u.data[y] = s.data[y]
    BY <1>0 DEF With
  <1>2. Named(u) = Named(s)
    BY <1>0 DEF Named
  <1>3. \A y : Idle(s, y) /\ y # x => Idle(u, y)
    BY <1>0, <1>1 DEF Idle, Combined
  <1>4. \A g \in Parties : g # x => u.state[g] = s.state[g] /\ u.old[g] = s.old[g]
    BY <1>0, PlayersAndParties
  <1>5. Searched(u)
    <2>. SUFFICES ASSUME NEW e \in SUBSET (DOMAIN u.data \ (u.new \cup Named(u) \cup cutShort \cup requeued)),
                         e # {}, Queueing(u, e), SuitsIn(u, e)
                  PROVE  e \in u.compatible /\ ~FullIn(u, e)
      BY DEF Searched, SearchedExcept
    <2>1. e \in SUBSET (DOMAIN s.data \ (s.new \cup Named(s) \cup cutShort \cup requeued)) /\ e \in SUBSET Entries /\ x \notin e
      BY <1>0, <1>1, <1>2 DEF QueueOK, Tidy, Stored
    <2>2. Queueing(s, e)
      BY <1>4, <2>1 DEF Queueing
    <2>3. \A g \in e \cap Parties : /\ g \in DOMAIN s.data /\ g \in DOMAIN u.data
                                    /\ u.data[g] = s.data[g] /\ u.old[g] = s.old[g]
      BY <1>0, <1>1, <1>4, <2>1
    <2>4. (SuitsIn(u, e) <=> SuitsIn(s, e)) /\ (FullIn(u, e) <=> FullIn(s, e))
      BY <2>1, <2>3, ViewSame
    <2>. QED  BY <1>0, <2>1, <2>2, <2>4 DEF QueueOK, Tidy, Searched, SearchedExcept
  <1>6. Listing(u)
    <2>. SUFFICES ASSUME NEW c \in u.compatible
                  PROVE  /\ c \in SUBSET Entries /\ c # {} /\ \A y \in c : {y} \in u.compatible
                         /\ (\A g \in c \cap Parties : g \in DOMAIN u.data \ requeued) /\ Queueing(u, c)
                               => ~(SuitsIn(u, c) /\ FullIn(u, c))
      BY DEF Listing
    <2>1. c \in SUBSET Entries /\ c # {} /\ \A y \in c : {y} \in s.compatible
      BY <1>0 DEF QueueOK, Tidy, Listing
    <2>2. x \in Parties => x \notin c \/ x \in requeued
      BY <1>0 DEF Idle, Combined
    <2>3. ASSUME \A g \in c \cap Parties : g \in DOMAIN u.data \ requeued, Queueing(u, c)
          PROVE  ~(SuitsIn(u, c) /\ FullIn(u, c))
      <3>1. \A g \in c \cap Parties : /\ g \in DOMAIN s.data /\ g \in DOMAIN u.data
                                      /\ u.data[g] = s.data[g] /\ u.old[g] = s.old[g]
                                      /\ s.state[g] = "queued" /\ g \notin requeued
        BY <1>0, <1>1, <1>4, <2>2, <2>3 DEF Queueing
      <3>2. (SuitsIn(u, c) <=> SuitsIn(s, c)) /\ (FullIn(u, c) <=> FullIn(s, c))
        BY <2>1, <3>1, ViewSame
      <3>3. ~(SuitsIn(s, c) /\ FullIn(s, c))
        BY <1>0, <3>1 DEF QueueOK, Tidy, Listing, Queueing
      <3>. QED  BY <3>2, <3>3
    <2>. QED  BY <1>0, <2>1, <2>3
  <1>7. Resting(u)
    <2>1. DOMAIN u.checks \subseteq Parties /\ \A g \in DOMAIN u.checks \ requeued : Idle(u, g)
      BY <1>0, <1>3 DEF QueueOK, Tidy, Resting
    <2>2. ASSUME NEW g \in Parties \ requeued, u.parties[g] # NoGroup,
                 u.state[g] \notin {"queued", "proposal"} \/ u.parties[g].members = {}
          PROVE  Idle(u, g)
      <3>1. g # x
        BY <1>0, <2>2, PlayersAndParties
      <3>. QED  BY <1>0, <1>3, <1>4, <2>2, <3>1 DEF QueueOK, Tidy, Resting
    <2>. QED  BY <2>1, <2>2 DEF Resting
  <1>8. Stored(u)
    BY <1>0, <1>1, PlayersAndParties DEF QueueOK, Tidy, Stored
  <1>9. Apart(u)
    BY <1>0, <1>2 DEF QueueOK, Tidy, Apart, Combined
  <1>. QED  BY <1>5, <1>6, <1>7, <1>8, <1>9 DEF QueueOK, Tidy

-----------------------------------------------------------------------------
(* Proposals and role checks that end. *)

LEMMA AddQueueDataIs ==
  ASSUME NEW s, FinderOK(s), NEW x, NEW who \in SUBSET Finders
  PROVE  LET t == AddQueueData(s, x, who)
         IN  /\ t.data = With(s.data, x, who) /\ t.new = s.new \cup {x} /\ t.compatible = s.compatible
             /\ t.parties = s.parties /\ t.checks = s.checks /\ t.state = s.state /\ t.old = s.old
             /\ t.proposals = s.proposals /\ FinderOK(t)
  <1>. DEFINE v == With(s.data, x, who)
              t == [s EXCEPT !.data = v]
              u == AddToQueue(t, {x})
  <1>1. AddQueueData(s, x, who) = u
    BY DEF AddQueueData
  <1>2. Manned(v) /\ x \in DOMAIN v
    BY DEF FinderOK, Manned, With
  <1>. HIDE DEF v
  <1>3. Calm(s, t)
    BY <1>2, FieldsFree
  <1>4. /\ t.data = v /\ t.new = s.new /\ t.compatible = s.compatible /\ t.proposals = s.proposals
        /\ t.parties = s.parties /\ t.checks = s.checks /\ t.state = s.state /\ t.old = s.old
    BY DEF FinderOK, Fielded
  <1>. HIDE DEF t
  <1>5. /\ u.parties = t.parties /\ u.state = t.state /\ u.old = t.old
        /\ u.checks = t.checks /\ u.data = t.data /\ Calm(t, u)
        /\ u.new = t.new \cup ({x} \cap DOMAIN t.data) /\ u.compatible = t.compatible
    BY <1>3, AddToQueueDoes DEF Calm
  <1>. HIDE DEF u
  <1>6. u.new = s.new \cup {x} /\ u.proposals = s.proposals /\ FinderOK(u)
    BY <1>2, <1>4, <1>5 DEF Calm
  <1>. QED  BY <1>1, <1>4, <1>5, <1>6 DEF v

LEMMA UpdateRoleCheckQueue ==
  ASSUME NEW s, FinderOK(s), QueueOK(s), NEW g \in Parties, NEW p \in Finders, NEW answer,
         s.parties[g].members # {}
  PROVE  QueueOK(UpdateRoleCheck(s, g, p, answer))
  <1>. DEFINE roles == With(s.checks[g], p, TRUE)
              v == [s.checks EXCEPT ![g] = roles]
              t == [s EXCEPT !.checks = v]
              who == DOMAIN roles
              X == who \cup {g}
              u == SetState(t, X, "queued")
              w == AddQueueData(u, g, who)
              c == Drop(w.checks, {g})
              x == [w EXCEPT !.checks = c]
  <1>1. IF g \in DOMAIN s.checks
        THEN UpdateRoleCheck(s, g, p, answer) \in {EndRoleCheck(s, g), t, EndRoleCheck(t, g), x}
        ELSE UpdateRoleCheck(s, g, p, answer) = s
    BY DEF UpdateRoleCheck
  <1>2. CASE g \notin DOMAIN s.checks
    BY <1>1, <1>2
  <1>3. CASE g \in DOMAIN s.checks
    <2>1. Checked(v) /\ DOMAIN v \subseteq DOMAIN s.checks /\ who \subseteq Finders /\ who # {}
      <3>1. Checked(s.checks)
        BY DEF FinderOK
      <3>2. who \subseteq Finders /\ p \in who
        BY <1>3, <3>1 DEF Checked, With
      <3>. HIDE DEF roles
      <3>3. DOMAIN v = DOMAIN s.checks /\ \A k \in DOMAIN v : v[k] = IF k = g THEN roles ELSE s.checks[k]
        OBVIOUS
      <3>. HIDE DEF v
      <3>. QED  BY <3>1, <3>2, <3>3 DEF Checked
    <2>. HIDE DEF v, roles
    <2>2. FinderOK(t) /\ Fades(s, t, {}) /\ t.parties = s.parties
      <3>1. FinderOK(t) /\ Fades(s, t, {})
        BY <2>1, FieldsFree, FieldsFade DEF Calm
      <3>2. t.parties = s.parties
        BY DEF FinderOK, Fielded
      <3>. QED  BY <3>1, <3>2
    <2>. HIDE DEF t
    <2>3. QueueOK(t) /\ (Idle(t, g) \/ g \in requeued)
      <3>1. Idle(s, g) \/ g \in requeued
        BY <1>3 DEF QueueOK, Tidy, Resting
      <3>. QED  BY <2>2, <3>1, FadesKeeps, FadesListed
    <2>. HIDE DEF who
    <2>4. QueueOK(x)
      <3>1. X \cap Parties = {g} \cap Parties
        BY <2>1, PlayersAndParties
      <3>. HIDE DEF X
      <3>2. /\ FinderOK(u) /\ u.proposals = t.proposals /\ u.parties = t.parties
            /\ u.data = t.data /\ u.new = t.new /\ u.compatible = t.compatible /\ u.checks = t.checks
            /\ \A y \in Entries : u.state[y] = IF y \in X THEN "queued" ELSE t.state[y]
            /\ \A y \in Entries \ X : u.old[y] = t.old[y]
        BY <2>2, SetStateDoes
      <3>. HIDE DEF u
      <3>3. /\ w.data = With(u.data, g, who) /\ w.new = u.new \cup {g} /\ w.compatible = u.compatible
            /\ w.parties = u.parties /\ w.checks = u.checks /\ w.state = u.state /\ w.old = u.old
            /\ w.proposals = u.proposals /\ FinderOK(w)
        BY <2>1, <3>2, AddQueueDataIs
      <3>. HIDE DEF w
      <3>4. DOMAIN c = DOMAIN w.checks \ {g}
        BY DEF Drop
      <3>. HIDE DEF c
      <3>5. /\ x.data = w.data /\ x.new = w.new /\ x.compatible = w.compatible /\ x.proposals = w.proposals
            /\ x.parties = w.parties /\ x.checks = c /\ x.state = w.state /\ x.old = w.old
        BY <3>3 DEF FinderOK, Fielded
      <3>. HIDE DEF x
      <3>6. g \in Entries /\ g \notin Finders /\ t.parties[g].members # {}
        BY <2>2, PlayersAndParties
      <3>7. /\ x.data = With(t.data, g, who) /\ x.new = t.new \cup {g} /\ x.compatible = t.compatible
            /\ x.proposals = t.proposals /\ x.parties = t.parties
            /\ DOMAIN x.checks \subseteq DOMAIN t.checks \ {g}
            /\ \A y \in Entries : x.state[y] = IF y \in X THEN "queued" ELSE t.state[y]
            /\ \A y \in Entries \ X : x.old[y] = t.old[y]
        BY <3>2, <3>3, <3>4, <3>5
      <3>8. Enters(t, g, who, X, x)
        BY <2>1, <2>3, <3>1, <3>6, <3>7 DEF Enters
      <3>. QED  BY <2>3, <3>8, EntersQueue
    <2>5. QueueOK(EndRoleCheck(s, g)) /\ QueueOK(EndRoleCheck(t, g))
      BY <2>2, <2>3, EndRoleCheckFades, FadesKeeps
    <2>. HIDE DEF x
    <2>. QED  BY <1>1, <1>3, <2>3, <2>4, <2>5
  <1>. QED  BY <1>2, <1>3

(* When a proposal is erased, its entries are not in the queue, or they are new in it. *)
LEMMA ProposalGone ==
  ASSUME NEW s, NEW S, s.proposals \in Seq(S), NEW i \in DOMAIN s.proposals,
         NEW u, u.proposals = RemoveAt(s.proposals, i)
  PROVE  /\ Named(u) \subseteq Named(s) /\ Named(s) \subseteq Named(u) \cup s.proposals[i].entries
         /\ \A j \in DOMAIN u.proposals : \E k \in DOMAIN s.proposals : u.proposals[j] = s.proposals[k]
  <1>. DEFINE qs == s.proposals  ps == u.proposals
  <1>. HIDE DEF qs, ps
  <1>1. /\ \A j \in DOMAIN ps : \E k \in DOMAIN qs : ps[j] = qs[k]
        /\ \A k \in DOMAIN qs : k # i => \E j \in DOMAIN ps : ps[j] = qs[k]
    <2>1. qs \in Seq(S) /\ i \in DOMAIN qs /\ ps = RemoveAt(qs, i)
      BY DEF qs, ps
    <2>. QED  BY <2>1, RemoveAtKeeps
  <1>2. Named(u) = UNION {ps[j].entries : j \in DOMAIN ps} /\ Named(s) = UNION {qs[k].entries : k \in DOMAIN qs}
    BY DEF Named, ps, qs
  <1>3. Named(u) \subseteq Named(s)
    BY <1>1, <1>2
  <1>4. ASSUME NEW y \in Named(s) PROVE y \in Named(u) \cup qs[i].entries
    <2>1. PICK k \in DOMAIN qs : y \in qs[k].entries
      BY <1>2
    <2>2. CASE k = i
      BY <2>1, <2>2
    <2>3. CASE k # i
      <3>1. PICK j \in DOMAIN ps : ps[j] = qs[k]
        BY <1>1, <2>3
      <3>. QED  BY <1>2, <2>1, <3>1
    <2>. QED  BY <2>2, <2>3
  <1>. QED  BY <1>1, <1>3, <1>4 DEF qs, ps

LEMMA NamedOnes ==
  ASSUME NEW s, NEW i \in DOMAIN s.proposals
  PROVE  s.proposals[i].entries \subseteq Named(s)
  BY DEF Named

LEMMA RemoveProposalQueue ==
  ASSUME NEW s, FinderOK(s), QueueOK(s), NEW i \in DOMAIN s.proposals, NEW failed
  PROVE  QueueOK(RemoveProposal(s, i, failed))
  <1>. DEFINE P       == s.proposals[i]
              removed == {EntryOf(P, p) : p \in {q \in DOMAIN P.answer :
                             P.answer[q] = "deny" \/ (failed /\ P.answer[q] = "pending")}}
              back    == {p \in DOMAIN P.answer : EntryOf(P, p) \notin removed}
              out     == DOMAIN P.answer \ back
              X == WithEntries(P, out)
              Y == WithEntries(P, back)
              r == RestoreState(s, X)
              t == SetState(r, Y, "queued")
              v == RemoveFromQueue(t, removed)
              u == AddToQueue(v, P.entries \ removed)
              w == [u EXCEPT !.proposals = RemoveAt(u.proposals, i)]
  <1>1. RemoveProposal(s, i, failed) = w
    BY DEF RemoveProposal
  <1>2. P.entries \subseteq Entries /\ \A p \in DOMAIN P.answer : EntryOf(P, p) \in P.entries
    BY DEF QueueOK, Tidy, Apart
  <1>3. /\ removed \subseteq P.entries
        /\ X \cap Parties \subseteq removed /\ Y \cap Parties \subseteq P.entries \ removed
    <2>1. DOMAIN P.answer \subseteq Finders
      BY DEF FinderOK, ProposalOK
    <2>2. removed \subseteq P.entries
      BY <1>2
    <2>3. \A p \in out : p \notin Parties /\ EntryOf(P, p) \in removed
      BY <2>1, PlayersAndParties
    <2>4. \A p \in back : p \notin Parties /\ EntryOf(P, p) \in P.entries \ removed
      BY <1>2, <2>1, PlayersAndParties
    <2>. HIDE DEF out, back, removed
    <2>. QED  BY <2>2, <2>3, <2>4 DEF WithEntries
  <1>. HIDE DEF X, Y, removed
  <1>4. /\ FinderOK(r) /\ r.parties = s.parties /\ r.data = s.data /\ r.checks = s.checks /\ r.proposals = s.proposals
        /\ r.old = s.old /\ r.new = s.new /\ r.compatible = s.compatible
        /\ \A x \in Entries : r.state[x] = IF x \in X THEN s.old[x] ELSE s.state[x]
    BY RestoreStateDoes DEF Quiet, Calm
  <1>. HIDE DEF r
  <1>5. /\ FinderOK(t) /\ t.parties = r.parties /\ t.data = r.data /\ t.checks = r.checks /\ t.proposals = r.proposals
        /\ t.new = r.new /\ t.compatible = r.compatible
        /\ \A x \in Entries : t.state[x] = IF x \in Y THEN "queued" ELSE r.state[x]
        /\ \A x \in Entries \ Y : t.old[x] = r.old[x]
    BY <1>4, SetStateDoes
  <1>. HIDE DEF t
  <1>6. /\ FinderOK(v) /\ v.parties = t.parties /\ v.checks = t.checks /\ v.proposals = t.proposals
        /\ v.state = t.state /\ v.old = t.old /\ v.data = Drop(t.data, removed)
        /\ v.new = t.new \ removed /\ v.compatible = {e \in t.compatible : e \cap removed = {}}
    BY <1>5, RemoveFromQueueDoes DEF Quiet, Calm
  <1>. HIDE DEF v
  <1>7. /\ FinderOK(u) /\ u.parties = v.parties /\ u.checks = v.checks /\ u.proposals = v.proposals
        /\ u.state = v.state /\ u.old = v.old /\ u.data = v.data /\ u.compatible = v.compatible
        /\ u.new = v.new \cup ((P.entries \ removed) \cap DOMAIN v.data)
    <2>. HIDE DEF P
    <2>. QED  BY <1>6, AddToQueueDoes DEF Calm
  <1>. HIDE DEF u
  <1>8. /\ w.parties = u.parties /\ w.checks = u.checks /\ w.proposals = RemoveAt(u.proposals, i)
        /\ w.state = u.state /\ w.old = u.old /\ w.data = u.data /\ w.compatible = u.compatible /\ w.new = u.new
    BY <1>7 DEF FinderOK, Fielded
  <1>. HIDE DEF w
  <1>9. /\ w.parties = s.parties /\ w.checks = s.checks /\ w.proposals = RemoveAt(s.proposals, i)
        /\ w.data = Drop(s.data, removed)
        /\ w.compatible = {e \in s.compatible : e \cap removed = {}}
        /\ w.new = (s.new \ removed) \cup ((P.entries \ removed) \cap DOMAIN w.data)
    BY <1>4, <1>5, <1>6, <1>7, <1>8
  <1>10. \A g \in Parties : g \notin P.entries => w.state[g] = s.state[g] /\ w.old[g] = s.old[g]
    BY <1>3, <1>4, <1>5, <1>6, <1>7, <1>8, PlayersAndParties
  <1>11. \A g \in Parties : \/ g \in removed \/ w.state[g] = "queued" \/ w.state[g] = s.state[g]
    BY <1>3, <1>4, <1>5, <1>6, <1>7, <1>8, PlayersAndParties
  <1>12. DOMAIN w.data = DOMAIN s.data \ removed /\ \A x \in DOMAIN w.data : w.data[x] = s.data[x]
    BY <1>9 DEF Drop
  <1>13. /\ Named(w) \subseteq Named(s) /\ Named(s) \subseteq Named(w) \cup P.entries
         /\ \A j \in DOMAIN w.proposals : \E k \in DOMAIN s.proposals : w.proposals[j] = s.proposals[k]
         /\ P.entries \subseteq Named(s)
    <2>1. s.proposals \in Seq(Range(s.proposals))
      BY DEF FinderOK
    <2>. QED  BY <1>9, <2>1, ProposalGone, NamedOnes
  <1>. HIDE DEF P
  <1>14. \A x : x \in removed \/ Idle(s, x) => Idle(w, x)
    BY <1>9, <1>12 DEF Idle, Combined
  <1>15. Searched(w)
    <2>. SUFFICES ASSUME NEW e \in SUBSET (DOMAIN w.data \ (w.new \cup Named(w) \cup cutShort \cup requeued)),
                         e # {}, Queueing(w, e), SuitsIn(w, e)
                  PROVE  e \in w.compatible /\ ~FullIn(w, e)
      BY DEF Searched, SearchedExcept
    <2>1. e \cap P.entries = {} /\ e \cap removed = {}
      BY <1>9, <1>12
    <2>2. e \in SUBSET (DOMAIN s.data \ (s.new \cup Named(s) \cup cutShort \cup requeued)) /\ e \in SUBSET Entries
      BY <1>9, <1>12, <1>13, <2>1 DEF QueueOK, Tidy, Stored
    <2>3. \A g \in e \cap Parties : /\ g \in DOMAIN s.data /\ g \in DOMAIN w.data
                                    /\ w.data[g] = s.data[g] /\ w.old[g] = s.old[g] /\ w.state[g] = s.state[g]
      BY <1>10, <1>12, <2>1, <2>2
    <2>4. (SuitsIn(w, e) <=> SuitsIn(s, e)) /\ (FullIn(w, e) <=> FullIn(s, e))
      BY <2>2, <2>3, ViewSame
    <2>5. Queueing(s, e)
      BY <2>3 DEF Queueing
    <2>6. e \in s.compatible /\ ~FullIn(s, e)
      BY <2>2, <2>4, <2>5 DEF QueueOK, Tidy, Searched, SearchedExcept
    <2>. QED  BY <1>9, <2>1, <2>4, <2>6
  <1>16. Listing(w)
    <2>. SUFFICES ASSUME NEW c \in w.compatible
                  PROVE  /\ c \in SUBSET Entries /\ c # {} /\ \A y \in c : {y} \in w.compatible
                         /\ (\A g \in c \cap Parties : g \in DOMAIN w.data \ requeued) /\ Queueing(w, c)
                               => ~(SuitsIn(w, c) /\ FullIn(w, c))
      BY DEF Listing
    <2>1. c \in s.compatible /\ c \cap removed = {}
      BY <1>9
    <2>2. c \in SUBSET Entries /\ c # {} /\ \A y \in c : {y} \in s.compatible
      BY <2>1 DEF QueueOK, Tidy, Listing
    <2>3. \A y \in c : {y} \in w.compatible
      BY <1>9, <2>1, <2>2
    <2>4. \A g \in c \cap Parties : g \in P.entries => g \in requeued
      BY <1>13, <2>1 DEF QueueOK, Tidy, Apart, Combined
    <2>5. ASSUME \A g \in c \cap Parties : g \in DOMAIN w.data \ requeued, Queueing(w, c)
          PROVE  ~(SuitsIn(w, c) /\ FullIn(w, c))
      <3>1. \A g \in c \cap Parties : /\ g \in DOMAIN s.data /\ g \in DOMAIN w.data
                                      /\ w.data[g] = s.data[g] /\ w.old[g] = s.old[g]
                                      /\ s.state[g] = "queued" /\ g \notin requeued
        BY <1>10, <1>12, <2>4, <2>5 DEF Queueing
      <3>2. (SuitsIn(w, c) <=> SuitsIn(s, c)) /\ (FullIn(w, c) <=> FullIn(s, c))
        BY <2>2, <3>1, ViewSame
      <3>3. ~(SuitsIn(s, c) /\ FullIn(s, c))
        BY <2>1, <3>1 DEF QueueOK, Tidy, Listing, Queueing
      <3>. QED  BY <3>2, <3>3
    <2>. QED  BY <2>2, <2>3, <2>5
  <1>17. Resting(w)
    <2>1. DOMAIN w.checks \subseteq Parties /\ \A g \in DOMAIN w.checks \ requeued : Idle(w, g)
      BY <1>9, <1>14 DEF QueueOK, Tidy, Resting
    <2>2. ASSUME NEW g \in Parties \ requeued, w.parties[g] # NoGroup,
                 w.state[g] \notin {"queued", "proposal"} \/ w.parties[g].members = {}
          PROVE  Idle(w, g)
      <3>1. CASE g \in removed
        BY <1>14, <3>1
      <3>2. CASE g \notin removed
        <4>1. s.parties[g] # NoGroup /\ (s.state[g] \notin {"queued", "proposal"} \/ s.parties[g].members = {})
          BY <1>9, <1>11, <2>2, <3>2
        <4>. QED  BY <1>14, <4>1 DEF QueueOK, Tidy, Resting
      <3>. QED  BY <3>1, <3>2
    <2>. QED  BY <2>1, <2>2 DEF Resting
  <1>18. Stored(w)
    BY <1>12 DEF QueueOK, Tidy, Stored
  <1>19. Apart(w)
    <2>1. \A g \in (Named(w) \cap Parties) \ requeued : ~Combined(w, g)
      BY <1>9, <1>13 DEF QueueOK, Tidy, Apart, Combined
    <2>. QED  BY <1>13, <2>1 DEF QueueOK, Tidy, Apart
  <1>20. QueueOK(w)
    BY <1>15, <1>16, <1>17, <1>18, <1>19 DEF QueueOK, Tidy
  <1>. QED  BY <1>1, <1>20

-----------------------------------------------------------------------------
(* Parties. *)

(* An answer names nobody, and so changes nothing in the queue. *)
LEMMA AnsweredQueue ==
  ASSUME NEW s, FinderOK(s), QueueOK(s), NEW i \in DOMAIN s.proposals, NEW p, NEW a
  PROVE  LET t == [s EXCEPT !.proposals[i].answer[p] = a]
         IN  QueueOK(t) /\ t.proposals[i].entries = s.proposals[i].entries
             /\ t.proposals[i].group = s.proposals[i].group
  <1>. DEFINE qs == s.proposals
              P == qs[i]
              f == [P.answer EXCEPT ![p] = a]
              Q == [P EXCEPT !.answer = f]
              ps == [qs EXCEPT ![i] = Q]
              t == [s EXCEPT !.proposals = ps]
  <1>1. [s EXCEPT !.proposals[i].answer[p] = a] = t
    OBVIOUS
  <1>2. DOMAIN f = DOMAIN P.answer
    OBVIOUS
  <1>. HIDE DEF f
  <1>3. Q.answer = f /\ Q.group = P.group /\ Q.entries = P.entries /\ Q.from = P.from
    <2>1. ProposalOK(P)
      BY DEF FinderOK
    <2>. HIDE DEF P
    <2>. QED  BY <2>1 DEF ProposalOK
  <1>. HIDE DEF Q
  <1>4. DOMAIN ps = DOMAIN qs /\ \A j \in DOMAIN qs : ps[j] = IF j = i THEN Q ELSE qs[j]
    OBVIOUS
  <1>. HIDE DEF ps
  <1>5. /\ t.proposals = ps /\ t.state = s.state /\ t.old = s.old /\ t.parties = s.parties
        /\ t.data = s.data /\ t.new = s.new /\ t.compatible = s.compatible /\ t.checks = s.checks
    BY DEF FinderOK, Fielded
  <1>. HIDE DEF t
  <1>6. \A j \in DOMAIN qs : /\ ps[j].entries = qs[j].entries /\ ps[j].group = qs[j].group
                             /\ ps[j].from = qs[j].from /\ DOMAIN ps[j].answer = DOMAIN qs[j].answer
    BY <1>2, <1>3, <1>4
  <1>7. Named(t) = Named(s)
    BY <1>4, <1>5, <1>6 DEF Named
  <1>8. View(t) = View(s) /\ t.old = s.old
    BY <1>5 DEF View
  <1>9. Searched(t)
    BY <1>5, <1>7, <1>8 DEF QueueOK, Tidy, Searched, SearchedExcept, Queueing, SuitsIn, FullIn
  <1>10. Listing(t)
    BY <1>5, <1>8 DEF QueueOK, Tidy, Listing, Queueing, SuitsIn, FullIn
  <1>11. Resting(t) /\ Stored(t)
    BY <1>5 DEF QueueOK, Tidy, Resting, Stored, Idle, Combined
  <1>12. Apart(t)
    <2>1. \A g \in (Named(t) \cap Parties) \ requeued : ~Combined(t, g)
      BY <1>5, <1>7 DEF QueueOK, Tidy, Apart, Combined
    <2>2. ASSUME NEW j \in DOMAIN qs
          PROVE  /\ ps[j].entries \subseteq Entries /\ ps[j].group \in ps[j].entries \cup {NoParty}
                 /\ \A q \in DOMAIN ps[j].answer : EntryOf(ps[j], q) \in ps[j].entries
      <3>1. /\ qs[j].entries \subseteq Entries /\ qs[j].group \in qs[j].entries \cup {NoParty}
            /\ \A q \in DOMAIN qs[j].answer : EntryOf(qs[j], q) \in qs[j].entries
        BY DEF QueueOK, Tidy, Apart
      <3>2. \A q : EntryOf(ps[j], q) = EntryOf(qs[j], q)
        BY <1>6 DEF EntryOf
      <3>. QED  BY <1>6, <3>1, <3>2
    <2>. QED  BY <1>4, <1>5, <2>1, <2>2 DEF Apart
  <1>13. QueueOK(t)
    BY <1>9, <1>10, <1>11, <1>12 DEF QueueOK, Tidy
  <1>. QED  BY <1>1, <1>5, <1>6, <1>13 DEF t

LEMMA DenyFirstQueue ==
  ASSUME NEW s, AskedWell(s), QueueOK(s), NEW p
  PROVE  QueueOK(DenyFirst(s, p))
  <1>. DEFINE with == {i \in DOMAIN s.proposals : p \in DOMAIN s.proposals[i].answer}
              m == Min(with)
              t == [s EXCEPT !.proposals[m].answer[p] = "deny"]
  <1>1. DenyFirst(s, p) = IF with = {} THEN s ELSE RemoveProposal(t, m, FALSE)
    BY DEF DenyFirst
  <1>2. ASSUME with # {} PROVE m \in DOMAIN s.proposals
    <2>1. with \in SUBSET Nat
      <3>1. s.proposals \in Seq(Range(s.proposals))
        BY DEF AskedWell, FinderOK
      <3>. DEFINE qs == s.proposals
      <3>. HIDE DEF qs
      <3>2. qs \in Seq(Range(qs)) => DOMAIN qs \subseteq Nat
        BY LenProperties
      <3>. QED  BY <3>1, <3>2 DEF qs
    <2>. HIDE DEF with
    <2>2. \E i \in with : \A j \in with : i <= j
      BY <1>2, <2>1, Least
    <2>3. m \in with
      BY <2>2 DEF Min
    <2>. QED  BY <2>3 DEF with
  <1>. HIDE DEF m, with
  <1>3. ASSUME m \in DOMAIN s.proposals PROVE AskedWell(t) /\ m \in DOMAIN t.proposals /\ QueueOK(t)
    BY <1>3, AnsweredKeeps, AnsweredQueue DEF AskedWell
  <1>. HIDE DEF t
  <1>4. ASSUME m \in DOMAIN s.proposals PROVE QueueOK(RemoveProposal(t, m, FALSE))
    BY <1>3, <1>4, RemoveProposalQueue DEF AskedWell
  <1>. QED  BY <1>1, <1>2, <1>4

LEMMA LeaveLfgQueue ==
  ASSUME NEW s, FinderOK(s), QueueOK(s), NEW x \in Entries
  PROVE  /\ s.state[x] # "proposal" => Fades(s, LeaveLfg(s, x), {})
         /\ AskedWell(s) => QueueOK(LeaveLfg(s, x))
  <1>. DEFINE g == IF x \in Parties THEN x ELSE PartyOf(s, x)
              who == IF g = NoParty THEN {x} ELSE {g} \cup s.parties[g].members
              y == IF g = NoParty THEN x ELSE g
              r == RemoveFromQueue(s, {y})
              t == SetState(r, who, "none")
              e == EndRoleCheck(s, g)
              d == DenyFirst(s, IF g = x THEN s.parties[g].leader ELSE x)
              n == SetState(s, {x}, "none")
  <1>1. /\ s.state[x] # "proposal" => LeaveLfg(s, x) \in {t, e, s} \/ (x \notin Parties /\ LeaveLfg(s, x) = n)
        /\ s.state[x] = "proposal" => LeaveLfg(s, x) \in {d, s}
    BY DEF LeaveLfg
  <1>2. g \in Parties \cup {NoParty} /\ (g = NoParty => x \notin Parties)
    BY PartyOfIs, DungeonAssumption
  <1>3. \A h \in who \cap Parties : h = y
    <2>1. g \in Parties => s.parties[g].members \subseteq Finders
      BY DEF FinderOK, Grouped, GroupOK
    <2>. QED  BY <1>2, <2>1, PlayersAndParties
  <1>. HIDE DEF g, who, y
  <1>4. Fades(s, t, {})
    <2>1. FinderOK(r) /\ Fades(s, r, {}) /\ Idle(r, y)
      BY RemoveFromQueueDoes, RemoveFromQueueFades DEF Quiet, Calm
    <2>. HIDE DEF r
    <2>2. Fades(r, t, {})
      BY <1>3, <2>1, SetStateFades
    <2>. HIDE DEF t
    <2>. QED  BY <2>1, <2>2, FadesOn
  <1>5. Fades(s, e, {}) /\ Fades(s, s, {})
    BY EndRoleCheckFades, FadesItself
  <1>6. x \notin Parties => Fades(s, n, {})
    BY SetStateFades
  <1>7. AskedWell(s) => QueueOK(d)
    BY DenyFirstQueue
  <1>. HIDE DEF t, e, d, n
  <1>8. s.state[x] # "proposal" => Fades(s, LeaveLfg(s, x), {})
    BY <1>1, <1>4, <1>5, <1>6
  <1>. QED  BY <1>1, <1>7, <1>8, FadesKeeps

LEMMA OnAddMemberFades ==
  ASSUME NEW s, FinderOK(s), QueueOK(s), NEW g \in Parties, NEW p \in Finders
  PROVE  Fades(s, OnAddMember(s, g, p), {})
  <1>. DEFINE leader == s.parties[g].leader
              Unqueue(t, x) == IF p # leader /\ s.state[x] = "queued" THEN LeaveLfg(t, x) ELSE t
              a == Unqueue(s, p)
              u == Unqueue(a, g)
              l == LeaveAllLfgQueues(u, leader, g)
              m == LeaveAllLfgQueues(l, p, NoParty)
  <1>1. OnAddMember(s, g, p) = IF s.parties[g].lfg THEN u ELSE m
    BY DEF OnAddMember
  <1>2. Fades(s, a, {}) /\ FinderOK(a) /\ \A y \in Entries : a.state[y] \in {s.state[y], "none"}
    <2>1. CASE a = s
      BY <2>1, FadesItself
    <2>2. CASE s.state[p] = "queued" /\ a = LeaveLfg(s, p)
      <3>1. p \in Entries
        BY PlayersAndParties
      <3>. HIDE DEF a
      <3>. QED  BY <2>2, <3>1, LeaveLfgDoes, LeaveLfgQueue DEF Quiet, Calm
    <2>. QED  BY <2>1, <2>2
  <1>. HIDE DEF a
  <1>3. QueueOK(a)
    BY <1>2, FadesKeeps
  <1>4. Fades(a, u, {}) /\ FinderOK(u)
    <2>1. CASE u = a
      BY <1>2, <2>1, FadesItself
    <2>2. CASE s.state[g] = "queued" /\ u = LeaveLfg(a, g)
      <3>1. g \in Entries
        BY PlayersAndParties
      <3>2. a.state[g] # "proposal"
        BY <1>2, <2>2, <3>1
      <3>. HIDE DEF u
      <3>. QED  BY <1>2, <1>3, <2>2, <3>1, <3>2, LeaveLfgDoes, LeaveLfgQueue DEF Quiet, Calm
    <2>. QED  BY <2>1, <2>2
  <1>. HIDE DEF u, leader
  <1>5. Fades(u, l, {}) /\ FinderOK(l)
    BY <1>4, LeaveAllLfgQueuesDoes, LeaveAllLfgQueuesFades DEF Quiet, Calm
  <1>. HIDE DEF l
  <1>6. Fades(l, m, {})
    BY <1>5, PlayersAndParties, LeaveAllLfgQueuesFades
  <1>. HIDE DEF m
  <1>. QED  BY <1>1, <1>2, <1>4, <1>5, <1>6, FadesOn

(* A group that a player joins has somebody in it, or is not in the queue. *)
LEMMA JoinPartyFades ==
  ASSUME NEW s, FinderOK(s), QueueOK(s), NEW g \in Parties, NEW p \in Finders,
         Idle(s, g) \/ g \in requeued \/ s.parties[g].members # {}
  PROVE  Fades(s, JoinParty(s, g, p), {}) /\ JoinParty(s, g, p).parties[g].members # {}
  <1>. DEFINE v == [h \in Parties |-> [s.parties[h] EXCEPT !.invited = s.parties[h].invited \ {p}]]
              t == [s EXCEPT !.parties = v]
              u == OnAddMember(t, g, p)
              m == [u.parties[g] EXCEPT !.members = u.parties[g].members \cup {p}]
              w == [u.parties EXCEPT ![g] = m]
              x == [u EXCEPT !.parties = w]
  <1>1. JoinParty(s, g, p) = x
    BY DEF JoinParty
  <1>2. /\ Grouped(v)
        /\ \A h \in Parties : v[h] # NoGroup => s.parties[h] # NoGroup /\ v[h].members = s.parties[h].members
        /\ v[g].members = s.parties[g].members
    <2>1. \A h \in Parties : GroupOK(s.parties[h]) /\ GroupOK([s.parties[h] EXCEPT !.invited = s.parties[h].invited \ {p}])
      BY GroupEdit DEF FinderOK, Grouped
    <2>2. Grouped(v)
      BY <2>1 DEF Grouped
    <2>3. \A h \in Parties : v[h].members = s.parties[h].members
      BY <2>1 DEF GroupOK
    <2>4. ASSUME NEW h \in Parties, s.parties[h] = NoGroup PROVE v[h] = NoGroup
      <3>1. v[h] = [NoGroup EXCEPT !.invited = NoGroup.invited \ {p}]
        BY <2>4
      <3>2. NoGroup.invited \ {p} = NoGroup.invited
        BY DEF NoGroup
      <3>3. [NoGroup EXCEPT !.invited = NoGroup.invited] = NoGroup
        BY DEF NoGroup
      <3>. HIDE DEF v
      <3>. QED  BY <3>1, <3>2, <3>3
    <2>. HIDE DEF v
    <2>. QED  BY <2>2, <2>3, <2>4
  <1>. HIDE DEF v
  <1>3. /\ FinderOK(t) /\ Fades(s, t, {}) /\ t.parties = v
    <2>1. Fades(s, t, {})
      BY <1>2, GroupsFade
    <2>2. Calm(s, t)
      BY <1>2, FieldsFree
    <2>3. t.parties = v
      BY DEF FinderOK, Fielded
    <2>. HIDE DEF t
    <2>. QED  BY <2>1, <2>2, <2>3 DEF Calm
  <1>. HIDE DEF t
  <1>4. QueueOK(t) /\ (Idle(s, g) => Idle(t, g))
    BY <1>3, FadesKeeps, FadesListed
  <1>5. FinderOK(u) /\ Fades(t, u, {}) /\ u.parties = t.parties
    BY <1>3, <1>4, OnAddMemberDoes, OnAddMemberFades DEF Quiet, Calm
  <1>. HIDE DEF u
  <1>6. \A h \in Parties : w[h] = IF h = g THEN m ELSE u.parties[h]
    BY <1>5 DEF FinderOK, Grouped
  <1>7. m.members = u.parties[g].members \cup {p}
    BY <1>5 DEF FinderOK, Grouped, GroupOK
  <1>8. Idle(u, g) \/ g \in requeued \/ u.parties[g].members # {}
    BY <1>2, <1>3, <1>4, <1>5, FadesListed
  <1>9. u.parties[g].members # {} => u.parties[g] # NoGroup
    BY DEF NoGroup
  <1>. HIDE DEF m, w
  <1>10. Fades(u, x, {})
    <2>1. \A h \in Parties \ requeued : w[h] # NoGroup =>
             \/ Idle(u, h)
             \/ u.parties[h] # NoGroup /\ (w[h].members = {} => u.parties[h].members = {})
      BY <1>6, <1>7, <1>8, <1>9
    <2>. QED  BY <1>5, <2>1, GroupsFade
  <1>11. x.parties[g].members # {}
    <2>1. x.parties = w
      BY <1>5 DEF FinderOK, Fielded
    <2>. QED  BY <1>6, <1>7, <2>1
  <1>. HIDE DEF x
  <1>12. Fades(s, x, {})
    BY <1>3, <1>5, <1>10, FadesOn
  <1>. QED  BY <1>1, <1>11, <1>12

LEMMA OnRemoveMemberFades ==
  ASSUME NEW s, FinderOK(s), QueueOK(s), NEW g \in Parties, NEW p \in Finders, NEW method
  PROVE  LET x == OnRemoveMember(s, g, p, method)
             left == s.state[g] = "proposal" /\ method = "default"
         IN  /\ left \/ s.state[p] # "proposal" => Fades(s, x, {g})
             /\ left /\ s.parties[g].members \ {p} # {} => Fades(s, x, {})
             /\ ~left /\ s.state[p] # "proposal" => Fades(s, x, {})
             /\ ~left /\ AskedWell(s) => QueueOK(x)
  <1>. DEFINE left == s.state[g] = "proposal" /\ method = "default"
              l == LeaveLfg(s, p)
              m == LeaveAllLfgQueues(l, p, g)
              x(t) == [t EXCEPT !.parties[g].members = t.parties[g].members \ {p}]
  <1>1. OnRemoveMember(s, g, p, method) = IF left THEN x(s) ELSE x(m)
    BY DEF OnRemoveMember
  <1>2. ASSUME NEW t, FinderOK(t)
        PROVE  /\ Fades(t, x(t), {g})
               /\ Idle(t, g) \/ t.parties[g].members \ {p} # {} => Fades(t, x(t), {})
    <2>. DEFINE v == [t.parties[g] EXCEPT !.members = t.parties[g].members \ {p}]
                w == [t.parties EXCEPT ![g] = v]
    <2>1. x(t) = [t EXCEPT !.parties = w]
      OBVIOUS
    <2>2. v.members = t.parties[g].members \ {p}
      BY <1>2 DEF FinderOK, Grouped, GroupOK
    <2>3. \A h \in Parties : w[h] = IF h = g THEN v ELSE t.parties[h]
      BY <1>2 DEF FinderOK, Grouped
    <2>4. t.parties[g].members # {} => t.parties[g] # NoGroup
      BY DEF NoGroup
    <2>. HIDE DEF v, w
    <2>5. Fades(t, [t EXCEPT !.parties = w], {g})
      BY <1>2, <2>3, GroupsFade
    <2>6. ASSUME Idle(t, g) \/ t.parties[g].members \ {p} # {} PROVE Fades(t, [t EXCEPT !.parties = w], {})
      <3>1. \A h \in Parties : w[h] # NoGroup =>
               \/ Idle(t, h)
               \/ t.parties[h] # NoGroup /\ (w[h].members = {} => t.parties[h].members = {})
        BY <2>2, <2>3, <2>4, <2>6
      <3>. QED  BY <1>2, <3>1, GroupsFade
    <2>. QED  BY <2>1, <2>5, <2>6
  <1>. HIDE DEF x
  <1>3. p \in Entries /\ (FinderOK(l) => FinderOK(m) /\ Fades(l, m, {}) /\ Idle(m, g))
    BY PlayersAndParties, LeaveAllLfgQueuesDoes, LeaveAllLfgQueuesFades DEF Quiet, Calm
  <1>. HIDE DEF m
  <1>4. /\ s.state[p] # "proposal" => FinderOK(l) /\ Fades(s, l, {})
        /\ AskedWell(s) => FinderOK(l) /\ QueueOK(l)
    BY <1>3, LeaveLfgDoes, LeaveLfgQueue DEF AskedWell, Quiet, Calm
  <1>. HIDE DEF l
  <1>5. ASSUME s.state[p] # "proposal" PROVE Fades(s, x(m), {})
    <2>1. FinderOK(m) /\ Fades(s, m, {}) /\ Idle(m, g)
      BY <1>3, <1>4, <1>5, FadesOn
    <2>2. Fades(m, x(m), {})
      BY <1>2, <2>1
    <2>. QED  BY <2>1, <2>2, FadesOn
  <1>6. ASSUME AskedWell(s) PROVE QueueOK(x(m))
    <2>1. FinderOK(m) /\ QueueOK(m) /\ Idle(m, g)
      BY <1>3, <1>4, <1>6, FadesKeeps
    <2>. QED  BY <1>2, <2>1, FadesKeeps
  <1>7. /\ Fades(s, x(s), {g})
        /\ s.parties[g].members \ {p} # {} => Fades(s, x(s), {})
    BY <1>2
  <1>8. s.state[p] # "proposal" => Fades(s, x(m), {g})
    BY <1>5, FadesMore
  <1>. QED  BY <1>1, <1>5, <1>6, <1>7, <1>8

LEMMA DisbandPartyFades ==
  ASSUME NEW s, FinderOK(s), NEW g \in Parties
  PROVE  Fades(s, DisbandParty(s, g), {}) /\ DisbandParty(s, g).parties[g] = NoGroup
  <1>. DEFINE t == IF s.state[g] = "proposal" THEN s ELSE SetState(s, s.parties[g].members, "none")
              u == SetState(t, {g}, "none")
              x == [u EXCEPT !.parties[g] = NoGroup]
  <1>1. DisbandParty(s, g) = x
    BY DEF DisbandParty
  <1>2. Fades(s, t, {}) /\ FinderOK(t)
    <2>1. s.parties[g].members \subseteq Finders
      BY DEF FinderOK, Grouped, GroupOK
    <2>2. \A h \in s.parties[g].members \cap Parties : FALSE
      BY <2>1, PlayersAndParties
    <2>3. Fades(s, SetState(s, s.parties[g].members, "none"), {})
      BY <2>2, SetStateFades
    <2>. QED  BY <2>3, SetStateDoes, FadesItself
  <1>. HIDE DEF t
  <1>3. Fades(t, u, {g}) /\ FinderOK(u)
    BY <1>2, SetStateDoes, SetStateFades
  <1>. HIDE DEF u
  <1>4. Fades(u, x, {}) /\ x.parties[g] = NoGroup
    <2>1. Fades(u, [u EXCEPT !.parties[g] = NoGroup], {})
      BY <1>3, GroupFades
    <2>2. [u EXCEPT !.parties[g] = NoGroup].parties[g] = NoGroup
      BY <1>3 DEF FinderOK, Fielded, Grouped
    <2>. QED  BY <2>1, <2>2
  <1>. HIDE DEF x
  <1>5. Fades(s, x, {g})
    <2>1. Fades(s, u, {} \cup {g})
      BY <1>2, <1>3, FadesFollows
    <2>2. Fades(s, x, ({} \cup {g}) \cup {})
      BY <1>4, <2>1, FadesFollows
    <2>. QED  BY <2>2
  <1>6. Fades(s, x, {})
    BY <1>4, <1>5, FadesGone
  <1>. QED  BY <1>1, <1>4, <1>6

LEMMA MoreThanOne ==
  ASSUME NEW S \in SUBSET Finders, NEW p, NEW n \in Nat \ {0}, ~(Cardinality(S) <= n)
  PROVE  S \ {p} # {}
  <1>. SUFFICES ASSUME S \ {p} = {} PROVE FALSE
    OBVIOUS
  <1>1. S = {} \/ S = {p}
    OBVIOUS
  <1>2. Cardinality(S) = 0 \/ Cardinality(S) = 1
    BY <1>1, FS_EmptySet, FS_Singleton
  <1>. QED  BY <1>2

LEMMA LeaveGroupQueue ==
  ASSUME NEW s, FinderOK(s), QueueOK(s), NEW g \in Parties, NEW p \in Finders, NEW method, NEW inside
  PROVE  /\ AskedWell(s) => QueueOK(LeaveGroup(s, g, p, method, inside))
         /\ s.state[p] # "proposal" => Fades(s, LeaveGroup(s, g, p, method, inside), {})
  <1>. DEFINE G      == s.parties[g]
              others == (G.members \ {p}) \cap s.online
              leader == IF G.leader = p /\ others # {} THEN CHOOSE q \in others : TRUE ELSE G.leader
              H == [G EXCEPT !.leader = leader]
              led == [s EXCEPT !.parties[g] = H]
              a == OnRemoveMember(s, g, p, method)
              b == OnRemoveMember(led, g, p, method)
              c == DisbandIfFew(b, g, inside)
              left == s.state[g] = "proposal" /\ method = "default"
  <1>1. LeaveGroup(s, g, p, method, inside) = IF Cardinality(G.members) <= LeastMembers(G) THEN DisbandParty(a, g) ELSE c
    BY DEF LeaveGroup
  <1>2. GroupOK(H) /\ H.members = G.members /\ G.members \subseteq Finders
    <2>1. GroupOK(G)
      BY DEF FinderOK, Grouped
    <2>. HIDE DEF G, leader
    <2>. QED  BY <2>1, GroupEdit DEF GroupOK
  <1>3. \A d : FinderOK(d) => Fades(d, DisbandParty(d, g), {}) /\ DisbandParty(d, g).parties[g] = NoGroup
    BY DisbandPartyFades
  <1>4. c = b \/ c = DisbandParty(b, g)
    BY DEF DisbandIfFew
  <1>5. /\ left \/ s.state[p] # "proposal" => Fades(s, a, {g})
        /\ ~left /\ AskedWell(s) => QueueOK(a)
        /\ AskedWell(s) => FinderOK(a)
        /\ s.state[p] # "proposal" => FinderOK(a)
    BY OnRemoveMemberFades, OnRemoveMemberDoes DEF AskedWell, Quiet, Calm
  <1>6. CASE Cardinality(G.members) <= LeastMembers(G)
    <2>. HIDE DEF a
    <2>1. ASSUME Fades(s, a, {g}), FinderOK(a) PROVE Fades(s, DisbandParty(a, g), {})
      <3>1. Fades(s, DisbandParty(a, g), {g} \cup {})
        BY <1>3, <2>1, FadesFollows
      <3>2. Fades(s, DisbandParty(a, g), {g})
        BY <3>1
      <3>. QED  BY <1>3, <2>1, <3>2, FadesGone
    <2>2. ASSUME QueueOK(a), FinderOK(a) PROVE QueueOK(DisbandParty(a, g))
      BY <1>3, <2>2, FadesKeeps
    <2>. QED  BY <1>1, <1>5, <1>6, <2>1, <2>2, FadesKeeps
  <1>7. CASE ~(Cardinality(G.members) <= LeastMembers(G))
    <2>1. G.members \ {p} # {}
      <3>1. LeastMembers(G) \in Nat \ {0}
        BY DEF LeastMembers
      <3>. QED  BY <1>2, <1>7, <3>1, MoreThanOne
    <2>2. G # NoGroup
      BY <2>1 DEF NoGroup
    <2>. HIDE DEF H
    <2>3. /\ FinderOK(led) /\ Fades(s, led, {}) /\ led.state = s.state /\ led.parties[g].members = G.members
          /\ AskedWell(s) => AskedWell(led)
      <3>1. Calm(s, led) /\ led.parties[g] = H /\ led.state = s.state
        BY <1>2, GroupChanged
      <3>2. Fades(s, led, {})
        BY <1>2, <2>2, GroupFades
      <3>. HIDE DEF led, G
      <3>. QED  BY <1>2, <3>1, <3>2, CalmKeeps DEF Calm
    <2>. HIDE DEF led, G
    <2>4. QueueOK(led)
      BY <2>3, FadesKeeps
    <2>5. /\ left \/ s.state[p] # "proposal" => Fades(led, b, {})
          /\ ~left /\ AskedWell(s) => QueueOK(b)
          /\ AskedWell(s) => FinderOK(b)
          /\ s.state[p] # "proposal" => FinderOK(b)
      BY <2>1, <2>3, <2>4, OnRemoveMemberFades, OnRemoveMemberDoes DEF AskedWell, Quiet, Calm
    <2>. HIDE DEF b
    <2>6. FinderOK(b) => Fades(b, c, {})
      BY <1>3, <1>4, FadesItself
    <2>. HIDE DEF c
    <2>7. s.state[p] # "proposal" => Fades(s, c, {})
      BY <2>3, <2>5, <2>6, FadesOn
    <2>8. AskedWell(s) => QueueOK(c)
      BY <2>4, <2>5, <2>6, FadesKeeps
    <2>. QED  BY <1>1, <1>7, <2>7, <2>8 DEF G
  <1>. QED  BY <1>6, <1>7

-----------------------------------------------------------------------------
(* Proposals that succeed. *)

LEMMA UnusedIdle ==
  ASSUME NEW s, NEW g, Unused(s, g)
  PROVE  s.parties[g] = NoGroup /\ Idle(s, g)
  BY DEF Unused, Idle, Combined

(* While players are taken into a new group, that group is not in the queue. *)
Rested(acc) == QueueOK(acc.s) /\ (acc.g \in Parties => Idle(acc.s, acc.g) \/ acc.g \in requeued)

LEMMA PlaceFades ==
  ASSUME NEW acc, Ready(acc), Rested(acc), NEW p \in Finders
  PROVE  LET r == Place(acc.s, acc.g, p)
         IN  Rested(r) /\ Fades(acc.s, r.s, {})
  <1>. DEFINE s == acc.s  g == acc.g
              n   == CHOOSE h \in Parties : Unused(s, h)
              new == [NoGroup EXCEPT !.leader = p, !.lfg = TRUE]
              a == SetState(s, {n}, "none")
              b == [a EXCEPT !.parties[n] = new]
              c == JoinParty(b, n, p)
              d == SetState(c, {n}, "proposal")
              e == JoinParty(s, g, p)
  <1>1. /\ g = NoParty => Place(s, g, p) = [g |-> n, s |-> d]
        /\ g # NoParty => Place(s, g, p) \in {[g |-> g, s |-> s], [g |-> g, s |-> e]}
    BY DEF Place
  <1>2. FinderOK(s) /\ QueueOK(s) /\ (g \in Parties => Idle(s, g) \/ g \in requeued)
    BY DEF Ready, Rested
  <1>3. CASE g = NoParty
    <2>1. n \in Parties /\ s.parties[n] = NoGroup /\ Idle(s, n)
      BY <1>3, UnusedIdle DEF Ready
    <2>. HIDE DEF n
    <2>2. FinderOK(a) /\ Fades(s, a, {})
      BY <1>2, <2>1, SetStateDoes, SetStateFades
    <2>. HIDE DEF a, s
    <2>3. QueueOK(a) /\ Idle(a, n)
      BY <1>2, <2>1, <2>2, FadesKeeps, FadesListed
    <2>4. Fades(a, b, {})
      BY <2>1, <2>2, <2>3, GroupFades
    <2>5. FinderOK(b)
      <3>1. GroupOK(new)
        BY NewGroups
      <3>. HIDE DEF new
      <3>2. Calm(a, b)
        BY <2>1, <2>2, <3>1, GroupChanged
      <3>. QED  BY <3>2 DEF Calm
    <2>. HIDE DEF b
    <2>6. QueueOK(b) /\ Idle(b, n)
      BY <2>3, <2>4, FadesKeeps, FadesListed
    <2>7. FinderOK(c) /\ Fades(b, c, {})
      BY <2>1, <2>5, <2>6, JoinPartyDoes, JoinPartyFades DEF Calm
    <2>. HIDE DEF c
    <2>8. Fades(c, d, {})
      BY <2>7, SetStateFades
    <2>. HIDE DEF d
    <2>9. Fades(s, d, {})
      BY <2>2, <2>4, <2>7, <2>8, FadesOn
    <2>10. QueueOK(d) /\ Idle(d, n)
      BY <1>2, <2>1, <2>9, FadesKeeps, FadesListed
    <2>11. Place(s, g, p).s = d /\ Place(s, g, p).g = n
      BY <1>1, <1>3
    <2>. QED  BY <2>9, <2>10, <2>11 DEF Rested, s
  <1>4. CASE g # NoParty
    <2>1. g \in Parties
      BY <1>4 DEF Ready
    <2>2. Fades(s, e, {}) /\ Fades(s, s, {})
      BY <1>2, <2>1, JoinPartyFades, FadesItself
    <2>. HIDE DEF e, s, g
    <2>3. \A r \in {s, e} : Fades(s, r, {}) /\ QueueOK(r) /\ (Idle(r, g) \/ g \in requeued)
      BY <1>2, <2>1, <2>2, FadesKeeps, FadesListed
    <2>4. PICK r \in {s, e} : Place(s, g, p) = [g |-> g, s |-> r]
      BY <1>1, <1>4
    <2>5. Place(s, g, p).s = r /\ Place(s, g, p).g = g
      BY <2>4
    <2>6. Rested(Place(s, g, p)) /\ Fades(s, Place(s, g, p).s, {})
      BY <2>3, <2>5 DEF Rested
    <2>. QED  BY <2>6 DEF s, g
  <1>. QED  BY <1>3, <1>4

LEMMA TakesFades ==
  ASSUME NEW acc, Ready(acc), Rested(acc), NEW p \in Finders, acc.s.state[p] # "proposal", NEW inside
  PROVE  Rested(Takes(acc, p, inside)) /\ Fades(acc.s, Takes(acc, p, inside).s, {})
  <1>. DEFINE s == acc.s
              g == PartyOf(s, p)
              l == IF g \in {NoParty, acc.g} THEN s ELSE LeaveGroup(s, g, p, "default", inside)
              a == [g |-> acc.g, s |-> l]
  <1>1. Takes(acc, p, inside) = IF p \notin s.online THEN acc ELSE Place(l, acc.g, p)
    BY DEF Takes
  <1>2. FinderOK(s) /\ Quiet(s, s) /\ QueueOK(s) /\ Fades(s, s, {})
    BY QuietItself, FadesItself DEF Ready, Rested
  <1>3. Quiet(s, l) /\ Fades(s, l, {})
    <2>1. CASE g \in {NoParty, acc.g}
      BY <1>2, <2>1
    <2>2. CASE g \notin {NoParty, acc.g}
      <3>1. g \in Parties /\ p \in s.parties[g].members
        BY <2>2, PartyOfIs
      <3>2. s.parties[g] # NoGroup
        BY <3>1 DEF NoGroup
      <3>3. l = LeaveGroup(s, g, p, "default", inside)
        BY <2>2
      <3>. HIDE DEF l, g
      <3>. QED  BY <1>2, <3>1, <3>2, <3>3, LeaveGroupDoes, LeaveGroupQueue
    <2>. QED  BY <2>1, <2>2
  <1>. HIDE DEF l
  <1>4. Ready(a) /\ Rested(a) /\ a.s = l /\ a.g = acc.g
    <2>1. a.s = l /\ a.g = acc.g
      OBVIOUS
    <2>. HIDE DEF a
    <2>2. Ready(a)
      BY <1>3, <2>1, QuietSpares DEF Ready, Quiet, Calm
    <2>3. QueueOK(l) /\ (acc.g \in Parties => Idle(l, acc.g) \/ acc.g \in requeued)
      BY <1>2, <1>3, FadesKeeps, FadesListed DEF Rested
    <2>. QED  BY <2>1, <2>2, <2>3 DEF Rested
  <1>. HIDE DEF a
  <1>5. Rested(Place(l, acc.g, p)) /\ Fades(l, Place(l, acc.g, p).s, {})
    BY <1>4, PlaceFades
  <1>6. Fades(s, Place(l, acc.g, p).s, {})
    BY <1>3, <1>5, FadesOn
  <1>. QED  BY <1>1, <1>2, <1>5, <1>6

LEMMA MakeNewGroupFades ==
  ASSUME NEW s, FinderOK(s), QueueOK(s), NEW P, ProposalOK(P),
         P.group \in Parties => Idle(s, P.group) \/ P.group \in requeued,
         NEW leader \in DOMAIN P.answer, NEW inside,
         \E g \in Parties : Unused(s, g),
         \A p \in Finders : p \in DOMAIN P.answer => s.state[p] # "proposal"
  PROVE  Fades(s, MakeNewGroup(s, P, leader, inside), {})
  <1>. DEFINE rest  == SetToSeq(DOMAIN P.answer \ {leader})
              order == <<leader>> \o rest
              n     == Len(order)
              start == [g |-> IF Exists(s, P.group) THEN P.group ELSE NoParty, s |-> s]
              h == CHOOSE f : Walks(f, order, start, inside, n)
              Enter(m) == IF m.g = NoParty THEN m.s ELSE SetState(m.s, {m.g}, "dungeon")
              T == {k \in 0..n : Ready(h[k]) /\ Calm(s, h[k].s) /\ Rested(h[k]) /\ Fades(s, h[k].s, {})}
  <1>1. MakeNewGroup(s, P, leader, inside) = Enter(h[n])
    BY DEF MakeNewGroup, Takes, Walks
  <1>2. DOMAIN P.answer \subseteq Finders
    BY DEF ProposalOK
  <1>3. order \in Seq(DOMAIN P.answer) /\ n \in Nat
    <2>1. IsFiniteSet(DOMAIN P.answer \ {leader})
      <3>1. DOMAIN P.answer \ {leader} \in SUBSET Finders
        BY <1>2
      <3>. QED  BY <3>1, FS_Subset, DungeonAssumption
    <2>2. rest \in Seq(DOMAIN P.answer \ {leader})
      BY <2>1, SequenceOfSet
    <2>. HIDE DEF rest
    <2>3. rest \in Seq(DOMAIN P.answer)
      BY <2>2
    <2>. DEFINE S == DOMAIN P.answer
    <2>. HIDE DEF S
    <2>. QED  BY <2>3, FirstOfSequence DEF S
  <1>. HIDE DEF order, start
  <1>4. \A k \in 1..n : order[k] \in Finders /\ order[k] \in DOMAIN P.answer
    BY <1>2, <1>3, ElementOfSeq
  <1>. HIDE DEF n
  <1>5. Walks(h, order, start, inside, n)
    <2>1. \E f : Walks(f, order, start, inside, n)
      BY <1>3, WalksExist
    <2>. QED  BY <2>1
  <1>. HIDE DEF h
  <1>6. Ready(start) /\ Rested(start) /\ start.s = s
    <2>1. start.s = s /\ start.g \in {P.group, NoParty}
      BY DEF start
    <2>2. Ready(start)
      BY <2>1 DEF Ready, ProposalOK
    <2>. QED  BY <2>1, <2>2, DungeonAssumption DEF Rested
  <1>7. 0 \in T
    <2>1. h[0] = start /\ 0 \in 0..n
      BY <1>3, <1>5 DEF Walks
    <2>2. Calm(s, s) /\ Fades(s, s, {})
      BY QuietItself, FadesItself DEF Quiet
    <2>. QED  BY <1>6, <2>1, <2>2
  <1>8. ASSUME NEW m \in 0..n, m + 1 \in 0..n, m \in T PROVE m + 1 \in T
    <2>1. m + 1 # 0 /\ (m + 1) - 1 = m /\ m + 1 \in 1..n
      BY <1>8
    <2>2. h[m + 1] = Takes(h[m], order[m + 1], inside)
      BY <1>5, <1>8, <2>1 DEF Walks
    <2>. DEFINE acc == h[m]  p == order[m + 1]
    <2>3. p \in Finders /\ acc.s.state[p] # "proposal" /\ Ready(acc) /\ Calm(s, acc.s)
          /\ Rested(acc) /\ Fades(s, acc.s, {})
      BY <1>4, <1>8, <2>1 DEF Calm
    <2>. HIDE DEF acc, p
    <2>4. Ready(Takes(acc, p, inside)) /\ Calm(acc.s, Takes(acc, p, inside).s)
      BY <2>3, TakesDoes
    <2>5. Rested(Takes(acc, p, inside)) /\ Fades(acc.s, Takes(acc, p, inside).s, {})
      BY <2>3, TakesFades
    <2>6. Calm(s, Takes(acc, p, inside).s) /\ Fades(s, Takes(acc, p, inside).s, {})
      BY <2>3, <2>4, <2>5, CalmFollows, FadesOn
    <2>. QED  BY <1>8, <2>2, <2>4, <2>5, <2>6 DEF acc, p
  <1>9. n \in T
    <2>. HIDE DEF T
    <2>1. n \in Nat
      BY <1>3
    <2>2. \A k \in 0..n : k \in T
      BY ONLY <2>1, <1>7, <1>8, UpTo
    <2>. QED  BY <2>1, <2>2
  <1>. DEFINE r == h[n]
  <1>10. Ready(r) /\ Rested(r) /\ Fades(s, r.s, {})
    BY <1>9
  <1>. HIDE DEF r
  <1>11. Fades(s, Enter(r), {})
    <2>1. CASE r.g = NoParty
      BY <1>10, <2>1
    <2>2. CASE r.g # NoParty
      <3>1. r.g \in Parties /\ (Idle(r.s, r.g) \/ r.g \in requeued) /\ FinderOK(r.s)
        BY <1>10, <2>2 DEF Ready, Rested
      <3>2. Fades(r.s, SetState(r.s, {r.g}, "dungeon"), {})
        BY <3>1, SetStateFades
      <3>. QED  BY <1>10, <2>2, <3>2, FadesOn
    <2>. QED  BY <2>1, <2>2
  <1>. QED  BY <1>1, <1>11 DEF r

(* A proposal whose entries have left the queue may be erased. *)
LEMMA ErasedQueue ==
  ASSUME NEW s, FinderOK(s), QueueOK(s), NEW i \in DOMAIN s.proposals,
         \A x \in s.proposals[i].entries : x \notin DOMAIN s.data
  PROVE  QueueOK([s EXCEPT !.proposals = RemoveAt(s.proposals, i)])
  <1>. DEFINE t == [s EXCEPT !.proposals = RemoveAt(s.proposals, i)]
  <1>1. /\ t.proposals = RemoveAt(s.proposals, i) /\ t.state = s.state /\ t.old = s.old /\ t.parties = s.parties
        /\ t.data = s.data /\ t.new = s.new /\ t.compatible = s.compatible /\ t.checks = s.checks
    BY DEF FinderOK, Fielded
  <1>. HIDE DEF t
  <1>2. /\ Named(t) \subseteq Named(s) /\ Named(s) \subseteq Named(t) \cup s.proposals[i].entries
        /\ \A j \in DOMAIN t.proposals : \E k \in DOMAIN s.proposals : t.proposals[j] = s.proposals[k]
    <2>1. s.proposals \in Seq(Range(s.proposals))
      BY DEF FinderOK
    <2>. QED  BY <1>1, <2>1, ProposalGone
  <1>3. View(t) = View(s)
    BY <1>1 DEF View
  <1>4. Searched(t)
    <2>. SUFFICES ASSUME NEW e \in SUBSET (DOMAIN t.data \ (t.new \cup Named(t) \cup cutShort \cup requeued)),
                         e # {}, Queueing(t, e), SuitsIn(t, e)
                  PROVE  e \in t.compatible /\ ~FullIn(t, e)
      BY DEF Searched, SearchedExcept
    <2>1. e \in SUBSET (DOMAIN s.data \ (s.new \cup Named(s) \cup cutShort \cup requeued))
      BY <1>1, <1>2
    <2>2. Queueing(s, e) /\ SuitsIn(s, e) /\ (FullIn(t, e) <=> FullIn(s, e))
      BY <1>1, <1>3 DEF Queueing, SuitsIn, FullIn
    <2>. QED  BY <1>1, <2>1, <2>2 DEF QueueOK, Tidy, Searched, SearchedExcept
  <1>5. Listing(t)
    BY <1>1, <1>3 DEF QueueOK, Tidy, Listing, Queueing, SuitsIn, FullIn
  <1>6. Resting(t) /\ Stored(t)
    BY <1>1 DEF QueueOK, Tidy, Resting, Stored, Idle, Combined
  <1>7. Apart(t)
    <2>1. \A g \in (Named(t) \cap Parties) \ requeued : ~Combined(t, g)
      BY <1>1, <1>2 DEF QueueOK, Tidy, Apart, Combined
    <2>. QED  BY <1>2, <2>1 DEF QueueOK, Tidy, Apart
  <1>8. QueueOK(t)
    BY <1>4, <1>5, <1>6, <1>7 DEF QueueOK, Tidy
  <1>. QED  BY <1>8 DEF t

LEMMA UpdateProposalQueue ==
  ASSUME NEW s, AskedWell(s), QueueOK(s), NEW i \in DOMAIN s.proposals, NEW p, NEW accept,
         NEW leader \in DOMAIN s.proposals[i].answer, NEW inside, NEW g \in Parties, Unused(s, g)
  PROVE  QueueOK(UpdateProposal(s, i, p, accept, leader, inside))
  <1>. DEFINE a == IF accept THEN "agree" ELSE "deny"
              t == [s EXCEPT !.proposals[i].answer[p] = a]
              P == t.proposals[i]
              players == DOMAIN P.answer
              v == SetState(t, players, "dungeon")
              d == Drop(v.data, P.entries)
              u == [v EXCEPT !.data = d]
              m == MakeNewGroup(u, P, leader, inside)
              w == [m EXCEPT !.proposals = RemoveAt(m.proposals, i)]
  <1>1. UpdateProposal(s, i, p, accept, leader, inside) \in {RemoveProposal(t, i, FALSE), t, w}
    BY DEF UpdateProposal
  <1>2. /\ AskedWell(t) /\ i \in DOMAIN t.proposals
        /\ DOMAIN t.proposals[i].answer = DOMAIN s.proposals[i].answer
        /\ t.parties = s.parties /\ t.data = s.data /\ t.new = s.new
        /\ t.compatible = s.compatible /\ t.checks = s.checks
        /\ \A j \in DOMAIN t.proposals : \E k \in DOMAIN s.proposals : t.proposals[j].entries = s.proposals[k].entries
    <2>. HIDE DEF a
    <2>. QED  BY AnsweredKeeps
  <1>3. QueueOK(t)
    <2>. HIDE DEF a
    <2>. QED  BY AnsweredQueue DEF AskedWell
  <1>. HIDE DEF t
  <1>4. Unused(t, g)
    <2>1. \A Q \in Range(t.proposals) : \E R \in Range(s.proposals) : Q.entries = R.entries
      BY <1>2 DEF Range
    <2>. QED  BY <1>2, <2>1 DEF Unused
  <1>5. FinderOK(t) /\ ProposalOK(P) /\ leader \in players /\ players \subseteq Finders
    BY <1>2 DEF AskedWell, FinderOK, ProposalOK
  <1>6. Quiet(t, v) /\ (\A x \in players : v.state[x] = "dungeon") /\ FinderOK(v)
    BY <1>5, PlayersAndParties, SetStateDoes
  <1>7. Fades(t, v, {})
    <2>1. \A h \in players \cap Parties : FALSE
      BY <1>5, PlayersAndParties
    <2>. HIDE DEF players
    <2>. QED  BY <1>5, <2>1, SetStateFades
  <1>. HIDE DEF v
  <1>8. Quiet(v, u) /\ u.state = v.state /\ Fades(v, u, {})
    <2>1. Fades(v, u, {})
      BY <1>6, FieldsFade
    <2>2. Manned(v.data)
      BY <1>6 DEF FinderOK
    <2>3. Manned(d) /\ DOMAIN d \subseteq DOMAIN v.data
      BY <2>2, DropKeeps
    <2>. HIDE DEF d
    <2>. QED  BY <1>6, <2>1, <2>3, FieldsFree
  <1>9. \A x \in P.entries : x \notin DOMAIN u.data
    BY <1>6 DEF FinderOK, Fielded, Drop
  <1>. HIDE DEF u
  <1>10. Quiet(t, u) /\ FinderOK(u) /\ Unused(u, g)
    BY <1>4, <1>6, <1>8, QuietFollows, QuietSpares DEF Quiet, Calm
  <1>11. Fades(t, u, {}) /\ QueueOK(u)
    BY <1>3, <1>7, <1>8, FadesOn, FadesKeeps
  <1>12. \A q \in Finders : q \in players => u.state[q] # "proposal"
    BY <1>6, <1>8
  <1>13. P.group \in Parties => Idle(u, P.group) \/ P.group \in requeued
    <2>. SUFFICES ASSUME P.group \in Parties \ requeued PROVE Idle(u, P.group)
      OBVIOUS
    <2>1. P.group \in P.entries
      BY <1>2, <1>3, DungeonAssumption DEF QueueOK, Tidy, Apart
    <2>2. P.group \in Named(t) /\ ~Combined(t, P.group)
      BY <1>2, <1>3, <2>1, NamedOnes DEF QueueOK, Tidy, Apart
    <2>3. u.compatible \subseteq t.compatible
      BY <1>11, FadesListed
    <2>4. ~Combined(u, P.group)
      BY <2>2, <2>3 DEF Combined
    <2>. QED  BY <1>9, <2>1, <2>4 DEF Idle
  <1>14. Calm(u, m) /\ Fades(u, m, {})
    <2>. HIDE DEF P
    <2>. QED  BY <1>5, <1>10, <1>11, <1>12, <1>13, MakeNewGroupDoes, MakeNewGroupFades
  <1>. HIDE DEF m
  <1>15. QueueOK(w)
    <2>1. QueueOK(m) /\ FinderOK(m) /\ m.proposals = t.proposals
      BY <1>10, <1>11, <1>14, FadesKeeps DEF Calm, Quiet
    <2>2. \A x \in P.entries : x \notin DOMAIN m.data
      BY <1>9, <1>14 DEF Fades
    <2>. QED  BY <1>2, <2>1, <2>2, ErasedQueue
  <1>16. QueueOK(RemoveProposal(t, i, FALSE))
    BY <1>2, <1>3, <1>5, RemoveProposalQueue
  <1>. QED  BY <1>1, <1>3, <1>15, <1>16

-----------------------------------------------------------------------------
(* What the queue tries. *)

(* What the queue compares is the data of the entries. *)
LEMMA DataView ==
  ASSUME NEW s, FinderOK(s), Stored(s), NEW e \in SUBSET DOMAIN s.data
  PROVE  /\ Fits(s, e) <=> SuitsIn(s, e)
         /\ Full(s, e) <=> FullIn(s, e)
         /\ e \in SUBSET Entries
         /\ \A y \in e : View(s)[y] \subseteq Finders /\ View(s)[y] # {}
  <1>. DEFINE f == View(s)  o == s.old  d == s.data
  <1>1. e \in SUBSET Entries
    BY DEF Stored
  <1>2. \A y \in e : f[y] = d[y] /\ d[y] \subseteq Finders /\ d[y] # {}
    BY <1>1, PlayersAndParties DEF View, Stored, FinderOK, Manned
  <1>. HIDE DEF f
  <1>3. Seats(f, e) = Seats(d, e) /\ (Suits(f, o, e) <=> Suits(d, o, e))
    <2>1. \A y \in e : f[y] = d[y]
      BY <1>2
    <2>2. \A g \in e \cap Parties : o[g] = o[g]
      OBVIOUS
    <2>. HIDE DEF d, o
    <2>. QED  BY <2>1, <2>2, SuitsSame
  <1>. QED  BY <1>1, <1>2, <1>3, FitsIs DEF SuitsIn, FullIn, f

(* Every player of a new proposal comes with an entry of it. *)
LEMMA NewProposalNames ==
  ASSUME NEW s, Stored(s), NEW e \in SUBSET DOMAIN s.data, NEW x
  PROVE  LET P == NewProposal(s, e, x)
         IN  /\ P.entries = e /\ P.group \in e \cup {NoParty}
             /\ \A p \in DOMAIN P.answer : EntryOf(P, p) \in e
  <1>. DEFINE lfg   == LfgGroupsIn(s, e)
              group == IF lfg = {} THEN NoParty ELSE CHOOSE g \in lfg : TRUE
              gs(p) == {g \in e \cap Parties : p \in s.data[g]}
              from  == [p \in PlayersOf(s, e) |-> IF gs(p) = {} THEN NoParty ELSE CHOOSE g \in gs(p) : TRUE]
              agreesNow(p) == lfg # {} /\ s.old[x] = "dungeon" /\ from[p] = group
              answer == [p \in DOMAIN from |-> IF agreesNow(p) THEN "agree" ELSE "pending"]
              P == NewProposal(s, e, x)
  <1>1. P = [answer |-> answer, from |-> from, entries |-> e, group |-> group]
    BY DEF NewProposal
  <1>2. group \in e \cup {NoParty}
    <2>1. lfg \subseteq e
      BY DEF LfgGroupsIn
    <2>. HIDE DEF lfg
    <2>2. lfg # {} => (CHOOSE g \in lfg : TRUE) \in lfg
      OBVIOUS
    <2>. QED  BY <2>1, <2>2
  <1>3. DOMAIN answer = PlayersOf(s, e)
    OBVIOUS
  <1>4. ASSUME NEW p \in PlayersOf(s, e)
        PROVE  (IF from[p] = NoParty THEN p ELSE from[p]) \in e
    <2>1. CASE gs(p) # {}
      <3>1. from[p] \in gs(p)
        <4>1. from[p] = CHOOSE g \in gs(p) : TRUE
          BY <2>1
        <4>. HIDE DEF gs, from
        <4>. QED  BY <2>1, <4>1
      <3>2. gs(p) \subseteq e \cap Parties
        OBVIOUS
      <3>. HIDE DEF gs, from
      <3>. QED  BY <3>1, <3>2, DungeonAssumption
    <2>2. CASE gs(p) = {}
      <3>1. PICK y \in e : p \in s.data[y]
        BY DEF PlayersOf
      <3>2. y \notin Parties /\ y \in Entries
        BY <2>2, <3>1 DEF Stored
      <3>3. p = y
        BY <3>1, <3>2 DEF Stored, Entries
      <3>. QED  BY <2>2, <3>1, <3>3
    <2>. QED  BY <2>1, <2>2
  <1>. HIDE DEF answer, from, group
  <1>5. P.entries = e /\ P.group = group /\ P.answer = answer /\ P.from = from
    BY <1>1
  <1>. HIDE DEF P
  <1>6. \A p \in DOMAIN P.answer : EntryOf(P, p) \in e
    BY <1>3, <1>4, <1>5 DEF EntryOf
  <1>. QED  BY <1>2, <1>5, <1>6 DEF P

(* A match takes its entries out of the list, and its proposal names them. *)
LEMMA MatchQueue ==
  ASSUME NEW s, FinderOK(s), NEW q, QueueOK(q),
         s.state = q.state, s.old = q.old, s.parties = q.parties, s.data = q.data,
         s.compatible = q.compatible, s.proposals = q.proposals, s.checks = q.checks,
         NEW e \in SUBSET DOMAIN s.data, q.new \subseteq s.new \cup e, NEW x
  PROVE  QueueOK(Match(s, e, x))
  <1>. DEFINE P   == NewProposal(s, e, x)
              who == DOMAIN P.answer
              gs  == {PartyOf(s, p) : p \in who} \ {NoParty}
              a   == Unlist(s, e)
              ps  == Append(a.proposals, P)
              b   == [a EXCEPT !.proposals = ps]
              t   == SetState(b, who \cup gs, "proposal")
  <1>1. Match(s, e, x) = t
    BY DEF Match
  <1>2. Stored(s)
    BY DEF QueueOK, Tidy, Stored
  <1>3. /\ P.entries = e /\ P.group \in e \cup {NoParty}
        /\ \A p \in DOMAIN P.answer : EntryOf(P, p) \in e
    BY <1>2, NewProposalNames
  <1>4. ProposalOK(P)
    BY NewProposalIs
  <1>. HIDE DEF P, gs, who
  <1>5. /\ FinderOK(a) /\ a.proposals = s.proposals /\ a.new = s.new \ e
        /\ a.compatible = {c \in s.compatible : c \cap e = {}}
        /\ a.data = s.data /\ a.parties = s.parties /\ a.checks = s.checks
        /\ a.state = s.state /\ a.old = s.old
    BY UnlistDoes DEF Calm
  <1>. HIDE DEF a
  <1>6. /\ \A j \in DOMAIN ps : ps[j] = P \/ \E k \in DOMAIN s.proposals : ps[j] = s.proposals[k]
        /\ \A k \in DOMAIN s.proposals : \E j \in DOMAIN ps : ps[j] = s.proposals[k]
        /\ \E j \in DOMAIN ps : ps[j] = P
        /\ ps \in Seq(Range(ps))
    <2>. DEFINE qs == s.proposals  n == Len(qs)
    <2>1. ps = Append(qs, P) /\ qs \in Seq(Range(qs))
      BY <1>5 DEF FinderOK
    <2>. HIDE DEF qs, ps
    <2>2. qs \in Seq(Range(qs) \cup {P})
      BY <2>1
    <2>3. n \in Nat /\ DOMAIN qs = 1..n
      BY <2>2, LenProperties
    <2>4. /\ ps \in Seq(Range(qs) \cup {P}) /\ Len(ps) = n + 1 /\ ps[n + 1] = P
          /\ \A k \in 1..n : ps[k] = qs[k]
      BY <2>1, <2>2, AppendProperties
    <2>. HIDE DEF n
    <2>5. DOMAIN ps = 1..n + 1 /\ ps = [j \in 1..n + 1 |-> ps[j]]
      BY <2>4, LenProperties, SeqDef
    <2>6. \A k \in 1..n : k \in 1..n + 1
      BY <2>3
    <2>7. \A j \in 1..n + 1 : j \in 1..n \/ j = n + 1
      BY <2>3
    <2>8. n + 1 \in 1..n + 1 /\ n + 1 \in Nat
      BY <2>3
    <2>9. ps \in Seq(Range(ps))
      <3>1. \A j \in 1..n + 1 : ps[j] \in Range(ps)
        BY <2>5 DEF Range
      <3>. QED  BY <2>5, <2>8, <3>1, IsASeq
    <2>10. \A j \in DOMAIN ps : ps[j] = P \/ \E k \in DOMAIN qs : ps[j] = qs[k]
      BY <2>3, <2>4, <2>5, <2>7
    <2>11. \A k \in DOMAIN qs : \E j \in DOMAIN ps : ps[j] = qs[k]
      BY <2>3, <2>4, <2>5, <2>6
    <2>12. \E j \in DOMAIN ps : ps[j] = P
      BY <2>4, <2>5, <2>8
    <2>. QED  BY <2>9, <2>10, <2>11, <2>12 DEF qs
  <1>. HIDE DEF ps
  <1>7. /\ FinderOK(b) /\ b.proposals = ps /\ b.new = a.new /\ b.compatible = a.compatible
        /\ b.data = a.data /\ b.parties = a.parties /\ b.checks = a.checks
        /\ b.state = a.state /\ b.old = a.old
    <2>1. /\ Fielded(b) /\ b.online = a.online /\ b.proposals = ps /\ b.state = a.state /\ b.old = a.old
          /\ b.parties = a.parties /\ b.data = a.data /\ b.checks = a.checks
          /\ b.new = a.new /\ b.compatible = a.compatible
      BY <1>5 DEF FinderOK, Fielded
    <2>2. \A j \in DOMAIN ps : ProposalOK(ps[j])
      BY <1>4, <1>6 DEF FinderOK
    <2>. HIDE DEF b
    <2>. QED  BY <1>5, <1>6, <2>1, <2>2 DEF FinderOK
  <1>. HIDE DEF b
  <1>8. /\ t.proposals = ps /\ t.parties = q.parties /\ t.data = q.data /\ t.checks = q.checks
        /\ t.new = s.new \ e /\ t.compatible = {c \in q.compatible : c \cap e = {}}
        /\ \A y \in Entries : t.state[y] \in {q.state[y], "proposal"}
        /\ \A y \in Entries : t.state[y] # "proposal" => t.old[y] = q.old[y]
    BY <1>5, <1>7, SetStateDoes
  <1>. HIDE DEF t
  <1>9. Named(t) = Named(q) \cup e
    BY <1>3, <1>6, <1>8 DEF Named
  <1>10. \A y : Idle(q, y) => Idle(t, y)
    BY <1>8 DEF Idle, Combined
  <1>11. e \subseteq Entries
    BY <1>2 DEF Stored
  <1>12. Searched(t)
    <2>. SUFFICES ASSUME NEW c \in SUBSET (DOMAIN t.data \ (t.new \cup Named(t) \cup cutShort \cup requeued)),
                         c # {}, Queueing(t, c), SuitsIn(t, c)
                  PROVE  c \in t.compatible /\ ~FullIn(t, c)
      BY DEF Searched, SearchedExcept
    <2>1. c \cap e = {} /\ c \in SUBSET (DOMAIN q.data \ (q.new \cup Named(q) \cup cutShort \cup requeued)) /\ c \in SUBSET Entries
      BY <1>8, <1>9 DEF QueueOK, Tidy, Stored
    <2>2. \A g \in c \cap Parties : /\ g \in DOMAIN q.data /\ g \in DOMAIN t.data
                                    /\ t.data[g] = q.data[g] /\ t.old[g] = q.old[g] /\ q.state[g] = "queued"
      BY <1>8, <2>1 DEF Queueing
    <2>3. (SuitsIn(t, c) <=> SuitsIn(q, c)) /\ (FullIn(t, c) <=> FullIn(q, c))
      BY <2>1, <2>2, ViewSame
    <2>4. c \in q.compatible /\ ~FullIn(q, c)
      BY <2>1, <2>2, <2>3 DEF QueueOK, Tidy, Searched, SearchedExcept, Queueing
    <2>. QED  BY <1>8, <2>1, <2>3, <2>4
  <1>13. Listing(t)
    <2>. SUFFICES ASSUME NEW c \in t.compatible
                  PROVE  /\ c \in SUBSET Entries /\ c # {} /\ \A y \in c : {y} \in t.compatible
                         /\ (\A g \in c \cap Parties : g \in DOMAIN t.data \ requeued) /\ Queueing(t, c)
                               => ~(SuitsIn(t, c) /\ FullIn(t, c))
      BY DEF Listing
    <2>1. c \in q.compatible /\ c \cap e = {}
      BY <1>8
    <2>2. c \in SUBSET Entries /\ c # {} /\ \A y \in c : {y} \in q.compatible
      BY <2>1 DEF QueueOK, Tidy, Listing
    <2>3. \A y \in c : {y} \in t.compatible
      BY <1>8, <2>1, <2>2
    <2>4. ASSUME \A g \in c \cap Parties : g \in DOMAIN t.data \ requeued, Queueing(t, c)
          PROVE  ~(SuitsIn(t, c) /\ FullIn(t, c))
      <3>1. \A g \in c \cap Parties : /\ g \in DOMAIN q.data /\ g \in DOMAIN t.data
                                      /\ t.data[g] = q.data[g] /\ t.old[g] = q.old[g]
                                      /\ q.state[g] = "queued" /\ g \notin requeued
        BY <1>8, <2>2, <2>4 DEF Queueing
      <3>2. (SuitsIn(t, c) <=> SuitsIn(q, c)) /\ (FullIn(t, c) <=> FullIn(q, c))
        BY <2>2, <3>1, ViewSame
      <3>3. ~(SuitsIn(q, c) /\ FullIn(q, c))
        BY <2>1, <3>1 DEF QueueOK, Tidy, Listing, Queueing
      <3>. QED  BY <3>2, <3>3
    <2>. QED  BY <2>2, <2>3, <2>4
  <1>14. Resting(t)
    <2>1. DOMAIN t.checks \subseteq Parties /\ \A g \in DOMAIN t.checks \ requeued : Idle(t, g)
      BY <1>8, <1>10 DEF QueueOK, Tidy, Resting
    <2>2. ASSUME NEW g \in Parties \ requeued, t.parties[g] # NoGroup,
                 t.state[g] \notin {"queued", "proposal"} \/ t.parties[g].members = {}
          PROVE  Idle(t, g)
      <3>1. q.parties[g] # NoGroup /\ (q.state[g] \notin {"queued", "proposal"} \/ q.parties[g].members = {})
        BY <1>8, <2>2, PlayersAndParties
      <3>. QED  BY <1>10, <3>1 DEF QueueOK, Tidy, Resting
    <2>. QED  BY <2>1, <2>2 DEF Resting
  <1>15. Stored(t)
    BY <1>8 DEF QueueOK, Tidy, Stored
  <1>16. Apart(t)
    <2>1. \A g \in (Named(t) \cap Parties) \ requeued : ~Combined(t, g)
      BY <1>8, <1>9 DEF QueueOK, Tidy, Apart, Combined
    <2>2. \A k \in DOMAIN s.proposals :
             LET Q == s.proposals[k]
             IN  /\ Q.entries \subseteq Entries /\ Q.group \in Q.entries \cup {NoParty}
                 /\ \A p \in DOMAIN Q.answer : EntryOf(Q, p) \in Q.entries
      BY DEF QueueOK, Tidy, Apart
    <2>3. ASSUME NEW j \in DOMAIN ps
          PROVE  /\ ps[j].entries \subseteq Entries /\ ps[j].group \in ps[j].entries \cup {NoParty}
                 /\ \A p \in DOMAIN ps[j].answer : EntryOf(ps[j], p) \in ps[j].entries
      BY <1>3, <1>6, <1>11, <2>2
    <2>. QED  BY <1>8, <2>1, <2>3 DEF Apart
  <1>17. QueueOK(t)
    BY <1>12, <1>13, <1>14, <1>15, <1>16 DEF QueueOK, Tidy
  <1>. QED  BY <1>1, <1>17

(* A search of x that finds no match leaves the queue in order, but for x if it left something out. *)
SearchesWell(q, x) ==
    LET m       == q.new \ {x}
        s       == [q EXCEPT !.new = m]
        known   == {c \in s.compatible : x \in c}
        more    == {c \cup {x} : c \in s.compatible} \ known
        alone   == x \in DOMAIN s.data => Full(s, {x})
        tried   == CASE known # {} -> more
                     [] known = {} /\ alone -> {{x}}
                     [] OTHER -> more \cup {{x}}
        absent(e) == CASE x \notin DOMAIN s.data -> {x}
                       [] e \subseteq DOMAIN s.data -> {}
                       [] OTHER -> {CHOOSE y \in e : y \notin DOMAIN s.data}
        good    == {e \in tried : absent(e) = {} /\ Fits(s, e)}
        full    == {e \in good : Full(s, e)}
        out(e)  == IF e \in full THEN {y \in e : s.state[y] # "queued"} ELSE absent(e)
        matches == {e \in full : out(e) = {}}
        losing  == {e \in tried : out(e) # {}}
    IN  \A met \in SUBSET losing, left \in SUBSET tried :
          LET gone == UNION {out(d) : d \in met}
              c    == s.compatible \cup ((good \ full) \ left)
              r    == RemoveFromQueue([s EXCEPT !.compatible = c], gone)
              S    == IF left = {} THEN cutShort \ {x} ELSE cutShort \cup {x}
          IN  {x} \notin left /\ matches \subseteq left /\ (met = losing \ left \/ x \in gone)
                => SearchedExcept(r, S) /\ Tidy(r)

(* An entry that finds no match is in the list with all that it fits together with, if its search
   left nothing out. *)
LEMMA TriedQueue ==
  ASSUME NEW q, FinderOK(q), QueueOK(q), NEW x \in Entries, x \in Parties \cap Named(q) => x \in requeued
  PROVE  SearchesWell(q, x)
  <1>. DEFINE m       == q.new \ {x}
              s       == [q EXCEPT !.new = m]
              known   == {c \in s.compatible : x \in c}
              more    == {c \cup {x} : c \in s.compatible} \ known
              alone   == x \in DOMAIN s.data => Full(s, {x})
              tried   == CASE known # {} -> more
                           [] known = {} /\ alone -> {{x}}
                           [] OTHER -> more \cup {{x}}
              absent(e) == CASE x \notin DOMAIN s.data -> {x}
                             [] e \subseteq DOMAIN s.data -> {}
                             [] OTHER -> {CHOOSE y \in e : y \notin DOMAIN s.data}
              good    == {e \in tried : absent(e) = {} /\ Fits(s, e)}
              full    == {e \in good : Full(s, e)}
              out(e)  == IF e \in full THEN {y \in e : s.state[y] # "queued"} ELSE absent(e)
              matches == {e \in full : out(e) = {}}
              losing  == {e \in tried : out(e) # {}}
              all(d)  == UNION {out(e) : e \in d}
              c(d)    == s.compatible \cup ((good \ full) \ d)
              R(d, e) == RemoveFromQueue([s EXCEPT !.compatible = c(d)], all(e))
              S(d)    == IF d = {} THEN cutShort \ {x} ELSE cutShort \cup {x}
  <1>1. SUFFICES ASSUME NEW met \in SUBSET losing, NEW left \in SUBSET tried,
                        {x} \notin left, matches \subseteq left,
                        met = losing \ left \/ x \in all(met)
                 PROVE  SearchedExcept(R(left, met), S(left)) /\ Tidy(R(left, met))
    BY Zenon DEF SearchesWell
  <1>. DEFINE gone == all(met)
              found == (good \ full) \ left
              l    == [s EXCEPT !.compatible = c(left)]
              r    == R(left, met)
  <1>2. \A e : e \in good => e \in tried /\ x \in DOMAIN s.data /\ e \subseteq DOMAIN s.data /\ Fits(s, e)
    OBVIOUS
  <1>3. \A e : /\ e \in tried /\ x \in DOMAIN s.data /\ e \subseteq DOMAIN s.data /\ Fits(s, e) => e \in good
               /\ e \in full <=> e \in good /\ Full(s, e)
    OBVIOUS
  <1>4. ASSUME left = {}, met = losing, NEW e \in full PROVE e \cap gone # {}
    <2>1. out(e) # {} /\ out(e) \subseteq e
      BY <1>1, <1>4
    <2>2. e \in losing
      BY <1>2, <1>3, <2>1
    <2>. HIDE DEF out, losing
    <2>. QED  BY <1>4, <2>1, <2>2
  <1>5. \A e \in tried : x \in e /\ \A y \in e : y = x \/ \E d \in s.compatible : y \in d
    OBVIOUS
  <1>6. /\ known = {} => {x} \in tried
        /\ known = {} /\ alone => tried = {{x}}
        /\ \A d \in s.compatible : known # {} \/ ~alone => d \cup {x} \in tried \cup known
    <2>1. /\ known # {} => tried = more
          /\ known = {} /\ alone => tried = {{x}}
          /\ known = {} /\ ~alone => tried = more \cup {{x}}
      OBVIOUS
    <2>2. \A d \in s.compatible : d \cup {x} \in more \cup known
      OBVIOUS
    <2>. HIDE DEF tried, more, known, alone, s
    <2>. QED  BY <2>1, <2>2
  <1>. HIDE DEF full, good, tried, alone, losing, matches, out, more, found
  <1>7. /\ FinderOK(s) /\ s.data = q.data /\ s.old = q.old /\ s.state = q.state /\ s.parties = q.parties
        /\ s.compatible = q.compatible /\ s.new = m /\ s.checks = q.checks /\ s.proposals = q.proposals
    <2>1. Calm(q, s)
      BY FieldsFree
    <2>2. /\ s.data = q.data /\ s.old = q.old /\ s.state = q.state /\ s.parties = q.parties
          /\ s.compatible = q.compatible /\ s.new = m /\ s.checks = q.checks /\ s.proposals = q.proposals
      BY DEF FinderOK, Fielded
    <2>. QED  BY <2>1, <2>2 DEF Calm
  <1>. HIDE DEF s
  <1>8. /\ FinderOK(l) /\ l.data = s.data /\ l.old = s.old /\ l.state = s.state /\ l.parties = s.parties
        /\ l.compatible = s.compatible \cup found /\ l.new = s.new /\ l.checks = s.checks
        /\ l.proposals = s.proposals
    <2>. DEFINE v == c(left)
    <2>0. v = s.compatible \cup found
      BY DEF found
    <2>. HIDE DEF v, c
    <2>1. Calm(s, l)
      BY <1>7, FieldsFree
    <2>2. /\ l.data = s.data /\ l.old = s.old /\ l.state = s.state /\ l.parties = s.parties
          /\ l.compatible = v /\ l.new = s.new /\ l.checks = s.checks /\ l.proposals = s.proposals
      BY <1>7 DEF FinderOK, Fielded, v
    <2>. QED  BY <2>0, <2>1, <2>2 DEF Calm
  <1>. HIDE DEF l, gone
  <1>9. /\ r.proposals = q.proposals /\ r.parties = q.parties /\ r.state = q.state /\ r.old = q.old
        /\ r.checks = q.checks /\ r.data = Drop(q.data, gone) /\ r.new = (q.new \ {x}) \ gone
        /\ r.compatible = {d \in q.compatible \cup found : d \cap gone = {}}
    <2>1. r = RemoveFromQueue(l, gone)
      BY DEF l, gone
    <2>. HIDE DEF r, R
    <2>. QED  BY <1>7, <1>8, <2>1, RemoveFromQueueDoes DEF Quiet, Calm
  <1>. HIDE DEF r, m
  <1>10. DOMAIN r.data = DOMAIN q.data \ gone /\ \A y \in DOMAIN r.data : r.data[y] = q.data[y]
    BY <1>9 DEF Drop
  <1>11. Named(r) = Named(q)
    BY <1>9 DEF Named
  <1>12. ASSUME NEW e \in SUBSET DOMAIN q.data
         PROVE  /\ Fits(s, e) <=> SuitsIn(q, e)
                /\ Full(s, e) <=> FullIn(q, e)
                /\ e \in SUBSET Entries
                /\ \A y \in e : View(q)[y] \subseteq Finders /\ View(q)[y] # {}
    <2>1. View(s) = View(q)
      BY <1>7 DEF View
    <2>2. Stored(s) /\ e \in SUBSET DOMAIN s.data
      BY <1>7 DEF QueueOK, Tidy, Stored
    <2>3. /\ Fits(s, e) <=> SuitsIn(s, e)
          /\ Full(s, e) <=> FullIn(s, e)
          /\ e \in SUBSET Entries
          /\ \A y \in e : View(s)[y] \subseteq Finders /\ View(s)[y] # {}
      BY <1>7, <2>2, DataView
    <2>. QED  BY <1>7, <2>1, <2>3 DEF SuitsIn, FullIn
  (* A combination of groups that have their data is after the step as it was. *)
  <1>13. ASSUME NEW e \in SUBSET Entries, \A g \in e \cap Parties : g \in DOMAIN r.data
         PROVE  (SuitsIn(r, e) <=> SuitsIn(q, e)) /\ (FullIn(r, e) <=> FullIn(q, e))
    <2>1. \A g \in e \cap Parties : /\ g \in DOMAIN q.data /\ g \in DOMAIN r.data
                                    /\ r.data[g] = q.data[g] /\ r.old[g] = q.old[g]
      BY <1>9, <1>10, <1>13
    <2>. QED  BY <2>1, ViewSame
  (* A part of a combination with data that fits, fits. *)
  <1>14. ASSUME NEW e \in SUBSET DOMAIN q.data, SuitsIn(q, e), NEW d \in SUBSET e
         PROVE  SuitsIn(q, d)
    <2>. DEFINE f == View(q)  o == q.old
    <2>1. e \in SUBSET Entries /\ (\A y \in e : f[y] \subseteq Finders) /\ Suits(f, o, e)
      BY <1>12, <1>14 DEF SuitsIn
    <2>. HIDE DEF f, o
    <2>2. Suits(f, o, d)
      BY <2>1, PartsFit
    <2>. QED  BY <2>2 DEF SuitsIn, f, o
  <1>15. known # {} => {x} \in q.compatible
    BY <1>7 DEF QueueOK, Tidy, Listing
  <1>16. SearchedExcept(r, S(left))
    <2>. SUFFICES ASSUME NEW e \in SUBSET (DOMAIN r.data \ (r.new \cup Named(r) \cup S(left) \cup requeued)),
                         e # {}, Queueing(r, e), SuitsIn(r, e)
                  PROVE  e \in r.compatible /\ ~FullIn(r, e)
      BY DEF SearchedExcept
    <2>0. e \cap requeued = {} /\ (\A y \in e : y # x => y \notin cutShort) /\ (x \in e => left = {} /\ x \notin r.new)
      OBVIOUS
    <2>1. e \in SUBSET DOMAIN q.data /\ e \cap gone = {} /\ e \in SUBSET Entries
      BY <1>10 DEF QueueOK, Tidy, Stored
    <2>2. Queueing(q, e)
      BY <1>9 DEF Queueing
    <2>3. SuitsIn(q, e) /\ (FullIn(r, e) <=> FullIn(q, e))
      BY <1>13, <2>1
    <2>4. \A y \in e : y # x => y \in DOMAIN q.data \ (q.new \cup Named(q) \cup cutShort \cup requeued)
      BY <1>9, <1>11, <2>0, <2>1
    <2>5. CASE x \notin e
      <3>1. e \in SUBSET (DOMAIN q.data \ (q.new \cup Named(q) \cup cutShort \cup requeued))
        BY <2>4, <2>5
      <3>2. e \in q.compatible /\ ~FullIn(q, e)
        BY <2>2, <2>3, <3>1 DEF QueueOK, Tidy, Searched, SearchedExcept
      <3>. QED  BY <1>9, <2>1, <2>3, <3>2
    <2>6. CASE x \in e
      <3>. DEFINE d == e \ {x}
      <3>1. left = {} /\ met = losing
        BY <1>1, <2>0, <2>1, <2>6 DEF gone
      <3>2. d # {} => d \in q.compatible
        <4>1. d \in SUBSET (DOMAIN q.data \ (q.new \cup Named(q) \cup cutShort \cup requeued))
          BY <2>4
        <4>2. Queueing(q, d)
          BY <2>2 DEF Queueing
        <4>3. SuitsIn(q, d)
          BY <1>14, <2>1, <2>3
        <4>. HIDE DEF d
        <4>. QED  BY <4>1, <4>2, <4>3 DEF QueueOK, Tidy, Searched, SearchedExcept
      <3>3. e = d \cup {x}
        BY <2>6
      <3>4. e \in tried \cup known
        <4>1. CASE known # {}
          <5>1. d = {} => e \in known
            BY <1>7, <1>15, <3>3, <4>1
          <5>2. d # {} => e \in tried \cup known
            BY <1>6, <1>7, <3>2, <3>3, <4>1
          <5>. QED  BY <5>1, <5>2
        <4>2. CASE known = {} /\ alone
          <5>1. d = {}
            <6>. SUFFICES ASSUME NEW z \in d PROVE FALSE
              OBVIOUS
            <6>1. {x} \in SUBSET DOMAIN q.data /\ Full(s, {x})
              BY <1>7, <2>1, <2>6, <4>2 DEF alone
            <6>2. FullIn(q, {x})
              BY <1>12, <6>1
            <6>. DEFINE f == View(q)  o == q.old
            <6>3. (\A y \in e : f[y] \subseteq Finders /\ f[y] # {}) /\ Cardinality(Seats(f, {x})) = PartySize
              BY <1>12, <2>1, <6>2 DEF FullIn
            <6>4. z \in e /\ x # z /\ x \in e
              BY <2>6
            <6>. HIDE DEF f, o
            <6>5. ~Suits(f, o, e)
              BY <2>1, <6>3, <6>4, FullAlone
            <6>. QED  BY <2>3, <6>5 DEF SuitsIn, f, o
          <5>. QED  BY <1>6, <3>3, <4>2, <5>1
        <4>3. CASE known = {} /\ ~alone
          <5>1. d # {} => e \in tried \cup known
            BY <1>6, <1>7, <3>2, <3>3, <4>3
          <5>. QED  BY <1>6, <3>3, <4>3, <5>1
        <4>. QED  BY <4>1, <4>2, <4>3
      <3>5. CASE e \in known
        <4>1. e \in q.compatible
          BY <1>7, <3>5
        <4>2. ~FullIn(q, e)
          BY <2>0, <2>1, <2>2, <2>3, <4>1 DEF QueueOK, Tidy, Listing
        <4>. QED  BY <1>9, <2>1, <2>3, <4>1, <4>2
      <3>6. CASE e \in tried
        <4>1. e \in good
          BY <1>3, <1>7, <1>12, <2>1, <2>3, <2>6, <3>6
        <4>2. e \notin full
          BY <1>4, <2>1, <3>1
        <4>3. ~FullIn(q, e)
          BY <1>3, <1>12, <2>1, <4>1, <4>2
        <4>. QED  BY <1>9, <2>1, <2>3, <3>1, <4>1, <4>2, <4>3 DEF found
      <3>. QED  BY <3>4, <3>5, <3>6
    <2>. QED  BY <2>5, <2>6
  <1>17. Listing(r)
    <2>. SUFFICES ASSUME NEW d \in r.compatible
                  PROVE  /\ d \in SUBSET Entries /\ d # {} /\ \A y \in d : {y} \in r.compatible
                         /\ (\A g \in d \cap Parties : g \in DOMAIN r.data \ requeued) /\ Queueing(r, d)
                               => ~(SuitsIn(r, d) /\ FullIn(r, d))
      BY DEF Listing
    <2>1. d \in q.compatible \cup found /\ d \cap gone = {}
      BY <1>9
    <2>2. ASSUME NEW y \in d, {y} \in q.compatible \cup found PROVE {y} \in r.compatible
      BY <1>9, <2>1, <2>2
    <2>3. CASE d \in q.compatible
      <3>1. d \in SUBSET Entries /\ d # {} /\ \A y \in d : {y} \in q.compatible
        BY <2>3 DEF QueueOK, Tidy, Listing
      <3>2. ASSUME \A g \in d \cap Parties : g \in DOMAIN r.data \ requeued, Queueing(r, d)
            PROVE  ~(SuitsIn(r, d) /\ FullIn(r, d))
        <4>1. (\A g \in d \cap Parties : g \in DOMAIN q.data \ requeued) /\ Queueing(q, d)
          BY <1>9, <1>10, <3>2 DEF Queueing
        <4>2. ~(SuitsIn(q, d) /\ FullIn(q, d))
          BY <2>3, <4>1 DEF QueueOK, Tidy, Listing
        <4>. QED  BY <1>13, <3>1, <3>2, <4>2
      <3>. QED  BY <2>2, <3>1, <3>2
    <2>4. CASE d \in found
      <3>0. d \in good /\ d \notin full
        BY <2>4 DEF found
      <3>1. /\ d \in tried /\ x \in DOMAIN q.data /\ d \in SUBSET DOMAIN q.data /\ Fits(s, d) /\ ~Full(s, d)
        BY <1>2, <1>3, <1>7, <3>0
      <3>2. SuitsIn(q, d) /\ ~FullIn(q, d) /\ d \in SUBSET Entries
        BY <1>12, <3>1
      <3>3. x \in d /\ \A y \in d : y = x \/ {y} \in q.compatible
        BY <1>5, <1>7, <3>1 DEF QueueOK, Tidy, Listing
      <3>4. {x} \in q.compatible \cup found
        <4>1. CASE known # {}
          BY <1>15, <4>1
        <4>2. CASE known = {}
          <5>1. {x} \in tried /\ {x} \in SUBSET DOMAIN q.data
            BY <1>6, <3>1, <4>2
          <5>2. Fits(s, {x})
            <6>1. SuitsIn(q, {x})
              BY <1>14, <3>1, <3>2, <3>3
            <6>. QED  BY <1>12, <5>1, <6>1
          <5>3. {x} \in good
            BY <1>3, <1>7, <5>1, <5>2
          <5>4. {x} \notin full
            <6>. SUFFICES ASSUME {x} \in full PROVE FALSE
              OBVIOUS
            <6>1. alone
              BY <1>3 DEF alone
            <6>2. d = {x}
              BY <1>6, <3>1, <4>2, <6>1
            <6>. QED  BY <3>0, <6>2
          <5>. QED  BY <1>1, <5>3, <5>4 DEF found
        <4>. QED  BY <4>1, <4>2
      <3>5. \A y \in d : {y} \in r.compatible
        BY <2>2, <3>3, <3>4
      <3>6. ASSUME \A g \in d \cap Parties : g \in DOMAIN r.data PROVE ~FullIn(r, d)
        BY <1>13, <3>2, <3>6
      <3>. QED  BY <3>2, <3>3, <3>5, <3>6
    <2>. QED  BY <2>1, <2>3, <2>4
  <1>18. \A g : Idle(q, g) => Idle(r, g)
    <2>. SUFFICES ASSUME NEW g, Idle(q, g) PROVE Idle(r, g)
      OBVIOUS
    <2>1. g \notin DOMAIN r.data
      BY <1>10 DEF Idle
    <2>2. \A d \in q.compatible \cup found : g \notin d
      BY <1>2, <1>7 DEF Idle, Combined, found
    <2>. QED  BY <1>9, <2>1, <2>2 DEF Idle, Combined
  <1>19. Resting(r)
    BY <1>9, <1>18 DEF QueueOK, Tidy, Resting
  <1>20. Stored(r)
    BY <1>10 DEF QueueOK, Tidy, Stored
  <1>21. Apart(r)
    <2>1. ASSUME NEW g \in (Named(q) \cap Parties) \ requeued PROVE \A d \in q.compatible \cup found : g \notin d
      <3>1. ~Combined(q, g) /\ g # x
        BY DEF QueueOK, Tidy, Apart
      <3>. QED  BY <1>2, <1>5, <1>7, <3>1 DEF Combined, found
    <2>2. \A g \in (Named(r) \cap Parties) \ requeued : ~Combined(r, g)
      BY <1>9, <1>11, <2>1 DEF Combined
    <2>. QED  BY <1>9, <2>2 DEF QueueOK, Tidy, Apart
  <1>22. Tidy(r)
    BY <1>17, <1>19, <1>20, <1>21 DEF Tidy
  <1>. QED  BY <1>16, <1>22 DEF r

LEMMA NamedIs == Named(Finder) = Proposed
  <1>1. \A P \in Range(proposals) : \E i \in DOMAIN proposals : P = proposals[i]
    BY DEF Range
  <1>2. \A i \in DOMAIN proposals : proposals[i] \in Range(proposals)
    BY DEF Range
  <1>3. Finder.proposals = proposals
    BY DEF Finder
  <1>. QED  BY <1>1, <1>2, <1>3 DEF Named, Proposed

(* A group that is queued while a proposal names it has been queued again. *)
QueuedAgain == Parties \cap newToQueue \cap Proposed \subseteq requeued

(* The finder's next state is in order but for the entries of S. *)
Queues(S) == \E x : FinderOK(x) /\ SearchedExcept(x, S) /\ Tidy(x) /\ Install(x)

LEMMA InstalledQueue ==
  ASSUME NEW x, FinderOK(x), QueueOK(x), Install(x)
  PROVE  Queues(cutShort)
  BY DEF Queues, QueueOK, Searched

LEMMA InstalledFades ==
  ASSUME NEW s, NEW x, QueueOK(s), Fades(s, x, {}), FinderOK(x), Install(x)
  PROVE  Queues(cutShort)
  BY FadesKeeps, InstalledQueue

LEMMA FindGroupsQueue ==
  ASSUME AskedWell(Finder), QueueOK(Finder), QueuedAgain, NEW x \in Entries, FindGroups(x)
  PROVE  Queues(cutShort')
  <1>. DEFINE q == Finder
              m       == q.new \ {x}
              s       == [q EXCEPT !.new = m]
              known   == {c \in s.compatible : x \in c}
              more    == {c \cup {x} : c \in s.compatible} \ known
              alone   == x \in DOMAIN s.data => Full(s, {x})
              tried   == CASE known # {} -> more
                           [] known = {} /\ alone -> {{x}}
                           [] OTHER -> more \cup {{x}}
              absent(e) == CASE x \notin DOMAIN s.data -> {x}
                             [] e \subseteq DOMAIN s.data -> {}
                             [] OTHER -> {CHOOSE y \in e : y \notin DOMAIN s.data}
              good    == {e \in tried : absent(e) = {} /\ Fits(s, e)}
              full    == {e \in good : Full(s, e)}
              out(e)  == IF e \in full THEN {y \in e : s.state[y] # "queued"} ELSE absent(e)
              matches == {e \in full : out(e) = {}}
              losing  == {e \in tried : out(e) # {}}
              whole(d) == UNION {out(e) : e \in d}
              found(d) == (good \ full) \ d
              c(d)     == s.compatible \cup ((good \ full) \ d)
              R(d, e)  == RemoveFromQueue([s EXCEPT !.compatible = c(d)], whole(e))
              S(d)     == IF d = {} THEN cutShort \ {x} ELSE cutShort \cup {x}
  <1>1. /\ x \in newToQueue
        /\ \E met \in SUBSET losing :
              \/ \E left \in SUBSET tried :
                    /\ left \subseteq LeftOut(x, found(left), tried, good \ full) /\ matches \subseteq left
                    /\ met = losing \ left \/ x \in whole(met)
                    /\ Install(R(left, met)) /\ cutShort' = S(left)
              \/ \E e \in matches : /\ whole(met) \cap e = {} /\ cutShort' = cutShort
                                     /\ Install(Match(RemoveFromQueue(s, whole(met)), e, x))
    BY DEF FindGroups
  <1>2. FinderOK(q) /\ QueueOK(q)
    BY DEF AskedWell
  <1>3. x \in Parties \cap Named(q) => x \in requeued
    BY <1>1, NamedIs DEF QueuedAgain
  <1>4. \A met \in SUBSET losing, left \in SUBSET tried :
           {x} \notin left /\ matches \subseteq left /\ (met = losing \ left \/ x \in whole(met))
             => SearchedExcept(R(left, met), S(left)) /\ Tidy(R(left, met))
    <2>. HIDE DEF q
    <2>0. SearchesWell(q, x)
      BY <1>2, <1>3, TriedQueue
    <2>1. \A met \in SUBSET losing, left \in SUBSET tried :
             LET gone == UNION {out(d) : d \in met}
                 k    == s.compatible \cup ((good \ full) \ left)
                 r    == RemoveFromQueue([s EXCEPT !.compatible = k], gone)
                 T    == IF left = {} THEN cutShort \ {x} ELSE cutShort \cup {x}
             IN  {x} \notin left /\ matches \subseteq left /\ (met = losing \ left \/ x \in gone)
                   => SearchedExcept(r, T) /\ Tidy(r)
      BY <2>0, ZenonT(60) DEF SearchesWell
    <2>. HIDE DEF losing, tried, matches, good, full, out, s
    <2>. QED  BY <2>1, ZenonT(60)
  <1>5. \A e \in matches : e \in SUBSET DOMAIN s.data /\ x \in e
    <2>1. \A e : absent(e) = {} => e \subseteq DOMAIN s.data
      OBVIOUS
    <2>2. \A e \in tried : x \in e
      OBVIOUS
    <2>. HIDE DEF absent, tried, s
    <2>. QED  BY <2>1, <2>2
  <1>5a. \A d, f, T : {x} \notin LeftOut(x, d, f, T)
    BY DEF LeftOut
  <1>. HIDE DEF losing, matches, tried, good, full, out, q, m, S
  <1>6. PICK gone : \/ \E v : LET r == RemoveFromQueue([s EXCEPT !.compatible = v], gone)
                            IN  SearchedExcept(r, cutShort') /\ Tidy(r) /\ Install(r)
                    \/ /\ cutShort' = cutShort
                       /\ \E e \in matches : gone \cap e = {} /\ Install(Match(RemoveFromQueue(s, gone), e, x))
    <2>1. PICK met \in SUBSET losing :
              \/ \E left \in SUBSET tried :
                    /\ left \subseteq LeftOut(x, found(left), tried, good \ full) /\ matches \subseteq left
                    /\ met = losing \ left \/ x \in whole(met)
                    /\ Install(R(left, met)) /\ cutShort' = S(left)
              \/ \E e \in matches : /\ whole(met) \cap e = {} /\ cutShort' = cutShort
                                     /\ Install(Match(RemoveFromQueue(s, whole(met)), e, x))
      BY <1>1
    <2>2. CASE \E left \in SUBSET tried :
                    /\ left \subseteq LeftOut(x, found(left), tried, good \ full) /\ matches \subseteq left
                    /\ met = losing \ left \/ x \in whole(met)
                    /\ Install(R(left, met)) /\ cutShort' = S(left)
      <3>1. PICK left \in SUBSET tried :
                    /\ left \subseteq LeftOut(x, found(left), tried, good \ full) /\ matches \subseteq left
                    /\ met = losing \ left \/ x \in whole(met)
                    /\ Install(R(left, met)) /\ cutShort' = S(left)
        BY <2>2
      <3>2. SearchedExcept(R(left, met), cutShort') /\ Tidy(R(left, met))
        <4>1. {x} \notin left
          BY <1>5a, <3>1
        <4>. HIDE DEF R, whole
        <4>. QED  BY <1>4, <3>1, <4>1
      <3>. QED  BY <3>1, <3>2
    <2>. QED  BY <2>1, <2>2
  <1>7. Calm(q, s) /\ FinderOK(s) /\ \A v : FinderOK([s EXCEPT !.compatible = v])
    <2>1. Calm(q, s)
      BY <1>2, FieldsFree
    <2>. HIDE DEF s
    <2>2. FinderOK(s)
      BY <2>1 DEF Calm
    <2>3. \A v : Calm(s, [s EXCEPT !.compatible = v])
      BY <2>2, FieldsFree
    <2>. QED  BY <2>1, <2>2, <2>3 DEF Calm
  <1>8. /\ s.data = q.data /\ s.old = q.old /\ s.state = q.state /\ s.parties = q.parties
        /\ s.compatible = q.compatible /\ s.new = m /\ s.checks = q.checks /\ s.proposals = q.proposals
    BY <1>2 DEF FinderOK, Fielded
  <1>. HIDE DEF s
  <1>9. ASSUME NEW v, LET r == RemoveFromQueue([s EXCEPT !.compatible = v], gone)
                      IN  SearchedExcept(r, cutShort') /\ Tidy(r) /\ Install(r)
        PROVE  Queues(cutShort')
    <2>. DEFINE l == [s EXCEPT !.compatible = v]
                r == RemoveFromQueue(l, gone)
    <2>1. FinderOK(l)
      BY <1>7
    <2>. HIDE DEF l
    <2>2. FinderOK(r)
      BY <2>1, RemoveFromQueueDoes DEF Quiet, Calm
    <2>3. SearchedExcept(r, cutShort') /\ Tidy(r) /\ Install(r)
      BY <1>9 DEF l
    <2>. HIDE DEF r
    <2>. QED  BY <2>2, <2>3 DEF Queues
  <1>10. CASE /\ cutShort' = cutShort
              /\ \E e \in matches : gone \cap e = {} /\ Install(Match(RemoveFromQueue(s, gone), e, x))
    <2>1. PICK e \in matches : gone \cap e = {} /\ Install(Match(RemoveFromQueue(s, gone), e, x))
      BY <1>10
    <2>. DEFINE r == RemoveFromQueue(s, gone)
                t == RemoveFromQueue(q, gone)
    <2>2. /\ Calm(s, r) /\ r.proposals = s.proposals /\ r.parties = s.parties /\ r.state = s.state
          /\ r.old = s.old /\ r.checks = s.checks /\ r.data = Drop(s.data, gone)
          /\ r.new = s.new \ gone /\ r.compatible = {d \in s.compatible : d \cap gone = {}}
      BY <1>7, RemoveFromQueueDoes DEF Quiet, Calm
    <2>3. /\ t.proposals = q.proposals /\ t.parties = q.parties /\ t.state = q.state
          /\ t.old = q.old /\ t.checks = q.checks /\ t.data = Drop(q.data, gone)
          /\ t.new = q.new \ gone /\ t.compatible = {d \in q.compatible : d \cap gone = {}}
      BY <1>2, RemoveFromQueueDoes DEF Quiet, Calm
    <2>4. QueueOK(t)
      BY <1>2, RemoveFromQueueFades, FadesKeeps
    <2>. HIDE DEF r, t
    <2>5. AskedWell(r) /\ FinderOK(r)
      <3>1. AskedWell(q)
        BY DEF q
      <3>2. AskedWell(r)
        BY <1>7, <2>2, <3>1, CalmKeeps
      <3>. QED  BY <3>2 DEF AskedWell
    <2>6. e \in SUBSET DOMAIN r.data /\ t.new \subseteq r.new \cup e
      BY <1>5, <1>8, <2>1, <2>2, <2>3 DEF Drop, m
    <2>7. /\ r.state = t.state /\ r.old = t.old /\ r.parties = t.parties /\ r.data = t.data
          /\ r.compatible = t.compatible /\ r.proposals = t.proposals /\ r.checks = t.checks
      BY <1>8, <2>2, <2>3
    <2>8. QueueOK(Match(r, e, x))
      BY <2>4, <2>5, <2>6, <2>7, MatchQueue
    <2>9. FinderOK(Match(r, e, x))
      BY <2>5, <2>6, MatchDoes DEF AskedWell
    <2>10. Queues(cutShort)
      BY <2>1, <2>8, <2>9, InstalledQueue DEF r
    <2>. QED  BY <1>10, <2>10
  <1>. QED  BY <1>6, <1>9, <1>10

-----------------------------------------------------------------------------
(* The steps of the finder. *)

LEMMA UpdatesQueue ==
  ASSUME AskedWell(Finder), QueueOK(Finder), QueuedAgain, Updates
  PROVE  Queues(cutShort')
  <1>1. FinderOK(Finder)
    BY DEF AskedWell
  <1>2. ASSUME NEW x \in Entries, QueuedTooLong(x) PROVE Queues(cutShort)
    <2>. DEFINE d == Drop(Finder.data, {x})
                s == [Finder EXCEPT !.data = d]
                g == IF x \in Finders THEN PartyOf(s, x) ELSE x
    <2>1. Install(LeaveAllLfgQueues(s, x, g))
      BY <1>2 DEF QueuedTooLong
    <2>2. g \in Parties \cup {NoParty} /\ (x \in Finders \/ g \in Parties)
      BY PartyOfIs DEF Entries
    <2>3. Manned(d)
      BY <1>1, DropKeeps DEF FinderOK
    <2>4. Fades(Finder, s, {})
      BY <1>1, FieldsFade
    <2>. HIDE DEF d, g
    <2>5. Calm(Finder, s)
      BY <1>1, <2>3, FieldsFree
    <2>. HIDE DEF s
    <2>. DEFINE t == LeaveAllLfgQueues(s, x, g)
    <2>6. FinderOK(s)
      BY <2>5 DEF Calm
    <2>7. FinderOK(t)
      BY <2>6, LeaveAllLfgQueuesDoes DEF Calm, Quiet
    <2>8. Fades(s, t, {})
      BY <2>2, <2>6, LeaveAllLfgQueuesFades
    <2>. HIDE DEF t
    <2>9. Fades(Finder, t, {})
      BY <2>4, <2>8, FadesOn
    <2>. QED  BY <2>1, <2>7, <2>9, InstalledFades DEF t
  <1>3. ASSUME NEW X, Refresh(X) PROVE Queues(cutShort)
    <2>1. FinderOK(AddToQueue(Finder, X)) /\ Fades(Finder, AddToQueue(Finder, X), {})
      BY <1>1, AddToQueueDoes, AddToQueueFades DEF Calm
    <2>. QED  BY <1>3, <2>1, InstalledFades DEF Refresh
  <1>4. ASSUME NEW i \in DOMAIN proposals, ProposalExpires(i) PROVE Queues(cutShort)
    <2>. DEFINE t == RemoveProposal(Finder, i, TRUE)
    <2>1. i \in DOMAIN Finder.proposals
      BY DEF Finder
    <2>2. FinderOK(t) /\ QueueOK(t)
      BY <1>1, <2>1, RemoveProposalDoes, RemoveProposalQueue DEF AskedWell
    <2>. HIDE DEF t
    <2>. QED  BY <1>4, <2>2, InstalledQueue DEF ProposalExpires, t
  <1>5. ASSUME NEW g \in Parties, RoleCheckExpires(g) PROVE Queues(cutShort)
    <2>1. FinderOK(EndRoleCheck(Finder, g)) /\ Fades(Finder, EndRoleCheck(Finder, g), {})
      BY <1>1, EndRoleCheckDoes, EndRoleCheckFades DEF Quiet, Calm
    <2>. QED  BY <1>5, <2>1, InstalledFades DEF RoleCheckExpires
  <1>6. CASE \E x \in Entries : FindGroups(x)
    BY <1>6, FindGroupsQueue
  <1>7. CASE ~ \E x \in Entries : FindGroups(x)
    <2>1. cutShort' = cutShort
      BY <1>7 DEF Updates
    <2>. QED  BY <1>2, <1>3, <1>4, <1>5, <1>7, <2>1 DEF Updates
  <1>. QED  BY <1>6, <1>7

(* A group that is not in the queue may check its roles. *)
LEMMA ChecksQueue ==
  ASSUME NEW s, FinderOK(s), QueueOK(s), NEW g \in Parties, Idle(s, g) \/ g \in requeued, NEW f
  PROVE  QueueOK([s EXCEPT !.checks = With(s.checks, g, f)])
  <1>. DEFINE c == With(s.checks, g, f)
              t == [s EXCEPT !.checks = c]
  <1>1. DOMAIN c = DOMAIN s.checks \cup {g}
    BY DEF With
  <1>. HIDE DEF c
  <1>2. /\ t.proposals = s.proposals /\ t.state = s.state /\ t.old = s.old /\ t.parties = s.parties
        /\ t.data = s.data /\ t.new = s.new /\ t.compatible = s.compatible /\ t.checks = c
    BY DEF FinderOK, Fielded
  <1>. HIDE DEF t
  <1>3. View(t) = View(s) /\ Named(t) = Named(s)
    BY <1>2 DEF View, Named
  <1>4. Searched(t)
    BY <1>2, <1>3 DEF QueueOK, Tidy, Searched, SearchedExcept, Queueing, SuitsIn, FullIn
  <1>5. Listing(t)
    BY <1>2, <1>3 DEF QueueOK, Tidy, Listing, Queueing, SuitsIn, FullIn
  <1>6. Resting(t)
    BY <1>1, <1>2 DEF QueueOK, Tidy, Resting, Idle, Combined
  <1>7. Stored(t)
    BY <1>2 DEF QueueOK, Tidy, Stored
  <1>8. Apart(t)
    BY <1>2, <1>3 DEF QueueOK, Tidy, Apart, Combined
  <1>9. QueueOK(t)
    BY <1>4, <1>5, <1>6, <1>7, <1>8 DEF QueueOK, Tidy
  <1>. QED  BY <1>9 DEF t, c

LEMMA JoinLfgQueue ==
  ASSUME AskedWell(Finder), QueueOK(Finder), NEW p \in Finders, NEW valid, NEW answer,
         JoinLfg(p, valid, answer)
  PROVE  Queues(cutShort)
  <1>. DEFINE g == PartyOf(Finder, p)
              x == IF g = NoParty THEN p ELSE g
              s == CASE lfgState[x] = "rolecheck" /\ g # NoParty -> EndRoleCheck(Finder, g)
                     [] lfgState[x] = "queued" -> RemoveFromQueue(Finder, {x})
                     [] OTHER -> Finder
              who == parties[g].members
              a == SetState(s, who \cup {g}, "rolecheck")
              f == [q \in who |-> FALSE]
              c == With(a.checks, g, f)
              t == [a EXCEPT !.checks = c]
              b == AddQueueData(s, p, {p})
              alone == SetState(b, {p}, "queued")
              together == UpdateRoleCheck(t, g, p, answer)
  <1>1. \/ Install(s)
        \/ g = NoParty /\ Install(alone)
        \/ g # NoParty /\ lfgState[x] # "proposal" /\ Install(together)
    BY DEF JoinLfg
  <1>2. FinderOK(Finder) /\ Finder.parties = parties /\ Finder.state = lfgState
    BY DEF AskedWell, Finder
  <1>3. g # NoParty => g \in Parties /\ p \in who
    BY <1>2, PartyOfIs
  <1>4. g # NoParty => who \subseteq Finders
    <2>1. Grouped(Finder.parties)
      BY <1>2 DEF FinderOK
    <2>. HIDE DEF g
    <2>. QED  BY <1>2, <1>3, <2>1 DEF Grouped, GroupOK
  <1>. DEFINE e == EndRoleCheck(Finder, g)
              r == RemoveFromQueue(Finder, {x})
  <1>5. /\ Calm(Finder, e) /\ Fades(Finder, e, {}) /\ e.parties = parties
        /\ Calm(Finder, r) /\ Fades(Finder, r, {}) /\ r.parties = parties
        /\ Calm(Finder, Finder) /\ Fades(Finder, Finder, {})
        /\ Idle(r, x)
    <2>. HIDE DEF g, x
    <2>1. Calm(Finder, e) /\ Fades(Finder, e, {}) /\ e.parties = parties
      BY <1>2, EndRoleCheckDoes, EndRoleCheckFades DEF Quiet
    <2>2. Calm(Finder, r) /\ Fades(Finder, r, {}) /\ r.parties = parties /\ Idle(r, x)
      BY <1>2, RemoveFromQueueDoes, RemoveFromQueueFades DEF Quiet
    <2>3. Calm(Finder, Finder) /\ Fades(Finder, Finder, {})
      BY <1>2, QuietItself, FadesItself DEF Quiet
    <2>. QED  BY <2>1, <2>2, <2>3
  <1>6. s \in {e, Finder} \/ (s = r /\ lfgState[x] = "queued")
    OBVIOUS
  <1>7. lfgState[x] = "queued" => s = r
    OBVIOUS
  <1>. HIDE DEF e, r
  <1>. HIDE DEF s
  <1>8. Calm(Finder, s) /\ Fades(Finder, s, {}) /\ s.parties = parties
    BY <1>2, <1>5, <1>6
  <1>9. g # NoParty /\ lfgState[x] # "proposal" => Idle(s, g) \/ g \in requeued
    <2>. SUFFICES ASSUME g # NoParty, lfgState[x] # "proposal", g \notin requeued PROVE Idle(s, g)
      OBVIOUS
    <2>1. x = g
      OBVIOUS
    <2>2. CASE lfgState[g] = "queued"
      BY <1>5, <1>7, <2>1, <2>2
    <2>3. CASE lfgState[g] # "queued"
      <3>1. parties[g] # NoGroup
        BY <1>3 DEF NoGroup
      <3>2. Idle(Finder, g)
        BY <1>2, <1>3, <2>1, <2>3, <3>1 DEF QueueOK, Tidy, Resting
      <3>. QED  BY <1>8, <3>2, FadesListed
    <2>. QED  BY <2>2, <2>3
  <1>10. FinderOK(s) /\ QueueOK(s)
    BY <1>8, FadesKeeps DEF Calm
  <1>. HIDE DEF g, who, x
  <1>11. FinderOK(alone) /\ QueueOK(alone)
    <2>1. {p} \in SUBSET Finders
      OBVIOUS
    <2>2. /\ b.data = With(s.data, p, {p}) /\ b.new = s.new \cup {p} /\ b.compatible = s.compatible
          /\ b.parties = s.parties /\ b.checks = s.checks /\ b.state = s.state /\ b.old = s.old
          /\ b.proposals = s.proposals /\ FinderOK(b)
      BY <1>10, <2>1, AddQueueDataIs
    <2>. HIDE DEF b
    <2>3. /\ FinderOK(alone) /\ alone.parties = b.parties /\ alone.proposals = b.proposals
          /\ alone.data = b.data /\ alone.new = b.new /\ alone.compatible = b.compatible
          /\ alone.checks = b.checks
          /\ \A y \in Entries : alone.state[y] = IF y \in {p} THEN "queued" ELSE b.state[y]
          /\ \A y \in Entries \ {p} : alone.old[y] = b.old[y]
      BY <2>2, SetStateDoes
    <2>. HIDE DEF alone
    <2>4. DOMAIN alone.checks \subseteq DOMAIN s.checks \ {p}
      BY <1>10, <2>2, <2>3, PlayersAndParties DEF QueueOK, Tidy, Resting
    <2>5. Enters(s, p, {p}, {p}, alone)
      BY <2>1, <2>2, <2>3, <2>4, PlayersAndParties DEF Enters
    <2>. QED  BY <1>10, <2>3, <2>5, EntersQueue
  <1>. HIDE DEF alone
  <1>12. g # NoParty /\ lfgState[x] # "proposal" => FinderOK(together) /\ QueueOK(together)
    <2>. SUFFICES ASSUME g # NoParty, lfgState[x] # "proposal"
                  PROVE  FinderOK(together) /\ QueueOK(together)
      OBVIOUS
    <2>1. \A h \in ((who \cup {g}) \cap Parties) \ requeued : Idle(s, h)
      BY <1>4, <1>9, PlayersAndParties
    <2>2. FinderOK(a) /\ Fades(s, a, {}) /\ a.parties = s.parties
      BY <1>10, <2>1, SetStateDoes, SetStateFades
    <2>. HIDE DEF a
    <2>3. QueueOK(a) /\ (Idle(a, g) \/ g \in requeued)
      BY <1>9, <1>10, <2>2, FadesKeeps, FadesListed
    <2>4. QueueOK(t)
      BY <1>3, <2>2, <2>3, ChecksQueue
    <2>5. Checked(c)
      <3>1. Checked(a.checks)
        BY <2>2 DEF FinderOK
      <3>2. DOMAIN f \subseteq Finders
        BY <1>4
      <3>. HIDE DEF f
      <3>. QED  BY <3>1, <3>2 DEF Checked, With
    <2>. HIDE DEF c
    <2>6. Calm(a, t)
      BY <2>2, <2>5, FieldsFree
    <2>7. t.parties = a.parties
      BY <2>2 DEF FinderOK, Fielded
    <2>. HIDE DEF t
    <2>8. FinderOK(t)
      BY <2>6 DEF Calm
    <2>9. t.parties[g].members # {}
      BY <1>3, <1>8, <2>2, <2>7 DEF who
    <2>10. FinderOK(together)
      BY <2>8, UpdateRoleCheckDoes DEF Calm
    <2>. QED  BY <1>3, <2>4, <2>8, <2>9, <2>10, UpdateRoleCheckQueue
  <1>. HIDE DEF together
  <1>. QED  BY <1>1, <1>10, <1>11, <1>12, InstalledQueue

LEMMA LeavesFinderQueue ==
  ASSUME NEW s, AskedWell(s), QueueOK(s), NEW x \in Entries, NEW p \in Finders,
         NEW g \in Parties \cup {NoParty}
  PROVE  QueueOK(LeaveAllLfgQueues(LeaveLfg(s, x), p, g))
  <1>. DEFINE l == LeaveLfg(s, x)
  <1>1. FinderOK(l) /\ QueueOK(l)
    BY LeaveLfgDoes, LeaveLfgQueue DEF AskedWell
  <1>. HIDE DEF l
  <1>2. Fades(l, LeaveAllLfgQueues(l, p, g), {})
    BY <1>1, LeaveAllLfgQueuesFades
  <1>3. QueueOK(LeaveAllLfgQueues(l, p, g))
    BY <1>1, <1>2, FadesKeeps
  <1>. QED  BY <1>3 DEF l

LEMMA LeaveFinderQueue ==
  ASSUME AskedWell(Finder), QueueOK(Finder), NEW p \in Finders, LeaveFinder(p)
  PROVE  Queues(cutShort)
  <1>. DEFINE g == PartyOf(Finder, p)
              x == IF g = NoParty THEN p ELSE g
              t == LeaveAllLfgQueues(LeaveLfg(Finder, x), p, g)
  <1>1. Install(t)
    BY DEF LeaveFinder
  <1>2. x \in Entries /\ g \in Parties \cup {NoParty}
    BY PartyOfIs, PlayersAndParties
  <1>. HIDE DEF g, x
  <1>3. FinderOK(t) /\ QueueOK(t)
    BY <1>2, LeavesFinder, LeavesFinderQueue DEF AskedWell
  <1>. HIDE DEF t
  <1>. QED  BY <1>1, <1>3, InstalledQueue

LEMMA ChooseRoleQueue ==
  ASSUME AskedWell(Finder), QueueOK(Finder), NEW p \in Finders, NEW answer, ChooseRole(p, answer)
  PROVE  Queues(cutShort)
  <1>. DEFINE g == PartyOf(Finder, p)
              t == UpdateRoleCheck(Finder, g, p, answer)
  <1>1. Install(t) /\ g \in DOMAIN Finder.checks
    BY DEF ChooseRole, Finder
  <1>2. g \in Parties /\ p \in Finder.parties[g].members
    BY <1>1, PartyOfIs, DungeonAssumption DEF QueueOK, Tidy, Resting
  <1>. HIDE DEF g
  <1>3. FinderOK(t) /\ QueueOK(t)
    BY <1>2, UpdateRoleCheckDoes, UpdateRoleCheckQueue DEF AskedWell, Calm
  <1>. HIDE DEF t
  <1>. QED  BY <1>1, <1>3, InstalledQueue

LEMMA AnswerProposalQueue ==
  ASSUME AskedWell(Finder), QueueOK(Finder), NEW i \in DOMAIN proposals, NEW p, NEW accept, NEW leader,
         NEW inside, AnswerProposal(i, p, accept, leader, inside)
  PROVE  Queues(cutShort)
  <1>1. i \in DOMAIN Finder.proposals /\ leader \in DOMAIN Finder.proposals[i].answer
    BY DEF AnswerProposal, Finder
  <1>2. PICK g \in Parties : Unused(Finder, g)
    BY DEF AnswerProposal
  <1>. DEFINE x == UpdateProposal(Finder, i, p, accept, leader, inside)
  <1>3. AskedWell(x)
    BY <1>1, <1>2, UpdateProposalDoes
  <1>4. QueueOK(x)
    BY <1>1, <1>2, UpdateProposalQueue
  <1>5. Install(x)
    BY DEF AnswerProposal
  <1>. HIDE DEF x
  <1>. QED  BY <1>3, <1>4, <1>5, InstalledQueue DEF AskedWell

(* Invitations do not matter to the queue. *)
LEMMA InvitedFades ==
  ASSUME NEW s, FinderOK(s), NEW h \in Parties, s.parties[h] # NoGroup, NEW v
  PROVE  LET t == [s EXCEPT !.parties[h].invited = v]
         IN  Fades(s, t, {}) /\ t.parties[h].members = s.parties[h].members
  <1>. DEFINE G == [s.parties[h] EXCEPT !.invited = v]
              t == [s EXCEPT !.parties[h] = G]
  <1>1. G.members = s.parties[h].members
    BY DEF FinderOK, Grouped, GroupOK
  <1>2. [s EXCEPT !.parties[h].invited = v] = t
    OBVIOUS
  <1>. HIDE DEF G
  <1>3. Fades(s, t, {})
    BY <1>1, GroupFades
  <1>4. t.parties[h] = G
    BY DEF FinderOK, Fielded, Grouped
  <1>. HIDE DEF t
  <1>. QED  BY <1>1, <1>2, <1>3, <1>4

LEMMA InviteToPartyQueue ==
  ASSUME AskedWell(Finder), QueueOK(Finder), NEW l \in Finders, NEW p \in Finders, InviteToParty(l, p)
  PROVE  Queues(cutShort)
  <1>. DEFINE s(h) == [Finder EXCEPT !.parties[h].invited = Finder.parties[h].invited \cup {p}]
              G    == [NoGroup EXCEPT !.leader = l, !.invited = {l, p}]
              t(h) == [Finder EXCEPT !.parties[h] = G]
              left(u) == LeaveAllLfgQueues(LeaveLfg(u, l), l, NoParty)
  <1>1. \E h \in Parties : \/ parties[h].leader = l /\ (Install(s(h)) \/ Install(left(s(h))))
                           \/ Unused(Finder, h) /\ Install(left(t(h)))
    <2>1. PartyOf(Finder, l) # NoParty => PartyOf(Finder, l) \in Parties
      BY PartyOfIs
    <2>2. \A q : InvitedBy(Finder, q) \subseteq Parties
      BY DEF InvitedBy
    <2>. QED  BY <2>1, <2>2 DEF InviteToParty
  <1>2. FinderOK(Finder) /\ GroupOK(G) /\ Finder.parties = parties
    BY NewGroups DEF AskedWell, Finder
  <1>. HIDE DEF G
  <1>3. ASSUME NEW h \in Parties, parties[h].leader = l PROVE AskedWell(s(h)) /\ QueueOK(s(h))
    <2>1. Calm(Finder, s(h))
      BY <1>2, InvitedChanged
    <2>2. parties[h] # NoGroup
      BY <1>3, DungeonAssumption DEF NoGroup
    <2>3. Fades(Finder, s(h), {})
      BY <1>2, <2>2, InvitedFades
    <2>. HIDE DEF s
    <2>. QED  BY <2>1, <2>3, CalmKeeps, FadesKeeps
  <1>4. ASSUME NEW h \in Parties, Unused(Finder, h) PROVE AskedWell(t(h)) /\ QueueOK(t(h))
    <2>1. Calm(Finder, t(h))
      BY <1>2, GroupChanged
    <2>2. Idle(Finder, h)
      BY <1>4, UnusedIdle
    <2>3. Fades(Finder, t(h), {})
      BY <1>2, <2>2, GroupFades
    <2>. HIDE DEF t
    <2>. QED  BY <2>1, <2>3, CalmKeeps, FadesKeeps
  <1>. HIDE DEF s, t
  <1>5. \A u : AskedWell(u) /\ QueueOK(u) => AskedWell(left(u)) /\ QueueOK(left(u))
    BY LeavesFinder, LeavesFinderQueue, PlayersAndParties
  <1>. HIDE DEF left
  <1>6. PICK h \in Parties : \/ parties[h].leader = l /\ (Install(s(h)) \/ Install(left(s(h))))
                             \/ Unused(Finder, h) /\ Install(left(t(h)))
    BY <1>1
  <1>. QED  BY <1>3, <1>4, <1>5, <1>6, InstalledQueue DEF AskedWell

LEMMA AcceptInvitationQueue ==
  ASSUME AskedWell(Finder), QueueOK(Finder), NEW p \in Finders, AcceptInvitation(p)
  PROVE  Queues(cutShort)
  <1>1. PICK g \in InvitedBy(Finder, p) :
          LET l == parties[g].leader
              s == [Finder EXCEPT !.parties[g].invited = Finder.parties[g].invited \ {p}]
              t == IF Exists(s, g) THEN s ELSE JoinParty(SetState(s, {g}, "none"), g, l)
          IN Install(IF l = p \/ IsFull(s, g) THEN s
                     ELSE IF ~Exists(s, g) /\ l \notin online
                          THEN [s EXCEPT !.parties[g] = NoGroup]
                     ELSE JoinParty(t, g, p))
    BY DEF AcceptInvitation
  <1>. DEFINE l == parties[g].leader
              s == [Finder EXCEPT !.parties[g].invited = Finder.parties[g].invited \ {p}]
              a == SetState(s, {g}, "none")
              b == JoinParty(a, g, l)
              t == IF Exists(s, g) THEN s ELSE b
              n == [s EXCEPT !.parties[g] = NoGroup]
              u == JoinParty(t, g, p)
  <1>2. Install(s) \/ Install(n) \/ ((Exists(s, g) \/ l \in online) /\ Install(u))
    BY <1>1
  <1>3. /\ g \in Parties /\ FinderOK(Finder) /\ online \subseteq Finders
        /\ Finder.parties = parties /\ p \in parties[g].invited
    BY DEF AskedWell, FinderOK, InvitedBy, Finder
  <1>4. Finder.parties[g] # NoGroup
    BY <1>3 DEF NoGroup
  <1>. HIDE DEF l
  <1>5. Calm(Finder, s) /\ Fades(Finder, s, {}) /\ s.parties[g].members = Finder.parties[g].members
    BY <1>3, <1>4, InvitedChanged, InvitedFades
  <1>. HIDE DEF s
  <1>6. FinderOK(s) /\ QueueOK(s)
    BY <1>5, FadesKeeps DEF Calm
  <1>7. FinderOK(n) /\ QueueOK(n)
    <2>1. Calm(s, n) /\ Fades(s, n, {})
      BY <1>3, <1>6, NewGroups, GroupChanged, GroupFades
    <2>. HIDE DEF n
    <2>. QED  BY <1>6, <2>1, FadesKeeps DEF Calm
  <1>. HIDE DEF n
  <1>8. Exists(s, g) \/ l \in online => FinderOK(t) /\ QueueOK(t) /\ t.parties[g].members # {}
    <2>1. CASE Exists(s, g)
      BY <1>6, <2>1 DEF Exists
    <2>2. CASE ~Exists(s, g) /\ l \in online
      <3>1. s.parties[g].members = {}
        BY <1>3, <2>2, DungeonAssumption DEF Exists
      <3>2. Idle(Finder, g) \/ g \in requeued
        BY <1>3, <1>4, <1>5, <3>1 DEF QueueOK, Tidy, Resting
      <3>3. Idle(s, g) \/ g \in requeued
        BY <1>5, <3>2, FadesListed
      <3>4. FinderOK(a) /\ Fades(s, a, {})
        BY <1>6, <3>3, SetStateDoes, SetStateFades
      <3>. HIDE DEF a
      <3>5. QueueOK(a) /\ (Idle(a, g) \/ g \in requeued)
        BY <1>6, <3>3, <3>4, FadesKeeps, FadesListed
      <3>6. FinderOK(b) /\ Fades(a, b, {}) /\ b.parties[g].members # {}
        BY <1>3, <2>2, <3>4, <3>5, JoinPartyDoes, JoinPartyFades DEF Calm
      <3>. HIDE DEF b
      <3>. QED  BY <2>2, <3>5, <3>6, FadesKeeps
    <2>. QED  BY <2>1, <2>2
  <1>. HIDE DEF t
  <1>9. Exists(s, g) \/ l \in online => FinderOK(u) /\ QueueOK(u)
    <2>. SUFFICES ASSUME Exists(s, g) \/ l \in online PROVE FinderOK(u) /\ QueueOK(u)
      OBVIOUS
    <2>1. FinderOK(u) /\ Fades(t, u, {})
      BY <1>3, <1>8, JoinPartyDoes, JoinPartyFades DEF Calm
    <2>. HIDE DEF u
    <2>. QED  BY <1>8, <2>1, FadesKeeps
  <1>. HIDE DEF u
  <1>. QED  BY <1>2, <1>6, <1>7, <1>9, InstalledQueue

LEMMA UninviteFromGroupFades ==
  ASSUME NEW s, FinderOK(s), NEW p
  PROVE  Fades(s, UninviteFromGroup(s, p), {})
  <1>. DEFINE g == CHOOSE h \in InvitedBy(s, p) : TRUE
              t == [s EXCEPT !.parties[g].invited = s.parties[g].invited \ {p}]
              n == [t EXCEPT !.parties[g] = NoGroup]
              d == DisbandParty(t, g)
  <1>1. UninviteFromGroup(s, p) = s \/ (InvitedBy(s, p) # {} /\ UninviteFromGroup(s, p) \in {t, n, d})
    BY DEF UninviteFromGroup
  <1>2. CASE UninviteFromGroup(s, p) = s
    BY <1>2, FadesItself
  <1>3. CASE InvitedBy(s, p) # {} /\ UninviteFromGroup(s, p) \in {t, n, d}
    <2>1. g \in Parties /\ p \in s.parties[g].invited
      <3>1. g \in InvitedBy(s, p)
        BY <1>3
      <3>. HIDE DEF g
      <3>. QED  BY <3>1 DEF InvitedBy
    <2>. HIDE DEF g
    <2>2. s.parties[g] # NoGroup
      BY <2>1 DEF NoGroup
    <2>3. Fades(s, t, {}) /\ FinderOK(t)
      BY <2>1, <2>2, InvitedChanged, InvitedFades DEF Calm
    <2>. HIDE DEF t
    <2>4. Fades(t, n, {}) /\ Fades(t, d, {})
      BY <2>1, <2>3, GroupFades, DisbandPartyFades
    <2>. HIDE DEF n, d
    <2>. QED  BY <1>3, <2>3, <2>4, FadesOn
  <1>. QED  BY <1>1, <1>2, <1>3

LEMMA PartyRequestsQueue ==
  ASSUME AskedWell(Finder), QueueOK(Finder), NEW p \in Finders, NEW b,
         DeclineInvitation(p) \/ LeaveParty(p, b) \/ ChangeMap(p) \/ LoginFinder(p)
  PROVE  Queues(cutShort)
  <1>1. FinderOK(Finder)
    BY DEF AskedWell
  <1>2. CASE DeclineInvitation(p)
    <2>. DEFINE t == UninviteFromGroup(Finder, p)
    <2>1. FinderOK(t) /\ Fades(Finder, t, {})
      BY <1>1, UninviteFromGroupDoes, UninviteFromGroupFades DEF Calm
    <2>. HIDE DEF t
    <2>. QED  BY <1>2, <2>1, InstalledFades DEF DeclineInvitation, t
  <1>. DEFINE g == PartyOf(Finder, p)
  <1>3. g # NoParty => g \in Parties
    BY PartyOfIs
  <1>4. CASE LeaveParty(p, b)
    <2>. DEFINE t == LeaveGroup(Finder, g, p, "leave", b)
    <2>1. g # NoParty /\ Install(t)
      BY <1>4 DEF LeaveParty
    <2>. HIDE DEF g
    <2>2. FinderOK(t) /\ QueueOK(t)
      BY <1>1, <1>3, <2>1, LeaveGroupDoes, LeaveGroupQueue DEF AskedWell
    <2>. HIDE DEF t
    <2>. QED  BY <2>1, <2>2, InstalledQueue
  <1>5. CASE ChangeMap(p)
    <2>. DEFINE t == DisbandParty(Finder, g)
    <2>1. g # NoParty /\ Install(t)
      BY <1>5 DEF ChangeMap
    <2>. HIDE DEF g
    <2>2. FinderOK(t) /\ Fades(Finder, t, {})
      BY <1>1, <1>3, <2>1, DisbandPartyDoes, DisbandPartyFades DEF Quiet, Calm
    <2>. HIDE DEF t
    <2>. QED  BY <2>1, <2>2, InstalledFades
  <1>6. CASE LoginFinder(p)
    <2>. DEFINE v == Finder.online \cup {p}
                x == [Finder EXCEPT !.online = v]
    <2>1. Install(x)
      BY <1>6 DEF LoginFinder
    <2>2. v \subseteq Finders
      BY <1>1 DEF FinderOK
    <2>. HIDE DEF v
    <2>3. Calm(Finder, x) /\ Fades(Finder, x, {})
      BY <1>1, <2>2, FieldsFree, FieldsFade
    <2>. HIDE DEF x
    <2>4. FinderOK(x)
      BY <2>3 DEF Calm
    <2>. QED  BY <2>1, <2>3, <2>4, InstalledFades
  <1>. QED  BY <1>2, <1>4, <1>5, <1>6

LEMMA LogoutFinderQueue ==
  ASSUME AskedWell(Finder), QueueOK(Finder), NEW p \in Finders, NEW connected, LogoutFinder(p, connected)
  PROVE  Queues(cutShort)
  <1>. DEFINE s == UninviteFromGroup(Finder, p)
              g == PartyOf(s, p)
              t == IF g # NoParty /\ ~s.parties[g].lfg /\ connected
                   THEN LeaveGroup(s, g, p, "default", FALSE) ELSE s
              l(h) == LeaveAllLfgQueues(LeaveLfg(t, p), p, h)
              OnLogout(u) == LET h == PartyOf(u, p)
                             IN IF h # NoParty /\ u.parties[h].lfg THEN u
                                ELSE LeaveAllLfgQueues(LeaveLfg(u, p), p, h)
              o == OnLogout(t)
              v == o.online \ {p}
              x == [o EXCEPT !.online = v]
  <1>1. Install(x)
    BY DEF LogoutFinder
  <1>2. AskedWell(s) /\ QueueOK(s)
    <2>1. Calm(Finder, s) /\ Fades(Finder, s, {})
      BY UninviteFromGroupDoes, UninviteFromGroupFades DEF AskedWell
    <2>. QED  BY <2>1, CalmKeeps, FadesKeeps
  <1>. HIDE DEF s
  <1>3. AskedWell(t) /\ QueueOK(t)
    <2>1. g # NoParty => g \in Parties
      BY PartyOfIs
    <2>. HIDE DEF g
    <2>. DEFINE q == LeaveGroup(s, g, p, "default", FALSE)
    <2>2. g # NoParty => AskedWell(q) /\ QueueOK(q)
      BY <1>2, <2>1, LeaveGroupDoes, LeaveGroupQueue DEF AskedWell
    <2>. QED  BY <1>2, <2>2
  <1>. HIDE DEF t
  <1>4. AskedWell(o) /\ QueueOK(o)
    <2>1. o = t \/ \E h \in Parties \cup {NoParty} : o = l(h)
      BY PartyOfIs
    <2>2. \A h \in Parties \cup {NoParty} : AskedWell(l(h)) /\ QueueOK(l(h))
      BY <1>3, LeavesFinder, LeavesFinderQueue, PlayersAndParties
    <2>. HIDE DEF o, l
    <2>. QED  BY <1>3, <2>1, <2>2
  <1>. HIDE DEF o
  <1>5. FinderOK(x) /\ Fades(o, x, {})
    <2>1. FinderOK(o) /\ v \subseteq Finders
      BY <1>4 DEF AskedWell, FinderOK
    <2>. HIDE DEF v
    <2>2. Calm(o, x) /\ Fades(o, x, {})
      BY <2>1, FieldsFree, FieldsFade
    <2>. HIDE DEF x
    <2>. QED  BY <2>2 DEF Calm
  <1>. HIDE DEF x
  <1>. QED  BY <1>1, <1>4, <1>5, InstalledFades

LEMMA RequestsQueue ==
  ASSUME AskedWell(Finder), QueueOK(Finder), Requests
  PROVE  Queues(cutShort)
  BY JoinLfgQueue, ChooseRoleQueue, AnswerProposalQueue, InviteToPartyQueue, PartyRequestsQueue,
     LogoutFinderQueue, LeaveFinderQueue, AcceptInvitationQueue
     DEF Requests

LEMMA QueueStarts == DFInit => QueueOK(Finder)
  <1>. SUFFICES ASSUME DFInit PROVE QueueOK(Finder)
    OBVIOUS
  <1>. DEFINE s == Finder
  <1>1. /\ s.data = [x \in {} |-> {}] /\ s.checks = [g \in {} |-> {}]
        /\ s.parties = [g \in Parties |-> NoGroup] /\ s.compatible = {} /\ s.proposals = <<>>
    BY DEF DFInit, Finder
  <1>. HIDE DEF s
  <1>2. DOMAIN s.data = {} /\ DOMAIN s.checks = {} /\ \A g \in Parties : s.parties[g] = NoGroup
    BY <1>1
  <1>3. DOMAIN s.proposals = {}
    BY <1>1, EmptySeq
  <1>4. Searched(s)
    BY <1>2 DEF Searched, SearchedExcept
  <1>5. Listing(s)
    BY <1>1 DEF Listing
  <1>6. Resting(s) /\ Stored(s)
    BY <1>2 DEF Resting, Stored
  <1>7. Apart(s)
    BY <1>3 DEF Apart, Named
  <1>8. QueueOK(s)
    BY <1>4, <1>5, <1>6, <1>7 DEF QueueOK, Tidy
  <1>. QED  BY <1>8 DEF s

(* What the history of the groups that were queued again may leave out is not in the queue. *)
LEMMA NextQueue ==
  ASSUME requeued \subseteq Parties, Queues(cutShort'), Remember
  PROVE  QueueOK(Finder)'
  <1>1. PICK x : FinderOK(x) /\ SearchedExcept(x, cutShort') /\ Tidy(x) /\ Install(x)
    BY DEF Queues
  <1>2. /\ Finder' = x /\ data' = x.data /\ compatible' = x.compatible /\ newToQueue' = x.new
        /\ proposals' = x.proposals
    BY <1>1 DEF Finder, Install, FinderOK, Fielded
  <1>3. Proposed' = Named(x)
    <2>1. \A P \in Range(x.proposals) : \E i \in DOMAIN x.proposals : P = x.proposals[i]
      BY DEF Range
    <2>2. \A i \in DOMAIN x.proposals : x.proposals[i] \in Range(x.proposals)
      BY DEF Range
    <2>3. Proposed' = UNION {P.entries : P \in Range(x.proposals)}
      BY <1>2 DEF Proposed
    <2>. QED  BY <2>1, <2>2, <2>3 DEF Named
  <1>4. /\ \A y \in DOMAIN x.data \cap requeued : y \in requeued'
        /\ \A g \in Parties : g \notin requeued' => g \notin requeued \/ (Idle(x, g) /\ g \notin Named(x))
    <2>1. requeued' = {g \in Parties \cap (DOMAIN x.data \cup (UNION x.compatible) \cup Named(x)) :
                          g \in requeued \/ g \in x.new \cap Named(x)}
      BY <1>2, <1>3 DEF Remember, Remains
    <2>. QED  BY <2>1 DEF Idle, Combined
  <1>5. Searched(x)'
    <2>1. ASSUME NEW e \in SUBSET (DOMAIN x.data \ (x.new \cup Named(x) \cup cutShort' \cup requeued')),
                 e # {}, Queueing(x, e), SuitsIn(x, e)
          PROVE  e \in x.compatible /\ ~FullIn(x, e)
      <3>1. e \in SUBSET (DOMAIN x.data \ (x.new \cup Named(x) \cup cutShort' \cup requeued))
        BY <1>4
      <3>. QED  BY <1>1, <2>1, <3>1 DEF SearchedExcept
    <2>. QED  BY <2>1 DEF Searched, SearchedExcept
  <1>6. Listing(x)'
    <2>1. ASSUME NEW c \in x.compatible
          PROVE  /\ c \in SUBSET Entries /\ c # {} /\ \A y \in c : {y} \in x.compatible
                 /\ (\A g \in c \cap Parties : g \in DOMAIN x.data \ requeued') /\ Queueing(x, c)
                       => ~(SuitsIn(x, c) /\ FullIn(x, c))
      BY <1>1, <1>4 DEF Tidy, Listing
    <2>. QED  BY <2>1 DEF Listing
  <1>7. Resting(x)'
    <2>1. /\ DOMAIN x.checks \subseteq Parties /\ \A g \in DOMAIN x.checks \ requeued' : Idle(x, g)
          /\ \A g \in Parties \ requeued' :
                /\ x.parties[g] # NoGroup
                /\ x.state[g] \notin {"queued", "proposal"} \/ x.parties[g].members = {}
                => Idle(x, g)
      BY <1>1, <1>4 DEF Tidy, Resting
    <2>. QED  BY <2>1 DEF Resting
  <1>8. Stored(x)' /\ Apart(x)'
    <2>1. \A g \in (Named(x) \cap Parties) \ requeued' : ~Combined(x, g)
      BY <1>1, <1>4 DEF Tidy, Apart
    <2>2. Stored(x)
      BY <1>1 DEF Tidy
    <2>3. \A i \in DOMAIN x.proposals :
             LET P == x.proposals[i]
             IN  /\ P.entries \subseteq Entries /\ P.group \in P.entries \cup {NoParty}
                 /\ \A p \in DOMAIN P.answer : EntryOf(P, p) \in P.entries
      BY <1>1 DEF Tidy, Apart
    <2>. QED  BY <2>1, <2>2, <2>3 DEF Stored, Apart
  <1>9. QueueOK(x)'
    BY <1>5, <1>6, <1>7, <1>8 DEF QueueOK, Tidy
  <1>. QED  BY <1>2, <1>9

LEMMA AgainKept ==
  ASSUME Remember
  PROVE  QueuedAgain' /\ requeued' \subseteq Parties
  BY DEF Remember, QueuedAgain, Remains

(* Every step keeps what the queue relies on. *)
LEMMA QueueInvariant == DFSpec => []QueueOK(Finder)
  <1>. DEFINE Inv == AskedWell(Finder) /\ QueueOK(Finder) /\ QueuedAgain /\ requeued \subseteq Parties
  <1>1. Inv /\ [DFNext]_finderVars => Inv'
    <2>. SUFFICES ASSUME Inv, [DFNext]_finderVars PROVE Inv'
      OBVIOUS
    <2>1. CASE DFNext
      <3>1. Queues(cutShort') /\ Remember
        <4>1. Requests => Queues(cutShort)
          BY RequestsQueue
        <4>2. Updates => Queues(cutShort')
          BY UpdatesQueue
        <4>. QED  BY <2>1, <4>1, <4>2 DEF DFNext
      <3>2. AskedWell(Finder)'
        BY <2>1, RequestsKeep, UpdatesKeep DEF DFNext
      <3>. QED  BY <3>1, <3>2, NextQueue, AgainKept
    <2>2. CASE UNCHANGED finderVars
      <3>1. /\ Finder' = Finder /\ newToQueue' = newToQueue /\ Proposed' = Proposed
            /\ cutShort' = cutShort /\ requeued' = requeued
        BY <2>2 DEF finderVars, Finder, Proposed
      <3>2. QueueOK(Finder)'
        BY <3>1 DEF QueueOK, Searched, SearchedExcept, Tidy, Listing, Resting, Stored, Apart
      <3>. QED  BY <3>1, <3>2 DEF QueuedAgain
    <2>. QED  BY <2>1, <2>2
  <1>2. DFInit => Inv
    BY FinderStarts, QueueStarts DEF DFInit, QueuedAgain
  <1>3. Inv => QueueOK(Finder)
    OBVIOUS
  <1>. QED  BY <1>1, <1>2, <1>3, PTL DEF DFSpec

(* For any number of players and parties of any size: nobody waits beside his match
   (LFGQueue.cpp:150).  What a search left out at its limits, what a proposal still names and
   groups queued again under a proposal are the exceptions, and no assumption is needed. *)
THEOREM NoMissedMatchHolds == DFSpec => []NoMissedMatch
  <1>1. AskedWell(Finder) /\ QueueOK(Finder) => NoMissedMatch
    <2>. SUFFICES ASSUME AskedWell(Finder), QueueOK(Finder),
                         NEW e \in SUBSET (DOMAIN data \ (newToQueue \cup Proposed \cup cutShort \cup requeued)),
                         e # {}, AllQueued(Finder, e), Full(Finder, e), Fits(Finder, e)
                  PROVE  FALSE
      BY DEF NoMissedMatch
    <2>1. e \in SUBSET (DOMAIN Finder.data \ (Finder.new \cup Named(Finder) \cup cutShort \cup requeued))
      BY NamedIs DEF Finder
    <2>. DEFINE s == Finder
    <2>. HIDE DEF s
    <2>2. FinderOK(s) /\ Stored(s) /\ Searched(s) /\ e \in SUBSET DOMAIN s.data
      BY <2>1 DEF AskedWell, QueueOK, Tidy, s
    <2>3. SuitsIn(s, e) /\ FullIn(s, e)
      BY <2>2, DataView DEF s
    <2>4. Queueing(s, e)
      BY DEF AllQueued, Queueing, s
    <2>. QED  BY <2>1, <2>2, <2>3, <2>4 DEF Searched, SearchedExcept, s
  <1>. QED  BY <1>1, FinderInvariant, QueueInvariant, PTL

=============================================================================
