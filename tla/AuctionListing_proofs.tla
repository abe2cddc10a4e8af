------------------------ MODULE AuctionListing_proofs ------------------------
(***************************************************************************)
(* For any number of players, searches and delays: every search is         *)
(* answered, dropped or still in one of the two lists, and a reply shows   *)
(* the auction house at one moment.                                        *)
(***************************************************************************)
EXTENDS AuctionListing, SequenceTheorems, FiniteSetTheorems, WellFoundedInduction, TLAPS

-----------------------------------------------------------------------------
(* How many searches of a player a list holds. *)

Count(q, p) == Cardinality(Listed(q, p))

One(e, p) == IF e.player = p THEN 1 ELSE 0

LEMMA ListedFinite ==
  ASSUME NEW q \in Seq(Event), NEW p
  PROVE  IsFiniteSet(Listed(q, p)) /\ Count(q, p) \in Nat
  <1>1. Len(q) \in Nat /\ DOMAIN q = 1..Len(q)
    BY LenProperties
  <1>2. IsFiniteSet(1..Len(q))
    BY <1>1, FS_Interval
  <1>3. Listed(q, p) \in SUBSET (1..Len(q))
    BY <1>1 DEF Listed
  <1>. QED  BY <1>2, <1>3, FS_Subset, FS_CardinalityType DEF Count

LEMMA CountEmpty ==
  ASSUME NEW p
  PROVE  Count(<<>>, p) = 0
  <1>1. Listed(<<>>, p) = {}
    BY DEF Listed
  <1>. QED  BY <1>1, FS_EmptySet DEF Count

LEMMA CountAppend ==
  ASSUME NEW q \in Seq(Event), NEW e \in Event, NEW p
  PROVE  Count(Append(q, e), p) = Count(q, p) + One(e, p)
  <1>. DEFINE r == Append(q, e)
  <1>1. /\ Len(q) \in Nat /\ DOMAIN q = 1..Len(q) /\ DOMAIN r = 1..Len(q) + 1
        /\ \A k \in 1..Len(q) : r[k] = q[k]
        /\ r[Len(q) + 1] = e
    BY LenProperties, AppendProperties
  <1>2. 1..Len(q) + 1 = (1..Len(q)) \cup {Len(q) + 1} /\ Len(q) + 1 \notin 1..Len(q)
    BY <1>1
  <1>3. IsFiniteSet(Listed(q, p)) /\ Len(q) + 1 \notin Listed(q, p) /\ Count(q, p) \in Nat
    BY <1>1, <1>2, ListedFinite DEF Listed
  <1>. HIDE DEF r
  <1>4. CASE e.player = p
    <2>1. Listed(r, p) = Listed(q, p) \cup {Len(q) + 1}
      BY <1>1, <1>2, <1>4 DEF Listed
    <2>. QED  BY <1>3, <1>4, <2>1, FS_AddElement DEF Count, One, r
  <1>5. CASE e.player # p
    <2>1. Listed(r, p) = Listed(q, p)
      BY <1>1, <1>2, <1>5 DEF Listed
    <2>. QED  BY <1>3, <1>5, <2>1 DEF Count, One, r
  <1>. QED  BY <1>4, <1>5

(* A shift by n is a bijection. *)
LEMMA ShiftedCount ==
  ASSUME NEW S \in SUBSET Nat, IsFiniteSet(S), NEW n \in Nat
  PROVE  LET T == {k + n : k \in S} IN
         IsFiniteSet(T) /\ Cardinality(T) = Cardinality(S)
  <1>. DEFINE T == {k + n : k \in S}
              f == [k \in S |-> k + n]
  <1>1. f \in [S -> T] /\ \A t \in T : \E k \in S : f[k] = t
    OBVIOUS
  <1>2. \A j, k \in S : f[j] = f[k] => j = k
    OBVIOUS
  <1>3. f \in Bijection(S, T)
    <2>. HIDE DEF f, T
    <2>. QED  BY <1>1, <1>2 DEF Bijection, Injection, Surjection, IsInjective
  <1>4. ExistsBijection(S, T)
    BY <1>3 DEF ExistsBijection
  <1>. HIDE DEF f, T
  <1>5. IsFiniteSet(T) /\ Cardinality(T) = Cardinality(S)
    BY <1>4, FS_Bijection
  <1>. QED  BY <1>5 DEF T

LEMMA CountConcat ==
  ASSUME NEW q \in Seq(Event), NEW r \in Seq(Event), NEW p
  PROVE  Count(q \o r, p) = Count(q, p) + Count(r, p)
  <1>. DEFINE n == Len(q)
              m == Len(r)
              S == Listed(r, p)
              T == {k + n : k \in S}
              c == q \o r
  <1>1. /\ n \in Nat /\ m \in Nat /\ DOMAIN q = 1..n /\ DOMAIN r = 1..m
        /\ c \in Seq(Event) /\ Len(c) = n + m
        /\ \A i \in 1..n + m : c[i] = IF i <= n THEN q[i] ELSE r[i - n]
    BY LenProperties, ConcatProperties
  <1>2. DOMAIN c = 1..n + m
    BY <1>1, LenProperties
  <1>3. /\ IsFiniteSet(Listed(q, p)) /\ Count(q, p) \in Nat
        /\ IsFiniteSet(S) /\ Count(r, p) \in Nat /\ S \in SUBSET Nat
    <2>1. S \in SUBSET (1..m) /\ 1..m \subseteq Nat
      BY <1>1 DEF Listed
    <2>. QED  BY <2>1, ListedFinite
  <1>. HIDE DEF n, m, c
  <1>4. IsFiniteSet(T) /\ Cardinality(T) = Count(r, p)
    BY <1>1, <1>3, ShiftedCount DEF Count
  <1>5. Listed(c, p) = Listed(q, p) \cup T
    <2>1. \A i : i \in Listed(c, p) <=> i \in 1..n + m /\ c[i].player = p
      BY <1>2 DEF Listed
    <2>2. \A i : i \in Listed(q, p) <=> i \in 1..n /\ q[i].player = p
      BY <1>1 DEF Listed
    <2>3. \A i : i \in T <=> i - n \in 1..m /\ r[i - n].player = p /\ i \in Nat
      <3>1. \A k : k \in S <=> k \in 1..m /\ r[k].player = p
        BY <1>1 DEF Listed
      <3>. HIDE DEF S
      <3>2. \A k \in S : k \in Nat /\ (k + n) - n = k /\ k + n \in Nat
        BY <1>1, <3>1
      <3>3. \A i \in Nat : i - n \in S => i = (i - n) + n
        BY <1>1
      <3>4. ASSUME NEW i, i \in T PROVE i - n \in S /\ i \in Nat
        BY <3>2, <3>4
      <3>5. ASSUME NEW i \in Nat, i - n \in S PROVE i \in T
        BY <3>3, <3>5
      <3>. QED  BY <3>1, <3>4, <3>5
    <2>. HIDE DEF T
    <2>4. \A i \in 1..n + m : i <= n <=> i \in 1..n
      BY <1>1
    <2>5. \A i \in 1..n + m : i > n <=> i - n \in 1..m
      BY <1>1
    <2>6. \A i \in Nat : i - n \in 1..m => i \in 1..n + m
      BY <1>1
    <2>7. \A i \in 1..n : i \in 1..n + m
      BY <1>1
    <2>8. ASSUME NEW i \in 1..n + m
          PROVE  i \in Listed(c, p) <=> i \in Listed(q, p) \/ i \in T
      <3>1. CASE i <= n
        <4>1. c[i] = q[i] /\ i \in 1..n /\ i - n \notin 1..m
          BY <1>1, <2>4, <2>5, <3>1
        <4>. QED  BY <2>1, <2>2, <2>3, <4>1
      <3>2. CASE ~(i <= n)
        <4>1. c[i] = r[i - n] /\ i \notin 1..n /\ i - n \in 1..m /\ i \in Nat
          BY <1>1, <2>4, <2>5, <3>2
        <4>. QED  BY <2>1, <2>2, <2>3, <4>1
      <3>. QED  BY <3>1, <3>2
    <2>9. \A i : i \in Listed(c, p) \/ i \in Listed(q, p) \/ i \in T => i \in 1..n + m
      BY <2>1, <2>2, <2>3, <2>6, <2>7
    <2>. QED  BY <2>8, <2>9
  <1>6. Listed(q, p) \cap T = {}
    <2>1. \A i \in T : i \notin 1..n
      BY <1>1 DEF Listed
    <2>. HIDE DEF T
    <2>. QED  BY <1>1, <2>1 DEF Listed
  <1>. HIDE DEF T
  <1>7. Cardinality(Listed(c, p)) = Count(q, p) + Count(r, p) - 0
    BY <1>3, <1>4, <1>5, <1>6, FS_Union, FS_EmptySet DEF Count
  <1>. QED  BY <1>3, <1>7 DEF Count, c

(* RemoveAt erases one search, and moves the others without changing them. *)
LEMMA RemoveAtElements ==
  ASSUME NEW q \in Seq(Event), NEW i \in DOMAIN q
  PROVE  /\ RemoveAt(q, i) \in Seq(Event)
         /\ DOMAIN RemoveAt(q, i) = 1..Len(q) - 1
         /\ \A k \in 1..Len(q) - 1 : RemoveAt(q, i)[k] = IF k < i THEN q[k] ELSE q[k + 1]
  <1>. DEFINE n == Len(q)
              a == SubSeq(q, 1, i - 1)
              b == SubSeq(q, i + 1, n)
              r == RemoveAt(q, i)
  <1>1. n \in Nat /\ DOMAIN q = 1..n /\ i \in 1..n /\ \A k \in 1..n : q[k] \in Event
    BY LenProperties
  <1>. HIDE DEF n
  <1>2. /\ a \in Seq(Event) /\ Len(a) = i - 1
        /\ \A k \in 1..i - 1 : a[k] = q[k]
    <2>1. \A k \in 1..i - 1 : q[k] \in Event
      BY <1>1
    <2>2. /\ a \in Seq(Event) /\ Len(a) = IF 1 <= i - 1 THEN (i - 1) - 1 + 1 ELSE 0
          /\ \A k \in 1..(i - 1) - 1 + 1 : a[k] = q[1 + k - 1]
      <3>1. i - 1 \in Int /\ 1 \in Int
        BY <1>1
      <3>. QED  BY <2>1, <3>1, SubSeqProperties
    <2>3. \A k \in 1..i - 1 : 1 + k - 1 = k
      BY <1>1
    <2>. HIDE DEF a
    <2>4. Len(a) = i - 1 /\ 1..(i - 1) - 1 + 1 = 1..i - 1
      BY <1>1, <2>2
    <2>. QED  BY <2>2, <2>3, <2>4
  <1>3. /\ b \in Seq(Event) /\ Len(b) = n - i
        /\ \A k \in 1..n - i : b[k] = q[i + k]
    <2>1. \A k \in i + 1..n : q[k] \in Event
      BY <1>1
    <2>2. /\ b \in Seq(Event) /\ Len(b) = IF i + 1 <= n THEN n - (i + 1) + 1 ELSE 0
          /\ \A k \in 1..n - (i + 1) + 1 : b[k] = q[(i + 1) + k - 1]
      <3>1. i + 1 \in Int /\ n \in Int
        BY <1>1
      <3>. QED  BY <2>1, <3>1, SubSeqProperties
    <2>3. \A k \in 1..n - i : (i + 1) + k - 1 = i + k
      BY <1>1
    <2>. HIDE DEF b
    <2>4. Len(b) = n - i /\ 1..n - (i + 1) + 1 = 1..n - i
      BY <1>1, <2>2
    <2>. QED  BY <2>2, <2>3, <2>4
  <1>. HIDE DEF a, b
  <1>4. r = a \o b
    BY DEF RemoveAt, a, b, n
  <1>. HIDE DEF r
  <1>5. /\ r \in Seq(Event) /\ Len(r) = n - 1
        /\ \A k \in 1..n - 1 : r[k] = IF k <= i - 1 THEN a[k] ELSE b[k - (i - 1)]
    <2>1. /\ r \in Seq(Event) /\ Len(r) = (i - 1) + (n - i)
          /\ \A k \in 1..(i - 1) + (n - i) : r[k] = IF k <= i - 1 THEN a[k] ELSE b[k - (i - 1)]
      BY <1>2, <1>3, <1>4, ConcatProperties
    <2>2. (i - 1) + (n - i) = n - 1
      BY <1>1
    <2>. QED  BY <2>1, <2>2
  <1>6. ASSUME NEW k \in 1..n - 1 PROVE r[k] = IF k < i THEN q[k] ELSE q[k + 1]
    <2>1. CASE k < i
      <3>1. k <= i - 1 /\ k \in 1..i - 1
        BY <1>1, <2>1
      <3>. QED  BY <1>2, <1>5, <2>1, <3>1
    <2>2. CASE ~(k < i)
      <3>1. ~(k <= i - 1) /\ k - (i - 1) \in 1..n - i /\ i + (k - (i - 1)) = k + 1
        BY <1>1, <2>2
      <3>. QED  BY <1>3, <1>5, <2>2, <3>1
    <2>. QED  BY <2>1, <2>2
  <1>7. DOMAIN r = 1..n - 1
    BY <1>5, LenProperties
  <1>. QED  BY <1>5, <1>6, <1>7 DEF r, n

LEMMA CountRemoveAt ==
  ASSUME NEW q \in Seq(Event), NEW i \in DOMAIN q, NEW p
  PROVE  /\ RemoveAt(q, i) \in Seq(Event)
         /\ Count(q, p) = Count(RemoveAt(q, i), p) + One(q[i], p)
  <1>. DEFINE n == Len(q)
              r == RemoveAt(q, i)
              S == Listed(r, p)
              T == Listed(q, p) \ {i}
              f == [k \in S |-> IF k < i THEN k ELSE k + 1]
  <1>1. /\ n \in Nat /\ DOMAIN q = 1..n /\ i \in 1..n
        /\ r \in Seq(Event) /\ DOMAIN r = 1..n - 1
        /\ \A k \in 1..n - 1 : r[k] = IF k < i THEN q[k] ELSE q[k + 1]
    BY LenProperties, RemoveAtElements
  <1>. HIDE DEF n, r
  <1>2. IsFiniteSet(S) /\ IsFiniteSet(Listed(q, p)) /\ Count(r, p) \in Nat /\ Count(q, p) \in Nat
    BY <1>1, ListedFinite
  <1>3. \A k \in S : k \in 1..n - 1 /\ r[k].player = p
    BY <1>1 DEF Listed
  <1>4. \A k : k \in T <=> k \in 1..n /\ k # i /\ q[k].player = p
    BY <1>1 DEF Listed
  <1>5. \A k \in 1..n - 1 : r[k].player = p => k \in S
    BY <1>1 DEF Listed
  <1>. HIDE DEF S, T
  <1>6. f \in [S -> T]
    <2>. SUFFICES ASSUME NEW k \in S PROVE (IF k < i THEN k ELSE k + 1) \in T
      OBVIOUS
    <2>1. CASE k < i
      <3>1. k \in 1..n /\ k # i /\ q[k].player = p
        BY <1>1, <1>3, <2>1
      <3>. QED  BY <1>4, <2>1, <3>1
    <2>2. CASE ~(k < i)
      <3>1. k + 1 \in 1..n /\ k + 1 # i /\ q[k + 1].player = p
        BY <1>1, <1>3, <2>2
      <3>. QED  BY <1>4, <2>2, <3>1
    <2>. QED  BY <2>1, <2>2
  <1>7. \A j, k \in S : f[j] = f[k] => j = k
    <2>1. \A j, k \in 1..n - 1 : (IF j < i THEN j ELSE j + 1) = (IF k < i THEN k ELSE k + 1) => j = k
      BY <1>1
    <2>. QED  BY <1>3, <2>1
  <1>8. \A t \in T : \E k \in S : f[k] = t
    <2>. SUFFICES ASSUME NEW t \in T PROVE \E k \in S : (IF k < i THEN k ELSE k + 1) = t
      OBVIOUS
    <2>1. t \in 1..n /\ t # i /\ q[t].player = p
      BY <1>4
    <2>2. CASE t < i
      <3>1. t \in 1..n - 1 /\ r[t].player = p
        BY <1>1, <2>1, <2>2
      <3>. QED  BY <1>5, <2>2, <3>1
    <2>3. CASE ~(t < i)
      <3>1. t - 1 \in 1..n - 1 /\ ~(t - 1 < i) /\ (t - 1) + 1 = t
        BY <1>1, <2>1, <2>3
      <3>2. r[t - 1].player = p
        BY <1>1, <2>1, <3>1
      <3>3. t - 1 \in S
        BY <1>5, <3>1, <3>2
      <3>. QED  BY <3>1, <3>3
    <2>. QED  BY <2>2, <2>3
  <1>9. f \in Bijection(S, T)
    <2>. HIDE DEF f
    <2>. QED  BY <1>6, <1>7, <1>8 DEF Bijection, Injection, Surjection, IsInjective
  <1>10. Cardinality(T) = Cardinality(S)
    BY <1>2, <1>9, FS_Bijection DEF ExistsBijection
  <1>11. Cardinality(T) = IF i \in Listed(q, p) THEN Count(q, p) - 1 ELSE Count(q, p)
    BY <1>2, FS_RemoveElement DEF T, Count
  <1>12. i \in Listed(q, p) <=> q[i].player = p
    BY <1>1 DEF Listed
  <1>13. Count(r, p) = Cardinality(S)
    BY DEF Count, S
  <1>14. Count(q, p) = Count(r, p) + One(q[i], p)
    <2>1. CASE q[i].player = p
      <3>1. Count(r, p) = Count(q, p) - 1 /\ One(q[i], p) = 1
        BY <1>10, <1>11, <1>12, <1>13, <2>1 DEF One
      <3>. QED  BY <1>2, <3>1
    <2>2. CASE q[i].player # p
      <3>1. Count(r, p) = Count(q, p) /\ One(q[i], p) = 0
        BY <1>10, <1>11, <1>12, <1>13, <2>2 DEF One
      <3>. QED  BY <1>2, <3>1
    <2>. QED  BY <2>1, <2>2
  <1>. QED  BY <1>1, <1>14 DEF r

-----------------------------------------------------------------------------
(* The first event that is due exists. *)
LEMMA Least ==
  ASSUME NEW S \in SUBSET Nat, S # {}
  PROVE  \E i \in S : \A j \in S : i <= j
  <1>1. \E i \in S : \A j \in S : ~ (<<j, i>> \in OpToRel(<, Nat))
    BY NatLessThanWellFounded, WFMin, Zenon
  <1>2. PICK i \in S : \A j \in S : ~ (<<j, i>> \in OpToRel(<, Nat))
    BY <1>1, Zenon
  <1>3. ASSUME NEW j \in S PROVE i <= j
    <2>1. ~ (j < i)
      BY <1>2 DEF OpToRel
    <2>. QED  BY <2>1
  <1>. QED  BY <1>2, <1>3

LEMMA AtMostBounded ==
  ASSUME NEW n \in Nat, NEW bound \in Nat
  PROVE  AtMost(n, bound) \in 0..bound
  BY DEF AtMost

-----------------------------------------------------------------------------
(* What the listing thread holds of the event it executes: it is still in the list,
   the world thread is outside its section, and the auctions are those it began with. *)
Steady == listing = "executing" =>
          due \in DOMAIN events /\ world # "section" /\ seen = auctions

IInv == TypeOK /\ NoSearchLost /\ Steady

(* Each player's searches, of either list, are a natural number. *)
LEMMA Counted ==
  ASSUME TypeOK, NEW p \in Players
  PROVE  /\ Count(temp, p) \in Nat /\ Count(events, p) \in Nat
         /\ Pending(p) = Count(temp, p) + Count(events, p)
         /\ asked[p] \in 0..MaxSearches
         /\ answered[p] \in 0..MaxSearches
         /\ dropped[p] \in 0..MaxSearches
  <1>1. Count(temp, p) \in Nat /\ Count(events, p) \in Nat
    BY ListedFinite DEF TypeOK
  <1>2. /\ asked \in [Players -> 0..MaxSearches]
        /\ answered \in [Players -> 0..MaxSearches]
        /\ dropped \in [Players -> 0..MaxSearches]
    BY DEF TypeOK
  <1>. QED  BY <1>1, <1>2 DEF Pending, Count

(* The balance of a player's searches, in the lists' own terms. *)
LEMMA Balance ==
  ASSUME TypeOK
  PROVE  NoSearchLost <=> \A p \in Players :
           asked[p] = answered[p] + dropped[p] + (Count(temp, p) + Count(events, p))
  BY Counted DEF NoSearchLost

LEMMA BalancePrimed ==
  NoSearchLost' <=> \A p \in Players :
    asked'[p] = answered'[p] + dropped'[p] + (Count(temp', p) + Count(events', p))
  BY DEF NoSearchLost, Pending, Count, Listed

-----------------------------------------------------------------------------
(* One lemma for each action. *)

LEMMA InitEstablishes == Init => IInv
  <1>. SUFFICES ASSUME Init PROVE IInv
    OBVIOUS
  <1>1. TypeOK
    <2>1. <<>> \in Seq(Event)
      BY EmptySeq
    <2>2. 0 \in 0..MaxClock /\ 0 \in 0..MaxClock + Delay /\ 0 \in 0..Delay /\ 0 \in 0..MaxSearches
      BY ListingAssumption
    <2>3. /\ last \in [Players -> 0..MaxClock + Delay]
          /\ asked \in [Players -> 0..MaxSearches]
          /\ answered \in [Players -> 0..MaxSearches]
          /\ dropped \in [Players -> 0..MaxSearches]
      BY <2>2 DEF Init
    <2>. QED  BY <2>1, <2>2, <2>3 DEF Init, TypeOK
  <1>2. NoSearchLost
    <2>1. \A p \in Players : Count(temp, p) = 0 /\ Count(events, p) = 0
      BY CountEmpty DEF Init
    <2>. QED  BY <1>1, <2>1, Balance DEF Init
  <1>3. Steady
    BY DEF Init, Steady
  <1>. QED  BY <1>1, <1>2, <1>3 DEF IInv

LEMMA AskPreserves ==
  ASSUME IInv, NEW p \in Players, HandleAuctionListItems(p)
  PROVE  IInv'
  <1>. DEFINE timer == Delay - SinceLast(p)
              e == [player |-> p, timer |-> timer]
  <1>1. TypeOK /\ NoSearchLost /\ Steady
    BY DEF IInv
  <1>2. SinceLast(p) \in 0..Delay
    <2>1. now \in Nat /\ last[p] \in Nat /\ Delay \in Nat
      BY <1>1, ListingAssumption DEF TypeOK
    <2>2. CASE last[p] > now
      BY <2>1, <2>2 DEF SinceLast
    <2>3. CASE ~(last[p] > now)
      <3>1. now - last[p] \in Nat
        BY <2>1, <2>3
      <3>. QED  BY <2>1, <2>3, <3>1, AtMostBounded DEF SinceLast
    <2>. QED  BY <2>2, <2>3
  <1>3. timer \in 0..Delay
    BY <1>2, ListingAssumption
  <1>4. e \in Event
    BY <1>3 DEF Event
  <1>5. /\ asked[p] < MaxSearches
        /\ last' = [last EXCEPT ![p] = now + timer]
        /\ temp' = Append(temp, e)
        /\ asked' = [asked EXCEPT ![p] = @ + 1]
        /\ UNCHANGED <<worldVars, events, diff, allowed, listing, elapsed, due, seen, answered, dropped>>
    BY DEF HandleAuctionListItems
  <1>. HIDE DEF timer
  <1>6. TypeOK'
    <2>1. temp' \in Seq(Event)
      BY <1>1, <1>4, <1>5, AppendProperties DEF TypeOK
    <2>2. last' \in [Players -> 0..MaxClock + Delay]
      <3>1. now + timer \in 0..MaxClock + Delay
        BY <1>1, <1>3, ListingAssumption DEF TypeOK
      <3>. QED  BY <1>1, <1>5, <3>1 DEF TypeOK
    <2>3. asked' \in [Players -> 0..MaxSearches]
      <3>1. asked[p] + 1 \in 0..MaxSearches
        BY <1>1, <1>5, Counted, ListingAssumption
      <3>. QED  BY <1>1, <1>5, <3>1 DEF TypeOK
    <2>. QED  BY <1>1, <1>5, <2>1, <2>2, <2>3 DEF TypeOK, worldVars
  <1>7. NoSearchLost'
    <2>. SUFFICES ASSUME NEW r \in Players
                  PROVE  asked'[r] = answered'[r] + dropped'[r] + (Count(temp', r) + Count(events', r))
      BY BalancePrimed
    <2>1. Count(temp', r) = Count(temp, r) + One(e, r)
      BY <1>1, <1>4, <1>5, CountAppend DEF TypeOK
    <2>2. asked'[r] = asked[r] + One(e, r)
      <3>1. asked \in [Players -> 0..MaxSearches] /\ asked[r] \in Nat
        BY <1>1, Counted DEF TypeOK
      <3>2. CASE r = p
        BY <1>5, <3>1, <3>2 DEF One
      <3>3. CASE r # p
        BY <1>5, <3>1, <3>3 DEF One
      <3>. QED  BY <3>2, <3>3
    <2>3. One(e, r) \in Nat
      BY DEF One
    <2>4. answered'[r] = answered[r] /\ dropped'[r] = dropped[r] /\ Count(events', r) = Count(events, r)
      BY <1>5
    <2>5. asked[r] = answered[r] + dropped[r] + (Count(temp, r) + Count(events, r))
      BY <1>1, Balance
    <2>. HIDE DEF e
    <2>. QED  BY <1>1, <2>1, <2>2, <2>3, <2>4, <2>5, Counted
  <1>8. Steady'
    BY <1>1, <1>5 DEF Steady, worldVars
  <1>. QED  BY <1>6, <1>7, <1>8 DEF IInv

(* The steps that leave both lists and every count alone. *)
LEMMA SameSearches ==
  ASSUME NoSearchLost, UNCHANGED <<temp, events, countVars>>
  PROVE  NoSearchLost'
  BY DEF NoSearchLost, Pending, Listed, countVars

LEMMA AnnouncePreserves ==
  ASSUME IInv, Announce
  PROVE  IInv'
  <1>1. TypeOK'
    BY DEF IInv, Announce, TypeOK, countVars
  <1>2. NoSearchLost'
    BY SameSearches DEF IInv, Announce
  <1>3. Steady'
    BY DEF IInv, Announce, Steady
  <1>. QED  BY <1>1, <1>2, <1>3 DEF IInv

LEMMA EnterSectionPreserves ==
  ASSUME IInv, EnterSection
  PROVE  IInv'
  <1>1. TypeOK'
    <2>1. diff' \in 0..Delay /\ now' \in 0..MaxClock
      <3>1. diff + 1 \in Nat /\ now + 1 \in Nat
        BY ListingAssumption DEF IInv, TypeOK
      <3>. QED  BY <3>1, AtMostBounded, ListingAssumption DEF EnterSection
    <2>. QED  BY <2>1 DEF IInv, EnterSection, TypeOK, countVars
  <1>2. NoSearchLost'
    BY SameSearches DEF IInv, EnterSection
  <1>3. Steady'
    BY DEF IInv, EnterSection, Steady
  <1>. QED  BY <1>1, <1>2, <1>3 DEF IInv

LEMMA ChangeAuctionsPreserves ==
  ASSUME IInv, ChangeAuctions
  PROVE  IInv'
  <1>1. TypeOK'
    BY DEF IInv, ChangeAuctions, TypeOK, countVars
  <1>2. NoSearchLost'
    BY SameSearches DEF IInv, ChangeAuctions
  <1>3. Steady'
    BY DEF IInv, ChangeAuctions, Steady
  <1>. QED  BY <1>1, <1>2, <1>3 DEF IInv

LEMMA WalkAwayPreserves ==
  ASSUME IInv, NEW p \in Players, WalkAway(p)
  PROVE  IInv'
  <1>1. TypeOK'
    BY DEF IInv, WalkAway, TypeOK, countVars
  <1>2. NoSearchLost'
    BY SameSearches DEF IInv, WalkAway
  <1>3. Steady'
    BY DEF IInv, WalkAway, Steady
  <1>. QED  BY <1>1, <1>2, <1>3 DEF IInv

LEMMA LeaveSectionPreserves ==
  ASSUME IInv, LeaveSection
  PROVE  IInv'
  <1>1. TypeOK'
    BY DEF IInv, LeaveSection, TypeOK, countVars
  <1>2. NoSearchLost'
    BY SameSearches DEF IInv, LeaveSection
  <1>3. Steady'
    BY DEF IInv, LeaveSection, Steady
  <1>. QED  BY <1>1, <1>2, <1>3 DEF IInv

LEMMA LookPreserves ==
  ASSUME IInv, Look
  PROVE  IInv'
  <1>1. TypeOK'
    <2>1. diff' \in 0..Delay /\ elapsed' \in 0..Delay /\ listing' \in {"idle", "ready", "executing"}
      BY ListingAssumption DEF IInv, Look, TypeOK
    <2>. QED  BY <2>1 DEF IInv, Look, TypeOK, countVars, worldVars
  <1>2. NoSearchLost'
    BY SameSearches DEF IInv, Look
  <1>3. Steady'
    BY DEF IInv, Look, Steady, worldVars
  <1>. QED  BY <1>1, <1>2, <1>3 DEF IInv

(* The events move from the temporary list to the list, and none is lost or doubled. *)
LEMMA LockPreserves ==
  ASSUME IInv, Lock
  PROVE  IInv'
  <1>. DEFINE list == events \o temp
              Due == {i \in DOMAIN list : list[i].timer = 0}
  <1>1. TypeOK /\ NoSearchLost /\ Steady
    BY DEF IInv
  <1>2. /\ world # "section"
        /\ events' = list /\ temp' = <<>> /\ elapsed' = 0
        /\ IF Due = {} THEN listing' = "idle" /\ UNCHANGED <<due, seen>>
           ELSE /\ listing' = "executing"
                /\ due' = CHOOSE i \in Due : \A j \in Due : i <= j
                /\ seen' = auctions
        /\ UNCHANGED <<worldVars, last, diff, allowed, countVars>>
    BY DEF Lock, CountDown, Merged
  <1>3. list \in Seq(Event)
    BY <1>1, ConcatProperties DEF TypeOK
  <1>4. DOMAIN list \in SUBSET Nat
    BY <1>3, LenProperties
  <1>5. Due \in SUBSET Nat /\ Due \subseteq DOMAIN list
    BY <1>4
  <1>. HIDE DEF list, Due
  <1>6. listing' = "executing" => due' \in Due /\ seen' = auctions
    <2>. SUFFICES ASSUME listing' = "executing" PROVE due' \in Due /\ seen' = auctions
      OBVIOUS
    <2>1. Due # {}
      BY <1>2
    <2>2. \E i \in Due : \A j \in Due : i <= j
      BY <1>5, <2>1, Least
    <2>. QED  BY <1>2, <2>1, <2>2
  <1>7. TypeOK'
    <2>1. temp' \in Seq(Event) /\ events' \in Seq(Event)
      BY <1>2, <1>3, EmptySeq
    <2>2. due' \in Nat /\ seen' \in {0, 1} /\ listing' \in {"idle", "ready", "executing"}
      <3>1. due \in Nat /\ seen \in {0, 1} /\ auctions \in {0, 1}
        BY <1>1 DEF TypeOK
      <3>2. CASE Due = {}
        BY <1>2, <3>1, <3>2
      <3>3. CASE Due # {}
        <4>1. listing' = "executing" /\ seen' = auctions
          BY <1>2, <3>3
        <4>. QED  BY <1>5, <1>6, <3>1, <4>1
      <3>. QED  BY <3>2, <3>3
    <2>3. elapsed' \in 0..Delay
      BY <1>2, ListingAssumption
    <2>. QED  BY <1>1, <1>2, <2>1, <2>2, <2>3 DEF TypeOK, worldVars, countVars
  <1>8. NoSearchLost'
    <2>. SUFFICES ASSUME NEW r \in Players
                  PROVE  asked'[r] = answered'[r] + dropped'[r] + (Count(temp', r) + Count(events', r))
      BY BalancePrimed
    <2>1. Count(temp', r) = 0
      BY <1>2, CountEmpty
    <2>2. Count(events', r) = Count(events, r) + Count(temp, r)
      BY <1>1, <1>2, CountConcat DEF TypeOK, list
    <2>3. asked'[r] = asked[r] /\ answered'[r] = answered[r] /\ dropped'[r] = dropped[r]
      BY <1>2 DEF countVars
    <2>4. asked[r] = answered[r] + dropped[r] + (Count(temp, r) + Count(events, r))
      BY <1>1, Balance
    <2>. QED  BY <1>1, <2>1, <2>2, <2>3, <2>4, Counted
  <1>9. Steady'
    <2>1. world' # "section" /\ auctions' = auctions
      BY <1>2 DEF worldVars
    <2>. QED  BY <1>2, <1>5, <1>6, <2>1 DEF Steady
  <1>. QED  BY <1>7, <1>8, <1>9 DEF IInv

(* The event leaves the list with its answer, or with its player away. *)
LEMMA ExecutePreserves ==
  ASSUME IInv, Execute
  PROVE  IInv'
  <1>. DEFINE e == events[due]
              p == e.player
  <1>1. TypeOK /\ NoSearchLost /\ Steady
    BY DEF IInv
  <1>2. /\ listing = "executing" /\ listing' = "idle" /\ due' = 0 /\ seen' = 0
        /\ events' = RemoveAt(events, due)
        /\ UNCHANGED <<worldVars, last, temp, diff, allowed, elapsed, asked>>
        /\ \/ answered' = [answered EXCEPT ![p] = @ + 1] /\ UNCHANGED dropped
           \/ dropped' = [dropped EXCEPT ![p] = @ + 1] /\ UNCHANGED answered
    BY DEF Execute, StopListing
  <1>3. events \in Seq(Event) /\ due \in DOMAIN events
    BY <1>1, <1>2 DEF TypeOK, Steady
  <1>4. e \in Event /\ p \in Players
    <2>1. DOMAIN events = 1..Len(events) /\ \A k \in 1..Len(events) : events[k] \in Event
      BY <1>3, LenProperties
    <2>. QED  BY <1>3, <2>1 DEF Event
  <1>5. \A r \in Players : Count(events, r) = Count(events', r) + One(e, r)
    BY <1>2, <1>3, CountRemoveAt
  <1>6. events' \in Seq(Event)
    BY <1>2, <1>3, CountRemoveAt
  <1>7. \A r \in Players : Count(events', r) \in Nat /\ One(e, r) \in Nat
    BY <1>6, ListedFinite DEF One
  <1>8. One(e, p) = 1 /\ \A r \in Players : r # p => One(e, r) = 0
    BY DEF One
  <1>. HIDE DEF e, p
  <1>9. answered[p] + 1 \in 0..MaxSearches /\ dropped[p] + 1 \in 0..MaxSearches
    <2>1. asked[p] = answered[p] + dropped[p] + (Count(temp, p) + Count(events, p))
      BY <1>1, <1>4, Balance
    <2>2. Count(events, p) = Count(events', p) + 1 /\ Count(events', p) \in Nat
      BY <1>4, <1>5, <1>7, <1>8
    <2>. QED  BY <1>1, <1>4, <2>1, <2>2, Counted, ListingAssumption
  <1>10. /\ answered \in [Players -> 0..MaxSearches]
         /\ dropped \in [Players -> 0..MaxSearches]
    BY <1>1 DEF TypeOK
  <1>11. TypeOK'
    <2>1. /\ answered' \in [Players -> 0..MaxSearches]
          /\ dropped' \in [Players -> 0..MaxSearches]
      BY <1>2, <1>9, <1>10
    <2>. QED  BY <1>1, <1>2, <1>6, <2>1 DEF TypeOK, worldVars
  <1>12. NoSearchLost'
    <2>. SUFFICES ASSUME NEW r \in Players
                  PROVE  asked'[r] = answered'[r] + dropped'[r] + (Count(temp', r) + Count(events', r))
      BY BalancePrimed
    <2>1. answered'[r] + dropped'[r] = answered[r] + dropped[r] + One(e, r)
      <3>1. answered[r] \in Nat /\ dropped[r] \in Nat
        BY <1>1, Counted
      <3>2. CASE r = p
        BY <1>2, <1>8, <1>10, <3>1, <3>2
      <3>3. CASE r # p
        <4>1. answered'[r] = answered[r] /\ dropped'[r] = dropped[r] /\ One(e, r) = 0
          BY <1>2, <1>8, <1>10, <3>3
        <4>. QED  BY <3>1, <4>1
      <3>. QED  BY <3>2, <3>3
    <2>2. asked'[r] = asked[r] /\ Count(temp', r) = Count(temp, r)
      BY <1>2
    <2>3. Count(events, r) = Count(events', r) + One(e, r) /\ Count(events', r) \in Nat /\ One(e, r) \in Nat
      BY <1>5, <1>7
    <2>4. asked[r] = answered[r] + dropped[r] + (Count(temp, r) + Count(events, r))
      BY <1>1, Balance
    <2>. QED  BY <1>1, <2>1, <2>2, <2>3, <2>4, Counted
  <1>13. Steady'
    BY <1>2 DEF Steady
  <1>. QED  BY <1>11, <1>12, <1>13 DEF IInv

(* A listing that gives up leaves its event where it was. *)
LEMMA GiveUpPreserves ==
  ASSUME IInv, GiveUp
  PROVE  IInv'
  <1>1. TypeOK'
    BY DEF IInv, GiveUp, StopListing, TypeOK, countVars, worldVars
  <1>2. NoSearchLost'
    BY SameSearches DEF IInv, GiveUp
  <1>3. Steady'
    BY DEF IInv, GiveUp, StopListing, Steady
  <1>. QED  BY <1>1, <1>2, <1>3 DEF IInv

LEMMA StutterPreserves ==
  ASSUME IInv, UNCHANGED vars
  PROVE  IInv'
  <1>1. TypeOK'
    BY DEF IInv, vars, TypeOK, countVars, worldVars
  <1>2. NoSearchLost'
    BY SameSearches DEF IInv, vars
  <1>3. Steady'
    BY DEF IInv, vars, worldVars, Steady
  <1>. QED  BY <1>1, <1>2, <1>3 DEF IInv

-----------------------------------------------------------------------------
(* The invariant is inductive. *)
THEOREM Inductive == Spec => []IInv
  <1>1. Init => IInv
    BY InitEstablishes
  <1>2. IInv /\ [Next]_vars => IInv'
    <2>. SUFFICES ASSUME IInv, [Next]_vars PROVE IInv'
      OBVIOUS
    <2>1. ASSUME NEW p \in Players, HandleAuctionListItems(p) PROVE IInv'
      BY <2>1, AskPreserves
    <2>2. ASSUME NEW p \in Players, WalkAway(p) PROVE IInv'
      BY <2>2, WalkAwayPreserves
    <2>3. CASE Announce
      BY <2>3, AnnouncePreserves
    <2>4. CASE EnterSection
      BY <2>4, EnterSectionPreserves
    <2>5. CASE ChangeAuctions
      BY <2>5, ChangeAuctionsPreserves
    <2>6. CASE LeaveSection
      BY <2>6, LeaveSectionPreserves
    <2>7. CASE Look
      BY <2>7, LookPreserves
    <2>8. CASE Lock
      BY <2>8, LockPreserves
    <2>9. CASE Execute
      BY <2>9, ExecutePreserves
    <2>10. CASE GiveUp
      BY <2>10, GiveUpPreserves
    <2>11. CASE UNCHANGED vars
      BY <2>11, StutterPreserves
    <2>. QED  BY <2>1, <2>2, <2>3, <2>4, <2>5, <2>6, <2>7, <2>8, <2>9, <2>10, <2>11 DEF Next
  <1>. QED  BY <1>1, <1>2, PTL DEF Spec

(* Every variable keeps its type: among them, no player is answered more often than it
   asked for. *)
THEOREM TypeCorrect == Spec => []TypeOK
  <1>1. IInv => TypeOK
    BY DEF IInv
  <1>. QED  BY <1>1, Inductive, PTL

(* Whatever is given up and tried again between the two lists, a search is answered or
   dropped once, and listed until then. *)
THEOREM EverySearchKept == Spec => []NoSearchLost
  <1>1. IInv => NoSearchLost
    BY DEF IInv
  <1>. QED  BY <1>1, Inductive, PTL

(* The auctions do not change under the iteration of the listing thread. *)
THEOREM RepliesConsistent == Spec => []ReplyConsistent
  <1>1. IInv => ReplyConsistent
    BY DEF IInv, Steady, ReplyConsistent
  <1>. QED  BY <1>1, Inductive, PTL
=============================================================================
