-------------------------- MODULE AuctionHouse_proofs --------------------------
(***************************************************************************)
(* For any characters, items and prices, and any number of requests that   *)
(* wait for the database: what the server has in memory is what the queue  *)
(* will make of the database, no crash puts an item in two places, and the *)
(* database goes through the states of AuctionEconomy alone.               *)
(***************************************************************************)
EXTENDS AuctionHouse, SequenceTheorems, FiniteSetTheorems, WellFoundedInduction, TLAPS

-----------------------------------------------------------------------------
(* Numbers. *)

LEMMA Least ==
  ASSUME NEW S \in SUBSET Nat, S # {}
  PROVE  \E i \in S : \A j \in S : i <= j
  <1>1. \E i \in S : \A j \in S : ~ (<<j, i>> \in OpToRel(<, Nat))
    <2>. DEFINE R == OpToRel(<, Nat)
    <2>1. IsWellFoundedOn(R, Nat)
      BY NatLessThanWellFounded, Zenon
    <2>. HIDE DEF R
    <2>2. \E i \in S : \A j \in S : ~ (<<j, i>> \in R)
      BY <2>1, WFMin
    <2>. QED  BY <2>2 DEF R
  <1>2. PICK i \in S : \A j \in S : ~ (<<j, i>> \in OpToRel(<, Nat))
    BY <1>1, Zenon
  <1>3. ASSUME NEW j \in S PROVE i <= j
    <2>1. ~ (j < i)
      BY <1>2 DEF OpToRel
    <2>. QED  BY <2>1
  <1>. QED  BY <1>2, <1>3

(* What holds at 0 and of each successor up to n holds up to n: T is the set where it does. *)
LEMMA UpTo ==
  ASSUME NEW n \in Nat, NEW T, 0 \in T, \A k \in 0..n : k + 1 \in 0..n /\ k \in T => k + 1 \in T
  PROVE  \A k \in 0..n : k \in T
  <1>. DEFINE Bad == {k \in 0..n : k \notin T}
  <1>1. SUFFICES ASSUME Bad # {} PROVE FALSE
    OBVIOUS
  <1>2. PICK m \in Bad : \A j \in Bad : m <= j
    <2>1. Bad \in SUBSET Nat
      OBVIOUS
    <2>. HIDE DEF Bad
    <2>. QED  BY <1>1, <2>1, Least
  <1>3. m # 0 /\ m - 1 \in 0..n /\ (m - 1) + 1 = m /\ ~(m <= m - 1)
    OBVIOUS
  <1>4. m - 1 \in T
    BY <1>2, <1>3
  <1>. QED  BY <1>3, <1>4

-----------------------------------------------------------------------------
(* After is what its recursion says. *)

Unfolds(g, d, q, n) == g = [k \in 0..n |-> IF k = 0 THEN d ELSE Execute(g[k - 1], q[k])]

LEMMA AfterExists ==
  ASSUME NEW d, NEW q, NEW n \in Nat
  PROVE  \E g : Unfolds(g, d, q, n)
  <1>. DEFINE T == {k \in 0..n : \E g : Unfolds(g, d, q, k)}
  <1>1. 0 \in T
    <2>. DEFINE g == [k \in 0..0 |-> d]
    <2>1. g = [k \in 0..0 |-> IF k = 0 THEN d ELSE Execute(g[k - 1], q[k])]
      OBVIOUS
    <2>. HIDE DEF g
    <2>2. Unfolds(g, d, q, 0)
      BY <2>1 DEF Unfolds
    <2>3. 0 \in 0..n
      OBVIOUS
    <2>. QED  BY <2>2, <2>3
  <1>2. ASSUME NEW m \in 0..n, m + 1 \in 0..n, m \in T PROVE m + 1 \in T
    <2>1. PICK g : Unfolds(g, d, q, m)
      BY <1>2
    <2>. DEFINE h == [k \in 0..m + 1 |-> IF k <= m THEN g[k] ELSE Execute(g[m], q[m + 1])]
    <2>2. ASSUME NEW k \in 0..m + 1
          PROVE  h[k] = IF k = 0 THEN d ELSE Execute(h[k - 1], q[k])
      <3>1. CASE k = 0
        BY <2>1, <3>1 DEF Unfolds
      <3>2. CASE k # 0 /\ k <= m
        <4>1. h[k] = g[k] /\ k - 1 \in 0..m + 1 /\ k - 1 <= m /\ k \in 0..m
          BY <3>2
        <4>2. h[k - 1] = g[k - 1]
          BY <4>1
        <4>3. g[k] = Execute(g[k - 1], q[k])
          BY <2>1, <3>2, <4>1 DEF Unfolds
        <4>. QED  BY <3>2, <4>1, <4>2, <4>3
      <3>3. CASE k = m + 1
        <4>1. k # 0 /\ ~(k <= m) /\ k - 1 = m /\ m \in 0..m + 1 /\ m <= m
          BY <3>3
        <4>2. h[m] = g[m]
          BY <4>1
        <4>3. h[k] = Execute(g[m], q[m + 1])
          BY <4>1
        <4>. QED  BY <3>3, <4>1, <4>2, <4>3
      <3>. QED  BY <3>1, <3>2, <3>3
    <2>3. Unfolds(h, d, q, m + 1)
      <3>1. h = [k \in 0..m + 1 |-> h[k]]
        OBVIOUS
      <3>. HIDE DEF h
      <3>. QED  BY <2>2, <3>1 DEF Unfolds
    <2>. QED  BY <1>2, <2>3
  <1>3. \A k \in 0..n : k \in T
    <2>. HIDE DEF T
    <2>. QED  BY <1>1, <1>2, UpTo
  <1>. QED  BY <1>3

LEMMA AfterUnfolds ==
  ASSUME NEW d, NEW q, Len(q) \in Nat
  PROVE  /\ After(d, q)[0] = d
         /\ \A k \in 1..Len(q) : After(d, q)[k] = Execute(After(d, q)[k - 1], q[k])
  <1>1. PICK g : Unfolds(g, d, q, Len(q))
    BY AfterExists
  <1>2. After(d, q) = CHOOSE h : Unfolds(h, d, q, Len(q))
    BY DEF After, Unfolds
  <1>3. Unfolds(After(d, q), d, q, Len(q))
    BY <1>1, <1>2
  <1>. QED  BY <1>3 DEF Unfolds

-----------------------------------------------------------------------------
(* Tables and bags, row by row. *)

Table(f) == f = [x \in DOMAIN f |-> f[x]]

LEMMA Merged ==
  ASSUME NEW f, NEW g
  PROVE  /\ Table(Put(f, g))
         /\ DOMAIN Put(f, g) = DOMAIN f \cup DOMAIN g
         /\ \A x \in DOMAIN f : Put(f, g)[x] = f[x]
         /\ \A x \in DOMAIN g \ DOMAIN f : Put(f, g)[x] = g[x]
  BY DEF Put, Table

LEMMA Empty == Table(<<>>) /\ DOMAIN <<>> = {}
  BY DEF Table

(* How often a letter is in a bag. *)
Copies(l, bag) == IF l \in DOMAIN bag THEN bag[l] ELSE 0

LEMMA CopiesNat ==
  ASSUME NEW B, IsABag(B)
  PROVE  \A l : Copies(l, B) \in Nat /\ (l \in DOMAIN B <=> Copies(l, B) > 0)
  BY DEF IsABag, Copies

LEMMA BagPlus ==
  ASSUME NEW A, IsABag(A), NEW B, IsABag(B)
  PROVE  /\ IsABag(A (+) B)
         /\ \A l : Copies(l, A (+) B) = Copies(l, A) + Copies(l, B)
  BY DEF IsABag, Copies, (+)

LEMMA BagMinus ==
  ASSUME NEW A, IsABag(A), NEW B, IsABag(B)
  PROVE  /\ IsABag(A (-) B)
         /\ \A l : Copies(l, A (-) B) =
               IF Copies(l, A) > Copies(l, B) THEN Copies(l, A) - Copies(l, B) ELSE 0
  BY DEF IsABag, Copies, (-)

LEMMA BagLetters ==
  ASSUME NEW A, IsABag(A), NEW C
  PROVE  /\ IsABag(LettersTo(A, C))
         /\ \A l : Copies(l, LettersTo(A, C)) = IF l.to \in C THEN Copies(l, A) ELSE 0
  BY DEF IsABag, Copies, LettersTo, RestrictDomain, Restrict

LEMMA BagSingle ==
  ASSUME NEW x
  PROVE  /\ IsABag(SetToBag({x})) /\ IsABag(EmptyBag)
         /\ \A l : Copies(l, SetToBag({x})) = IF l = x THEN 1 ELSE 0
         /\ \A l : Copies(l, EmptyBag) = 0
  BY DEF IsABag, Copies, SetToBag, EmptyBag

LEMMA BagWithin ==
  ASSUME NEW A, IsABag(A), NEW B, IsABag(B)
  PROVE  A \sqsubseteq B <=> \A l : Copies(l, A) <= Copies(l, B)
  BY DEF IsABag, Copies, \sqsubseteq

-----------------------------------------------------------------------------
(* What a transaction makes of a database, row by row. *)

(* The rows of a table that the deletion of P spares. *)
Spared(table, P) == RestrictValues(table, LAMBDA o : o \notin P)

LEMMA Restocked ==
  ASSUME NEW n, NEW f, NEW K, NEW P, NEW z, z = Put(n, Without(Spared(f, P), K))
  PROVE  /\ \A i : i \in DOMAIN z <=> i \in DOMAIN n \/ (i \in DOMAIN f /\ i \notin K /\ f[i] \notin P)
         /\ \A i \in DOMAIN z : z[i] = IF i \in DOMAIN n THEN n[i] ELSE f[i]
  <1>. DEFINE s == Spared(f, P)
              w == Without(s, K)
  <1>1. DOMAIN w = DOMAIN s \ K /\ \A x \in DOMAIN s \ K : w[x] = s[x]
    BY DEF Without, Restrict
  <1>2. DOMAIN s = {x \in DOMAIN f : f[x] \notin P} /\ \A x \in DOMAIN s : s[x] = f[x]
    BY DEF Spared, RestrictValues, Restrict
  <1>. HIDE DEF s, w
  <1>3. /\ DOMAIN Put(n, w) = DOMAIN n \cup DOMAIN w
        /\ \A x \in DOMAIN n : Put(n, w)[x] = n[x]
        /\ \A x \in DOMAIN w \ DOMAIN n : Put(n, w)[x] = w[x]
    BY Merged
  <1>4. z = Put(n, w)
    BY DEF s, w
  <1>. QED  BY <1>1, <1>2, <1>3, <1>4

(* e has the rows that t leaves of d. *)
Executed(d, t, e) ==
    /\ DOMAIN e.chars = DOMAIN d.chars \ t.purge
    /\ \A c \in DOMAIN e.chars :
          e.chars[c] = IF c \in DOMAIN t.gold THEN t.gold[c] ELSE d.chars[c]
    /\ DOMAIN e.item \subseteq DOMAIN t.item \cup (DOMAIN d.item \ t.gone)
    /\ \A i : i \in DOMAIN e.inv <=>
          i \in DOMAIN t.inv \/ (i \in DOMAIN d.inv /\ i \notin t.uninv /\ d.inv[i] \notin t.purge)
    /\ \A i \in DOMAIN e.inv : e.inv[i] = IF i \in DOMAIN t.inv THEN t.inv[i] ELSE d.inv[i]
    /\ DOMAIN e.sale = DOMAIN t.sale \cup (DOMAIN d.sale \ t.unsale)
    /\ \A i \in DOMAIN e.sale : e.sale[i] = IF i \in DOMAIN t.sale THEN t.sale[i]
                                            ELSE IF i \in DOMAIN t.bid THEN t.bid[i]
                                            ELSE d.sale[i]
    /\ \A i : i \in DOMAIN e.post <=>
          i \in DOMAIN t.post \/ (i \in DOMAIN d.post /\ i \notin t.unpost /\ d.post[i] \notin t.purge)
    /\ \A i \in DOMAIN e.post : e.post[i] = IF i \in DOMAIN t.post THEN t.post[i] ELSE d.post[i]
    /\ e.coins = LettersTo((d.coins (+) t.coins) (-) t.spent, Characters \ t.purge)

LEMMA ExecuteRows ==
  ASSUME NEW d, NEW t, NEW e, e = Execute(d, t)
  PROVE  Executed(d, t, e)
  <1>1. ASSUME NEW f, NEW n
        PROVE  /\ DOMAIN Update(f, n) = DOMAIN f
               /\ \A x \in DOMAIN f : Update(f, n)[x] = IF x \in DOMAIN n THEN n[x] ELSE f[x]
    BY DEF Update
  <1>2. ASSUME NEW f, NEW K
        PROVE  DOMAIN Without(f, K) = DOMAIN f \ K /\ \A x \in DOMAIN f \ K : Without(f, K)[x] = f[x]
    BY DEF Without, Restrict
  <1>3. ASSUME NEW f
        PROVE  DOMAIN Spared(f, t.purge) \subseteq DOMAIN f
    BY DEF Spared, RestrictValues, Restrict
  <1>4. /\ e.chars = Without(Update(d.chars, t.gold), t.purge)
        /\ e.item  = Put(t.item, Without(Spared(Update(d.item, t.owner), t.purge), t.gone))
        /\ e.inv   = Put(t.inv, Without(Spared(d.inv, t.purge), t.uninv))
        /\ e.sale  = Put(t.sale, Without(Update(d.sale, t.bid), t.unsale))
        /\ e.post  = Put(t.post, Without(Spared(d.post, t.purge), t.unpost))
        /\ e.coins = LettersTo((d.coins (+) t.coins) (-) t.spent, Characters \ t.purge)
    BY DEF Execute, Spared
  <1>5. /\ DOMAIN e.chars = DOMAIN d.chars \ t.purge
        /\ \A c \in DOMAIN e.chars :
              e.chars[c] = IF c \in DOMAIN t.gold THEN t.gold[c] ELSE d.chars[c]
    <2>. DEFINE u == Update(d.chars, t.gold)
    <2>1. e.chars = Without(u, t.purge)
      BY <1>4
    <2>2. /\ DOMAIN u = DOMAIN d.chars
          /\ \A x \in DOMAIN d.chars : u[x] = IF x \in DOMAIN t.gold THEN t.gold[x] ELSE d.chars[x]
      BY <1>1
    <2>. HIDE DEF u
    <2>. DEFINE w == Without(u, t.purge)
    <2>3. DOMAIN w = DOMAIN u \ t.purge /\ \A x \in DOMAIN u \ t.purge : w[x] = u[x]
      BY <1>2
    <2>4. e.chars = w
      BY <2>1
    <2>. HIDE DEF w
    <2>. QED  BY <2>2, <2>3, <2>4
  <1>6. DOMAIN e.item \subseteq DOMAIN t.item \cup (DOMAIN d.item \ t.gone)
    <2>. DEFINE u == Update(d.item, t.owner)
                s == Spared(u, t.purge)
                w == Without(s, t.gone)
    <2>1. DOMAIN w = DOMAIN s \ t.gone
      BY <1>2
    <2>2. DOMAIN s \subseteq DOMAIN u
      BY <1>3
    <2>3. DOMAIN u = DOMAIN d.item
      BY <1>1
    <2>. HIDE DEF u, s, w
    <2>4. DOMAIN Put(t.item, w) = DOMAIN t.item \cup DOMAIN w
      BY Merged
    <2>5. e.item = Put(t.item, w)
      BY <1>4 DEF w, s, u
    <2>. QED  BY <2>1, <2>2, <2>3, <2>4, <2>5
  <1>8. /\ DOMAIN e.sale = DOMAIN t.sale \cup (DOMAIN d.sale \ t.unsale)
        /\ \A i \in DOMAIN e.sale : e.sale[i] = IF i \in DOMAIN t.sale THEN t.sale[i]
                                                ELSE IF i \in DOMAIN t.bid THEN t.bid[i]
                                                ELSE d.sale[i]
    <2>. DEFINE u == Update(d.sale, t.bid)
                w == Without(u, t.unsale)
    <2>1. DOMAIN w = DOMAIN u \ t.unsale /\ \A x \in DOMAIN u \ t.unsale : w[x] = u[x]
      BY <1>2
    <2>2. /\ DOMAIN u = DOMAIN d.sale
          /\ \A x \in DOMAIN d.sale : u[x] = IF x \in DOMAIN t.bid THEN t.bid[x] ELSE d.sale[x]
      BY <1>1
    <2>. HIDE DEF u, w
    <2>3. /\ DOMAIN Put(t.sale, w) = DOMAIN t.sale \cup DOMAIN w
          /\ \A x \in DOMAIN t.sale : Put(t.sale, w)[x] = t.sale[x]
          /\ \A x \in DOMAIN w \ DOMAIN t.sale : Put(t.sale, w)[x] = w[x]
      BY Merged
    <2>4. e.sale = Put(t.sale, w)
      BY <1>4 DEF u, w
    <2>. QED  BY <2>1, <2>2, <2>3, <2>4
  <1>9. /\ \A i : i \in DOMAIN e.inv <=>
               i \in DOMAIN t.inv \/ (i \in DOMAIN d.inv /\ i \notin t.uninv /\ d.inv[i] \notin t.purge)
        /\ \A i \in DOMAIN e.inv : e.inv[i] = IF i \in DOMAIN t.inv THEN t.inv[i] ELSE d.inv[i]
    <2>. DEFINE n == t.inv
                f == d.inv
                K == t.uninv
                P == t.purge
                z == e.inv
    <2>1. z = Put(n, Without(Spared(f, P), K))
      BY <1>4
    <2>. HIDE DEF n, f, K, P, z
    <2>2. /\ \A i : i \in DOMAIN z <=> i \in DOMAIN n \/ (i \in DOMAIN f /\ i \notin K /\ f[i] \notin P)
          /\ \A i \in DOMAIN z : z[i] = IF i \in DOMAIN n THEN n[i] ELSE f[i]
      BY ONLY <2>1, Restocked
    <2>. QED  BY <2>2 DEF n, f, K, P, z
  <1>10. /\ \A i : i \in DOMAIN e.post <=>
               i \in DOMAIN t.post \/ (i \in DOMAIN d.post /\ i \notin t.unpost /\ d.post[i] \notin t.purge)
         /\ \A i \in DOMAIN e.post : e.post[i] = IF i \in DOMAIN t.post THEN t.post[i] ELSE d.post[i]
    <2>. DEFINE n == t.post
                f == d.post
                K == t.unpost
                P == t.purge
                z == e.post
    <2>1. z = Put(n, Without(Spared(f, P), K))
      BY <1>4
    <2>. HIDE DEF n, f, K, P, z
    <2>2. /\ \A i : i \in DOMAIN z <=> i \in DOMAIN n \/ (i \in DOMAIN f /\ i \notin K /\ f[i] \notin P)
          /\ \A i \in DOMAIN z : z[i] = IF i \in DOMAIN n THEN n[i] ELSE f[i]
      BY ONLY <2>1, Restocked
    <2>. QED  BY <2>2 DEF n, f, K, P, z
  <1>. QED  BY <1>4, <1>5, <1>6, <1>8, <1>9, <1>10 DEF Executed

-----------------------------------------------------------------------------
(* Requests are executed from the first to the last. *)

IsQueue(q) == q \in Seq({q[k] : k \in DOMAIN q})

LEMMA QueueTyped ==
  ASSUME NEW S, NEW q \in Seq(S)
  PROVE  IsQueue(q)
  <1>. DEFINE V == {q[k] : k \in DOMAIN q}
  <1>1. Len(q) \in Nat /\ q = [k \in 1..Len(q) |-> q[k]] /\ DOMAIN q = 1..Len(q)
    OBVIOUS
  <1>2. \A k \in 1..Len(q) : q[k] \in V
    BY <1>1
  <1>. HIDE DEF V
  <1>3. q \in Seq(V)
    BY <1>1, <1>2
  <1>. QED  BY <1>3 DEF V, IsQueue

LEMMA QueueConcat ==
  ASSUME NEW q, IsQueue(q), NEW r, IsQueue(r)
  PROVE  /\ IsQueue(q \o r) /\ Len(q) \in Nat /\ Len(r) \in Nat
         /\ Len(q \o r) = Len(q) + Len(r)
         /\ \A k \in 1..Len(q) : (q \o r)[k] = q[k]
         /\ \A k \in 1..Len(r) : (q \o r)[Len(q) + k] = r[k]
  <1>. DEFINE S == {q[k] : k \in DOMAIN q} \cup {r[k] : k \in DOMAIN r}
              A == {q[k] : k \in DOMAIN q}
              B == {r[k] : k \in DOMAIN r}
  <1>1. q \in Seq(A) /\ r \in Seq(B) /\ A \subseteq S /\ B \subseteq S
    BY DEF IsQueue
  <1>. HIDE DEF A, B, S
  <1>2. q \in Seq(S) /\ r \in Seq(S)
    BY <1>1
  <1>3. q \o r \in Seq(S)
    BY <1>2
  <1>4. IsQueue(q \o r)
    BY ONLY <1>3, QueueTyped, Zenon
  <1>. QED  BY <1>2, <1>4

LEMMA QueueTail ==
  ASSUME NEW q, IsQueue(q), q # <<>>
  PROVE  /\ IsQueue(Tail(q)) /\ Len(q) \in Nat \ {0} /\ Len(Tail(q)) = Len(q) - 1
         /\ Head(q) = q[1]
         /\ \A k \in 1..Len(q) - 1 : Tail(q)[k] = q[k + 1]
  <1>. DEFINE A == {q[k] : k \in DOMAIN q}
  <1>1. q \in Seq(A)
    BY DEF IsQueue
  <1>. HIDE DEF A
  <1>2. Tail(q) \in Seq(A)
    BY <1>1
  <1>3. IsQueue(Tail(q))
    BY ONLY <1>2, QueueTyped, Zenon
  <1>. QED  BY <1>1, <1>3

LEMMA QueueOne ==
  ASSUME NEW t
  PROVE  /\ IsQueue(<<t>>) /\ Len(<<t>>) = 1 /\ <<t>>[1] = t /\ IsQueue(<<>>) /\ Len(<<>>) = 0
         /\ DOMAIN <<>> = {}
  <1>1. <<t>> \in Seq({t}) /\ <<>> \in Seq({t})
    OBVIOUS
  <1>2. IsQueue(<<t>>) /\ IsQueue(<<>>)
    BY ONLY <1>1, QueueTyped, Zenon
  <1>. QED  BY <1>2

LEMMA AfterConcat ==
  ASSUME NEW d, NEW q, IsQueue(q), NEW r, IsQueue(r)
  PROVE  /\ \A k \in 0..Len(q) : After(d, q \o r)[k] = After(d, q)[k]
         /\ \A k \in 0..Len(r) :
               After(d, q \o r)[Len(q) + k] = After(After(d, q)[Len(q)], r)[k]
  <1>. DEFINE m == Len(q)
              n == Len(r)
              z == q \o r
              f == After(d, q)[m]
              L == {k \in 0..m : After(d, z)[k] = After(d, q)[k]}
              R == {k \in 0..n : After(d, z)[m + k] = After(f, r)[k]}
  <1>1. /\ m \in Nat /\ n \in Nat /\ Len(z) = m + n
        /\ \A k \in 1..m : z[k] = q[k]
        /\ \A k \in 1..n : z[m + k] = r[k]
    BY QueueConcat
  <1>2. /\ After(d, z)[0] = d
        /\ \A k \in 1..m + n : After(d, z)[k] = Execute(After(d, z)[k - 1], z[k])
    <2>. HIDE DEF z
    <2>1. Len(z) \in Nat /\ Len(z) = m + n
      BY <1>1
    <2>2. \A k \in 1..Len(z) : After(d, z)[k] = Execute(After(d, z)[k - 1], z[k])
      BY ONLY <2>1, AfterUnfolds
    <2>3. After(d, z)[0] = d
      BY ONLY <2>1, AfterUnfolds
    <2>. QED  BY ONLY <2>1, <2>2, <2>3
  <1>3. /\ After(d, q)[0] = d
        /\ \A k \in 1..m : After(d, q)[k] = Execute(After(d, q)[k - 1], q[k])
    BY <1>1, AfterUnfolds
  <1>4. /\ After(f, r)[0] = f
        /\ \A k \in 1..n : After(f, r)[k] = Execute(After(f, r)[k - 1], r[k])
    BY <1>1, AfterUnfolds
  <1>. HIDE DEF m, n, z
  <1>5. \A k \in 0..m : k \in L
    <2>1. 0 \in L
      BY <1>1, <1>2, <1>3
    <2>2. ASSUME NEW k \in 0..m, k + 1 \in 0..m, k \in L PROVE k + 1 \in L
      <3>1. k + 1 \in 1..m /\ k + 1 \in 1..m + n /\ (k + 1) - 1 = k
        BY <1>1, <2>2
      <3>2. /\ After(d, z)[k + 1] = Execute(After(d, z)[k], z[k + 1])
            /\ After(d, q)[k + 1] = Execute(After(d, q)[k], q[k + 1])
            /\ z[k + 1] = q[k + 1] /\ After(d, z)[k] = After(d, q)[k]
        BY <1>1, <1>2, <1>3, <2>2, <3>1
      <3>3. After(d, z)[k + 1] = After(d, q)[k + 1]
        BY <3>2
      <3>. QED  BY <2>2, <3>3
    <2>. HIDE DEF L
    <2>. QED  BY <1>1, <2>1, <2>2, UpTo
  <1>6. \A k \in 0..n : k \in R
    <2>1. 0 \in R
      <3>1. m \in L /\ 0 \in 0..n /\ m + 0 = m
        BY <1>1, <1>5
      <3>2. After(d, z)[m] = f
        BY <3>1
      <3>. QED  BY <1>4, <3>1, <3>2
    <2>. HIDE DEF f
    <2>2. ASSUME NEW k \in 0..n, k + 1 \in 0..n, k \in R PROVE k + 1 \in R
      <3>1. /\ k + 1 \in 1..n /\ m + (k + 1) \in 1..m + n /\ (k + 1) - 1 = k
            /\ (m + (k + 1)) - 1 = m + k
        BY <1>1, <2>2
      <3>2. /\ After(d, z)[m + (k + 1)] = Execute(After(d, z)[m + k], z[m + (k + 1)])
            /\ After(f, r)[k + 1] = Execute(After(f, r)[k], r[k + 1])
            /\ z[m + (k + 1)] = r[k + 1] /\ After(d, z)[m + k] = After(f, r)[k]
        BY <1>1, <1>2, <1>4, <2>2, <3>1
      <3>3. After(d, z)[m + (k + 1)] = After(f, r)[k + 1]
        BY <3>2
      <3>. QED  BY <2>2, <3>3
    <2>. HIDE DEF R
    <2>. QED  BY <1>1, <2>1, <2>2, UpTo
  <1>. QED  BY <1>5, <1>6 DEF m, n, z

LEMMA AfterTail ==
  ASSUME NEW d, NEW q, IsQueue(q), q # <<>>
  PROVE  \A k \in 0..Len(q) - 1 :
            After(Execute(d, Head(q)), Tail(q))[k] = After(d, q)[k + 1]
  <1>. DEFINE n == Len(q) - 1
              z == Tail(q)
              e == Execute(d, Head(q))
              L == {k \in 0..n : After(e, z)[k] = After(d, q)[k + 1]}
  <1>1. /\ n \in Nat /\ Len(q) = n + 1 /\ Len(z) = n /\ Head(q) = q[1]
        /\ \A k \in 1..n : z[k] = q[k + 1]
    BY QueueTail
  <1>2. /\ After(d, q)[0] = d
        /\ \A k \in 1..n + 1 : After(d, q)[k] = Execute(After(d, q)[k - 1], q[k])
    BY <1>1, AfterUnfolds
  <1>3. /\ After(e, z)[0] = e
        /\ \A k \in 1..n : After(e, z)[k] = Execute(After(e, z)[k - 1], z[k])
    <2>. HIDE DEF z, e, n
    <2>1. Len(z) \in Nat /\ Len(z) = n
      BY <1>1
    <2>2. \A k \in 1..Len(z) : After(e, z)[k] = Execute(After(e, z)[k - 1], z[k])
      BY ONLY <2>1, AfterUnfolds
    <2>3. After(e, z)[0] = e
      BY ONLY <2>1, AfterUnfolds
    <2>. QED  BY ONLY <2>1, <2>2, <2>3
  <1>. HIDE DEF n, z
  <1>4. 0 \in L
    <2>1. 1 \in 1..n + 1 /\ 1 - 1 = 0 /\ 0 + 1 = 1 /\ 0 \in 0..n
      BY <1>1
    <2>2. After(d, q)[1] = e
      BY <1>1, <1>2, <2>1
    <2>. QED  BY <1>3, <2>1, <2>2
  <1>. HIDE DEF e
  <1>5. ASSUME NEW k \in 0..n, k + 1 \in 0..n, k \in L PROVE k + 1 \in L
    <2>1. /\ k + 1 \in 1..n /\ (k + 1) - 1 = k
          /\ (k + 1) + 1 \in 1..n + 1 /\ ((k + 1) + 1) - 1 = k + 1
      BY <1>1, <1>5
    <2>2. /\ After(e, z)[k + 1] = Execute(After(e, z)[k], z[k + 1])
          /\ After(d, q)[(k + 1) + 1] = Execute(After(d, q)[k + 1], q[(k + 1) + 1])
          /\ z[k + 1] = q[(k + 1) + 1] /\ After(e, z)[k] = After(d, q)[k + 1]
      BY <1>1, <1>2, <1>3, <1>5, <2>1
    <2>3. After(e, z)[k + 1] = After(d, q)[(k + 1) + 1]
      BY <2>2
    <2>. QED  BY <1>5, <2>3
  <1>6. \A k \in 0..n : k \in L
    <2>. HIDE DEF L
    <2>. QED  BY <1>1, <1>4, <1>5, UpTo
  <1>. QED  BY <1>6 DEF e, n, z

-----------------------------------------------------------------------------
(* The invariant. *)

Has(table, k, v) == k \in DOMAIN table /\ table[k] = v

(* No item is in two places, and mail and characters are what they may be. *)
Sound(d) == /\ DOMAIN d.inv \cap DOMAIN d.sale = {}
            /\ DOMAIN d.inv \cap DOMAIN d.post = {}
            /\ DOMAIN d.sale \cap DOMAIN d.post = {}
            /\ DOMAIN d.chars \subseteq Characters
            /\ IsABag(d.coins)

(* What was read of a character is in the database f: all but the mail, of which there may
   be more by then. *)
Reads(r, c, f) ==
    /\ Has(f.chars, c, r.gold)
    /\ Table(r.held) /\ Table(r.parcels)
    /\ \A i \in DOMAIN r.held : r.held[i] = c /\ Has(f.inv, i, c)
    /\ \A i \in DOMAIN f.inv : f.inv[i] = c => i \in DOMAIN r.held
    /\ \A i \in DOMAIN r.parcels : r.parcels[i] = c /\ Has(f.post, i, c)
    /\ IsABag(r.letters)
    /\ \A l \in DOMAIN r.letters : l.to = c /\ Copies(l, r.letters) <= Copies(l, f.coins)

(* Whatever becomes of the requests that wait, the database is sound. *)
EverSound == \A k \in 0..Len(queue) : Sound(After(db, queue)[k])

(* WorldAhead, row by row, of the database f. *)
AheadOf(f) ==
    /\ known = DOMAIN f.chars
    /\ \A c \in online : Has(f.chars, c, gold[c])
    /\ \A i \in DOMAIN held : held[i] \in online /\ Has(f.inv, i, held[i])
    /\ \A i \in DOMAIN f.inv : f.inv[i] \in online => i \in DOMAIN held
    /\ \A i \in DOMAIN parcels : Has(f.post, i, parcels[i])
    /\ \A l \in DOMAIN letters : Copies(l, letters) <= Copies(l, f.coins)
    /\ \A i \in DOMAIN auctions : Has(f.sale, i, auctions[i])
    /\ \A i \in DOMAIN f.sale \ DOMAIN auctions : i \notin DOMAIN f.item

(* A character whose login is under way is not in the world, and what was or will be read
   of it is still true when all that waits is executed. *)
LoginsKept ==
    /\ \A c \in DOMAIN read : c \notin online /\ Reads(read[c], c, Future)
    /\ \A k \in DOMAIN queue : \A c \in queue[k].login :
          c \notin online \cup DOMAIN read /\ Reads(RowsOf(After(db, queue)[k - 1], c), c, Future)
    /\ \A j, k \in DOMAIN queue : j # k => queue[j].login \cap queue[k].login = {}

(* The mail in memory is that of players in the world. *)
Shape == /\ Table(gold) /\ Table(held) /\ Table(parcels) /\ Table(auctions) /\ IsABag(letters)
         /\ \A i \in DOMAIN parcels : parcels[i] \in online
         /\ \A l \in DOMAIN letters : l.to \in online

Forgotten == /\ gold = <<>> /\ held = <<>> /\ parcels = <<>> /\ letters = EmptyBag
             /\ queue = <<>> /\ read = <<>>

IInv == /\ IsQueue(queue) /\ Shape /\ EverSound
        /\ server = "up" => AheadOf(Future) /\ LoginsKept
        /\ server = "down" => Forgotten

-----------------------------------------------------------------------------
(* A login and the transactions committed meanwhile. *)

InMind(c) == c \in DOMAIN read \/ \E k \in DOMAIN queue : c \in queue[k].login

(* A transaction that touches nothing of the character c: mail to it may come. *)
Spares(t, f, c) ==
    /\ c \notin t.purge /\ c \notin DOMAIN t.gold
    /\ \A i \in DOMAIN t.inv : i \notin DOMAIN f.inv /\ t.inv[i] # c
    /\ \A i \in t.uninv : ~Has(f.inv, i, c)
    /\ \A i \in DOMAIN t.post : i \notin DOMAIN f.post
    /\ \A i \in t.unpost : ~Has(f.post, i, c)
    /\ IsABag(t.coins) /\ IsABag(t.spent)
    /\ \A l \in DOMAIN t.spent : l.to # c

LEMMA CoinsAfter ==
  ASSUME NEW d, IsABag(d.coins), NEW t, IsABag(t.coins), IsABag(t.spent), NEW e, e = Execute(d, t)
  PROVE  /\ IsABag(e.coins)
         /\ \A l : Copies(l, e.coins) =
               IF l.to \notin Characters \ t.purge THEN 0
               ELSE IF Copies(l, d.coins) + Copies(l, t.coins) > Copies(l, t.spent)
                    THEN Copies(l, d.coins) + Copies(l, t.coins) - Copies(l, t.spent) ELSE 0
  <1>. DEFINE A == d.coins (+) t.coins
              B == A (-) t.spent
  <1>1. IsABag(A) /\ \A l : Copies(l, A) = Copies(l, d.coins) + Copies(l, t.coins)
    BY BagPlus
  <1>2. /\ IsABag(B)
        /\ \A l : Copies(l, B) = IF Copies(l, A) > Copies(l, t.spent)
                                 THEN Copies(l, A) - Copies(l, t.spent) ELSE 0
    <2>. HIDE DEF A
    <2>. QED  BY <1>1, BagMinus
  <1>3. e.coins = LettersTo(B, Characters \ t.purge)
    <2>1. Executed(d, t, e)
      BY ExecuteRows
    <2>. QED  BY <2>1 DEF Executed
  <1>. HIDE DEF A, B
  <1>4. /\ IsABag(LettersTo(B, Characters \ t.purge))
        /\ \A l : Copies(l, LettersTo(B, Characters \ t.purge)) =
                     IF l.to \in Characters \ t.purge THEN Copies(l, B) ELSE 0
    BY <1>2, BagLetters
  <1>5. IsABag(e.coins)
    BY <1>3, <1>4
  <1>6. ASSUME NEW l
        PROVE  Copies(l, e.coins) = IF l.to \in Characters \ t.purge THEN Copies(l, B) ELSE 0
    BY <1>3, <1>4
  <1>7. ASSUME NEW l
        PROVE  Copies(l, e.coins) =
                  IF l.to \notin Characters \ t.purge THEN 0
                  ELSE IF Copies(l, d.coins) + Copies(l, t.coins) > Copies(l, t.spent)
                       THEN Copies(l, d.coins) + Copies(l, t.coins) - Copies(l, t.spent) ELSE 0
    <2>1. Copies(l, B) = IF Copies(l, d.coins) + Copies(l, t.coins) > Copies(l, t.spent)
                         THEN Copies(l, d.coins) + Copies(l, t.coins) - Copies(l, t.spent) ELSE 0
      <3>1. Copies(l, A) = Copies(l, d.coins) + Copies(l, t.coins)
        BY <1>1
      <3>2. Copies(l, B) = IF Copies(l, A) > Copies(l, t.spent)
                           THEN Copies(l, A) - Copies(l, t.spent) ELSE 0
        BY <1>2
      <3>3. /\ Copies(l, d.coins) \in Nat /\ Copies(l, t.coins) \in Nat /\ Copies(l, t.spent) \in Nat
            /\ Copies(l, A) \in Nat /\ Copies(l, B) \in Nat
        BY <1>1, <1>2, CopiesNat
      <3>. QED  BY <3>1, <3>2, <3>3
    <2>. QED  BY <1>6, <2>1
  <1>. QED  BY <1>5, <1>7

LEMMA SparesReads ==
  ASSUME NEW f, Sound(f), NEW t, NEW c, Spares(t, f, c), NEW r, Reads(r, c, f),
         NEW e, e = Execute(f, t)
  PROVE  Reads(r, c, e)
  <1>0. Executed(f, t, e)
    BY ExecuteRows
  <1>1. Has(e.chars, c, r.gold)
    BY <1>0 DEF Executed, Spares, Reads, Has
  <1>2. \A i \in DOMAIN r.held : r.held[i] = c /\ Has(e.inv, i, c)
    BY <1>0 DEF Executed, Spares, Reads, Has
  <1>3. \A i \in DOMAIN e.inv : e.inv[i] = c => i \in DOMAIN r.held
    BY <1>0 DEF Executed, Spares, Reads, Has
  <1>4. \A i \in DOMAIN r.parcels : r.parcels[i] = c /\ Has(e.post, i, c)
    BY <1>0 DEF Executed, Spares, Reads, Has
  <1>5. ASSUME NEW l \in DOMAIN r.letters
        PROVE  l.to = c /\ Copies(l, r.letters) <= Copies(l, e.coins)
    <2>1. /\ l.to = c /\ c \in Characters \ t.purge /\ l \notin DOMAIN t.spent
          /\ Copies(l, r.letters) <= Copies(l, f.coins)
      BY DEF Reads, Has, Sound, Spares
    <2>2. /\ Copies(l, r.letters) \in Nat /\ Copies(l, f.coins) \in Nat
          /\ Copies(l, t.coins) \in Nat /\ Copies(l, t.spent) = 0
      BY <2>1, CopiesNat DEF Reads, Sound, Spares, Copies
    <2>3. Copies(l, e.coins) = IF Copies(l, f.coins) + Copies(l, t.coins) > Copies(l, t.spent)
                               THEN Copies(l, f.coins) + Copies(l, t.coins) - Copies(l, t.spent)
                               ELSE 0
      BY <2>1, CoinsAfter DEF Sound, Spares
    <2>. QED  BY <2>1, <2>2, <2>3
  <1>. QED  BY <1>1, <1>2, <1>3, <1>4, <1>5 DEF Reads

LEMMA RowsRead ==
  ASSUME NEW f, Sound(f), NEW c \in DOMAIN f.chars
  PROVE  Reads(RowsOf(f, c), c, f)
  <1>. DEFINE r == RowsOf(f, c)
  <1>1. /\ r.gold = f.chars[c]
        /\ r.held = ItemsOf(f.inv, c)
        /\ r.parcels = ItemsOf(Restrict(f.post, DOMAIN f.post \cap DOMAIN f.item), c)
        /\ r.letters = LettersTo(f.coins, {c})
    BY DEF RowsOf
  <1>2. /\ Table(r.held)
        /\ \A i \in DOMAIN r.held : r.held[i] = c /\ Has(f.inv, i, c)
        /\ \A i \in DOMAIN f.inv : f.inv[i] = c => i \in DOMAIN r.held
    BY <1>1 DEF ItemsOf, RestrictValues, Restrict, Has, Table
  <1>3. /\ Table(r.parcels)
        /\ \A i \in DOMAIN r.parcels : r.parcels[i] = c /\ Has(f.post, i, c)
    BY <1>1 DEF ItemsOf, RestrictValues, Restrict, Has, Table
  <1>4. /\ IsABag(r.letters)
        /\ \A l \in DOMAIN r.letters : l.to = c /\ Copies(l, r.letters) <= Copies(l, f.coins)
    <2>1. IsABag(f.coins)
      BY DEF Sound
    <2>2. \A l \in DOMAIN LettersTo(f.coins, {c}) : l.to = c
      BY DEF LettersTo, RestrictDomain, Restrict
    <2>3. /\ IsABag(LettersTo(f.coins, {c}))
          /\ \A l : Copies(l, LettersTo(f.coins, {c})) = IF l.to \in {c} THEN Copies(l, f.coins) ELSE 0
      BY <2>1, BagLetters
    <2>4. \A l : Copies(l, f.coins) \in Nat
      BY <2>1, CopiesNat
    <2>. HIDE DEF r
    <2>5. IsABag(r.letters)
      BY <1>1, <2>3
    <2>6. ASSUME NEW l \in DOMAIN r.letters
          PROVE  l.to = c /\ Copies(l, r.letters) <= Copies(l, f.coins)
      <3>1. l.to = c
        BY <1>1, <2>2
      <3>2. Copies(l, r.letters) = Copies(l, f.coins)
        BY <1>1, <2>3, <3>1
      <3>. QED  BY <2>4, <3>1, <3>2
    <2>. QED  BY <2>5, <2>6
  <1>. HIDE DEF r
  <1>5. Has(f.chars, c, r.gold)
    BY <1>1 DEF Has
  <1>6. Reads(r, c, f)
    BY <1>2, <1>3, <1>4, <1>5 DEF Reads
  <1>. QED  BY <1>6 DEF r

-----------------------------------------------------------------------------
(* What is committed comes last. *)

LEMMA Commit ==
  ASSUME IsQueue(queue), NEW r, IsQueue(r), queue' = queue \o r, db' = db
  PROVE  /\ IsQueue(queue)' /\ Len(queue) \in Nat /\ Len(r) \in Nat
         /\ Len(queue') = Len(queue) + Len(r)
         /\ \A k \in 0..Len(queue) : After(db, queue)'[k] = After(db, queue)[k]
         /\ \A k \in 0..Len(r) : After(db, queue)'[Len(queue) + k] = After(Future, r)[k]
         /\ Future' = After(Future, r)[Len(r)]
         /\ \A k \in 1..Len(queue) : queue'[k] = queue[k]
         /\ \A k \in 1..Len(r) : queue'[Len(queue) + k] = r[k]
  <1>1. /\ IsQueue(queue') /\ Len(queue) \in Nat /\ Len(r) \in Nat
        /\ Len(queue') = Len(queue) + Len(r)
        /\ \A k \in 1..Len(queue) : queue'[k] = queue[k]
        /\ \A k \in 1..Len(r) : queue'[Len(queue) + k] = r[k]
    <2>. DEFINE q == queue \o r
    <2>1. /\ IsQueue(q) /\ Len(queue) \in Nat /\ Len(r) \in Nat
          /\ Len(q) = Len(queue) + Len(r)
          /\ \A k \in 1..Len(queue) : q[k] = queue[k]
          /\ \A k \in 1..Len(r) : q[Len(queue) + k] = r[k]
      BY QueueConcat
    <2>2. queue' = q
      OBVIOUS
    <2>. HIDE DEF q
    <2>. QED  BY <2>1, <2>2
  <1>2. /\ \A k \in 0..Len(queue) : After(db, queue \o r)[k] = After(db, queue)[k]
        /\ \A k \in 0..Len(r) :
              After(db, queue \o r)[Len(queue) + k] = After(After(db, queue)[Len(queue)], r)[k]
    BY AfterConcat
  <1>3. After(db, queue)' = After(db, queue \o r) /\ IsQueue(queue)' = IsQueue(queue')
    BY DEF After, IsQueue
  <1>4. Future = After(db, queue)[Len(queue)] /\ Future' = After(db, queue)'[Len(queue')]
    BY DEF Future
  <1>5. /\ \A k \in 0..Len(queue) : After(db, queue)'[k] = After(db, queue)[k]
        /\ \A k \in 0..Len(r) : After(db, queue)'[Len(queue) + k] = After(Future, r)[k]
    BY <1>2, <1>3, <1>4
  <1>6. Len(r) \in 0..Len(r)
    BY <1>1
  <1>7. Future' = After(Future, r)[Len(r)]
    BY <1>1, <1>4, <1>5, <1>6
  <1>. QED  BY <1>1, <1>3, <1>5, <1>7

LEMMA CommitSound ==
  ASSUME IsQueue(queue), EverSound, NEW r, IsQueue(r), queue' = queue \o r, db' = db,
         \A k \in 1..Len(r) : Sound(After(Future, r)[k])
  PROVE  EverSound'
  <1>1. SUFFICES ASSUME NEW k \in 0..Len(queue') PROVE Sound(After(db, queue)'[k])
    BY DEF EverSound, Sound, After
  <1>2. CASE k \in 0..Len(queue)
    <2>1. After(db, queue)'[k] = After(db, queue)[k]
      BY <1>2, Commit
    <2>2. Sound(After(db, queue)[k])
      BY <1>2 DEF EverSound
    <2>. QED  BY <2>1, <2>2
  <1>3. CASE k \notin 0..Len(queue)
    <2>1. /\ Len(queue) \in Nat /\ Len(r) \in Nat /\ Len(queue') = Len(queue) + Len(r)
      BY Commit
    <2>2. k - Len(queue) \in 1..Len(r) /\ k - Len(queue) \in 0..Len(r)
          /\ Len(queue) + (k - Len(queue)) = k
      BY <1>3, <2>1
    <2>3. After(db, queue)'[Len(queue) + (k - Len(queue))] = After(Future, r)[k - Len(queue)]
      BY <2>2, Commit
    <2>. QED  BY <2>2, <2>3
  <1>. QED  BY <1>2, <1>3

LEMMA CommitLogins ==
  ASSUME IsQueue(queue), LoginsKept, NEW r, IsQueue(r), queue' = queue \o r,
         UNCHANGED <<db, read>>, \A k \in 1..Len(r) : r[k].login = {},
         \A c, x : InMind(c) => /\ c \notin online'
                                /\ Reads(x, c, Future) => Reads(x, c, Future')
  PROVE  LoginsKept'
  <1>1. /\ Len(queue) \in Nat /\ Len(r) \in Nat /\ Len(queue') = Len(queue) + Len(r)
        /\ \A k \in 0..Len(queue) : After(db, queue)'[k] = After(db, queue)[k]
        /\ \A k \in 1..Len(queue) : queue'[k] = queue[k]
        /\ \A k \in 1..Len(r) : queue'[Len(queue) + k] = r[k]
    BY Commit
  <1>2. /\ DOMAIN queue = 1..Len(queue) /\ DOMAIN queue' = 1..Len(queue')
    <2>1. IsQueue(queue')
      BY Commit DEF IsQueue
    <2>. QED  BY <2>1 DEF IsQueue
  <1>3. \A c \in DOMAIN read' : c \notin online' /\ Reads(read'[c], c, Future')
    BY DEF LoginsKept, InMind
  <1>4. ASSUME NEW k \in DOMAIN queue', NEW c \in queue'[k].login
        PROVE  k \in DOMAIN queue /\ queue'[k] = queue[k]
    <2>1. CASE k \in 1..Len(queue)
      BY <1>1, <1>2, <2>1
    <2>2. CASE k \notin 1..Len(queue)
      <3>1. k - Len(queue) \in 1..Len(r) /\ Len(queue) + (k - Len(queue)) = k
        BY <1>1, <1>2, <2>2
      <3>2. queue'[k].login = {}
        BY <1>1, <3>1
      <3>. QED  BY <1>4, <3>2
    <2>. QED  BY <2>1, <2>2
  <1>5. ASSUME NEW k \in DOMAIN queue', NEW c \in queue'[k].login
        PROVE  /\ c \notin online' \cup DOMAIN read'
               /\ Reads(RowsOf(After(db, queue)'[k - 1], c), c, Future')
    <2>1. k \in DOMAIN queue /\ c \in queue[k].login /\ k - 1 \in 0..Len(queue)
      BY <1>1, <1>2, <1>4, <1>5
    <2>2. InMind(c)
      BY <2>1 DEF InMind
    <2>3. c \notin DOMAIN read /\ Reads(RowsOf(After(db, queue)[k - 1], c), c, Future)
      BY <2>1 DEF LoginsKept
    <2>4. After(db, queue)'[k - 1] = After(db, queue)[k - 1]
      BY <1>1, <2>1
    <2>. QED  BY <2>2, <2>3, <2>4
  <1>6. \A j, k \in DOMAIN queue' : j # k => queue'[j].login \cap queue'[k].login = {}
    BY <1>4 DEF LoginsKept
  <1>. QED  BY <1>3, <1>5, <1>6 DEF LoginsKept, RowsOf, Reads, After

LEMMA FutureSound ==
  ASSUME IInv
  PROVE  Sound(Future)
  <1>1. Len(queue) \in Nat
    BY DEF IInv, IsQueue
  <1>. QED  BY <1>1 DEF IInv, EverSound, Future

LEMMA NotBoth ==
  ASSUME LoginsKept, NEW c, InMind(c)
  PROVE  c \notin online
  BY DEF LoginsKept, InMind

LEMMA OneTransaction ==
  ASSUME IInv, NEW t, t.login = {}, queue' = queue \o <<t>>, UNCHANGED <<db, read, server>>,
         server # "down",
         NEW f, f = Future, NEW e, e = Execute(f, t), Sound(e), Shape',
         server = "up" => /\ AheadOf(e)'
                          /\ \A c : InMind(c) => c \notin online' /\ Spares(t, f, c)
  PROVE  IInv'
  <1>. DEFINE r == <<t>>
  <1>1. IsQueue(queue) /\ EverSound
    BY DEF IInv
  <1>2. IsQueue(r) /\ Len(r) = 1 /\ r[1] = t
    BY QueueOne
  <1>3. queue' = queue \o r
    OBVIOUS
  <1>. HIDE DEF r
  <1>4. After(f, r)[1] = e
    <2>1. After(f, r)[0] = f /\ After(f, r)[1] = Execute(After(f, r)[1 - 1], r[1])
      BY <1>2, AfterUnfolds
    <2>. QED  BY <1>2, <2>1
  <1>5. IsQueue(queue)' /\ Future' = e
    BY <1>1, <1>2, <1>3, <1>4, Commit
  <1>6. EverSound'
    <2>1. \A k \in 1..Len(r) : Sound(After(Future, r)[k])
      BY <1>2, <1>4
    <2>. QED  BY <1>1, <1>2, <1>3, <2>1, CommitSound
  <1>7. ASSUME server = "up" PROVE AheadOf(Future)' /\ LoginsKept'
    <2>1. AheadOf(Future)'
      BY <1>5, <1>7 DEF AheadOf
    <2>2. ASSUME NEW c, NEW x, InMind(c)
          PROVE  c \notin online' /\ (Reads(x, c, Future) => Reads(x, c, Future'))
      <3>1. Sound(f) /\ Spares(t, f, c) /\ c \notin online'
        BY <1>7, <2>2, FutureSound
      <3>2. Reads(x, c, f) => Reads(x, c, e)
        BY <3>1, SparesReads
      <3>. QED  BY <1>5, <3>1, <3>2
    <2>3. LoginsKept
      BY <1>7 DEF IInv
    <2>4. \A k \in 1..Len(r) : r[k].login = {}
      BY <1>2
    <2>5. LoginsKept'
      BY <1>1, <1>2, <1>3, <2>2, <2>3, <2>4, CommitLogins
    <2>. QED  BY <2>1, <2>5
  <1>. QED  BY <1>5, <1>6, <1>7 DEF IInv

LEMMA ExecuteSound ==
  ASSUME NEW f, Sound(f), NEW t, IsABag(t.coins), IsABag(t.spent), NEW e, e = Execute(f, t),
         DOMAIN e.inv \cap DOMAIN e.sale = {}, DOMAIN e.inv \cap DOMAIN e.post = {},
         DOMAIN e.sale \cap DOMAIN e.post = {}
  PROVE  Sound(e)
  <1>1. Executed(f, t, e)
    BY ExecuteRows
  <1>2. DOMAIN e.chars \subseteq Characters
    BY <1>1 DEF Executed, Sound
  <1>3. IsABag(e.coins)
    BY CoinsAfter DEF Sound
  <1>. QED  BY <1>2, <1>3 DEF Sound

(* Players in the world have the mail that a transaction sends. *)
LEMMA MailKept ==
  ASSUME Shape, NEW f, Sound(f), AheadOf(f), NEW t, IsABag(t.coins), t.spent = EmptyBag,
         t.purge = {}, NEW e, e = Execute(f, t),
         letters' = letters \/ letters' = letters (+) LettersTo(t.coins, online)
  PROVE  /\ IsABag(letters')
         /\ \A l \in DOMAIN letters' : l.to \in online /\ Copies(l, letters') <= Copies(l, e.coins)
  <1>1. IsABag(letters) /\ IsABag(LettersTo(t.coins, online)) /\ IsABag(f.coins)
    BY BagLetters DEF Shape, Sound
  <1>2. IsABag(letters')
    BY <1>1, BagPlus
  <1>3. ASSUME NEW l \in DOMAIN letters'
        PROVE  l.to \in online /\ Copies(l, letters') <= Copies(l, e.coins)
    <2>1. /\ Copies(l, letters) \in Nat /\ Copies(l, f.coins) \in Nat /\ Copies(l, t.coins) \in Nat
          /\ Copies(l, letters') \in Nat /\ Copies(l, letters') > 0
      BY <1>1, <1>2, <1>3, CopiesNat
    <2>2. Copies(l, LettersTo(t.coins, online)) = IF l.to \in online THEN Copies(l, t.coins) ELSE 0
      BY BagLetters
    <2>3. \/ Copies(l, letters') = Copies(l, letters)
          \/ Copies(l, letters') = Copies(l, letters) + Copies(l, LettersTo(t.coins, online))
      BY <1>1, BagPlus
    <2>4. Copies(l, letters) > 0 => l.to \in online
      BY DEF Shape, Copies
    <2>5. l.to \in online
      BY <2>1, <2>2, <2>3, <2>4
    <2>6. Copies(l, letters) <= Copies(l, f.coins)
      BY <2>1 DEF AheadOf, Copies
    <2>7. Copies(l, e.coins) = Copies(l, f.coins) + Copies(l, t.coins)
      <3>1. l.to \in Characters \ t.purge
        BY <2>5 DEF AheadOf, Has, Sound
      <3>2. IsABag(t.spent) /\ Copies(l, t.spent) = 0
        BY BagSingle
      <3>3. Copies(l, e.coins) = IF Copies(l, f.coins) + Copies(l, t.coins) > Copies(l, t.spent)
                                 THEN Copies(l, f.coins) + Copies(l, t.coins) - Copies(l, t.spent)
                                 ELSE 0
        BY <1>1, <3>1, <3>2, CoinsAfter
      <3>. QED  BY <2>1, <3>2, <3>3
    <2>. QED  BY <2>1, <2>2, <2>3, <2>5, <2>6, <2>7
  <1>. QED  BY <1>2, <1>3

LEMMA ParcelsSent ==
  ASSUME Shape, NEW f, AheadOf(f), NEW t, t.unpost = {}, t.purge = {}, NEW e, e = Execute(f, t),
         parcels' = Put(RestrictValues(t.post, LAMBDA c : c \in online), parcels),
         \A i \in DOMAIN t.post : i \notin DOMAIN f.post
  PROVE  /\ Table(parcels')
         /\ \A i \in DOMAIN parcels' : parcels'[i] \in online /\ Has(e.post, i, parcels'[i])
  <1>. DEFINE w == RestrictValues(t.post, LAMBDA c : c \in online)
  <1>1. /\ DOMAIN w \subseteq DOMAIN t.post
        /\ \A i \in DOMAIN w : w[i] = t.post[i] /\ t.post[i] \in online
    BY DEF RestrictValues, Restrict
  <1>2. parcels' = Put(w, parcels)
    OBVIOUS
  <1>. HIDE DEF w
  <1>3. /\ Table(parcels') /\ DOMAIN parcels' = DOMAIN w \cup DOMAIN parcels
        /\ \A i \in DOMAIN w : parcels'[i] = w[i]
        /\ \A i \in DOMAIN parcels \ DOMAIN w : parcels'[i] = parcels[i]
    BY <1>2 DEF Put, Table
  <1>4. /\ \A i : i \in DOMAIN e.post <=>
               i \in DOMAIN t.post \/ (i \in DOMAIN f.post /\ i \notin {} /\ f.post[i] \notin {})
        /\ \A i \in DOMAIN e.post : e.post[i] = IF i \in DOMAIN t.post THEN t.post[i] ELSE f.post[i]
    <2>1. Executed(f, t, e)
      BY ExecuteRows
    <2>. QED  BY <2>1 DEF Executed
  <1>5. ASSUME NEW i \in DOMAIN parcels'
        PROVE  parcels'[i] \in online /\ Has(e.post, i, parcels'[i])
    <2>1. CASE i \in DOMAIN w
      BY <1>1, <1>3, <1>4, <2>1 DEF Has
    <2>2. CASE i \notin DOMAIN w
      <3>1. i \in DOMAIN parcels /\ parcels'[i] = parcels[i]
        BY <1>3, <2>2
      <3>2. parcels[i] \in online /\ i \in DOMAIN f.post /\ f.post[i] = parcels[i]
        BY <3>1 DEF Shape, AheadOf, Has
      <3>. QED  BY <1>4, <3>1, <3>2 DEF Has
    <2>. QED  BY <2>1, <2>2
  <1>. QED  BY <1>3, <1>5

-----------------------------------------------------------------------------
(* The handlers. *)

USE DEF online

LEMMA Up ==
  ASSUME IInv, server = "up", NEW f, f = Future
  PROVE  /\ Sound(f) /\ AheadOf(f) /\ Shape /\ LoginsKept
         /\ \A c : InMind(c) => c \notin online
         /\ online \subseteq DOMAIN f.chars /\ online \subseteq Characters
  <1>1. AheadOf(f) /\ LoginsKept /\ Shape
    BY DEF IInv
  <1>2. Sound(f)
    BY FutureSound
  <1>. QED  BY <1>1, <1>2, NotBoth DEF AheadOf, Has, Sound

(* The tables that a transaction deletes no character from. *)
LEMMA ExecuteKeeps ==
  ASSUME NEW f, NEW t, t.purge = {}, NEW e, e = Execute(f, t)
  PROVE  /\ DOMAIN e.chars = DOMAIN f.chars
         /\ \A c \in DOMAIN f.chars : e.chars[c] = IF c \in DOMAIN t.gold THEN t.gold[c] ELSE f.chars[c]
         /\ t.item = <<>> => DOMAIN e.item \subseteq DOMAIN f.item
         /\ t.inv = <<>> => /\ DOMAIN e.inv = DOMAIN f.inv \ t.uninv
                            /\ \A i \in DOMAIN e.inv : e.inv[i] = f.inv[i]
         /\ t.sale = <<>> /\ t.bid = <<>> => /\ DOMAIN e.sale = DOMAIN f.sale \ t.unsale
                                             /\ \A i \in DOMAIN e.sale : e.sale[i] = f.sale[i]
         /\ t.post = <<>> => /\ DOMAIN e.post = DOMAIN f.post \ t.unpost
                             /\ \A i \in DOMAIN e.post : e.post[i] = f.post[i]
         /\ DOMAIN e.post = DOMAIN t.post \cup (DOMAIN f.post \ t.unpost)
         /\ \A i \in DOMAIN t.post : e.post[i] = t.post[i]
         /\ \A i \in DOMAIN e.post \ DOMAIN t.post : e.post[i] = f.post[i]
  <1>1. Executed(f, t, e)
    BY ExecuteRows
  <1>2. /\ DOMAIN e.chars = DOMAIN f.chars
        /\ \A c \in DOMAIN f.chars : e.chars[c] = IF c \in DOMAIN t.gold THEN t.gold[c] ELSE f.chars[c]
    BY <1>1 DEF Executed
  <1>3. ASSUME t.item = <<>> PROVE DOMAIN e.item \subseteq DOMAIN f.item
    BY <1>1, <1>3, Empty DEF Executed
  <1>4. ASSUME t.inv = <<>>
        PROVE  DOMAIN e.inv = DOMAIN f.inv \ t.uninv /\ \A i \in DOMAIN e.inv : e.inv[i] = f.inv[i]
    BY <1>1, <1>4, Empty DEF Executed
  <1>5. ASSUME t.sale = <<>>, t.bid = <<>>
        PROVE  DOMAIN e.sale = DOMAIN f.sale \ t.unsale /\ \A i \in DOMAIN e.sale : e.sale[i] = f.sale[i]
    BY <1>1, <1>5, Empty DEF Executed
  <1>6. ASSUME t.post = <<>>
        PROVE  DOMAIN e.post = DOMAIN f.post \ t.unpost /\ \A i \in DOMAIN e.post : e.post[i] = f.post[i]
    BY <1>1, <1>6, Empty DEF Executed
  <1>7. /\ DOMAIN e.post = DOMAIN t.post \cup (DOMAIN f.post \ t.unpost)
        /\ \A i \in DOMAIN t.post : e.post[i] = t.post[i]
        /\ \A i \in DOMAIN e.post \ DOMAIN t.post : e.post[i] = f.post[i]
    BY <1>1 DEF Executed
  <1>. QED  BY <1>2, <1>3, <1>4, <1>5, <1>6, <1>7

LEMMA SellStep ==
  ASSUME IInv, NEW c, NEW i, NEW buyout, HandleAuctionSellItem(c, i, buyout)
  PROVE  IInv'
  <1>. DEFINE s == [owner |-> c, buyout |-> buyout, bidder |-> Nobody, bid |-> 0]
  <1>1. PICK t, f, e : t = SellWrites(c, i, s, gold') /\ f = Future /\ e = Execute(f, t)
    OBVIOUS
  <1>2. /\ server = "up" /\ i \in DOMAIN held /\ held[i] = c
        /\ gold' = Paid(c, Deposit) /\ held' = Without(held, {i})
        /\ auctions' = Put(Row(i, s), auctions)
        /\ queue' = queue \o <<t>>
        /\ UNCHANGED <<known, parcels, letters, read, db, server>>
    BY <1>1 DEF HandleAuctionSellItem, Handling, CommitTransaction
  <1>3. /\ t.gold = Row(c, gold'[c]) /\ t.uninv = {i} /\ t.sale = Row(i, s)
        /\ t.inv = <<>> /\ t.item = <<>> /\ t.gone = {} /\ t.bid = <<>> /\ t.unsale = {}
        /\ t.post = <<>> /\ t.unpost = {} /\ t.coins = EmptyBag /\ t.spent = EmptyBag
        /\ t.purge = {} /\ t.login = {}
    BY <1>1 DEF SellWrites, NoWrites, SaveGoldToDB
  <1>. HIDE DEF s
  <1>4. /\ Sound(f) /\ AheadOf(f) /\ Shape /\ \A d : InMind(d) => d \notin online
        /\ online \subseteq DOMAIN f.chars /\ online \subseteq Characters
    BY <1>1, <1>2, Up
  <1>5. c \in online /\ Has(f.inv, i, c) /\ i \notin DOMAIN f.sale /\ i \notin DOMAIN f.post
    BY <1>2, <1>4 DEF AheadOf, Has, Sound
  <1>6. /\ DOMAIN gold' = online /\ Table(gold') /\ \A d \in online \ {c} : gold'[d] = gold[d]
        /\ DOMAIN held' = DOMAIN held \ {i} /\ Table(held') /\ \A j \in DOMAIN held' : held'[j] = held[j]
        /\ DOMAIN auctions' = {i} \cup DOMAIN auctions /\ Table(auctions') /\ auctions'[i] = s
        /\ \A j \in DOMAIN auctions \ {i} : auctions'[j] = auctions[j]
    <2>1. /\ DOMAIN gold' = online /\ Table(gold') /\ \A d \in online \ {c} : gold'[d] = gold[d]
      BY <1>2 DEF Paid, Table
    <2>2. /\ DOMAIN held' = DOMAIN held \ {i} /\ Table(held')
          /\ \A j \in DOMAIN held' : held'[j] = held[j]
      BY <1>2 DEF Without, Restrict, Table
    <2>3. /\ DOMAIN auctions' = {i} \cup DOMAIN auctions /\ Table(auctions') /\ auctions'[i] = s
          /\ \A j \in DOMAIN auctions \ {i} : auctions'[j] = auctions[j]
      BY <1>2 DEF Put, Row, Table
    <2>. QED  BY <2>1, <2>2, <2>3
  <1>7. /\ DOMAIN e.chars = DOMAIN f.chars /\ e.chars[c] = gold'[c]
        /\ \A d \in DOMAIN f.chars \ {c} : e.chars[d] = f.chars[d]
        /\ DOMAIN e.item \subseteq DOMAIN f.item
        /\ DOMAIN e.inv = DOMAIN f.inv \ {i} /\ \A j \in DOMAIN e.inv : e.inv[j] = f.inv[j]
        /\ DOMAIN e.sale = {i} \cup DOMAIN f.sale /\ e.sale[i] = s
        /\ \A j \in DOMAIN f.sale \ {i} : e.sale[j] = f.sale[j]
        /\ DOMAIN e.post = DOMAIN f.post /\ \A j \in DOMAIN e.post : e.post[j] = f.post[j]
    <2>1. /\ DOMAIN t.gold = {c} /\ t.gold[c] = gold'[c] /\ DOMAIN t.sale = {i} /\ t.sale[i] = s
          /\ DOMAIN t.bid = {}
      <3>1. DOMAIN t.bid = {}
        BY <1>3, Empty
      <3>2. DOMAIN t.gold = {c} /\ t.gold[c] = gold'[c]
        BY <1>3 DEF Row
      <3>3. DOMAIN t.sale = {i} /\ t.sale[i] = s
        BY <1>3 DEF Row
      <3>. QED  BY <3>1, <3>2, <3>3
    <2>2. DOMAIN e.sale = {i} \cup DOMAIN f.sale /\ e.sale[i] = s
          /\ \A j \in DOMAIN f.sale \ {i} : e.sale[j] = f.sale[j]
      <3>1. Executed(f, t, e)
        BY <1>1, ExecuteRows
      <3>. QED  BY <1>3, <2>1, <3>1 DEF Executed
    <2>3. /\ DOMAIN e.chars = DOMAIN f.chars
          /\ \A d \in DOMAIN f.chars : e.chars[d] = IF d \in DOMAIN t.gold THEN t.gold[d] ELSE f.chars[d]
          /\ DOMAIN e.item \subseteq DOMAIN f.item
          /\ DOMAIN e.inv = DOMAIN f.inv \ t.uninv /\ \A j \in DOMAIN e.inv : e.inv[j] = f.inv[j]
          /\ DOMAIN e.post = DOMAIN f.post \ t.unpost /\ \A j \in DOMAIN e.post : e.post[j] = f.post[j]
      <3>1. /\ e = Execute(f, t) /\ t.purge = {} /\ t.item = <<>> /\ t.inv = <<>> /\ t.post = <<>>
        BY <1>1, <1>3
      <3>. QED  BY ONLY <3>1, ExecuteKeeps
    <2>. QED  BY <1>3, <1>4, <1>5, <2>1, <2>2, <2>3
  <1>8. IsABag(t.coins) /\ IsABag(t.spent)
    BY <1>3, BagSingle
  <1>9. Sound(e)
    BY <1>1, <1>4, <1>5, <1>7, <1>8, ExecuteSound DEF Sound
  <1>10. \A l \in DOMAIN letters' : Copies(l, letters') <= Copies(l, e.coins)
    BY <1>1, <1>2, <1>3, <1>4, <1>8, MailKept
  <1>11. Shape'
    <2>1. \A j \in DOMAIN parcels' : parcels'[j] \in online'
      BY <1>2, <1>4, <1>6 DEF Shape
    <2>2. Table(parcels)' /\ IsABag(letters)' /\ \A l \in DOMAIN letters' : l.to \in online'
      BY <1>2, <1>4, <1>6 DEF Shape, Table, IsABag
    <2>. QED  BY <1>6, <2>1, <2>2 DEF Shape, Table
  <1>12. AheadOf(e)'
    <2>1. known' = DOMAIN e.chars /\ \A d \in online' : Has(e.chars, d, gold'[d])
      BY <1>2, <1>4, <1>6, <1>7 DEF AheadOf, Has
    <2>2. /\ \A j \in DOMAIN held' : held'[j] \in online' /\ Has(e.inv, j, held'[j])
          /\ \A j \in DOMAIN e.inv : e.inv[j] \in online' => j \in DOMAIN held'
      BY <1>4, <1>6, <1>7 DEF AheadOf, Has
    <2>3. \A j \in DOMAIN parcels' : Has(e.post, j, parcels'[j])
      BY <1>2, <1>4, <1>7 DEF AheadOf, Has
    <2>4. /\ \A j \in DOMAIN auctions' : Has(e.sale, j, auctions'[j])
          /\ \A j \in DOMAIN e.sale \ DOMAIN auctions' : j \notin DOMAIN e.item
      BY <1>4, <1>6, <1>7 DEF AheadOf, Has
    <2>. QED  BY <1>10, <2>1, <2>2, <2>3, <2>4 DEF AheadOf, Has, Copies
  <1>13. ASSUME NEW d, InMind(d) PROVE d \notin online' /\ Spares(t, f, d)
    <2>1. d \notin online /\ d # c
      BY <1>4, <1>5, <1>13
    <2>2. DOMAIN t.gold = {c} /\ DOMAIN t.inv = {} /\ DOMAIN t.post = {} /\ DOMAIN t.spent = {}
      <3>1. DOMAIN t.inv = {} /\ DOMAIN t.post = {}
        BY <1>3, Empty
      <3>2. DOMAIN t.spent = {}
        BY <1>3 DEF EmptyBag, SetToBag
      <3>3. DOMAIN t.gold = {c}
        BY <1>3 DEF Row
      <3>. QED  BY <3>1, <3>2, <3>3
    <2>3. \A j \in t.uninv : ~Has(f.inv, j, d)
      BY <1>3, <1>5, <2>1 DEF Has
    <2>. QED  BY <1>3, <1>6, <1>8, <2>1, <2>2, <2>3 DEF Spares
  <1>. QED  BY <1>1, <1>2, <1>3, <1>9, <1>11, <1>12, <1>13, OneTransaction

(* Each player in the world whose gold has changed is saved with it. *)
GoldSaved(t) == /\ DOMAIN gold' = online /\ Table(gold') /\ DOMAIN t.gold \subseteq online
                /\ \A c \in online : gold'[c] = IF c \in DOMAIN t.gold THEN t.gold[c] ELSE gold[c]

LEMMA PaidSaved ==
  ASSUME NEW t, NEW c \in online, NEW n, gold' = Paid(c, n), t.gold = SaveGoldToDB(c, gold')
  PROVE  GoldSaved(t)
  <1>1. DOMAIN t.gold = {c} /\ t.gold[c] = gold'[c]
    BY DEF SaveGoldToDB, Row
  <1>2. DOMAIN gold' = online /\ Table(gold') /\ \A d \in online \ {c} : gold'[d] = gold[d]
    BY DEF Paid, Table
  <1>. QED  BY <1>1, <1>2 DEF GoldSaved

LEMMA GoldAhead ==
  ASSUME NEW f, AheadOf(f), NEW t, t.purge = {}, NEW e, e = Execute(f, t), GoldSaved(t),
         known' = known
  PROVE  known' = DOMAIN e.chars /\ \A c \in online' : Has(e.chars, c, gold'[c])
  <1>1. /\ DOMAIN e.chars = DOMAIN f.chars
        /\ \A c \in DOMAIN f.chars : e.chars[c] = IF c \in DOMAIN t.gold THEN t.gold[c] ELSE f.chars[c]
    BY ExecuteKeeps
  <1>. QED  BY <1>1 DEF AheadOf, GoldSaved, Has

LEMMA LetterBag ==
  ASSUME NEW c, NEW n
  PROVE  IsABag(Letter(c, n))
  BY BagSingle DEF Letter

(* Auctions end, by a purchase, by their owner or by time; the items go where they are sent. *)
LEMMA AuctionsEnd ==
  ASSUME Shape, NEW f, Sound(f), AheadOf(f), NEW t, NEW e, e = Execute(f, t),
         t.purge = {} /\ t.item = <<>> /\ t.inv = <<>> /\ t.uninv = {} /\ t.sale = <<>> /\ t.bid = <<>>,
         t.unpost = {} /\ t.spent = EmptyBag, IsABag(t.coins),
         t.unsale \subseteq DOMAIN auctions, DOMAIN t.post \subseteq t.unsale,
         GoldSaved(t), SendMailTo(t.post, t.coins), auctions' = Without(auctions, t.unsale),
         UNCHANGED <<known, held>>
  PROVE  /\ Sound(e) /\ Shape' /\ AheadOf(e)' /\ online' = online
         /\ \A d : d \notin online => Spares(t, f, d)
  <1>1. /\ DOMAIN e.item \subseteq DOMAIN f.item
        /\ DOMAIN e.inv = DOMAIN f.inv /\ \A i \in DOMAIN e.inv : e.inv[i] = f.inv[i]
        /\ DOMAIN e.sale = DOMAIN f.sale \ t.unsale /\ \A i \in DOMAIN e.sale : e.sale[i] = f.sale[i]
        /\ DOMAIN e.post = DOMAIN t.post \cup DOMAIN f.post
    <2>1. e = Execute(f, t) /\ t.purge = {} /\ t.item = <<>> /\ t.inv = <<>>
      OBVIOUS
    <2>2. /\ DOMAIN e.item \subseteq DOMAIN f.item
          /\ DOMAIN e.inv = DOMAIN f.inv \ t.uninv /\ \A i \in DOMAIN e.inv : e.inv[i] = f.inv[i]
          /\ DOMAIN e.post = DOMAIN t.post \cup (DOMAIN f.post \ t.unpost)
      BY ONLY <2>1, ExecuteKeeps
    <2>3. e = Execute(f, t) /\ t.purge = {} /\ t.sale = <<>> /\ t.bid = <<>>
      OBVIOUS
    <2>4. DOMAIN e.sale = DOMAIN f.sale \ t.unsale /\ \A i \in DOMAIN e.sale : e.sale[i] = f.sale[i]
      BY ONLY <2>3, ExecuteKeeps
    <2>. QED  BY <2>2, <2>4
  <1>2. t.unsale \subseteq DOMAIN f.sale /\ \A i \in t.unsale : i \notin DOMAIN f.post /\ i \notin DOMAIN f.inv
    BY DEF AheadOf, Has, Sound
  <1>3. IsABag(t.spent) /\ DOMAIN t.spent = {}
    BY BagSingle DEF EmptyBag, SetToBag
  <1>4. Sound(e)
    BY <1>1, <1>2, <1>3, ExecuteSound DEF Sound
  <1>5. DOMAIN gold' = online /\ Table(gold')
    BY DEF GoldSaved
  <1>6. /\ DOMAIN auctions' = DOMAIN auctions \ t.unsale /\ Table(auctions')
        /\ \A i \in DOMAIN auctions' : auctions'[i] = auctions[i]
    BY DEF Without, Restrict, Table
  <1>7. /\ IsABag(letters')
        /\ \A l \in DOMAIN letters' : l.to \in online /\ Copies(l, letters') <= Copies(l, e.coins)
    BY MailKept DEF SendMailTo
  <1>8. /\ Table(parcels')
        /\ \A i \in DOMAIN parcels' : parcels'[i] \in online /\ Has(e.post, i, parcels'[i])
    BY <1>2, ParcelsSent DEF SendMailTo
  <1>9. Shape'
    BY <1>5, <1>6, <1>7, <1>8 DEF Shape, Table
  <1>10. AheadOf(e)'
    <2>1. known' = DOMAIN e.chars /\ \A d \in online' : Has(e.chars, d, gold'[d])
      BY GoldAhead
    <2>2. /\ \A j \in DOMAIN held' : held'[j] \in online' /\ Has(e.inv, j, held'[j])
          /\ \A j \in DOMAIN e.inv : e.inv[j] \in online' => j \in DOMAIN held'
      BY <1>1, <1>5 DEF AheadOf, Has
    <2>3. /\ \A j \in DOMAIN auctions' : Has(e.sale, j, auctions'[j])
          /\ \A j \in DOMAIN e.sale \ DOMAIN auctions' : j \notin DOMAIN e.item
      BY <1>1, <1>6 DEF AheadOf, Has
    <2>. QED  BY <1>7, <1>8, <2>1, <2>2, <2>3 DEF AheadOf, Has, Copies
  <1>11. ASSUME NEW d, d \notin online PROVE Spares(t, f, d)
    <2>1. DOMAIN t.inv = {}
      BY Empty
    <2>. QED  BY <1>2, <1>3, <1>11, <2>1 DEF Spares, GoldSaved
  <1>. QED  BY <1>4, <1>5, <1>9, <1>10, <1>11

LEMMA BuyOutStep ==
  ASSUME IInv, NEW c, NEW i, NEW price, BuyOut(c, i, price)
  PROVE  IInv'
  <1>. DEFINE s   == auctions[i]
              new == [s EXCEPT !.bidder = c, !.bid = s.buyout]
              bag == SendAuctionOutbiddedMail(s, c) (+) SendAuctionSuccessfulMail(new)
              pay == IF s.bidder = c THEN s.buyout - s.bid ELSE s.buyout
  <1>1. PICK t, f, e : /\ t = [SendAuctionWonMail(Row(i, c)) EXCEPT !.gold = SaveGoldToDB(c, gold'),
                                                                    !.unsale = {i}, !.coins = bag]
                       /\ f = Future /\ e = Execute(f, t)
    OBVIOUS
  <1>2. /\ server = "up" /\ c \in online /\ i \in DOMAIN auctions
        /\ gold' = Paid(c, pay)
        /\ auctions' = Without(auctions, {i}) /\ SendMailTo(Row(i, c), bag)
        /\ queue' = queue \o <<t>>
        /\ UNCHANGED <<known, held, read, db, server>>
    BY <1>1 DEF BuyOut, Handling, CommitTransaction
  <1>3. /\ t.gold = SaveGoldToDB(c, gold') /\ t.uninv = {} /\ t.sale = <<>> /\ t.inv = <<>> /\ t.item = <<>>
        /\ t.bid = <<>> /\ t.unsale = {i} /\ t.post = Row(i, c) /\ t.unpost = {}
        /\ t.coins = bag /\ t.spent = EmptyBag /\ t.purge = {} /\ t.login = {}
    BY <1>1 DEF SendAuctionWonMail, NoWrites
  <1>4. IsABag(bag)
    <2>1. IsABag(SendAuctionOutbiddedMail(s, c)) /\ IsABag(SendAuctionSuccessfulMail(new))
      BY LetterBag, BagSingle DEF SendAuctionOutbiddedMail, SendAuctionSuccessfulMail
    <2>. QED  BY <2>1, BagPlus
  <1>5. /\ Sound(f) /\ AheadOf(f) /\ Shape /\ \A d : InMind(d) => d \notin online
    BY <1>1, <1>2, Up
  <1>. HIDE DEF bag, pay, new, s
  <1>6. DOMAIN t.post \subseteq t.unsale /\ GoldSaved(t) /\ SendMailTo(t.post, t.coins)
    <2>1. DOMAIN t.post \subseteq t.unsale
      BY <1>3 DEF Row
    <2>2. GoldSaved(t)
      BY <1>2, <1>3, PaidSaved
    <2>3. SendMailTo(t.post, t.coins)
      BY <1>2, <1>3
    <2>. QED  BY <2>1, <2>2, <2>3
  <1>7. /\ Sound(e) /\ Shape' /\ AheadOf(e)' /\ online' = online
        /\ \A d : d \notin online => Spares(t, f, d)
    BY <1>1, <1>2, <1>3, <1>4, <1>5, <1>6, AuctionsEnd
  <1>. QED  BY <1>1, <1>2, <1>3, <1>5, <1>7, OneTransaction

LEMMA CancelStep ==
  ASSUME IInv, NEW c, NEW i, HandleAuctionRemoveItem(c, i)
  PROVE  IInv'
  <1>. DEFINE s   == auctions[i]
              cut == IF s.bidder = Nobody THEN 0 ELSE GetAuctionCut(s)
              bag == SendAuctionCancelledToBidderMail(s)
  <1>1. PICK t, f, e : /\ t = [NoWrites EXCEPT !.gold = SaveGoldToDB(c, gold'), !.unsale = {i},
                                               !.post = Row(i, c), !.coins = bag]
                       /\ f = Future /\ e = Execute(f, t)
    OBVIOUS
  <1>2. /\ server = "up" /\ c \in online /\ i \in DOMAIN auctions
        /\ gold' = Paid(c, cut)
        /\ auctions' = Without(auctions, {i}) /\ SendMailTo(Row(i, c), bag)
        /\ queue' = queue \o <<t>>
        /\ UNCHANGED <<known, held, read, db, server>>
    BY <1>1 DEF HandleAuctionRemoveItem, Handling, CommitTransaction, CancelWrites
  <1>3. /\ t.gold = SaveGoldToDB(c, gold') /\ t.uninv = {} /\ t.sale = <<>> /\ t.inv = <<>> /\ t.item = <<>>
        /\ t.bid = <<>> /\ t.unsale = {i} /\ t.post = Row(i, c) /\ t.unpost = {}
        /\ t.coins = bag /\ t.spent = EmptyBag /\ t.purge = {} /\ t.login = {}
    BY <1>1 DEF NoWrites
  <1>4. IsABag(bag)
    BY LetterBag DEF SendAuctionCancelledToBidderMail
  <1>5. /\ Sound(f) /\ AheadOf(f) /\ Shape /\ \A d : InMind(d) => d \notin online
    BY <1>1, <1>2, Up
  <1>. HIDE DEF bag, cut, s
  <1>6. DOMAIN t.post \subseteq t.unsale /\ GoldSaved(t) /\ SendMailTo(t.post, t.coins)
    <2>1. DOMAIN t.post \subseteq t.unsale
      BY <1>3 DEF Row
    <2>2. GoldSaved(t)
      BY <1>2, <1>3, PaidSaved
    <2>3. SendMailTo(t.post, t.coins)
      BY <1>2, <1>3
    <2>. QED  BY <2>1, <2>2, <2>3
  <1>7. /\ Sound(e) /\ Shape' /\ AheadOf(e)' /\ online' = online
        /\ \A d : d \notin online => Spares(t, f, d)
    BY <1>1, <1>2, <1>3, <1>4, <1>5, <1>6, AuctionsEnd
  <1>. QED  BY <1>1, <1>2, <1>3, <1>5, <1>7, OneTransaction

LEMMA BidStep ==
  ASSUME IInv, NEW c, NEW i, NEW price, PlaceBid(c, i, price)
  PROVE  IInv'
  <1>. DEFINE s      == auctions[i]
              new    == [s EXCEPT !.bidder = c, !.bid = price]
              refund == SendAuctionOutbiddedMail(s, c)
              pay    == IF s.bidder = c THEN price - s.bid ELSE price
  <1>1. PICK t, f, e : /\ t = [NoWrites EXCEPT !.gold = SaveGoldToDB(c, gold'), !.bid = Row(i, new),
                                               !.coins = refund]
                       /\ f = Future /\ e = Execute(f, t)
    OBVIOUS
  <1>2. /\ server = "up" /\ c \in online /\ i \in DOMAIN auctions
        /\ gold' = Paid(c, pay)
        /\ auctions' = [auctions EXCEPT ![i] = new] /\ SendMailTo(<<>>, refund)
        /\ queue' = queue \o <<t>>
        /\ UNCHANGED <<known, held, read, db, server>>
    BY <1>1 DEF PlaceBid, Handling, CommitTransaction
  <1>3. /\ t.gold = SaveGoldToDB(c, gold') /\ t.uninv = {} /\ t.sale = <<>> /\ t.inv = <<>> /\ t.item = <<>>
        /\ t.bid = Row(i, new) /\ t.unsale = {} /\ t.post = <<>> /\ t.unpost = {}
        /\ t.coins = refund /\ t.spent = EmptyBag /\ t.purge = {} /\ t.login = {}
    BY <1>1 DEF NoWrites
  <1>4. IsABag(refund)
    BY LetterBag, BagSingle DEF SendAuctionOutbiddedMail
  <1>5. /\ Sound(f) /\ AheadOf(f) /\ Shape /\ \A d : InMind(d) => d \notin online
    BY <1>1, <1>2, Up
  <1>. HIDE DEF refund, pay, new, s
  <1>6. e = Execute(f, t)
    BY <1>1
  <1>7. /\ DOMAIN t.sale = {} /\ DOMAIN t.post = {} /\ DOMAIN t.inv = {} /\ DOMAIN t.spent = {}
        /\ DOMAIN t.bid = {i} /\ t.bid[i] = new
    <2>1. DOMAIN t.sale = {} /\ DOMAIN t.post = {} /\ DOMAIN t.inv = {}
      BY <1>3, Empty
    <2>2. DOMAIN t.bid = {i} /\ t.bid[i] = new
      BY <1>3 DEF Row
    <2>3. DOMAIN t.spent = {}
      BY <1>3 DEF EmptyBag, SetToBag
    <2>. QED  BY <2>1, <2>2, <2>3
  <1>8. /\ DOMAIN e.item \subseteq DOMAIN f.item
        /\ DOMAIN e.inv = DOMAIN f.inv /\ \A j \in DOMAIN e.inv : e.inv[j] = f.inv[j]
        /\ DOMAIN e.sale = DOMAIN f.sale
        /\ \A j \in DOMAIN f.sale : e.sale[j] = IF j = i THEN new ELSE f.sale[j]
        /\ DOMAIN e.post = DOMAIN f.post
    <2>1. t.purge = {} /\ t.item = <<>> /\ t.inv = <<>> /\ t.post = <<>>
      BY <1>3
    <2>2. /\ DOMAIN e.item \subseteq DOMAIN f.item
          /\ DOMAIN e.inv = DOMAIN f.inv \ t.uninv /\ \A j \in DOMAIN e.inv : e.inv[j] = f.inv[j]
          /\ DOMAIN e.post = DOMAIN f.post \ t.unpost
      BY ONLY <1>6, <2>1, ExecuteKeeps
    <2>3. Executed(f, t, e)
      BY <1>6, ExecuteRows
    <2>4. /\ DOMAIN e.sale = DOMAIN f.sale
          /\ \A j \in DOMAIN f.sale : e.sale[j] = IF j = i THEN new ELSE f.sale[j]
      BY <1>3, <1>7, <2>3 DEF Executed
    <2>. QED  BY <1>3, <2>2, <2>4
  <1>9. IsABag(t.coins) /\ IsABag(t.spent)
    BY <1>3, <1>4, BagSingle
  <1>10. Sound(e)
    BY <1>5, <1>6, <1>8, <1>9, ExecuteSound DEF Sound
  <1>11. GoldSaved(t) /\ SendMailTo(t.post, t.coins)
    BY <1>2, <1>3, PaidSaved
  <1>12. /\ IsABag(letters')
         /\ \A l \in DOMAIN letters' : l.to \in online /\ Copies(l, letters') <= Copies(l, e.coins)
    BY <1>3, <1>5, <1>6, <1>9, <1>11, MailKept DEF SendMailTo
  <1>13. /\ Table(parcels')
         /\ \A j \in DOMAIN parcels' : parcels'[j] \in online /\ Has(e.post, j, parcels'[j])
    BY <1>3, <1>5, <1>6, <1>7, <1>11, ParcelsSent DEF SendMailTo
  <1>14. /\ DOMAIN auctions' = DOMAIN auctions /\ Table(auctions')
         /\ \A j \in DOMAIN auctions : auctions'[j] = IF j = i THEN new ELSE auctions[j]
    BY <1>2 DEF Table
  <1>15. Shape'
    BY <1>2, <1>5, <1>11, <1>12, <1>13, <1>14 DEF Shape, Table, GoldSaved
  <1>16. AheadOf(e)'
    <2>1. known' = DOMAIN e.chars /\ \A d \in online' : Has(e.chars, d, gold'[d])
      BY <1>2, <1>3, <1>5, <1>6, <1>11, GoldAhead
    <2>2. /\ \A j \in DOMAIN held' : held'[j] \in online' /\ Has(e.inv, j, held'[j])
          /\ \A j \in DOMAIN e.inv : e.inv[j] \in online' => j \in DOMAIN held'
      BY <1>2, <1>5, <1>8, <1>11 DEF AheadOf, Has, GoldSaved
    <2>3. /\ \A j \in DOMAIN auctions' : Has(e.sale, j, auctions'[j])
          /\ \A j \in DOMAIN e.sale \ DOMAIN auctions' : j \notin DOMAIN e.item
      BY <1>5, <1>8, <1>14 DEF AheadOf, Has
    <2>. QED  BY <1>12, <1>13, <2>1, <2>2, <2>3 DEF AheadOf, Has, Copies
  <1>17. ASSUME NEW d, InMind(d) PROVE d \notin online' /\ Spares(t, f, d)
    BY <1>3, <1>5, <1>7, <1>9, <1>11, <1>17 DEF Spares, GoldSaved
  <1>. QED  BY <1>1, <1>2, <1>3, <1>10, <1>15, <1>16, <1>17, OneTransaction

LEMMA TakeItemStep ==
  ASSUME IInv, NEW c, NEW i, HandleMailTakeItem(c, i)
  PROVE  IInv'
  <1>1. PICK t, f, e : /\ t = [NoWrites EXCEPT !.inv = Row(i, c), !.item = Row(i, c), !.unpost = {i},
                                               !.gold = SaveGoldToDB(c, gold)]
                       /\ f = Future /\ e = Execute(f, t)
    OBVIOUS
  <1>2. /\ server = "up" /\ i \in DOMAIN parcels /\ parcels[i] = c
        /\ parcels' = Without(parcels, {i}) /\ held' = Put(Row(i, c), held)
        /\ queue' = queue \o <<t>>
        /\ UNCHANGED <<known, gold, letters, auctions, read, db, server>>
    BY <1>1 DEF HandleMailTakeItem, Handling, CommitTransaction
  <1>3. /\ t.gold = SaveGoldToDB(c, gold') /\ t.uninv = {} /\ t.sale = <<>> /\ t.inv = Row(i, c)
        /\ t.item = Row(i, c)
        /\ t.bid = <<>> /\ t.unsale = {} /\ t.post = <<>> /\ t.unpost = {i}
        /\ t.coins = EmptyBag /\ t.spent = EmptyBag /\ t.purge = {} /\ t.login = {}
    BY <1>1, <1>2 DEF NoWrites
  <1>5. /\ Sound(f) /\ AheadOf(f) /\ Shape /\ \A d : InMind(d) => d \notin online
    BY <1>1, <1>2, Up
  <1>6. e = Execute(f, t)
    BY <1>1
  <1>7. /\ DOMAIN t.sale = {} /\ DOMAIN t.post = {} /\ DOMAIN t.inv = {i} /\ t.inv[i] = c
        /\ DOMAIN t.item = {i} /\ DOMAIN t.spent = {} /\ DOMAIN t.gold = {c} /\ t.gold[c] = gold[c]
    <2>1. DOMAIN t.sale = {} /\ DOMAIN t.post = {}
      BY <1>3, Empty
    <2>2. DOMAIN t.inv = {i} /\ t.inv[i] = c /\ DOMAIN t.item = {i}
      BY <1>3 DEF Row
    <2>3. DOMAIN t.spent = {}
      BY <1>3 DEF EmptyBag, SetToBag
    <2>4. DOMAIN t.gold = {c} /\ t.gold[c] = gold[c]
      BY <1>2, <1>3 DEF SaveGoldToDB, Row
    <2>. QED  BY <2>1, <2>2, <2>3, <2>4
  <1>8. c \in online /\ Has(f.post, i, c) /\ i \notin DOMAIN f.inv /\ i \notin DOMAIN f.sale
    BY <1>2, <1>5 DEF Shape, AheadOf, Has, Sound
  <1>9. /\ DOMAIN e.item \subseteq {i} \cup DOMAIN f.item
        /\ DOMAIN e.inv = {i} \cup DOMAIN f.inv /\ e.inv[i] = c
        /\ \A j \in DOMAIN f.inv \ {i} : e.inv[j] = f.inv[j]
        /\ DOMAIN e.sale = DOMAIN f.sale /\ \A j \in DOMAIN e.sale : e.sale[j] = f.sale[j]
        /\ DOMAIN e.post = DOMAIN f.post \ {i} /\ \A j \in DOMAIN e.post : e.post[j] = f.post[j]
    <2>1. t.purge = {} /\ t.sale = <<>> /\ t.bid = <<>> /\ t.post = <<>>
      BY <1>3
    <2>2. /\ DOMAIN e.sale = DOMAIN f.sale \ t.unsale /\ \A j \in DOMAIN e.sale : e.sale[j] = f.sale[j]
          /\ DOMAIN e.post = DOMAIN f.post \ t.unpost /\ \A j \in DOMAIN e.post : e.post[j] = f.post[j]
      BY ONLY <1>6, <2>1, ExecuteKeeps
    <2>3. Executed(f, t, e)
      BY <1>6, ExecuteRows
    <2>4. DOMAIN e.inv = {i} \cup DOMAIN f.inv /\ e.inv[i] = c
          /\ \A j \in DOMAIN f.inv \ {i} : e.inv[j] = f.inv[j]
      BY <1>3, <1>7, <2>3 DEF Executed
    <2>5. DOMAIN e.item \subseteq {i} \cup DOMAIN f.item
      BY <1>7, <2>3 DEF Executed
    <2>. QED  BY <1>3, <2>2, <2>4, <2>5
  <1>10. IsABag(t.coins) /\ IsABag(t.spent)
    BY <1>3, BagSingle
  <1>11. Sound(e)
    BY <1>5, <1>6, <1>8, <1>9, <1>10, ExecuteSound DEF Sound
  <1>12. GoldSaved(t)
    BY <1>2, <1>5, <1>7, <1>8 DEF GoldSaved, Shape
  <1>13. /\ IsABag(letters')
         /\ \A l \in DOMAIN letters' : l.to \in online /\ Copies(l, letters') <= Copies(l, e.coins)
    BY <1>2, <1>3, <1>5, <1>6, <1>10, MailKept
  <1>14. /\ Table(parcels') /\ DOMAIN parcels' = DOMAIN parcels \ {i}
         /\ \A j \in DOMAIN parcels' : parcels'[j] = parcels[j]
    BY <1>2 DEF Without, Restrict, Table
  <1>15. /\ Table(held') /\ DOMAIN held' = {i} \cup DOMAIN held /\ held'[i] = c
         /\ \A j \in DOMAIN held \ {i} : held'[j] = held[j]
    BY <1>2 DEF Put, Row, Table
  <1>16. Shape'
    <2>1. \A j \in DOMAIN parcels' : parcels'[j] \in online'
      BY <1>2, <1>5, <1>14 DEF Shape
    <2>2. Table(auctions') /\ Table(gold')
      BY <1>2, <1>5 DEF Shape, Table
    <2>. QED  BY <1>2, <1>13, <1>14, <1>15, <2>1, <2>2 DEF Shape, Table
  <1>17. AheadOf(e)'
    <2>1. known' = DOMAIN e.chars /\ \A d \in online' : Has(e.chars, d, gold'[d])
      BY <1>2, <1>3, <1>5, <1>6, <1>12, GoldAhead
    <2>2. /\ \A j \in DOMAIN held' : held'[j] \in online' /\ Has(e.inv, j, held'[j])
          /\ \A j \in DOMAIN e.inv : e.inv[j] \in online' => j \in DOMAIN held'
      BY <1>2, <1>5, <1>8, <1>9, <1>15 DEF AheadOf, Has
    <2>3. \A j \in DOMAIN parcels' : Has(e.post, j, parcels'[j])
      BY <1>5, <1>9, <1>14 DEF AheadOf, Has
    <2>4. /\ \A j \in DOMAIN auctions' : Has(e.sale, j, auctions'[j])
          /\ \A j \in DOMAIN e.sale \ DOMAIN auctions' : j \notin DOMAIN e.item
      BY <1>2, <1>5, <1>8, <1>9 DEF AheadOf, Has
    <2>. QED  BY <1>13, <2>1, <2>2, <2>3, <2>4 DEF AheadOf, Has, Copies
  <1>18. ASSUME NEW d, InMind(d) PROVE d \notin online' /\ Spares(t, f, d)
    BY <1>2, <1>3, <1>5, <1>7, <1>8, <1>10, <1>18 DEF Spares, Has
  <1>. QED  BY <1>1, <1>2, <1>3, <1>11, <1>16, <1>17, <1>18, OneTransaction

LEMMA TakeMoneyStep ==
  ASSUME IInv, NEW letter, HandleMailTakeMoney(letter)
  PROVE  IInv'
  <1>. DEFINE c == letter.to
  <1>1. PICK t, f, e : /\ t = [NoWrites EXCEPT !.gold = SaveGoldToDB(c, gold'),
                                               !.spent = SetToBag({letter})]
                       /\ f = Future /\ e = Execute(f, t)
    OBVIOUS
  <1>2. /\ server = "up" /\ letter \in DOMAIN letters
        /\ gold' = [gold EXCEPT ![c] = @ + letter.gold]
        /\ letters' = letters (-) SetToBag({letter})
        /\ queue' = queue \o <<t>>
        /\ UNCHANGED <<known, held, parcels, auctions, read, db, server>>
    BY <1>1 DEF HandleMailTakeMoney, Handling, CommitTransaction
  <1>3. /\ t.gold = SaveGoldToDB(c, gold') /\ t.uninv = {} /\ t.sale = <<>> /\ t.inv = <<>> /\ t.item = <<>>
        /\ t.bid = <<>> /\ t.unsale = {} /\ t.post = <<>> /\ t.unpost = {}
        /\ t.coins = EmptyBag /\ t.spent = SetToBag({letter}) /\ t.purge = {} /\ t.login = {}
    BY <1>1 DEF NoWrites
  <1>4. /\ Sound(f) /\ AheadOf(f) /\ Shape /\ \A d : InMind(d) => d \notin online
        /\ online \subseteq Characters
    BY <1>1, <1>2, Up
  <1>5. e = Execute(f, t) /\ c \in online
    BY <1>1, <1>2, <1>4 DEF Shape
  <1>. HIDE DEF c
  <1>6. /\ DOMAIN t.post = {} /\ DOMAIN t.inv = {} /\ DOMAIN t.spent = {letter}
        /\ DOMAIN t.gold = {c} /\ t.gold[c] = gold'[c]
    <2>1. DOMAIN t.post = {} /\ DOMAIN t.inv = {}
      BY <1>3, Empty
    <2>2. DOMAIN t.spent = {letter}
      BY <1>3 DEF SetToBag
    <2>3. DOMAIN t.gold = {c} /\ t.gold[c] = gold'[c]
      BY <1>3 DEF SaveGoldToDB, Row
    <2>. QED  BY <2>1, <2>2, <2>3
  <1>7. /\ DOMAIN e.item \subseteq DOMAIN f.item
        /\ DOMAIN e.inv = DOMAIN f.inv /\ \A j \in DOMAIN e.inv : e.inv[j] = f.inv[j]
        /\ DOMAIN e.sale = DOMAIN f.sale /\ \A j \in DOMAIN e.sale : e.sale[j] = f.sale[j]
        /\ DOMAIN e.post = DOMAIN f.post /\ \A j \in DOMAIN e.post : e.post[j] = f.post[j]
    <2>1. /\ t.purge = {} /\ t.item = <<>> /\ t.inv = <<>> /\ t.sale = <<>> /\ t.bid = <<>>
          /\ t.post = <<>>
      BY <1>3
    <2>2. /\ DOMAIN e.item \subseteq DOMAIN f.item
          /\ DOMAIN e.inv = DOMAIN f.inv \ t.uninv /\ \A j \in DOMAIN e.inv : e.inv[j] = f.inv[j]
      BY ONLY <1>5, <2>1, ExecuteKeeps
    <2>3. /\ DOMAIN e.sale = DOMAIN f.sale \ t.unsale /\ \A j \in DOMAIN e.sale : e.sale[j] = f.sale[j]
          /\ DOMAIN e.post = DOMAIN f.post \ t.unpost /\ \A j \in DOMAIN e.post : e.post[j] = f.post[j]
      BY ONLY <1>5, <2>1, ExecuteKeeps
    <2>. QED  BY <1>3, <2>2, <2>3
  <1>8. IsABag(t.coins) /\ IsABag(t.spent)
    BY <1>3, BagSingle
  <1>9. Sound(e)
    BY <1>4, <1>5, <1>7, <1>8, ExecuteSound DEF Sound
  <1>10. /\ DOMAIN gold' = online /\ Table(gold') /\ \A d \in online \ {c} : gold'[d] = gold[d]
    BY <1>2 DEF Table
  <1>11. GoldSaved(t)
    BY <1>5, <1>6, <1>10 DEF GoldSaved
  <1>12. IsABag(letters) /\ IsABag(letters') /\ IsABag(f.coins)
    BY <1>2, <1>4, BagSingle, BagMinus DEF Shape, Sound
  <1>13. ASSUME NEW l \in DOMAIN letters'
         PROVE  l.to \in online /\ Copies(l, letters') <= Copies(l, e.coins)
    <2>. DEFINE one == IF l = letter THEN 1 ELSE 0
    <2>1. /\ Copies(l, t.spent) = one /\ Copies(l, t.coins) = 0
      BY <1>3, BagSingle
    <2>2. /\ Copies(l, letters) \in Nat /\ Copies(l, f.coins) \in Nat
          /\ Copies(l, letters') \in Nat /\ Copies(l, letters') > 0
      BY <1>12, <1>13, CopiesNat
    <2>3. Copies(l, letters') = IF Copies(l, letters) > one THEN Copies(l, letters) - one ELSE 0
      BY <1>2, <1>3, <1>8, <1>12, <2>1, BagMinus
    <2>4. l \in DOMAIN letters
      BY <2>2, <2>3 DEF Copies
    <2>5. l.to \in online /\ Copies(l, letters) <= Copies(l, f.coins)
      BY <1>4, <2>4 DEF Shape, AheadOf
    <2>6. Copies(l, e.coins) = IF Copies(l, f.coins) + Copies(l, t.coins) > Copies(l, t.spent)
                               THEN Copies(l, f.coins) + Copies(l, t.coins) - Copies(l, t.spent)
                               ELSE 0
      <3>1. l.to \in Characters \ t.purge
        BY <1>3, <1>4, <2>5
      <3>. QED  BY <1>5, <1>8, <1>12, <3>1, CoinsAfter
    <2>7. one \in Nat
      OBVIOUS
    <2>. HIDE DEF one
    <2>. QED  BY <2>1, <2>2, <2>3, <2>5, <2>6, <2>7
  <1>14. Shape'
    <2>1. \A j \in DOMAIN parcels' : parcels'[j] \in online'
      BY <1>2, <1>4, <1>10 DEF Shape
    <2>2. Table(auctions') /\ Table(held') /\ Table(parcels')
      BY <1>2, <1>4 DEF Shape, Table
    <2>. QED  BY <1>10, <1>12, <1>13, <2>1, <2>2 DEF Shape, Table
  <1>15. AheadOf(e)'
    <2>1. known' = DOMAIN e.chars /\ \A d \in online' : Has(e.chars, d, gold'[d])
      BY <1>2, <1>3, <1>4, <1>5, <1>11, GoldAhead
    <2>2. /\ \A j \in DOMAIN held' : held'[j] \in online' /\ Has(e.inv, j, held'[j])
          /\ \A j \in DOMAIN e.inv : e.inv[j] \in online' => j \in DOMAIN held'
      BY <1>2, <1>4, <1>7, <1>10 DEF AheadOf, Has
    <2>3. \A j \in DOMAIN parcels' : Has(e.post, j, parcels'[j])
      BY <1>2, <1>4, <1>7 DEF AheadOf, Has
    <2>4. /\ \A j \in DOMAIN auctions' : Has(e.sale, j, auctions'[j])
          /\ \A j \in DOMAIN e.sale \ DOMAIN auctions' : j \notin DOMAIN e.item
      BY <1>2, <1>4, <1>7 DEF AheadOf, Has
    <2>. QED  BY <1>13, <2>1, <2>2, <2>3, <2>4 DEF AheadOf, Has, Copies
  <1>16. ASSUME NEW d, InMind(d) PROVE d \notin online' /\ Spares(t, f, d)
    <2>1. d \notin online /\ d # c
      BY <1>4, <1>5, <1>16
    <2>. QED  BY <1>3, <1>6, <1>8, <1>10, <2>1 DEF Spares, c
  <1>. QED  BY <1>1, <1>2, <1>3, <1>9, <1>14, <1>15, <1>16, OneTransaction

LEMMA LogoutStep ==
  ASSUME IInv, NEW c, LogoutPlayer(c)
  PROVE  IInv'
  <1>1. PICK t, f, e : /\ t = [NoWrites EXCEPT !.gold = SaveGoldToDB(c, gold)]
                       /\ f = Future /\ e = Execute(f, t)
    OBVIOUS
  <1>2. /\ server # "down" /\ c \in online
        /\ gold' = Without(gold, {c})
        /\ held' = RestrictValues(held, LAMBDA o : o # c)
        /\ parcels' = RestrictValues(parcels, LAMBDA o : o # c)
        /\ letters' = LettersTo(letters, Characters \ {c})
        /\ queue' = queue \o <<t>>
        /\ UNCHANGED <<known, auctions, read, db, server>>
    BY <1>1 DEF LogoutPlayer, Handling, CommitTransaction
  <1>3. /\ t.gold = SaveGoldToDB(c, gold) /\ t.uninv = {} /\ t.sale = <<>> /\ t.inv = <<>> /\ t.item = <<>>
        /\ t.bid = <<>> /\ t.unsale = {} /\ t.post = <<>> /\ t.unpost = {}
        /\ t.coins = EmptyBag /\ t.spent = EmptyBag /\ t.purge = {} /\ t.login = {}
    BY <1>1 DEF NoWrites
  <1>4. e = Execute(f, t) /\ Sound(f) /\ Shape
    BY <1>1, FutureSound DEF IInv
  <1>5. /\ DOMAIN t.post = {} /\ DOMAIN t.inv = {} /\ DOMAIN t.spent = {}
        /\ DOMAIN t.gold = {c} /\ t.gold[c] = gold[c]
    <2>1. DOMAIN t.post = {} /\ DOMAIN t.inv = {}
      BY <1>3, Empty
    <2>2. DOMAIN t.spent = {}
      BY <1>3 DEF EmptyBag, SetToBag
    <2>3. DOMAIN t.gold = {c} /\ t.gold[c] = gold[c]
      BY <1>3 DEF SaveGoldToDB, Row
    <2>. QED  BY <2>1, <2>2, <2>3
  <1>6. /\ DOMAIN e.item \subseteq DOMAIN f.item
        /\ DOMAIN e.inv = DOMAIN f.inv /\ \A j \in DOMAIN e.inv : e.inv[j] = f.inv[j]
        /\ DOMAIN e.sale = DOMAIN f.sale /\ \A j \in DOMAIN e.sale : e.sale[j] = f.sale[j]
        /\ DOMAIN e.post = DOMAIN f.post /\ \A j \in DOMAIN e.post : e.post[j] = f.post[j]
    <2>1. /\ t.purge = {} /\ t.item = <<>> /\ t.inv = <<>> /\ t.sale = <<>> /\ t.bid = <<>>
          /\ t.post = <<>>
      BY <1>3
    <2>2. /\ DOMAIN e.item \subseteq DOMAIN f.item
          /\ DOMAIN e.inv = DOMAIN f.inv \ t.uninv /\ \A j \in DOMAIN e.inv : e.inv[j] = f.inv[j]
      BY ONLY <1>4, <2>1, ExecuteKeeps
    <2>3. /\ DOMAIN e.sale = DOMAIN f.sale \ t.unsale /\ \A j \in DOMAIN e.sale : e.sale[j] = f.sale[j]
          /\ DOMAIN e.post = DOMAIN f.post \ t.unpost /\ \A j \in DOMAIN e.post : e.post[j] = f.post[j]
      BY ONLY <1>4, <2>1, ExecuteKeeps
    <2>. QED  BY <1>3, <2>2, <2>3
  <1>7. IsABag(t.coins) /\ IsABag(t.spent)
    BY <1>3, BagSingle
  <1>8. Sound(e)
    BY <1>4, <1>6, <1>7, ExecuteSound DEF Sound
  <1>9. /\ DOMAIN gold' = online \ {c} /\ Table(gold') /\ \A d \in DOMAIN gold' : gold'[d] = gold[d]
    BY <1>2 DEF Without, Restrict, Table
  <1>10. /\ Table(held') /\ \A j : j \in DOMAIN held' <=> j \in DOMAIN held /\ held[j] # c
         /\ \A j \in DOMAIN held' : held'[j] = held[j]
    BY <1>2 DEF RestrictValues, Restrict, Table
  <1>11. /\ Table(parcels') /\ \A j : j \in DOMAIN parcels' <=> j \in DOMAIN parcels /\ parcels[j] # c
         /\ \A j \in DOMAIN parcels' : parcels'[j] = parcels[j]
    BY <1>2 DEF RestrictValues, Restrict, Table
  <1>12. /\ IsABag(letters')
         /\ \A l \in DOMAIN letters' : /\ l \in DOMAIN letters /\ l.to \in online \ {c}
                                       /\ Copies(l, letters') = Copies(l, letters)
    <2>1. \A l \in DOMAIN letters' : l \in DOMAIN letters /\ l.to # c /\ letters'[l] = letters[l]
      BY <1>2 DEF LettersTo, RestrictDomain, Restrict
    <2>2. IsABag(letters')
      BY <1>2, <1>4, BagLetters DEF Shape
    <2>. QED  BY <1>4, <2>1, <2>2 DEF Shape, Copies
  <1>13. Shape'
    <2>1. \A j \in DOMAIN parcels' : parcels'[j] \in online'
      BY <1>4, <1>9, <1>11 DEF Shape
    <2>2. \A l \in DOMAIN letters' : l.to \in online'
      BY <1>9, <1>12
    <2>3. Table(auctions')
      BY <1>2, <1>4 DEF Shape, Table
    <2>. QED  BY <1>9, <1>10, <1>11, <1>12, <2>1, <2>2, <2>3 DEF Shape, Table
  <1>14. ASSUME server = "up"
         PROVE  AheadOf(e)' /\ \A d : InMind(d) => d \notin online' /\ Spares(t, f, d)
    <2>1. AheadOf(f) /\ online \subseteq Characters /\ \A d : InMind(d) => d \notin online
      BY <1>1, <1>14, Up
    <2>2. known' = DOMAIN e.chars /\ \A d \in online' : Has(e.chars, d, gold'[d])
      <3>1. /\ DOMAIN e.chars = DOMAIN f.chars
            /\ \A d \in DOMAIN f.chars :
                  e.chars[d] = IF d \in DOMAIN t.gold THEN t.gold[d] ELSE f.chars[d]
        <4>1. e = Execute(f, t) /\ t.purge = {}
          BY <1>3, <1>4
        <4>. QED  BY ONLY <4>1, ExecuteKeeps
      <3>2. known = DOMAIN f.chars /\ \A d \in online : d \in DOMAIN f.chars /\ f.chars[d] = gold[d]
        BY <2>1 DEF AheadOf, Has
      <3>3. known' = DOMAIN e.chars
        BY <1>2, <3>1, <3>2
      <3>4. ASSUME NEW d \in online' PROVE Has(e.chars, d, gold'[d])
        <4>1. d \in online /\ d # c /\ gold'[d] = gold[d] /\ d \notin DOMAIN t.gold
          BY <1>5, <1>9, <3>4
        <4>. QED  BY <3>1, <3>2, <4>1 DEF Has
      <3>. QED  BY <3>3, <3>4
    <2>3. /\ \A j \in DOMAIN held' : held'[j] \in online' /\ Has(e.inv, j, held'[j])
          /\ \A j \in DOMAIN e.inv : e.inv[j] \in online' => j \in DOMAIN held'
      BY <1>6, <1>9, <1>10, <2>1 DEF AheadOf, Has
    <2>4. \A j \in DOMAIN parcels' : Has(e.post, j, parcels'[j])
      BY <1>6, <1>11, <2>1 DEF AheadOf, Has
    <2>5. /\ \A j \in DOMAIN auctions' : Has(e.sale, j, auctions'[j])
          /\ \A j \in DOMAIN e.sale \ DOMAIN auctions' : j \notin DOMAIN e.item
      BY <1>2, <1>6, <2>1 DEF AheadOf, Has
    <2>6. ASSUME NEW l \in DOMAIN letters' PROVE Copies(l, letters') <= Copies(l, e.coins)
      <3>1. /\ Copies(l, letters') = Copies(l, letters) /\ l.to \in Characters \ t.purge
            /\ Copies(l, letters) <= Copies(l, f.coins)
        BY <1>3, <1>12, <2>1 DEF AheadOf
      <3>2. Copies(l, t.spent) = 0 /\ Copies(l, t.coins) = 0
        BY <1>3, BagSingle
      <3>3. IsABag(f.coins) /\ Copies(l, f.coins) \in Nat
        BY <1>4, CopiesNat DEF Sound
      <3>4. Copies(l, e.coins) = IF Copies(l, f.coins) + Copies(l, t.coins) > Copies(l, t.spent)
                                 THEN Copies(l, f.coins) + Copies(l, t.coins) - Copies(l, t.spent)
                                 ELSE 0
        BY <1>4, <1>7, <3>1, <3>3, CoinsAfter
      <3>5. Copies(l, e.coins) = Copies(l, f.coins)
        BY <3>2, <3>3, <3>4
      <3>. QED  BY <3>1, <3>5
    <2>7. AheadOf(e)'
      BY <2>2, <2>3, <2>4, <2>5, <2>6 DEF AheadOf, Has, Copies
    <2>8. ASSUME NEW d, InMind(d) PROVE d \notin online' /\ Spares(t, f, d)
      BY <1>2, <1>3, <1>5, <1>7, <1>9, <2>1, <2>8 DEF Spares
    <2>. QED  BY <2>7, <2>8
  <1>. QED  BY <1>1, <1>2, <1>3, <1>8, <1>13, <1>14, OneTransaction

LEMMA CharDeleteStep ==
  ASSUME IInv, NEW c \in Characters, HandleCharDelete(c)
  PROVE  IInv'
  <1>1. PICK t, f, e : t = DeleteFromDB(c) /\ f = Future /\ e = Execute(f, t)
    OBVIOUS
  <1>2. /\ server = "up" /\ Idle(c) /\ known' = known \ {c}
        /\ queue' = queue \o <<t>>
        /\ UNCHANGED <<gold, held, parcels, letters, auctions, read, db, server>>
    BY <1>1 DEF HandleCharDelete, Handling, CommitTransaction
  <1>3. /\ t.gold = <<>> /\ t.uninv = {} /\ t.sale = <<>> /\ t.inv = <<>> /\ t.item = <<>>
        /\ t.bid = <<>> /\ t.unsale = {} /\ t.post = <<>> /\ t.unpost = {}
        /\ t.coins = EmptyBag /\ t.spent = EmptyBag /\ t.purge = {c} /\ t.login = {}
    BY <1>1 DEF DeleteFromDB, NoWrites
  <1>4. /\ Sound(f) /\ AheadOf(f) /\ Shape /\ \A d : InMind(d) => d \notin online
        /\ online \subseteq Characters
    BY <1>1, <1>2, Up
  <1>5. c \notin online /\ ~InMind(c)
    BY <1>2 DEF Idle, Loading, InMind
  <1>6. /\ DOMAIN t.post = {} /\ DOMAIN t.inv = {} /\ DOMAIN t.spent = {} /\ DOMAIN t.sale = {}
        /\ DOMAIN t.bid = {} /\ DOMAIN t.gold = {} /\ DOMAIN t.item = {}
    <2>1. DOMAIN t.spent = {}
      BY <1>3 DEF EmptyBag, SetToBag
    <2>. QED  BY <1>3, <2>1, Empty
  <1>7. IsABag(t.coins) /\ IsABag(t.spent)
    BY <1>3, BagSingle
  <1>8. e = Execute(f, t) /\ Executed(f, t, e)
    BY <1>1, ExecuteRows
  <1>9. /\ DOMAIN e.chars = DOMAIN f.chars \ {c} /\ \A d \in DOMAIN e.chars : e.chars[d] = f.chars[d]
        /\ DOMAIN e.item \subseteq DOMAIN f.item
    BY <1>3, <1>6, <1>8 DEF Executed
  <1>10. /\ \A j : j \in DOMAIN e.inv <=> j \in DOMAIN f.inv /\ f.inv[j] # c
         /\ \A j \in DOMAIN e.inv : e.inv[j] = f.inv[j]
    BY <1>3, <1>6, <1>8 DEF Executed
  <1>11. DOMAIN e.sale = DOMAIN f.sale /\ \A j \in DOMAIN e.sale : e.sale[j] = f.sale[j]
    BY <1>3, <1>6, <1>8 DEF Executed
  <1>12. /\ \A j : j \in DOMAIN e.post <=> j \in DOMAIN f.post /\ f.post[j] # c
         /\ \A j \in DOMAIN e.post : e.post[j] = f.post[j]
    BY <1>3, <1>6, <1>8 DEF Executed
  <1>13. Sound(e)
    BY <1>4, <1>7, <1>8, <1>10, <1>11, <1>12, ExecuteSound DEF Sound
  <1>14. Shape'
    BY <1>2, <1>4 DEF Shape, Table, IsABag
  <1>15. AheadOf(e)'
    <2>1. known' = DOMAIN e.chars /\ \A d \in online' : Has(e.chars, d, gold'[d])
      BY <1>2, <1>4, <1>5, <1>9 DEF AheadOf, Has
    <2>2. /\ \A j \in DOMAIN held' : held'[j] \in online' /\ Has(e.inv, j, held'[j])
          /\ \A j \in DOMAIN e.inv : e.inv[j] \in online' => j \in DOMAIN held'
      BY <1>2, <1>4, <1>5, <1>10 DEF AheadOf, Has
    <2>3. \A j \in DOMAIN parcels' : Has(e.post, j, parcels'[j])
      BY <1>2, <1>4, <1>5, <1>12 DEF AheadOf, Has, Shape
    <2>4. /\ \A j \in DOMAIN auctions' : Has(e.sale, j, auctions'[j])
          /\ \A j \in DOMAIN e.sale \ DOMAIN auctions' : j \notin DOMAIN e.item
      BY <1>2, <1>4, <1>9, <1>11 DEF AheadOf, Has
    <2>5. ASSUME NEW l \in DOMAIN letters' PROVE Copies(l, letters') <= Copies(l, e.coins)
      <3>1. /\ l \in DOMAIN letters /\ Copies(l, letters') = Copies(l, letters)
            /\ l.to \in Characters \ t.purge
        BY <1>2, <1>3, <1>4, <1>5, <2>5 DEF Shape
      <3>2. Copies(l, letters) <= Copies(l, f.coins)
        BY <1>4, <3>1 DEF AheadOf
      <3>3. Copies(l, t.spent) = 0 /\ Copies(l, t.coins) = 0
        BY <1>3, BagSingle
      <3>4. IsABag(f.coins) /\ Copies(l, f.coins) \in Nat
        BY <1>4, CopiesNat DEF Sound
      <3>5. Copies(l, e.coins) = IF Copies(l, f.coins) + Copies(l, t.coins) > Copies(l, t.spent)
                                 THEN Copies(l, f.coins) + Copies(l, t.coins) - Copies(l, t.spent)
                                 ELSE 0
        BY <1>7, <1>8, <3>1, <3>4, CoinsAfter
      <3>6. Copies(l, e.coins) = Copies(l, f.coins)
        BY <3>3, <3>4, <3>5
      <3>. QED  BY <3>1, <3>2, <3>6
    <2>. QED  BY <2>1, <2>2, <2>3, <2>4, <2>5 DEF AheadOf, Has, Copies
  <1>16. ASSUME NEW d, InMind(d) PROVE d \notin online' /\ Spares(t, f, d)
    <2>1. d # c /\ d \notin online
      BY <1>4, <1>5, <1>16
    <2>. QED  BY <1>2, <1>3, <1>6, <1>7, <2>1 DEF Spares
  <1>. QED  BY <1>1, <1>2, <1>3, <1>13, <1>14, <1>15, <1>16, OneTransaction

(* A request that writes nothing leaves the rows as they are. *)
Same(f, e) == /\ DOMAIN e.chars = DOMAIN f.chars /\ \A c \in DOMAIN f.chars : e.chars[c] = f.chars[c]
              /\ DOMAIN e.item \subseteq DOMAIN f.item
              /\ DOMAIN e.inv = DOMAIN f.inv /\ \A i \in DOMAIN f.inv : e.inv[i] = f.inv[i]
              /\ DOMAIN e.sale = DOMAIN f.sale /\ \A i \in DOMAIN f.sale : e.sale[i] = f.sale[i]
              /\ DOMAIN e.post = DOMAIN f.post /\ \A i \in DOMAIN f.post : e.post[i] = f.post[i]
              /\ IsABag(e.coins) /\ \A l : l.to \in Characters => Copies(l, e.coins) = Copies(l, f.coins)

(* The queries of a login, or the deletion of an item. *)
WritesNoRow(t) ==
    /\ t.gold = <<>> /\ t.uninv = {} /\ t.sale = <<>> /\ t.inv = <<>> /\ t.item = <<>>
    /\ t.bid = <<>> /\ t.unsale = {} /\ t.post = <<>> /\ t.unpost = {}
    /\ t.coins = EmptyBag /\ t.spent = EmptyBag /\ t.purge = {}

LEMMA Idling ==
  ASSUME NEW f, Sound(f), NEW t, WritesNoRow(t), NEW e, e = Execute(f, t)
  PROVE  Same(f, e)
  <1>1. /\ t.gold = <<>> /\ t.uninv = {} /\ t.sale = <<>> /\ t.inv = <<>> /\ t.item = <<>>
        /\ t.bid = <<>> /\ t.unsale = {} /\ t.post = <<>> /\ t.unpost = {}
        /\ t.coins = EmptyBag /\ t.spent = EmptyBag /\ t.purge = {}
    BY DEF WritesNoRow
  <1>2. DOMAIN t.gold = {}
    BY <1>1, Empty
  <1>3. e = Execute(f, t)
    OBVIOUS
  <1>4. /\ DOMAIN e.chars = DOMAIN f.chars
        /\ \A c \in DOMAIN f.chars : e.chars[c] = IF c \in DOMAIN t.gold THEN t.gold[c] ELSE f.chars[c]
        /\ DOMAIN e.item \subseteq DOMAIN f.item
        /\ DOMAIN e.inv = DOMAIN f.inv \ t.uninv /\ \A j \in DOMAIN e.inv : e.inv[j] = f.inv[j]
    <2>1. e = Execute(f, t) /\ t.purge = {} /\ t.item = <<>> /\ t.inv = <<>>
      BY <1>1, <1>3
    <2>. QED  BY ONLY <2>1, ExecuteKeeps
  <1>5. /\ DOMAIN e.sale = DOMAIN f.sale \ t.unsale /\ \A j \in DOMAIN e.sale : e.sale[j] = f.sale[j]
        /\ DOMAIN e.post = DOMAIN f.post \ t.unpost /\ \A j \in DOMAIN e.post : e.post[j] = f.post[j]
    <2>1. e = Execute(f, t) /\ t.purge = {} /\ t.sale = <<>> /\ t.bid = <<>> /\ t.post = <<>>
      BY <1>1, <1>3
    <2>. QED  BY ONLY <2>1, ExecuteKeeps
  <1>6. IsABag(t.coins) /\ IsABag(t.spent) /\ IsABag(f.coins)
    BY <1>1, BagSingle DEF Sound
  <1>7. IsABag(e.coins)
    BY <1>3, <1>6, CoinsAfter
  <1>8. ASSUME NEW l, l.to \in Characters PROVE Copies(l, e.coins) = Copies(l, f.coins)
    <2>1. Copies(l, t.spent) = 0 /\ Copies(l, t.coins) = 0 /\ Copies(l, f.coins) \in Nat
      BY <1>1, <1>6, BagSingle, CopiesNat
    <2>2. l.to \in Characters \ t.purge
      BY <1>1, <1>8
    <2>3. Copies(l, e.coins) = IF Copies(l, f.coins) + Copies(l, t.coins) > Copies(l, t.spent)
                               THEN Copies(l, f.coins) + Copies(l, t.coins) - Copies(l, t.spent)
                               ELSE 0
      BY ONLY <1>3, <1>6, <2>2, CoinsAfter
    <2>. QED  BY <2>1, <2>3
  <1>. QED  BY <1>1, <1>2, <1>4, <1>5, <1>7, <1>8 DEF Same

LEMMA SameKeeps ==
  ASSUME NEW f, NEW e, Same(f, e), Sound(f)
  PROVE  /\ Sound(e)
         /\ Shape /\ AheadOf(f) => AheadOf(e)
         /\ \A c, r : Reads(r, c, f) => Reads(r, c, e)
  <1>1. Sound(e)
    BY DEF Same, Sound
  <1>2. ASSUME Shape, AheadOf(f) PROVE AheadOf(e)
    <2>1. \A l \in DOMAIN letters : Copies(l, letters) <= Copies(l, e.coins)
      BY <1>2 DEF Same, AheadOf, Shape, Has, Sound
    <2>2. known = DOMAIN e.chars /\ \A c \in online : Has(e.chars, c, gold[c])
      BY <1>2 DEF Same, AheadOf, Has
    <2>3. /\ \A i \in DOMAIN held : held[i] \in online /\ Has(e.inv, i, held[i])
          /\ \A i \in DOMAIN e.inv : e.inv[i] \in online => i \in DOMAIN held
      BY <1>2 DEF Same, AheadOf, Has
    <2>4. /\ \A i \in DOMAIN parcels : Has(e.post, i, parcels[i])
          /\ \A i \in DOMAIN auctions : Has(e.sale, i, auctions[i])
          /\ \A i \in DOMAIN e.sale \ DOMAIN auctions : i \notin DOMAIN e.item
      BY <1>2 DEF Same, AheadOf, Has
    <2>. QED  BY <2>1, <2>2, <2>3, <2>4 DEF AheadOf
  <1>3. ASSUME NEW c, NEW r, Reads(r, c, f) PROVE Reads(r, c, e)
    <2>1. \A l \in DOMAIN r.letters : l.to = c /\ Copies(l, r.letters) <= Copies(l, e.coins)
      BY <1>3 DEF Same, Reads, Has, Sound
    <2>2. \A i \in DOMAIN r.held : r.held[i] = c /\ Has(e.inv, i, c)
      BY <1>3 DEF Same, Reads, Has
    <2>3. \A i \in DOMAIN e.inv : e.inv[i] = c => i \in DOMAIN r.held
      BY <1>3 DEF Same, Reads
    <2>4. \A i \in DOMAIN r.parcels : r.parcels[i] = c /\ Has(e.post, i, c)
      BY <1>3 DEF Same, Reads, Has
    <2>5. Has(e.chars, c, r.gold)
      BY <1>3 DEF Same, Reads, Has
    <2>. QED  BY <1>3, <2>1, <2>2, <2>3, <2>4, <2>5 DEF Reads
  <1>. QED  BY <1>1, <1>2, <1>3

LEMMA LoginStep ==
  ASSUME IInv, NEW c, HandlePlayerLogin(c)
  PROVE  IInv'
  <1>1. PICK t, f, e : t = LoginQueries(c) /\ f = Future /\ e = Execute(f, t)
    OBVIOUS
  <1>. DEFINE r == <<t>>
  <1>2. IsQueue(queue) /\ EverSound
    BY DEF IInv
  <1>3. IsQueue(r) /\ Len(r) = 1 /\ r[1] = t
    BY QueueOne
  <1>4. /\ server = "up" /\ c \in known /\ Idle(c) /\ queue' = queue \o r
        /\ UNCHANGED <<known, gold, held, parcels, letters, auctions, read, db, server>>
    <2>1. /\ server = "up" /\ c \in known /\ Idle(c) /\ queue' = Append(queue, t)
          /\ UNCHANGED <<known, gold, held, parcels, letters, auctions, read, db, server>>
      BY <1>1 DEF HandlePlayerLogin, Handling, memory
    <2>2. Append(queue, t) = queue \o <<t>>
      BY <1>2 DEF IsQueue
    <2>. QED  BY <2>1, <2>2
  <1>. HIDE DEF r
  <1>5. /\ Sound(f) /\ AheadOf(f) /\ Shape /\ LoginsKept /\ \A d : InMind(d) => d \notin online
    BY <1>1, <1>4, Up
  <1>6. c \notin online /\ ~InMind(c) /\ c \in DOMAIN f.chars
    <2>1. c \in Characters
      BY <1>4, <1>5 DEF AheadOf, Sound
    <2>. QED  BY <1>4, <1>5, <2>1 DEF Idle, Loading, InMind, AheadOf
  <1>7. t.login = {c}
    BY <1>1 DEF LoginQueries, NoWrites
  <1>8. Same(f, e)
    <2>1. WritesNoRow(t)
      BY <1>1 DEF LoginQueries, NoWrites, WritesNoRow
    <2>. QED  BY <1>1, <1>5, <2>1, Idling
  <1>9. Sound(e) /\ AheadOf(e) /\ \A d, x : Reads(x, d, f) => Reads(x, d, e)
    BY <1>5, <1>8, SameKeeps
  <1>10. /\ IsQueue(queue)' /\ Future' = e /\ EverSound'
         /\ Len(queue) \in Nat /\ Len(queue') = Len(queue) + 1
         /\ \A k \in 0..Len(queue) : After(db, queue)'[k] = After(db, queue)[k]
         /\ \A k \in 1..Len(queue) : queue'[k] = queue[k]
         /\ queue'[Len(queue) + 1] = t
    <2>1. After(f, r)[0] = f /\ After(f, r)[1] = Execute(After(f, r)[1 - 1], r[1])
      BY <1>3, AfterUnfolds
    <2>2. After(f, r)[1] = e
      BY <1>1, <1>3, <2>1
    <2>3. \A k \in 1..Len(r) : Sound(After(Future, r)[k])
      BY <1>1, <1>3, <1>9, <2>2
    <2>4. EverSound'
      BY <1>2, <1>3, <1>4, <2>3, CommitSound
    <2>5. /\ IsQueue(queue)' /\ Len(queue) \in Nat /\ Len(queue') = Len(queue) + Len(r)
          /\ \A k \in 0..Len(queue) : After(db, queue)'[k] = After(db, queue)[k]
          /\ Future' = After(Future, r)[Len(r)]
          /\ \A k \in 1..Len(queue) : queue'[k] = queue[k]
          /\ \A k \in 1..Len(r) : queue'[Len(queue) + k] = r[k]
      BY <1>2, <1>3, <1>4, Commit
    <2>. QED  BY <1>1, <1>3, <2>2, <2>4, <2>5
  <1>11. Shape' /\ AheadOf(Future)'
    <2>1. Shape'
      BY <1>4, <1>5 DEF Shape, Table, IsABag
    <2>2. AheadOf(Future)'
      BY <1>4, <1>9, <1>10 DEF AheadOf, Has, Copies
    <2>. QED  BY <2>1, <2>2
  <1>12. LoginsKept'
    <2>1. DOMAIN queue = 1..Len(queue) /\ DOMAIN queue' = 1..Len(queue) + 1
      <3>1. IsQueue(queue')
        BY <1>10 DEF IsQueue
      <3>. QED  BY <1>2, <1>10, <3>1 DEF IsQueue
    <2>2. \A d \in DOMAIN read' : d \notin online' /\ Reads(read'[d], d, Future')
      BY <1>1, <1>4, <1>5, <1>9, <1>10 DEF LoginsKept
    <2>3. ASSUME NEW k \in DOMAIN queue', NEW d \in queue'[k].login
          PROVE  /\ d \notin online' \cup DOMAIN read'
                 /\ Reads(RowsOf(After(db, queue)'[k - 1], d), d, Future')
      <3>1. CASE k \in 1..Len(queue)
        <4>1. k \in DOMAIN queue /\ queue'[k] = queue[k] /\ k - 1 \in 0..Len(queue)
          BY <1>10, <2>1, <3>1
        <4>2. /\ d \notin online \cup DOMAIN read
              /\ Reads(RowsOf(After(db, queue)[k - 1], d), d, Future)
          BY <1>5, <2>3, <4>1 DEF LoginsKept
        <4>3. After(db, queue)'[k - 1] = After(db, queue)[k - 1]
          BY <1>10, <4>1
        <4>. QED  BY <1>1, <1>4, <1>9, <1>10, <4>2, <4>3
      <3>2. CASE k = Len(queue) + 1
        <4>1. d = c
          BY <1>7, <1>10, <2>3, <3>2
        <4>2. c \notin online' \cup DOMAIN read'
          BY <1>4, <1>6 DEF InMind
        <4>3. After(db, queue)'[k - 1] = f
          <5>1. k - 1 = Len(queue) /\ Len(queue) \in 0..Len(queue)
            BY <1>10, <3>2
          <5>. QED  BY <1>1, <1>10, <5>1 DEF Future
        <4>4. Reads(RowsOf(f, c), c, e)
          BY <1>5, <1>6, <1>9, RowsRead
        <4>. QED  BY <1>10, <4>1, <4>2, <4>3, <4>4
      <3>. QED  BY <1>10, <2>1, <3>1, <3>2
    <2>4. ASSUME NEW j \in DOMAIN queue', NEW k \in DOMAIN queue', j # k
          PROVE  queue'[j].login \cap queue'[k].login = {}
      <3>1. /\ \/ j \in DOMAIN queue /\ queue'[j] = queue[j]
               \/ queue'[j].login = {c} /\ j = Len(queue) + 1
            /\ \/ k \in DOMAIN queue /\ queue'[k] = queue[k]
               \/ queue'[k].login = {c} /\ k = Len(queue) + 1
        BY <1>7, <1>10, <2>1
      <3>2. \A m \in DOMAIN queue : c \notin queue[m].login
        BY <1>6 DEF InMind
      <3>. QED  BY <1>5, <2>4, <3>1, <3>2 DEF LoginsKept
    <2>. QED  BY <2>2, <2>3, <2>4 DEF LoginsKept, RowsOf, Reads, After
  <1>. QED  BY <1>4, <1>10, <1>11, <1>12 DEF IInv

(* Any number of items may be deleted: the rows that count stay. *)
LEMMA Removals ==
  ASSUME Shape, NEW f, Sound(f), AheadOf(f), NEW q, Len(q) \in Nat,
         \A k \in 1..Len(q) : \E i : q[k] = RemoveAItem(i)
  PROVE  \A k \in 0..Len(q) : /\ Sound(After(f, q)[k]) /\ AheadOf(After(f, q)[k])
                              /\ \A c, x : Reads(x, c, f) => Reads(x, c, After(f, q)[k])
  <1>. DEFINE n == Len(q)
              T == {k \in 0..n : /\ Sound(After(f, q)[k]) /\ AheadOf(After(f, q)[k])
                                 /\ \A c, x : Reads(x, c, f) => Reads(x, c, After(f, q)[k])}
  <1>1. After(f, q)[0] = f /\ \A k \in 1..n : After(f, q)[k] = Execute(After(f, q)[k - 1], q[k])
    BY AfterUnfolds
  <1>2. 0 \in T
    BY <1>1
  <1>3. ASSUME NEW k \in 0..n, k + 1 \in 0..n, k \in T PROVE k + 1 \in T
    <2>1. k + 1 \in 1..n /\ (k + 1) - 1 = k
      BY <1>3
    <2>2. PICK i : q[k + 1] = RemoveAItem(i)
      BY <2>1
    <2>3. PICK d, e, t : d = After(f, q)[k] /\ t = q[k + 1] /\ e = Execute(d, t)
      OBVIOUS
    <2>4. After(f, q)[k + 1] = e
      BY <1>1, <2>1, <2>3
    <2>5. WritesNoRow(t)
      BY <2>2, <2>3 DEF RemoveAItem, NoWrites, WritesNoRow
    <2>6. Sound(d) /\ AheadOf(d) /\ \A c, x : Reads(x, c, f) => Reads(x, c, d)
      BY <1>3, <2>3
    <2>7. Same(d, e)
      BY <2>3, <2>5, <2>6, Idling
    <2>8. Sound(e) /\ AheadOf(e) /\ \A c, x : Reads(x, c, d) => Reads(x, c, e)
      BY <2>6, <2>7, SameKeeps
    <2>. QED  BY <1>3, <2>4, <2>6, <2>8
  <1>. HIDE DEF T
  <1>4. \A k \in 0..n : k \in T
    BY <1>2, <1>3, UpTo
  <1>. QED  BY <1>4 DEF T

LEMMA ExpireStep ==
  ASSUME IInv, NEW S \in SUBSET Items, Expire(S)
  PROVE  IInv'
  <1>. DEFINE Receiver(i) == IF auctions[i].bidder = Nobody THEN auctions[i].owner
                             ELSE auctions[i].bidder
              Won    == {i \in S : auctions[i].bidder # Nobody}
              Sent   == {i \in S : Receiver(i) \in known}
              mail   == [i \in Sent |-> Receiver(i)]
              Sellers(l) == {i \in Won : l \in DOMAIN SendAuctionSuccessfulMail(auctions[i])}
              dom    == UNION {DOMAIN SendAuctionSuccessfulMail(auctions[i]) : i \in Won}
              bag    == [l \in dom |-> Cardinality(Sellers(l))]
              gone   == [k \in 1..Cardinality(S \ Sent) |-> RemoveAItem(SetToSeq(S \ Sent)[k])]
  <1>1. PICK t, f : /\ t = [SendAuctionWonMail(Restrict(mail, Sent \cap Won)) EXCEPT
                               !.unsale = S, !.post = mail, !.coins = bag]
                    /\ f = Future
    OBVIOUS
  <1>2. /\ server = "up" /\ S \subseteq DOMAIN auctions
        /\ auctions' = Without(auctions, S) /\ SendMailTo(mail, bag)
        /\ queue' = queue \o (gone \o <<t>>)
        /\ UNCHANGED <<known, gold, held, read, db, server>>
    BY <1>1, Zenon DEF Expire, Handling, CommitTransaction
  <1>3. /\ t.gold = <<>> /\ t.uninv = {} /\ t.sale = <<>> /\ t.inv = <<>> /\ t.item = <<>>
        /\ t.bid = <<>> /\ t.unsale = S /\ t.post = mail /\ t.unpost = {}
        /\ t.coins = bag /\ t.spent = EmptyBag /\ t.purge = {} /\ t.login = {}
    BY <1>1 DEF SendAuctionWonMail, NoWrites
  <1>4. IsABag(bag)
    <2>1. ASSUME NEW l \in dom PROVE Cardinality(Sellers(l)) \in Nat /\ Cardinality(Sellers(l)) > 0
      <3>1. Sellers(l) \subseteq Items /\ Sellers(l) # {}
        OBVIOUS
      <3>. HIDE DEF Sellers
      <3>2. IsFiniteSet(Sellers(l))
        BY <3>1, FS_Subset, HouseAssumption
      <3>3. Cardinality(Sellers(l)) \in Nat /\ Cardinality(Sellers(l)) # 0
        BY <3>1, <3>2, FS_CardinalityType, FS_EmptySet
      <3>. QED  BY <3>3
    <2>. HIDE DEF Sellers, dom
    <2>2. DOMAIN bag = dom /\ bag \in [dom -> {n \in Nat : n > 0}]
      BY <2>1
    <2>. QED  BY <2>2 DEF IsABag
  <1>5. Cardinality(S \ Sent) \in Nat
    <2>1. S \ Sent \subseteq Items
      OBVIOUS
    <2>. HIDE DEF Sent
    <2>. QED  BY <2>1, FS_Subset, FS_CardinalityType, HouseAssumption
  <1>6. DOMAIN mail \subseteq S
    OBVIOUS
  <1>7. /\ IsQueue(gone) /\ Len(gone) \in Nat
        /\ \A k \in 1..Len(gone) : \E i : gone[k] = RemoveAItem(i)
        /\ \A k \in 1..Len(gone) : gone[k].login = {}
    <2>. DEFINE n == Cardinality(S \ Sent)
                u == SetToSeq(S \ Sent)
    <2>1. gone = [k \in 1..n |-> RemoveAItem(u[k])] /\ n \in Nat
      BY <1>5
    <2>. HIDE DEF n, u, gone
    <2>2. gone \in Seq({RemoveAItem(u[k]) : k \in 1..n}) /\ Len(gone) = n
      <3>. DEFINE V == {RemoveAItem(u[k]) : k \in 1..n}
      <3>1. \A k \in 1..n : RemoveAItem(u[k]) \in V
        OBVIOUS
      <3>. HIDE DEF V
      <3>2. gone \in [1..n -> V]
        BY <2>1, <3>1
      <3>3. gone \in Seq(V) /\ Len(gone) = n
        BY ONLY <2>1, <3>2
      <3>. QED  BY <3>3 DEF V
    <2>3. IsQueue(gone)
      BY ONLY <2>2, QueueTyped, Zenon
    <2>4. \A k \in 1..n : gone[k] = RemoveAItem(u[k])
      BY <2>1
    <2>5. \A k \in 1..n : RemoveAItem(u[k]).login = {}
      BY DEF RemoveAItem, NoWrites
    <2>. QED  BY <2>1, <2>2, <2>3, <2>4, <2>5
  <1>. HIDE DEF bag, mail, gone
  <1>8. /\ Sound(f) /\ AheadOf(f) /\ Shape /\ LoginsKept /\ \A d : InMind(d) => d \notin online
    BY <1>1, <1>2, Up
  <1>9. IsQueue(queue) /\ EverSound
    BY DEF IInv
  <1>10. PICK n, g, e : n = Len(gone) /\ g = After(f, gone)[n] /\ e = Execute(g, t)
    OBVIOUS
  <1>11. \A k \in 0..n : /\ Sound(After(f, gone)[k]) /\ AheadOf(After(f, gone)[k])
                         /\ \A c, x : Reads(x, c, f) => Reads(x, c, After(f, gone)[k])
    BY <1>7, <1>8, <1>10, Removals
  <1>12. Sound(g) /\ AheadOf(g) /\ \A c, x : Reads(x, c, f) => Reads(x, c, g)
    BY <1>7, <1>10, <1>11
  <1>13. GoldSaved(t)
    BY <1>2, <1>3, <1>8, Empty DEF GoldSaved, Shape
  <1>14. SendMailTo(t.post, t.coins)
    BY <1>2, <1>3
  <1>15. /\ Sound(e) /\ Shape' /\ AheadOf(e)' /\ online' = online
         /\ \A d : d \notin online => Spares(t, g, d)
    BY <1>2, <1>3, <1>4, <1>6, <1>8, <1>10, <1>12, <1>13, <1>14, AuctionsEnd
  <1>. DEFINE r == gone \o <<t>>
  <1>16. /\ IsQueue(r) /\ Len(r) = n + 1 /\ n \in Nat
         /\ \A k \in 0..n : After(f, r)[k] = After(f, gone)[k]
         /\ After(f, r)[n + 1] = e
         /\ \A k \in 1..Len(r) : r[k].login = {}
    <2>. DEFINE o == <<t>>
    <2>1. IsQueue(o) /\ Len(o) = 1 /\ o[1] = t
      BY QueueOne
    <2>2. r = gone \o o
      OBVIOUS
    <2>. HIDE DEF o, r
    <2>3. /\ IsQueue(r) /\ Len(r) = n + 1 /\ n \in Nat
          /\ \A k \in 1..n : r[k] = gone[k]
          /\ r[n + 1] = t
      <3>1. /\ IsQueue(r) /\ Len(gone) \in Nat /\ Len(r) = Len(gone) + Len(o)
            /\ \A k \in 1..Len(gone) : r[k] = gone[k]
            /\ \A k \in 1..Len(o) : r[Len(gone) + k] = o[k]
        <4>1. IsQueue(gone) /\ IsQueue(o) /\ r = gone \o o
          BY <1>7, <2>1, <2>2
        <4>2. /\ IsQueue(gone \o o) /\ Len(gone) \in Nat /\ Len(gone \o o) = Len(gone) + Len(o)
              /\ \A k \in 1..Len(gone) : (gone \o o)[k] = gone[k]
              /\ \A k \in 1..Len(o) : (gone \o o)[Len(gone) + k] = o[k]
          BY ONLY <4>1, QueueConcat
        <4>. QED  BY ONLY <4>1, <4>2
      <3>2. Len(o) = 1 /\ 1 \in 1..1 /\ n = Len(gone)
        BY <1>10, <2>1
      <3>. QED  BY ONLY <2>1, <3>1, <3>2
    <2>4. \A k \in 0..n : After(f, r)[k] = After(f, gone)[k]
      BY <1>7, <1>10, <2>1, <2>2, AfterConcat
    <2>5. After(f, r)[n + 1] = e
      <3>1. \A k \in 1..Len(r) : After(f, r)[k] = Execute(After(f, r)[k - 1], r[k])
        BY <2>3, AfterUnfolds
      <3>2. n + 1 \in 1..Len(r) /\ (n + 1) - 1 = n /\ n \in 0..n
        BY <2>3
      <3>3. After(f, r)[n + 1] = Execute(After(f, r)[n], r[n + 1])
        BY <3>1, <3>2
      <3>. QED  BY <1>10, <2>3, <2>4, <3>2, <3>3
    <2>6. \A k \in 1..Len(r) : r[k].login = {}
      BY <1>3, <1>7, <1>10, <2>3
    <2>. QED  BY <2>3, <2>4, <2>5, <2>6
  <1>17. queue' = queue \o r
    BY <1>2
  <1>. HIDE DEF r
  <1>18. IsQueue(queue)' /\ Future' = e
    <2>1. IsQueue(queue)' /\ Future' = After(Future, r)[Len(r)]
      BY <1>2, <1>9, <1>16, <1>17, Commit
    <2>. QED  BY <1>1, <1>16, <2>1
  <1>19. EverSound'
    <2>1. ASSUME NEW k \in 1..Len(r) PROVE Sound(After(Future, r)[k])
      <3>1. k \in 0..n \/ k = n + 1
        BY <1>16
      <3>2. CASE k \in 0..n
        BY <1>1, <1>11, <1>16, <3>2
      <3>3. CASE k = n + 1
        BY <1>1, <1>15, <1>16, <3>3
      <3>. QED  BY <3>1, <3>2, <3>3
    <2>. QED  BY <1>2, <1>9, <1>16, <1>17, <2>1, CommitSound
  <1>20. LoginsKept'
    <2>1. ASSUME NEW c, NEW x, InMind(c)
          PROVE  c \notin online' /\ (Reads(x, c, Future) => Reads(x, c, Future'))
      <3>1. c \notin online' /\ Spares(t, g, c)
        BY <1>8, <1>15, <2>1
      <3>2. Reads(x, c, g) => Reads(x, c, e)
        BY <1>10, <1>12, <3>1, SparesReads
      <3>. QED  BY <1>1, <1>12, <1>18, <3>1, <3>2
    <2>. QED  BY <1>2, <1>8, <1>9, <1>16, <1>17, <2>1, CommitLogins
  <1>21. AheadOf(Future)'
    BY <1>15, <1>18 DEF AheadOf
  <1>. QED  BY <1>2, <1>15, <1>18, <1>19, <1>20, <1>21 DEF IInv

-----------------------------------------------------------------------------
(* Logins that end, the database worker, and the life of the server. *)

LEMMA SameQueue ==
  ASSUME IInv, UNCHANGED <<db, queue>>
  PROVE  IsQueue(queue)' /\ Future' = Future /\ EverSound' /\ After(db, queue)' = After(db, queue)
  <1>1. After(db, queue)' = After(db, queue)
    BY DEF After
  <1>2. Future' = Future
    BY <1>1 DEF Future
  <1>3. EverSound'
    <2>1. \A k \in 0..Len(queue) : Sound(After(db, queue)[k])
      BY DEF IInv, EverSound
    <2>2. \A k \in 0..Len(queue') : Sound(After(db, queue)'[k])
      BY <1>1, <2>1
    <2>. QED  BY <2>2 DEF EverSound, Sound, After
  <1>4. IsQueue(queue)'
    BY DEF IInv, IsQueue
  <1>. QED  BY <1>1, <1>2, <1>3, <1>4

LEMMA LoadStep ==
  ASSUME IInv, NEW c, HandlePlayerLoginFromDB(c)
  PROVE  IInv'
  <1>1. PICK r, f : r = read[c] /\ f = Future
    OBVIOUS
  <1>2. /\ server = "up" /\ c \in DOMAIN read
        /\ gold' = Put(Row(c, r.gold), gold)
        /\ held' = Put(r.held, held) /\ parcels' = Put(r.parcels, parcels)
        /\ letters' = letters (+) r.letters /\ read' = Without(read, {c})
        /\ UNCHANGED <<known, auctions, queue, db, server>>
    BY <1>1 DEF HandlePlayerLoginFromDB
  <1>3. IsQueue(queue)' /\ Future' = f /\ EverSound' /\ After(db, queue)' = After(db, queue)
    BY <1>1, <1>2, SameQueue
  <1>4. Sound(f) /\ AheadOf(f) /\ Shape /\ LoginsKept
    BY <1>1, <1>2, Up
  <1>5. c \notin online /\ Reads(r, c, f)
    BY <1>1, <1>2, <1>4 DEF LoginsKept
  <1>6. /\ Table(gold') /\ DOMAIN gold' = {c} \cup online /\ gold'[c] = r.gold
        /\ \A d \in online : gold'[d] = gold[d]
    BY <1>2, <1>5 DEF Put, Row, Table
  <1>7. /\ Table(held') /\ DOMAIN held' = DOMAIN r.held \cup DOMAIN held
        /\ \A i \in DOMAIN r.held : held'[i] = r.held[i]
        /\ \A i \in DOMAIN held \ DOMAIN r.held : held'[i] = held[i]
    BY <1>2 DEF Put, Table
  <1>8. /\ Table(parcels') /\ DOMAIN parcels' = DOMAIN r.parcels \cup DOMAIN parcels
        /\ \A i \in DOMAIN r.parcels : parcels'[i] = r.parcels[i]
        /\ \A i \in DOMAIN parcels \ DOMAIN r.parcels : parcels'[i] = parcels[i]
    BY <1>2 DEF Put, Table
  <1>9. DOMAIN read' = DOMAIN read \ {c} /\ \A d \in DOMAIN read' : read'[d] = read[d]
    BY <1>2 DEF Without, Restrict
  <1>10. IsABag(letters) /\ IsABag(r.letters) /\ IsABag(f.coins)
    BY <1>4, <1>5 DEF Shape, Reads, Sound
  <1>11. IsABag(letters') /\ \A l : Copies(l, letters') = Copies(l, letters) + Copies(l, r.letters)
    BY <1>2, <1>10, BagPlus
  <1>12. ASSUME NEW l \in DOMAIN letters'
         PROVE  l.to \in online' /\ Copies(l, letters') <= Copies(l, f.coins)
    <2>1. /\ Copies(l, letters) \in Nat /\ Copies(l, r.letters) \in Nat /\ Copies(l, f.coins) \in Nat
          /\ Copies(l, letters') > 0
          /\ l \in DOMAIN letters <=> Copies(l, letters) > 0
          /\ l \in DOMAIN r.letters <=> Copies(l, r.letters) > 0
      BY <1>10, <1>11, <1>12, CopiesNat
    <2>2. l \in DOMAIN letters => l.to \in online /\ Copies(l, letters) <= Copies(l, f.coins)
      BY <1>4 DEF Shape, AheadOf
    <2>3. l \in DOMAIN r.letters => l.to = c /\ Copies(l, r.letters) <= Copies(l, f.coins)
      BY <1>5 DEF Reads
    <2>4. Copies(l, letters') = Copies(l, letters) + Copies(l, r.letters)
      BY <1>11
    <2>. QED  BY <1>5, <1>6, <2>1, <2>2, <2>3, <2>4
  <1>13. Shape'
    <2>1. \A i \in DOMAIN parcels' : parcels'[i] \in online'
      BY <1>4, <1>5, <1>6, <1>8 DEF Shape, Reads
    <2>2. Table(auctions')
      BY <1>2, <1>4 DEF Shape, Table
    <2>. QED  BY <1>6, <1>7, <1>8, <1>11, <1>12, <2>1, <2>2 DEF Shape, Table
  <1>14. AheadOf(f)'
    <2>1. known' = DOMAIN f.chars /\ \A d \in online' : Has(f.chars, d, gold'[d])
      BY <1>2, <1>4, <1>5, <1>6 DEF AheadOf, Reads, Has
    <2>2. \A i \in DOMAIN held' : held'[i] \in online' /\ Has(f.inv, i, held'[i])
      BY <1>4, <1>5, <1>6, <1>7 DEF AheadOf, Reads, Has
    <2>3. \A i \in DOMAIN f.inv : f.inv[i] \in online' => i \in DOMAIN held'
      BY <1>4, <1>5, <1>6, <1>7 DEF AheadOf, Reads, Has
    <2>4. \A i \in DOMAIN parcels' : Has(f.post, i, parcels'[i])
      BY <1>4, <1>5, <1>8 DEF AheadOf, Reads, Has
    <2>5. /\ \A i \in DOMAIN auctions' : Has(f.sale, i, auctions'[i])
          /\ \A i \in DOMAIN f.sale \ DOMAIN auctions' : i \notin DOMAIN f.item
      BY <1>2, <1>4 DEF AheadOf, Has
    <2>. QED  BY <1>12, <2>1, <2>2, <2>3, <2>4, <2>5 DEF AheadOf, Has, Copies
  <1>15. LoginsKept'
    <2>1. \A d \in DOMAIN read' : d \notin online' /\ Reads(read'[d], d, f)
      BY <1>1, <1>4, <1>6, <1>9 DEF LoginsKept
    <2>2. ASSUME NEW k \in DOMAIN queue, NEW d \in queue[k].login
          PROVE  /\ d \notin online' \cup DOMAIN read'
                 /\ Reads(RowsOf(After(db, queue)[k - 1], d), d, f)
      BY <1>1, <1>2, <1>4, <1>6, <1>9 DEF LoginsKept
    <2>3. \A j, k \in DOMAIN queue : j # k => queue[j].login \cap queue[k].login = {}
      BY <1>4 DEF LoginsKept
    <2>4. \A d \in DOMAIN read' : d \notin online' /\ Reads(read'[d], d, Future')
      BY <1>3, <2>1
    <2>5. \A k \in DOMAIN queue' : \A d \in queue'[k].login :
             /\ d \notin online' \cup DOMAIN read'
             /\ Reads(RowsOf(After(db, queue)'[k - 1], d), d, Future')
      BY <1>2, <1>3, <2>2
    <2>6. \A j, k \in DOMAIN queue' : j # k => queue'[j].login \cap queue'[k].login = {}
      BY <1>2, <2>3
    <2>. QED  BY <2>4, <2>5, <2>6 DEF LoginsKept, RowsOf, Reads, After
  <1>16. AheadOf(Future)'
    BY <1>3, <1>14 DEF AheadOf
  <1>. QED  BY <1>2, <1>3, <1>13, <1>15, <1>16 DEF IInv

LEMMA WorkerStep ==
  ASSUME IInv, Worker
  PROVE  IInv'
  <1>1. PICK d, e, h, n, f : /\ d = db /\ h = Head(queue) /\ e = Execute(d, h)
                             /\ n = Len(queue) - 1 /\ f = Future
    OBVIOUS
  <1>2. /\ queue # <<>> /\ read' = Put([c \in h.login |-> RowsOf(d, c)], read)
        /\ db' = e /\ queue' = Tail(queue)
        /\ UNCHANGED <<known, gold, held, parcels, letters, auctions, server>>
    BY <1>1 DEF Worker, memory
  <1>3. server # "down"
    BY <1>2 DEF IInv, Forgotten
  <1>4. IsQueue(queue)
    BY DEF IInv
  <1>5. /\ IsQueue(queue') /\ n \in Nat /\ Len(queue) = n + 1 /\ Len(queue') = n
        /\ h = queue[1] /\ \A k \in 1..n : queue'[k] = queue[k + 1]
    BY <1>1, <1>2, <1>4, QueueTail
  <1>6. \A k \in 0..n : After(db, queue)'[k] = After(db, queue)[k + 1]
    <2>1. After(db, queue)' = After(e, Tail(queue))
      BY <1>2 DEF After
    <2>2. \A k \in 0..n : After(Execute(db, Head(queue)), Tail(queue))[k] = After(db, queue)[k + 1]
      BY <1>1, <1>2, <1>4, AfterTail
    <2>. QED  BY <1>1, <2>1, <2>2
  <1>7. After(db, queue)[0] = d
    BY <1>1, <1>5, AfterUnfolds
  <1>8. Future' = f
    <2>1. Future' = After(db, queue)'[n] /\ f = After(db, queue)[n + 1]
      BY <1>1, <1>5 DEF Future
    <2>2. n \in 0..n
      BY <1>5
    <2>. QED  BY <1>6, <2>1, <2>2
  <1>9. IsQueue(queue)' /\ EverSound' /\ Shape'
    <2>1. \A k \in 0..n : Sound(After(db, queue)'[k])
      <3>1. \A k \in 0..n : k + 1 \in 0..Len(queue)
        BY <1>5
      <3>. QED  BY <1>6, <3>1 DEF IInv, EverSound
    <2>2. EverSound'
      BY <1>5, <2>1 DEF EverSound, Sound, After
    <2>3. Shape'
      BY <1>2 DEF IInv, Shape, Table, IsABag
    <2>4. IsQueue(queue)'
      BY <1>5 DEF IsQueue
    <2>. QED  BY <2>2, <2>3, <2>4
  <1>10. ASSUME server = "up" PROVE AheadOf(Future)' /\ LoginsKept'
    <2>1. AheadOf(f) /\ LoginsKept
      BY <1>1, <1>10, Up
    <2>2. AheadOf(Future)'
      BY <1>2, <1>8, <2>1 DEF AheadOf, Has, Copies
    <2>3. DOMAIN queue = 1..n + 1 /\ DOMAIN queue' = 1..n
      BY <1>4, <1>5 DEF IsQueue
    <2>4. /\ DOMAIN read' = h.login \cup DOMAIN read
          /\ \A c \in h.login : read'[c] = RowsOf(d, c)
          /\ \A c \in DOMAIN read \ h.login : read'[c] = read[c]
      BY <1>2 DEF Put
    <2>5. ASSUME NEW c \in DOMAIN read' PROVE c \notin online' /\ Reads(read'[c], c, f)
      <3>1. CASE c \in h.login
        <4>1. 1 \in DOMAIN queue /\ 1 - 1 = 0 /\ c \in queue[1].login
          BY <1>5, <2>3, <3>1
        <4>2. c \notin online /\ Reads(RowsOf(d, c), c, f)
          BY <1>1, <1>7, <2>1, <4>1 DEF LoginsKept
        <4>. QED  BY <1>2, <2>4, <3>1, <4>2
      <3>2. CASE c \notin h.login
        BY <1>1, <1>2, <2>1, <2>4, <2>5, <3>2 DEF LoginsKept
      <3>. QED  BY <3>1, <3>2
    <2>6. ASSUME NEW k \in DOMAIN queue', NEW c \in queue'[k].login
          PROVE  /\ c \notin online' \cup DOMAIN read'
                 /\ Reads(RowsOf(After(db, queue)'[k - 1], c), c, f)
      <3>1. /\ k + 1 \in DOMAIN queue /\ 1 \in DOMAIN queue /\ k + 1 # 1 /\ (k + 1) - 1 = k
            /\ k - 1 \in 0..n /\ (k - 1) + 1 = k /\ c \in queue[k + 1].login
        BY <1>5, <2>3, <2>6
      <3>2. c \notin online \cup DOMAIN read /\ Reads(RowsOf(After(db, queue)[k], c), c, f)
        BY <1>1, <2>1, <3>1 DEF LoginsKept
      <3>3. c \notin h.login
        BY <1>5, <2>1, <3>1 DEF LoginsKept
      <3>4. After(db, queue)'[k - 1] = After(db, queue)[k]
        BY <1>6, <3>1
      <3>. QED  BY <1>2, <2>4, <3>2, <3>3, <3>4
    <2>7. ASSUME NEW j \in DOMAIN queue', NEW k \in DOMAIN queue', j # k
          PROVE  queue'[j].login \cap queue'[k].login = {}
      <3>1. /\ j + 1 \in DOMAIN queue /\ k + 1 \in DOMAIN queue /\ j + 1 # k + 1
            /\ queue'[j] = queue[j + 1] /\ queue'[k] = queue[k + 1]
        BY <1>5, <2>3, <2>7
      <3>. QED  BY <2>1, <3>1 DEF LoginsKept
    <2>8. LoginsKept'
      <3>1. \A c \in DOMAIN read' : c \notin online' /\ Reads(read'[c], c, Future')
        BY <1>8, <2>5
      <3>2. \A k \in DOMAIN queue' : \A c \in queue'[k].login :
               /\ c \notin online' \cup DOMAIN read'
               /\ Reads(RowsOf(After(db, queue)'[k - 1], c), c, Future')
        BY <1>8, <2>6
      <3>. QED  BY <2>7, <3>1, <3>2 DEF LoginsKept, RowsOf, Reads, After
    <2>. QED  BY <2>2, <2>8
  <1>. QED  BY <1>2, <1>3, <1>9, <1>10 DEF IInv

LEMMA AtOnce == Len(<<>>) = 0 /\ \A d : After(d, <<>>)[0] = d
  <1>1. Len(<<>>) = 0 /\ Len(<<>>) \in Nat
    BY QueueOne
  <1>2. ASSUME NEW d PROVE After(d, <<>>)[0] = d
    BY ONLY <1>1, AfterUnfolds
  <1>. QED  BY <1>1, <1>2

(* Crash and Close. *)
LEMMA ForgetStep ==
  ASSUME IInv, Forget
  PROVE  IInv'
  <1>1. /\ gold' = <<>> /\ held' = <<>> /\ parcels' = <<>> /\ letters' = EmptyBag /\ auctions' = <<>>
        /\ queue' = <<>> /\ read' = <<>> /\ server' = "down" /\ db' = db
    BY DEF Forget
  <1>2. Sound(db)
    <2>1. Len(queue) \in Nat
      BY DEF IInv, IsQueue
    <2>2. After(db, queue)[0] = db
      BY <2>1, AfterUnfolds
    <2>. QED  BY <2>1, <2>2 DEF IInv, EverSound
  <1>3. IsQueue(queue)' /\ EverSound'
    <2>1. IsQueue(queue)'
      BY <1>1, QueueOne DEF IsQueue
    <2>2. Len(queue') = 0 /\ After(db, queue)'[0] = db
      <3>1. After(db, queue)' = After(db, <<>>)
        BY <1>1 DEF After
      <3>. QED  BY <1>1, <3>1, AtOnce
    <2>3. \A k \in 0..Len(queue') : Sound(After(db, queue)'[k])
      BY <1>2, <2>2
    <2>. QED  BY <2>1, <2>3 DEF EverSound, Sound, After
  <1>4. Shape'
    <2>1. DOMAIN letters' = {} /\ IsABag(letters')
      BY <1>1, BagSingle DEF EmptyBag, SetToBag
    <2>2. /\ Table(gold') /\ Table(held') /\ Table(parcels') /\ Table(auctions')
          /\ DOMAIN parcels' = {}
      BY <1>1, Empty
    <2>. QED  BY <2>1, <2>2 DEF Shape, Table
  <1>. QED  BY <1>1, <1>3, <1>4 DEF IInv, Forgotten

LEMMA ShutdownStep ==
  ASSUME IInv, Shutdown
  PROVE  IInv'
  <1>1. /\ server = "up" /\ server' = "closing"
        /\ UNCHANGED <<known, gold, held, parcels, letters, auctions, queue, read, db>>
    BY DEF Shutdown, memory
  <1>2. IsQueue(queue)' /\ EverSound'
    BY <1>1, SameQueue
  <1>3. Shape'
    BY <1>1 DEF IInv, Shape, Table, IsABag
  <1>. QED  BY <1>1, <1>2, <1>3 DEF IInv

LEMMA BootStep ==
  ASSUME IInv, Boot
  PROVE  IInv'
  <1>1. /\ server = "down" /\ server' = "up" /\ known' = DOMAIN db.chars
        /\ auctions' = Restrict(db.sale, DOMAIN db.sale \cap DOMAIN db.item)
        /\ UNCHANGED <<gold, held, parcels, letters, queue, read, db>>
    BY DEF Boot
  <1>2. /\ gold = <<>> /\ held = <<>> /\ parcels = <<>> /\ letters = EmptyBag
        /\ queue = <<>> /\ read = <<>> /\ Shape
    BY <1>1 DEF IInv, Forgotten
  <1>3. IsQueue(queue)' /\ Future' = db /\ EverSound' /\ Sound(db)
    <2>1. IsQueue(queue)' /\ Future' = Future /\ EverSound'
      BY <1>1, SameQueue
    <2>2. Future = db
      BY <1>2, AtOnce DEF Future
    <2>. QED  BY <2>1, <2>2, FutureSound
  <1>4. /\ DOMAIN gold' = {} /\ DOMAIN held' = {} /\ DOMAIN parcels' = {} /\ DOMAIN letters' = {}
        /\ DOMAIN queue' = {} /\ DOMAIN read' = {}
    <2>1. DOMAIN letters' = {}
      BY <1>1, <1>2 DEF EmptyBag, SetToBag
    <2>. QED  BY <1>1, <1>2, <2>1, Empty
  <1>5. /\ Table(auctions') /\ DOMAIN auctions' = DOMAIN db.sale \cap DOMAIN db.item
        /\ \A i \in DOMAIN auctions' : auctions'[i] = db.sale[i]
    BY <1>1 DEF Restrict, Table
  <1>6. Shape'
    BY <1>1, <1>2, <1>4, <1>5 DEF Shape, Table, IsABag
  <1>7. AheadOf(Future)'
    <2>1. /\ known' = DOMAIN db.chars
          /\ \A i \in DOMAIN auctions' : Has(db.sale, i, auctions'[i])
          /\ \A i \in DOMAIN db.sale \ DOMAIN auctions' : i \notin DOMAIN db.item
      BY <1>1, <1>5 DEF Has
    <2>. QED  BY <1>3, <1>4, <2>1 DEF AheadOf, Has, Copies
  <1>8. LoginsKept'
    BY <1>4 DEF LoginsKept
  <1>. QED  BY <1>1, <1>3, <1>6, <1>7, <1>8 DEF IInv

LEMMA Start == Init => IInv
  <1>. SUFFICES ASSUME Init PROVE IInv
    OBVIOUS
  <1>1. /\ known = Characters /\ gold = <<>> /\ held = <<>> /\ parcels = <<>> /\ letters = EmptyBag
        /\ auctions = <<>> /\ queue = <<>> /\ read = <<>>
        /\ db.chars = StartGold /\ db.item = Home /\ db.inv = Home
        /\ db.sale = <<>> /\ db.post = <<>> /\ db.coins = EmptyBag
        /\ server = "up"
    BY DEF Init
  <1>2. /\ DOMAIN gold = {} /\ DOMAIN held = {} /\ DOMAIN parcels = {} /\ DOMAIN letters = {}
        /\ DOMAIN queue = {} /\ DOMAIN read = {} /\ DOMAIN auctions = {}
        /\ DOMAIN db.sale = {} /\ DOMAIN db.post = {} /\ DOMAIN db.chars = Characters
    <2>1. DOMAIN letters = {}
      BY <1>1 DEF EmptyBag, SetToBag
    <2>2. DOMAIN db.chars = Characters
      BY <1>1, HouseAssumption
    <2>. QED  BY <1>1, <2>1, <2>2, Empty
  <1>3. Sound(db)
    BY <1>1, <1>2, BagSingle DEF Sound
  <1>4. IsQueue(queue) /\ Len(queue) = 0 /\ After(db, queue)[0] = db /\ Future = db
    BY <1>1, AtOnce, QueueOne DEF Future
  <1>5. EverSound
    BY <1>3, <1>4 DEF EverSound
  <1>6. Shape
    BY <1>1, <1>2, Empty, BagSingle DEF Shape
  <1>7. AheadOf(db)
    <2>1. \A i \in DOMAIN db.inv : db.inv[i] \in online => i \in DOMAIN held
      BY <1>2
    <2>. QED  BY <1>1, <1>2, <2>1 DEF AheadOf, Has
  <1>8. LoginsKept
    BY <1>2 DEF LoginsKept
  <1>. QED  BY <1>1, <1>4, <1>5, <1>6, <1>7, <1>8 DEF IInv

LEMMA Step ==
  ASSUME IInv, [Next]_vars
  PROVE  IInv'
  <1>1. CASE UNCHANGED vars
    <2>1. UNCHANGED <<known, gold, held, parcels, letters, auctions, queue, read, db, server>>
      BY <1>1 DEF vars, memory
    <2>2. /\ IsQueue(queue)' /\ Future' = Future /\ EverSound'
          /\ After(db, queue)' = After(db, queue)
      BY <2>1, SameQueue
    <2>3. Shape' /\ (server = "down" => Forgotten')
      BY <2>1 DEF IInv, Shape, Table, IsABag, Forgotten
    <2>4. server = "up" => AheadOf(Future)'
      BY <2>1, <2>2 DEF IInv, AheadOf, Has, Copies
    <2>5. ASSUME server = "up" PROVE LoginsKept'
      <3>1. LoginsKept
        BY <2>5 DEF IInv
      <3>2. \A c \in DOMAIN read' : c \notin online' /\ Reads(read'[c], c, Future')
        BY <2>1, <2>2, <3>1 DEF LoginsKept
      <3>3. \A k \in DOMAIN queue' : \A c \in queue'[k].login :
               /\ c \notin online' \cup DOMAIN read'
               /\ Reads(RowsOf(After(db, queue)'[k - 1], c), c, Future')
        BY <2>1, <2>2, <3>1 DEF LoginsKept
      <3>4. \A j, k \in DOMAIN queue' : j # k => queue'[j].login \cap queue'[k].login = {}
        BY <2>1, <3>1 DEF LoginsKept
      <3>. QED  BY <3>2, <3>3, <3>4 DEF LoginsKept, RowsOf, Reads, After
    <2>. QED  BY <2>1, <2>2, <2>3, <2>4, <2>5 DEF IInv
  <1>2. CASE \E c \in Characters, i \in Items :
                \/ \E buyout \in Buyouts : HandleAuctionSellItem(c, i, buyout)
                \/ \E price \in Prices : PlaceBid(c, i, price) \/ BuyOut(c, i, price)
                \/ HandleAuctionRemoveItem(c, i)
                \/ HandleMailTakeItem(c, i)
    BY <1>2, SellStep, BidStep, BuyOutStep, CancelStep, TakeItemStep
  <1>3. CASE \E S \in SUBSET Items : Expire(S)
    BY <1>3, ExpireStep
  <1>4. CASE \E letter \in DOMAIN letters : HandleMailTakeMoney(letter)
    BY <1>4, TakeMoneyStep
  <1>5. CASE \E c \in Characters : \/ HandlePlayerLogin(c) \/ HandlePlayerLoginFromDB(c)
                                   \/ LogoutPlayer(c) \/ HandleCharDelete(c)
    BY <1>5, LoginStep, LoadStep, LogoutStep, CharDeleteStep
  <1>6. CASE Worker \/ Crash \/ Shutdown \/ Close \/ Boot
    BY <1>6, WorkerStep, ForgetStep, ShutdownStep, BootStep DEF Crash, Close
  <1>. QED  BY <1>1, <1>2, <1>3, <1>4, <1>5, <1>6 DEF Next

(* The invariant of every proof below. *)
THEOREM Inductive == Spec => []IInv
  BY Start, Step, PTL DEF Spec

LEMMA Ahead ==
  ASSUME IInv
  PROVE  WorldAhead
  <1>1. PICK f : f = Future
    OBVIOUS
  <1>2. SUFFICES ASSUME server = "up"
        PROVE  /\ known = DOMAIN f.chars
               /\ gold = Restrict(f.chars, online)
               /\ held = RestrictValues(f.inv, LAMBDA c : c \in online)
               /\ \A i \in DOMAIN parcels : i \in DOMAIN f.post /\ f.post[i] = parcels[i]
               /\ letters \sqsubseteq f.coins
               /\ \A i \in DOMAIN f.sale \ DOMAIN auctions : i \notin DOMAIN f.item
               /\ auctions = Restrict(f.sale, DOMAIN auctions)
    BY <1>1 DEF WorldAhead
  <1>3. AheadOf(f) /\ Shape /\ Sound(f)
    BY <1>1, <1>2, Up
  <1>4. gold = Restrict(f.chars, online)
    BY <1>3 DEF AheadOf, Shape, Table, Has, Restrict
  <1>5. held = RestrictValues(f.inv, LAMBDA c : c \in online)
    <2>1. DOMAIN held = {i \in DOMAIN f.inv : f.inv[i] \in online}
      BY <1>3 DEF AheadOf, Has
    <2>2. held = [i \in {j \in DOMAIN f.inv : f.inv[j] \in online} |-> f.inv[i]]
      BY <1>3, <2>1 DEF AheadOf, Shape, Table, Has
    <2>. QED  BY <2>2 DEF RestrictValues, Restrict
  <1>6. letters \sqsubseteq f.coins
    <2>1. IsABag(letters) /\ IsABag(f.coins)
      BY <1>3 DEF Shape, Sound
    <2>2. ASSUME NEW l PROVE Copies(l, letters) <= Copies(l, f.coins)
      <3>1. /\ Copies(l, letters) \in Nat /\ Copies(l, f.coins) \in Nat
            /\ l \in DOMAIN letters <=> Copies(l, letters) > 0
        BY <2>1, CopiesNat
      <3>. QED  BY <1>3, <3>1 DEF AheadOf
    <2>. QED  BY <2>1, <2>2, BagWithin
  <1>7. auctions = Restrict(f.sale, DOMAIN auctions)
    BY <1>3 DEF AheadOf, Shape, Table, Has, Restrict
  <1>. QED  BY <1>3, <1>4, <1>5, <1>6, <1>7 DEF AheadOf, Has

(* Whatever waits for the database worker, what it will make of the tables is what the
   server has in memory. *)
THEOREM MemoryAhead == Spec => []WorldAhead
  BY Inductive, Ahead, PTL

(* Whenever the server crashes, and however much of the queue is lost with it, no item is
   in two of the tables of inventories, auctions and mail. *)
THEOREM NoItemTwice == Spec => []Economy!ItemOnce
  <1>1. ASSUME IInv PROVE Economy!ItemOnce
    <2>1. Len(queue) \in Nat
      BY <1>1 DEF IInv, IsQueue
    <2>2. Sound(db)
      BY <1>1, <2>1, AfterUnfolds DEF IInv, EverSound
    <2>. QED  BY <2>2 DEF Sound, Economy!ItemOnce
  <1>. QED  BY <1>1, Inductive, PTL
-----------------------------------------------------------------------------
(* The operations behind the transactions. *)

EconomyProofs == INSTANCE AuctionEconomy_proofs
    WITH chars <- db.chars, item <- db.item, inv <- db.inv,
         sale <- db.sale, post <- db.post, coins <- db.coins

(* The rows of d have the types of their columns, and no bid reaches the buyout price. *)
Typed(d) ==
    /\ Table(d.chars) /\ Table(d.item) /\ Table(d.inv) /\ Table(d.sale) /\ Table(d.post)
    /\ DOMAIN d.chars \subseteq Characters /\ \A c \in DOMAIN d.chars : d.chars[c] \in Nat
    /\ \A i \in DOMAIN d.sale : /\ d.sale[i] \in Economy!Sale
                                /\ d.sale[i].buyout = 0 \/ d.sale[i].bid < d.sale[i].buyout
    /\ IsABag(d.coins)
    /\ \A l \in DOMAIN d.coins : l.to \in Characters /\ l.gold \in Nat

(* The letters of AuctionEconomy, for the database d. *)
LetterIn(d, c, n) == IF c \in DOMAIN d.chars THEN SetToBag({[to |-> c, gold |-> n]}) ELSE EmptyBag
RefundIn(d, c, s) == IF s.bidder = c THEN EmptyBag ELSE LetterIn(d, s.bidder, s.bid)
ProfitIn(d, s) == IF s.bidder = Nobody THEN EmptyBag
                  ELSE LetterIn(d, s.owner, s.bid + Deposit - Economy!AuctionCut(s.bid))
Earns(d, S, l) == {i \in S : l \in DOMAIN ProfitIn(d, d.sale[i])}
ProfitsIn(d, S) ==
    [l \in UNION {DOMAIN ProfitIn(d, d.sale[i]) : i \in S} |-> Cardinality(Earns(d, S, l))]

CanPayIn(d, c, n) == c \in DOMAIN d.chars /\ d.chars[c] >= n
PriceOf(c, s, price) == IF s.bidder = c THEN price - s.bid ELSE price
FeeOf(s) == IF s.bidder = Nobody THEN 0 ELSE Economy!AuctionCut(s.bid)
SentIn(d, S) == {i \in S : Economy!Receiver(d.sale[i]) \in DOMAIN d.chars}
MailIn(d, S) == [i \in SentIn(d, S) |-> Economy!Receiver(d.sale[i])]

(* Each of these says that t is what the handler of one operation commits when the database
   will be d: the operation is possible in d, and t writes what it changes. *)
Sells(d, t) ==
    \E c \in Characters, i \in Items, buyout \in Buyouts :
        /\ Has(d.inv, i, c) /\ CanPayIn(d, c, Deposit)
        /\ t = [NoWrites EXCEPT !.gold = Row(c, d.chars[c] - Deposit), !.uninv = {i},
                  !.sale = Row(i, [owner |-> c, buyout |-> buyout, bidder |-> Nobody, bid |-> 0])]

Bids(d, t) ==
    \E c \in Characters, i \in Items \cap DOMAIN d.sale, price \in Prices :
        LET s == d.sale[i] IN
        /\ c # s.owner /\ price > s.bid /\ price >= StartBid /\ CanPayIn(d, c, price)
        /\ s.buyout = 0 \/ price < s.buyout
        /\ t = [NoWrites EXCEPT !.gold = Row(c, d.chars[c] - PriceOf(c, s, price)),
                                !.bid = Row(i, Economy!WithBid(s, c, price)),
                                !.coins = RefundIn(d, c, s)]

BuysOut(d, t) ==
    \E c \in Characters, i \in Items \cap DOMAIN d.sale :
        LET s == d.sale[i] IN
        /\ c # s.owner /\ s.buyout > s.bid /\ CanPayIn(d, c, s.buyout)
        /\ t = [NoWrites EXCEPT !.owner = Row(i, c), !.post = Row(i, c), !.unsale = {i},
                  !.gold = Row(c, d.chars[c] - PriceOf(c, s, s.buyout)),
                  !.coins = RefundIn(d, c, s) (+) ProfitIn(d, Economy!WithBid(s, c, s.buyout))]

Cancels(d, t) ==
    \E i \in Items \cap DOMAIN d.sale :
        LET s == d.sale[i] IN
        /\ CanPayIn(d, s.owner, FeeOf(s))
        /\ t = [NoWrites EXCEPT !.gold = Row(s.owner, d.chars[s.owner] - FeeOf(s)), !.unsale = {i},
                                !.post = Row(i, s.owner), !.coins = LetterIn(d, s.bidder, s.bid)]

Destroys(d, t) ==
    \E i \in Items \cap DOMAIN d.sale :
        Economy!Receiver(d.sale[i]) \notin DOMAIN d.chars /\ t = RemoveAItem(i)

Settles(d, t) ==
    \E S \in SUBSET Items :
        /\ S # {} /\ S \subseteq DOMAIN d.sale
        /\ \A i \in S \ SentIn(d, S) : i \notin DOMAIN d.item
        /\ \E won : /\ \A i \in DOMAIN won : i \in SentIn(d, S) /\ won[i] = MailIn(d, S)[i]
                    /\ \A i \in SentIn(d, S) : i \notin DOMAIN won => d.sale[i].bidder = Nobody
                    /\ t = [NoWrites EXCEPT !.owner = won, !.unsale = S, !.post = MailIn(d, S),
                                            !.coins = ProfitsIn(d, S)]

TakesItem(d, t) ==
    \E i \in Items \cap DOMAIN d.post :
        LET c == d.post[i] IN
        /\ c \in DOMAIN d.chars
        /\ t = [NoWrites EXCEPT !.inv = Row(i, c), !.item = Row(i, c), !.unpost = {i},
                                !.gold = Row(c, d.chars[c])]

TakesMoney(d, t) ==
    \E l \in DOMAIN d.coins :
        /\ l.to \in DOMAIN d.chars
        /\ t = [NoWrites EXCEPT !.gold = Row(l.to, d.chars[l.to] + l.gold), !.spent = SetToBag({l})]

Deletes(d, t) == \E c \in DOMAIN d.chars : t = DeleteFromDB(c)

(* A player who leaves is saved as he is, and queries write nothing. *)
Repeats(d, t) ==
    \/ \E c \in DOMAIN d.chars : t = [NoWrites EXCEPT !.gold = Row(c, d.chars[c])]
    \/ \E c : t = LoginQueries(c)

Lawful(d, t) ==
    \/ Sells(d, t) \/ Bids(d, t) \/ BuysOut(d, t) \/ Cancels(d, t) \/ Destroys(d, t)
    \/ Settles(d, t) \/ TakesItem(d, t) \/ TakesMoney(d, t) \/ Deletes(d, t) \/ Repeats(d, t)

(* Every request that waits is lawful when its turn comes. *)
EverLawful == \A k \in 1..Len(queue) : Lawful(After(db, queue)[k - 1], queue[k])

(* The gold of the players who are still in the world when the server stops. *)
GoldKept == \A c \in online : Has(Future.chars, c, gold[c])

LInv == /\ IInv /\ Typed(db) /\ EverLawful
        /\ server = "closing" => GoldKept
        /\ EconomyProofs!FInv

-----------------------------------------------------------------------------
(* Bags that hold the same letters are the same. *)
LEMMA SameBag ==
  ASSUME NEW A, IsABag(A), NEW B, IsABag(B), \A l : Copies(l, A) = Copies(l, B)
  PROVE  A = B
  <1>1. DOMAIN A = DOMAIN B
    BY CopiesNat
  <1>2. \A l \in DOMAIN A : A[l] = B[l]
    BY <1>1 DEF Copies
  <1>3. A = [l \in DOMAIN A |-> A[l]] /\ B = [l \in DOMAIN B |-> B[l]]
    BY DEF IsABag
  <1>. QED  BY <1>1, <1>2, <1>3

LEMMA BagSums ==
  ASSUME NEW A, IsABag(A), NEW B, IsABag(B), NEW C, IsABag(C)
  PROVE  A (+) (B (+) C) = (A (+) B) (+) C
  <1>1. IsABag(A (+) B) /\ IsABag(B (+) C) /\ IsABag(A (+) (B (+) C)) /\ IsABag((A (+) B) (+) C)
    BY BagPlus
  <1>2. ASSUME NEW l PROVE Copies(l, A (+) (B (+) C)) = Copies(l, (A (+) B) (+) C)
    <2>1. Copies(l, A) \in Nat /\ Copies(l, B) \in Nat /\ Copies(l, C) \in Nat
      BY CopiesNat
    <2>2. /\ Copies(l, A (+) (B (+) C)) = Copies(l, A) + (Copies(l, B) + Copies(l, C))
          /\ Copies(l, (A (+) B) (+) C) = (Copies(l, A) + Copies(l, B)) + Copies(l, C)
      BY <1>1, BagPlus
    <2>. QED  BY <2>1, <2>2
  <1>. QED  BY <1>1, <1>2, SameBag

LEMMA SingleCopy ==
  ASSUME NEW x
  PROVE  /\ IsABag(SetToBag({x})) /\ DOMAIN SetToBag({x}) = {x}
         /\ IsABag(EmptyBag) /\ DOMAIN EmptyBag = {}
  BY DEF IsABag, SetToBag, EmptyBag

(* The house never keeps more than the bid. *)
LEMMA CutBound ==
  ASSUME NEW b \in Nat
  PROVE  Economy!AuctionCut(b) \in 0..b
  <1>1. CutPercent \in 0..100
    BY HouseAssumption
  <1>2. PICK p \in 0..100 : p = CutPercent
    BY <1>1
  <1>3. b * (100 - p) >= 0 /\ b * p >= 0 /\ b * p \in Nat /\ b * (100 - p) = b * 100 - b * p
    BY <1>2
  <1>4. PICK m \in Nat : m = b * p
    BY <1>3
  <1>5. m <= b * 100
    BY <1>3, <1>4
  <1>6. m \div 100 \in 0..b
    BY <1>4, <1>5
  <1>. QED  BY <1>2, <1>4, <1>6 DEF Economy!AuctionCut

-----------------------------------------------------------------------------
(* What a transaction makes of each table. *)

ItemsSpared(table, c) == RestrictValues(table, LAMBDA o : o # c)
LettersSpared(bag, c) == RestrictDomain(bag, LAMBDA l : l.to # c)

(* e has the tables that t, which deletes no character, makes of d. *)
Tables(d, t, e) ==
    /\ e.chars = [c \in DOMAIN d.chars |-> IF c \in DOMAIN t.gold THEN t.gold[c] ELSE d.chars[c]]
    /\ e.item = [i \in DOMAIN t.item \cup (DOMAIN d.item \ t.gone) |->
                    IF i \in DOMAIN t.item THEN t.item[i]
                    ELSE IF i \in DOMAIN t.owner THEN t.owner[i] ELSE d.item[i]]
    /\ e.inv = [i \in DOMAIN t.inv \cup (DOMAIN d.inv \ t.uninv) |->
                   IF i \in DOMAIN t.inv THEN t.inv[i] ELSE d.inv[i]]
    /\ e.sale = [i \in DOMAIN t.sale \cup (DOMAIN d.sale \ t.unsale) |->
                    IF i \in DOMAIN t.sale THEN t.sale[i]
                    ELSE IF i \in DOMAIN t.bid THEN t.bid[i] ELSE d.sale[i]]
    /\ e.post = [i \in DOMAIN t.post \cup (DOMAIN d.post \ t.unpost) |->
                    IF i \in DOMAIN t.post THEN t.post[i] ELSE d.post[i]]
    /\ e.coins = LettersTo((d.coins (+) t.coins) (-) t.spent, Characters)

LEMMA ExecuteTables ==
  ASSUME NEW d, NEW t, t.purge = {}, NEW e, e = Execute(d, t)
  PROVE  Tables(d, t, e)
  <1>1. /\ e.chars = Without(Update(d.chars, t.gold), t.purge)
        /\ e.item  = Put(t.item, Without(Spared(Update(d.item, t.owner), t.purge), t.gone))
        /\ e.inv   = Put(t.inv, Without(Spared(d.inv, t.purge), t.uninv))
        /\ e.sale  = Put(t.sale, Without(Update(d.sale, t.bid), t.unsale))
        /\ e.post  = Put(t.post, Without(Spared(d.post, t.purge), t.unpost))
        /\ e.coins = LettersTo((d.coins (+) t.coins) (-) t.spent, Characters \ t.purge)
    BY DEF Execute, Spared
  <1>2. ASSUME NEW f PROVE Spared(f, {}) = [x \in DOMAIN f |-> f[x]]
    BY DEF Spared, RestrictValues, Restrict
  <1>3. ASSUME NEW f, NEW n PROVE Update(f, n) = [x \in DOMAIN f |-> IF x \in DOMAIN n THEN n[x] ELSE f[x]]
    BY DEF Update
  <1>4. ASSUME NEW f, NEW K PROVE Without(f, K) = [x \in DOMAIN f \ K |-> f[x]]
    BY DEF Without, Restrict
  <1>6. e.chars = [c \in DOMAIN d.chars |-> IF c \in DOMAIN t.gold THEN t.gold[c] ELSE d.chars[c]]
    BY <1>1, <1>3, <1>4
  <1>7. e.item = [i \in DOMAIN t.item \cup (DOMAIN d.item \ t.gone) |->
                     IF i \in DOMAIN t.item THEN t.item[i]
                     ELSE IF i \in DOMAIN t.owner THEN t.owner[i] ELSE d.item[i]]
    <2>1. PICK g : g = [x \in DOMAIN d.item |-> IF x \in DOMAIN t.owner THEN t.owner[x] ELSE d.item[x]]
      OBVIOUS
    <2>2. Spared(Update(d.item, t.owner), {}) = g
      BY <1>2, <1>3, <2>1
    <2>3. Put(t.item, Without(g, t.gone)) = [x \in DOMAIN t.item \cup (DOMAIN g \ t.gone) |->
                                                IF x \in DOMAIN t.item THEN t.item[x] ELSE g[x]]
      BY DEF Put, Without, Restrict
    <2>4. e.item = Put(t.item, Without(g, t.gone))
      BY <1>1, <2>2
    <2>. QED  BY <2>1, <2>3, <2>4
  <1>5. e.sale = [i \in DOMAIN t.sale \cup (DOMAIN d.sale \ t.unsale) |->
                     IF i \in DOMAIN t.sale THEN t.sale[i]
                     ELSE IF i \in DOMAIN t.bid THEN t.bid[i] ELSE d.sale[i]]
    <2>1. PICK g : g = [x \in DOMAIN d.sale |-> IF x \in DOMAIN t.bid THEN t.bid[x] ELSE d.sale[x]]
      OBVIOUS
    <2>2. Update(d.sale, t.bid) = g
      BY <1>3, <2>1
    <2>3. Put(t.sale, Without(g, t.unsale)) = [x \in DOMAIN t.sale \cup (DOMAIN g \ t.unsale) |->
                                                IF x \in DOMAIN t.sale THEN t.sale[x] ELSE g[x]]
      BY DEF Put, Without, Restrict
    <2>4. e.sale = Put(t.sale, Without(g, t.unsale))
      BY <1>1, <2>2
    <2>. QED  BY <2>1, <2>3, <2>4
  <1>8. /\ e.inv = [i \in DOMAIN t.inv \cup (DOMAIN d.inv \ t.uninv) |->
                        IF i \in DOMAIN t.inv THEN t.inv[i] ELSE d.inv[i]]
         /\ e.post = [i \in DOMAIN t.post \cup (DOMAIN d.post \ t.unpost) |->
                        IF i \in DOMAIN t.post THEN t.post[i] ELSE d.post[i]]
    <2>1. PICK f, g : f = [x \in DOMAIN d.inv |-> d.inv[x]] /\ g = [x \in DOMAIN d.post |-> d.post[x]]
      OBVIOUS
    <2>2. Spared(d.inv, {}) = f /\ Spared(d.post, {}) = g
      BY <1>2, <2>1
    <2>3. /\ Put(t.inv, Without(f, t.uninv)) = [x \in DOMAIN t.inv \cup (DOMAIN f \ t.uninv) |->
                                                   IF x \in DOMAIN t.inv THEN t.inv[x] ELSE f[x]]
          /\ Put(t.post, Without(g, t.unpost)) = [x \in DOMAIN t.post \cup (DOMAIN g \ t.unpost) |->
                                                   IF x \in DOMAIN t.post THEN t.post[x] ELSE g[x]]
      BY DEF Put, Without, Restrict
    <2>4. e.inv = Put(t.inv, Without(f, t.uninv)) /\ e.post = Put(t.post, Without(g, t.unpost))
      BY <1>1, <2>2
    <2>. QED  BY <2>1, <2>3, <2>4
  <1>9. e.coins = LettersTo((d.coins (+) t.coins) (-) t.spent, Characters)
    <2>1. Characters \ t.purge = Characters
      OBVIOUS
    <2>. QED  BY <1>1, <2>1
  <1>. QED  BY <1>5, <1>6, <1>7, <1>8, <1>9 DEF Tables

(* Letters are only added. *)
LEMMA MoreLetters ==
  ASSUME NEW d, Typed(d), NEW t, t.purge = {}, t.spent = EmptyBag, IsABag(t.coins),
         \A l \in DOMAIN t.coins : l.to \in Characters, NEW e, e = Execute(d, t)
  PROVE  e.coins = d.coins (+) t.coins
  <1>1. IsABag(d.coins) /\ IsABag(t.spent) /\ \A l : Copies(l, t.spent) = 0
    BY BagSingle DEF Typed
  <1>2. /\ IsABag(e.coins)
        /\ \A l : Copies(l, e.coins) =
              IF l.to \notin Characters \ t.purge THEN 0
              ELSE IF Copies(l, d.coins) + Copies(l, t.coins) > Copies(l, t.spent)
                   THEN Copies(l, d.coins) + Copies(l, t.coins) - Copies(l, t.spent) ELSE 0
    BY <1>1, CoinsAfter
  <1>3. /\ IsABag(d.coins (+) t.coins)
        /\ \A l : Copies(l, d.coins (+) t.coins) = Copies(l, d.coins) + Copies(l, t.coins)
    BY <1>1, BagPlus
  <1>4. ASSUME NEW l PROVE Copies(l, e.coins) = Copies(l, d.coins (+) t.coins)
    <2>1. /\ Copies(l, d.coins) \in Nat /\ Copies(l, t.coins) \in Nat
          /\ l.to \notin Characters => Copies(l, d.coins) = 0 /\ Copies(l, t.coins) = 0
      BY <1>1, CopiesNat DEF Typed, Copies
    <2>2. Copies(l, d.coins (+) t.coins) = Copies(l, d.coins) + Copies(l, t.coins)
      BY <1>3
    <2>3. Copies(l, e.coins) =
              IF l.to \notin Characters \ t.purge THEN 0
              ELSE IF Copies(l, d.coins) + Copies(l, t.coins) > Copies(l, t.spent)
                   THEN Copies(l, d.coins) + Copies(l, t.coins) - Copies(l, t.spent) ELSE 0
      BY <1>2
    <2>4. Copies(l, t.spent) = 0
      BY <1>1
    <2>. QED  BY <2>1, <2>2, <2>3, <2>4
  <1>. QED  BY <1>2, <1>3, <1>4, SameBag

LEMMA SameLetters ==
  ASSUME NEW d, Typed(d), NEW t, t.purge = {}, t.spent = EmptyBag, t.coins = EmptyBag,
         NEW e, e = Execute(d, t)
  PROVE  e.coins = d.coins
  <1>1. IsABag(t.coins) /\ DOMAIN t.coins = {} /\ \A l : Copies(l, t.coins) = 0 /\ IsABag(d.coins)
    BY BagSingle, SingleCopy DEF Typed
  <1>2. e.coins = d.coins (+) t.coins
    BY <1>1, MoreLetters
  <1>3. /\ IsABag(d.coins (+) t.coins)
        /\ \A l : Copies(l, d.coins (+) t.coins) = Copies(l, d.coins) + Copies(l, t.coins)
    BY <1>1, BagPlus
  <1>4. ASSUME NEW l PROVE Copies(l, d.coins (+) t.coins) = Copies(l, d.coins)
    <2>1. Copies(l, d.coins) \in Nat
      BY <1>1, CopiesNat
    <2>. QED  BY <1>1, <1>3, <2>1
  <1>. QED  BY <1>1, <1>2, <1>3, <1>4, SameBag

-----------------------------------------------------------------------------
(* What is lawful is a step of AuctionEconomy. *)

LEMMA EconomyBags ==
  /\ Economy!EmptyBag = EmptyBag
  /\ \A S : Economy!SetToBag(S) = SetToBag(S)
  /\ \A A, B : Economy!(+)(A, B) = A (+) B
  /\ \A A, B : Economy!(-)(A, B) = A (-) B
  BY DEF Economy!EmptyBag, EmptyBag, Economy!SetToBag, SetToBag, Economy!(+), (+), Economy!(-), (-)

LEMMA EconomyCardinality == \A S : Economy!Cardinality(S) = Cardinality(S)
  BY DEF Economy!Cardinality, Cardinality

LEMMA EconomyLetters ==
  /\ \A c, n : Economy!Letter(c, n) = LetterIn(db, c, n)
  /\ \A c, s : Economy!Refund(c, s) = RefundIn(db, c, s)
  /\ \A s : Economy!Profit(s) = ProfitIn(db, s)
  /\ \A S : Economy!Profits(S) = ProfitsIn(db, S)
  <1>1. ASSUME NEW c, NEW n PROVE Economy!Letter(c, n) = LetterIn(db, c, n)
    BY EconomyBags DEF Economy!Letter, LetterIn
  <1>2. ASSUME NEW c, NEW s PROVE Economy!Refund(c, s) = RefundIn(db, c, s)
    BY <1>1, EconomyBags DEF Economy!Refund, RefundIn
  <1>3. ASSUME NEW s PROVE Economy!Profit(s) = ProfitIn(db, s)
    BY <1>1, EconomyBags DEF Economy!Profit, ProfitIn
  <1>4. ASSUME NEW S PROVE Economy!Profits(S) = ProfitsIn(db, S)
    <2>1. \A i : Economy!Profit(db.sale[i]) = ProfitIn(db, db.sale[i])
      BY <1>3
    <2>2. \A l : {i \in S : l \in DOMAIN Economy!Profit(db.sale[i])} = Earns(db, S, l)
      BY <2>1 DEF Earns
    <2>3. {DOMAIN Economy!Profit(db.sale[i]) : i \in S} = {DOMAIN ProfitIn(db, db.sale[i]) : i \in S}
      BY <2>1
    <2>4. Economy!Profits(S) =
             [l \in UNION {DOMAIN Economy!Profit(db.sale[i]) : i \in S} |->
                 Cardinality({i \in S : l \in DOMAIN Economy!Profit(db.sale[i])})]
      BY EconomyCardinality DEF Economy!Profits
    <2>5. ProfitsIn(db, S) = [l \in UNION {DOMAIN Economy!Profit(db.sale[i]) : i \in S} |->
                                 Cardinality({i \in S : l \in DOMAIN Economy!Profit(db.sale[i])})]
      BY <2>2, <2>3 DEF ProfitsIn
    <2>. QED  BY <2>4, <2>5
  <1>. QED  BY <1>1, <1>2, <1>3, <1>4

LEMMA LetterTyped ==
  ASSUME NEW d, Typed(d), NEW c, NEW n \in Nat
  PROVE  /\ IsABag(LetterIn(d, c, n))
         /\ \A l \in DOMAIN LetterIn(d, c, n) : l.to \in Characters /\ l.gold \in Nat
  <1>1. CASE c \in DOMAIN d.chars
    <2>1. LetterIn(d, c, n) = SetToBag({[to |-> c, gold |-> n]})
      BY <1>1 DEF LetterIn
    <2>2. IsABag(LetterIn(d, c, n)) /\ DOMAIN LetterIn(d, c, n) = {[to |-> c, gold |-> n]}
      BY <2>1, SingleCopy
    <2>3. c \in Characters
      BY <1>1 DEF Typed
    <2>. QED  BY <2>2, <2>3
  <1>2. CASE c \notin DOMAIN d.chars
    <2>1. LetterIn(d, c, n) = EmptyBag
      BY <1>2 DEF LetterIn
    <2>. QED  BY <2>1, SingleCopy
  <1>. QED  BY <1>1, <1>2

(* The letters an auction sends when it ends or is outbid. *)
LEMMA SaleLetters ==
  ASSUME NEW d, Typed(d), NEW s \in Economy!Sale, NEW c
  PROVE  /\ IsABag(RefundIn(d, c, s)) /\ IsABag(ProfitIn(d, s))
         /\ \A l \in DOMAIN RefundIn(d, c, s) \cup DOMAIN ProfitIn(d, s) :
               l.to \in Characters /\ l.gold \in Nat
  <1>1. s.bid \in Nat /\ s.bid + Deposit - Economy!AuctionCut(s.bid) \in Nat
    <2>1. s.bid \in Nat
      BY DEF Economy!Sale
    <2>2. Economy!AuctionCut(s.bid) \in 0..s.bid
      BY <2>1, CutBound
    <2>. QED  BY <2>1, <2>2, HouseAssumption
  <1>2. /\ IsABag(RefundIn(d, c, s))
        /\ \A l \in DOMAIN RefundIn(d, c, s) : l.to \in Characters /\ l.gold \in Nat
    BY <1>1, LetterTyped, SingleCopy DEF RefundIn
  <1>3. /\ IsABag(ProfitIn(d, s))
        /\ \A l \in DOMAIN ProfitIn(d, s) : l.to \in Characters /\ l.gold \in Nat
    BY <1>1, LetterTyped, SingleCopy DEF ProfitIn
  <1>. QED  BY <1>2, <1>3

LEMMA LettersSum ==
  ASSUME NEW A, IsABag(A), NEW B, IsABag(B)
  PROVE  IsABag(A (+) B) /\ DOMAIN (A (+) B) = DOMAIN A \cup DOMAIN B
  BY DEF IsABag, (+)

(* One letter for each seller of S, and nothing else. *)
LEMMA ProfitsTyped ==
  ASSUME NEW d, Typed(d), NEW S \in SUBSET Items, S \subseteq DOMAIN d.sale
  PROVE  /\ IsABag(ProfitsIn(d, S))
         /\ \A l \in DOMAIN ProfitsIn(d, S) : l.to \in Characters /\ l.gold \in Nat
  <1>. DEFINE D == UNION {DOMAIN ProfitIn(d, d.sale[i]) : i \in S}
  <1>1. IsFiniteSet(S)
    BY HouseAssumption, FS_Subset
  <1>2. ASSUME NEW l \in D
        PROVE  Cardinality(Earns(d, S, l)) \in Nat \ {0} /\ l.to \in Characters /\ l.gold \in Nat
    <2>1. PICK i \in S : l \in DOMAIN ProfitIn(d, d.sale[i])
      OBVIOUS
    <2>2. i \in Earns(d, S, l) /\ Earns(d, S, l) \subseteq S
      BY <2>1 DEF Earns
    <2>3. IsFiniteSet(Earns(d, S, l)) /\ Earns(d, S, l) # {}
      BY <1>1, <2>2, FS_Subset
    <2>4. Cardinality(Earns(d, S, l)) \in Nat \ {0}
      BY <2>3, FS_EmptySet, FS_CardinalityType
    <2>5. d.sale[i] \in Economy!Sale
      BY DEF Typed
    <2>6. l.to \in Characters /\ l.gold \in Nat
      BY <2>1, <2>5, SaleLetters
    <2>. QED  BY <2>4, <2>6
  <1>3. ProfitsIn(d, S) = [l \in D |-> Cardinality(Earns(d, S, l))]
    BY DEF ProfitsIn
  <1>. HIDE DEF D
  <1>4. IsABag(ProfitsIn(d, S))
    BY <1>2, <1>3 DEF IsABag
  <1>. QED  BY <1>2, <1>3, <1>4

LEMMA SellImplements ==
  ASSUME Typed(db), NEW t, Sells(db, t), db' = Execute(db, t)
  PROVE  Economy!Next
  <1>1. PICK c \in Characters, i \in Items, buyout \in Buyouts :
           /\ Has(db.inv, i, c) /\ CanPayIn(db, c, Deposit)
           /\ t = [NoWrites EXCEPT !.gold = Row(c, db.chars[c] - Deposit), !.uninv = {i},
                     !.sale = Row(i, [owner |-> c, buyout |-> buyout, bidder |-> Nobody, bid |-> 0])]
    BY DEF Sells
  <1>. DEFINE s == [owner |-> c, buyout |-> buyout, bidder |-> Nobody, bid |-> 0]
  <1>2. /\ t.gold = Row(c, db.chars[c] - Deposit) /\ t.uninv = {i} /\ t.sale = Row(i, s)
        /\ t.inv = <<>> /\ t.item = <<>> /\ t.owner = <<>> /\ t.gone = {} /\ t.bid = <<>> /\ t.unsale = {}
        /\ t.post = <<>> /\ t.unpost = {} /\ t.coins = EmptyBag /\ t.spent = EmptyBag
        /\ t.purge = {}
    BY <1>1 DEF NoWrites
  <1>. HIDE DEF s
  <1>3. db'.coins = db.coins
    BY <1>2, SameLetters
  <1>4. Tables(db, t, db')
    BY <1>2, ExecuteTables
  <1>5. db'.chars = [db.chars EXCEPT ![c] = @ - Deposit]
    BY <1>1, <1>2, <1>4 DEF Tables, Row, Typed, Table, CanPayIn
  <1>6. db'.item = db.item /\ db'.post = db.post
    BY <1>2, <1>4, Empty DEF Tables, Typed, Table
  <1>7. db'.inv = Economy!WithoutKeys(db.inv, {i})
    BY <1>2, <1>4, Empty DEF Tables, Typed, Table, Economy!WithoutKeys, Economy!Restrict
  <1>8. db'.sale = Economy!Put(db.sale, i, s)
    BY <1>2, <1>4, Empty DEF Tables, Row, Typed, Table, Economy!Put
  <1>9. Economy!Sell(c, i, buyout)
    BY <1>1, <1>3, <1>5, <1>6, <1>7, <1>8 DEF Economy!Sell, Economy!CanPay, CanPayIn, Has, s
  <1>. QED  BY <1>9 DEF Economy!Next

LEMMA BidImplements ==
  ASSUME Typed(db), NEW t, Bids(db, t), db' = Execute(db, t)
  PROVE  Economy!Next
  <1>1. PICK c \in Characters, i \in Items \cap DOMAIN db.sale, price \in Prices :
           LET s == db.sale[i] IN
           /\ c # s.owner /\ price > s.bid /\ price >= StartBid /\ CanPayIn(db, c, price)
           /\ s.buyout = 0 \/ price < s.buyout
           /\ t = [NoWrites EXCEPT !.gold = Row(c, db.chars[c] - PriceOf(c, s, price)),
                                   !.bid = Row(i, Economy!WithBid(s, c, price)),
                                   !.coins = RefundIn(db, c, s)]
    BY DEF Bids
  <1>. DEFINE s == db.sale[i]
              new == Economy!WithBid(s, c, price)
  <1>2. /\ t.gold = Row(c, db.chars[c] - PriceOf(c, s, price)) /\ t.bid = Row(i, new)
        /\ t.uninv = {} /\ t.sale = <<>>
        /\ t.inv = <<>> /\ t.item = <<>> /\ t.owner = <<>> /\ t.gone = {} /\ t.unsale = {}
        /\ t.post = <<>> /\ t.unpost = {} /\ t.coins = RefundIn(db, c, s) /\ t.spent = EmptyBag
        /\ t.purge = {}
    BY <1>1 DEF NoWrites
  <1>. HIDE DEF new
  <1>3. db'.coins = db.coins (+) RefundIn(db, c, s)
    <2>1. s \in Economy!Sale
      BY DEF Typed
    <2>2. IsABag(t.coins) /\ \A l \in DOMAIN t.coins : l.to \in Characters
      BY <1>2, <2>1, SaleLetters
    <2>. QED  BY <1>2, <2>2, MoreLetters
  <1>4. Tables(db, t, db')
    BY <1>2, ExecuteTables
  <1>5. db'.chars = [db.chars EXCEPT ![c] = @ - PriceOf(c, s, price)]
    <2>1. PICK p : p = PriceOf(c, s, price)
      OBVIOUS
    <2>2. t.gold = Row(c, db.chars[c] - p) /\ c \in DOMAIN db.chars
      BY <1>1, <1>2, <2>1 DEF CanPayIn
    <2>3. db'.chars = [db.chars EXCEPT ![c] = @ - p]
      BY <1>4, <2>2 DEF Tables, Row, Typed, Table
    <2>. QED  BY <2>1, <2>3
  <1>6. db'.item = db.item /\ db'.post = db.post /\ db'.inv = db.inv
    BY <1>2, <1>4, Empty DEF Tables, Typed, Table
  <1>7. db'.sale = Economy!Put(db.sale, i, new)
    BY <1>2, <1>4, Empty DEF Tables, Row, Typed, Table, Economy!Put
  <1>8. db'.coins = Economy!(+)(db.coins, Economy!Refund(c, s))
    BY <1>3, EconomyBags, EconomyLetters
  <1>9. Economy!Bid(c, i, price)
    BY <1>1, <1>5, <1>6, <1>7, <1>8
    DEF Economy!Bid, Economy!Offered, Economy!CanPay, Economy!Pay, CanPayIn, PriceOf, new
  <1>. QED  BY <1>9 DEF Economy!Next

LEMMA BuyoutImplements ==
  ASSUME Typed(db), NEW t, BuysOut(db, t), db' = Execute(db, t)
  PROVE  Economy!Next
  <1>1. PICK c \in Characters, i \in Items \cap DOMAIN db.sale :
           LET s == db.sale[i] IN
           /\ c # s.owner /\ s.buyout > s.bid /\ CanPayIn(db, c, s.buyout)
           /\ t = [NoWrites EXCEPT !.owner = Row(i, c), !.post = Row(i, c), !.unsale = {i},
                     !.gold = Row(c, db.chars[c] - PriceOf(c, s, s.buyout)),
                     !.coins = RefundIn(db, c, s) (+) ProfitIn(db, Economy!WithBid(s, c, s.buyout))]
    BY DEF BuysOut
  <1>. DEFINE s == db.sale[i]
              new == Economy!WithBid(s, c, s.buyout)
  <1>2. /\ t.gold = Row(c, db.chars[c] - PriceOf(c, s, s.buyout)) /\ t.bid = <<>>
        /\ t.uninv = {} /\ t.sale = <<>>
        /\ t.inv = <<>> /\ t.item = <<>> /\ t.owner = Row(i, c) /\ t.gone = {} /\ t.unsale = {i}
        /\ t.post = Row(i, c) /\ t.unpost = {} /\ t.spent = EmptyBag /\ t.purge = {}
        /\ t.coins = RefundIn(db, c, s) (+) ProfitIn(db, new)
    BY <1>1 DEF NoWrites
  <1>3. s \in Economy!Sale /\ new \in Economy!Sale
    BY DEF Typed, Economy!Sale, Economy!WithBid
  <1>. HIDE DEF new
  <1>4. /\ IsABag(RefundIn(db, c, s)) /\ IsABag(ProfitIn(db, new))
        /\ \A l \in DOMAIN RefundIn(db, c, s) \cup DOMAIN ProfitIn(db, new) : l.to \in Characters
    BY <1>3, SaleLetters
  <1>5. db'.coins = (db.coins (+) RefundIn(db, c, s)) (+) ProfitIn(db, new)
    <2>1. IsABag(t.coins) /\ DOMAIN t.coins = DOMAIN RefundIn(db, c, s) \cup DOMAIN ProfitIn(db, new)
      BY <1>2, <1>4, LettersSum
    <2>2. db'.coins = db.coins (+) t.coins
      BY <1>2, <1>4, <2>1, MoreLetters
    <2>. QED  BY <1>2, <1>4, <2>2, BagSums DEF Typed
  <1>6. Tables(db, t, db')
    BY <1>2, ExecuteTables
  <1>7. db'.chars = [db.chars EXCEPT ![c] = @ - PriceOf(c, s, s.buyout)]
    <2>1. PICK p : p = PriceOf(c, s, s.buyout)
      OBVIOUS
    <2>2. t.gold = Row(c, db.chars[c] - p) /\ c \in DOMAIN db.chars
      BY <1>1, <1>2, <2>1 DEF CanPayIn
    <2>3. db'.chars = [db.chars EXCEPT ![c] = @ - p]
      BY <1>6, <2>2 DEF Tables, Row, Typed, Table
    <2>. QED  BY <2>1, <2>3
  <1>8. db'.inv = db.inv
    BY <1>2, <1>6, Empty DEF Tables, Typed, Table
  <1>9. db'.sale = Economy!WithoutKeys(db.sale, {i})
    BY <1>2, <1>6, Empty DEF Tables, Typed, Table, Economy!WithoutKeys, Economy!Restrict
  <1>10. db'.post = Economy!Put(db.post, i, c)
    BY <1>2, <1>6 DEF Tables, Row, Typed, Table, Economy!Put
  <1>11. db'.item = [j \in DOMAIN db.item |-> IF j = i THEN c ELSE db.item[j]]
    BY <1>2, <1>6, Empty DEF Tables, Row, Typed, Table
  <1>12. db'.coins = Economy!(+)(Economy!(+)(db.coins, Economy!Refund(c, s)), Economy!Profit(new))
    BY <1>5, EconomyBags, EconomyLetters
  <1>13. Economy!Buyout(c, i)
    BY <1>1, <1>7, <1>8, <1>9, <1>10, <1>11, <1>12
    DEF Economy!Buyout, Economy!Offered, Economy!CanPay, Economy!Pay, CanPayIn, PriceOf, new
  <1>. QED  BY <1>13 DEF Economy!Next

LEMMA CancelImplements ==
  ASSUME Typed(db), NEW t, Cancels(db, t), db' = Execute(db, t)
  PROVE  Economy!Next
  <1>1. PICK i \in Items \cap DOMAIN db.sale :
           LET s == db.sale[i] IN
           /\ CanPayIn(db, s.owner, FeeOf(s))
           /\ t = [NoWrites EXCEPT !.gold = Row(s.owner, db.chars[s.owner] - FeeOf(s)), !.unsale = {i},
                                   !.post = Row(i, s.owner), !.coins = LetterIn(db, s.bidder, s.bid)]
    BY DEF Cancels
  <1>. DEFINE s == db.sale[i]
  <1>2. /\ t.gold = Row(s.owner, db.chars[s.owner] - FeeOf(s)) /\ t.bid = <<>>
        /\ t.uninv = {} /\ t.sale = <<>>
        /\ t.inv = <<>> /\ t.item = <<>> /\ t.owner = <<>> /\ t.gone = {} /\ t.unsale = {i}
        /\ t.post = Row(i, s.owner) /\ t.unpost = {} /\ t.spent = EmptyBag /\ t.purge = {}
        /\ t.coins = LetterIn(db, s.bidder, s.bid)
    BY <1>1 DEF NoWrites
  <1>3. db'.coins = db.coins (+) LetterIn(db, s.bidder, s.bid)
    <2>1. s.bid \in Nat
      BY DEF Typed, Economy!Sale
    <2>2. IsABag(t.coins) /\ \A l \in DOMAIN t.coins : l.to \in Characters
      BY <1>2, <2>1, LetterTyped
    <2>. QED  BY <1>2, <2>2, MoreLetters
  <1>4. Tables(db, t, db')
    BY <1>2, ExecuteTables
  <1>5. db'.chars = [db.chars EXCEPT ![s.owner] = @ - FeeOf(s)]
    <2>1. PICK p, c : p = FeeOf(s) /\ c = s.owner
      OBVIOUS
    <2>2. t.gold = Row(c, db.chars[c] - p) /\ c \in DOMAIN db.chars
      BY <1>1, <1>2, <2>1 DEF CanPayIn
    <2>3. db'.chars = [db.chars EXCEPT ![c] = @ - p]
      BY <1>4, <2>2 DEF Tables, Row, Typed, Table
    <2>. QED  BY <2>1, <2>3
  <1>6. db'.inv = db.inv /\ db'.item = db.item
    BY <1>2, <1>4, Empty DEF Tables, Typed, Table
  <1>7. db'.sale = Economy!WithoutKeys(db.sale, {i})
    BY <1>2, <1>4, Empty DEF Tables, Typed, Table, Economy!WithoutKeys, Economy!Restrict
  <1>8. db'.post = Economy!Put(db.post, i, s.owner)
    BY <1>2, <1>4 DEF Tables, Row, Typed, Table, Economy!Put
  <1>9. db'.coins = Economy!(+)(db.coins, Economy!Letter(s.bidder, s.bid))
    BY <1>3, EconomyBags, EconomyLetters
  <1>10. Economy!Cancel(i)
    BY <1>1, <1>5, <1>6, <1>7, <1>8, <1>9 DEF Economy!Cancel, Economy!CanPay, CanPayIn, FeeOf
  <1>. QED  BY <1>10 DEF Economy!Next

LEMMA DestroyImplements ==
  ASSUME Typed(db), NEW t, Destroys(db, t), db' = Execute(db, t)
  PROVE  Economy!Next \/ UNCHANGED Economy!vars
  <1>1. PICK i \in Items \cap DOMAIN db.sale :
           Economy!Receiver(db.sale[i]) \notin DOMAIN db.chars /\ t = RemoveAItem(i)
    BY DEF Destroys
  <1>2. /\ t.gold = <<>> /\ t.bid = <<>> /\ t.uninv = {} /\ t.sale = <<>> /\ t.inv = <<>>
        /\ t.item = <<>> /\ t.owner = <<>> /\ t.gone = {i} /\ t.unsale = {} /\ t.post = <<>>
        /\ t.unpost = {} /\ t.spent = EmptyBag /\ t.purge = {} /\ t.coins = EmptyBag
    BY <1>1 DEF RemoveAItem, NoWrites
  <1>3. db'.coins = db.coins
    BY <1>2, SameLetters
  <1>4. Tables(db, t, db')
    BY <1>2, ExecuteTables
  <1>5. db'.chars = db.chars /\ db'.inv = db.inv /\ db'.sale = db.sale /\ db'.post = db.post
    BY <1>2, <1>4, Empty DEF Tables, Typed, Table
  <1>6. db'.item = Economy!WithoutKeys(db.item, {i})
    BY <1>2, <1>4, Empty DEF Tables, Typed, Table, Economy!WithoutKeys, Economy!Restrict
  <1>7. CASE i \in DOMAIN db.item
    <2>1. Economy!Destroy(i)
      BY <1>1, <1>3, <1>5, <1>6, <1>7 DEF Economy!Destroy
    <2>. QED  BY <2>1 DEF Economy!Next
  <1>8. CASE i \notin DOMAIN db.item
    <2>1. db'.item = db.item
      BY <1>6, <1>8 DEF Typed, Table, Economy!WithoutKeys, Economy!Restrict
    <2>. QED  BY <1>3, <1>5, <2>1 DEF Economy!vars
  <1>. QED  BY <1>7, <1>8

LEMMA SettleImplements ==
  ASSUME Typed(db), Economy!ItemOnce, Economy!ItemFound,
         NEW t, Settles(db, t), db' = Execute(db, t)
  PROVE  Economy!Next
  <1>0. PICK S \in SUBSET Items : \E won :
           /\ S # {} /\ S \subseteq DOMAIN db.sale
           /\ \A i \in S \ SentIn(db, S) : i \notin DOMAIN db.item
           /\ \A i \in DOMAIN won : i \in SentIn(db, S) /\ won[i] = MailIn(db, S)[i]
           /\ \A i \in SentIn(db, S) : i \notin DOMAIN won => db.sale[i].bidder = Nobody
           /\ t = [NoWrites EXCEPT !.owner = won, !.unsale = S, !.post = MailIn(db, S),
                                   !.coins = ProfitsIn(db, S)]
    BY DEF Settles
  <1>1. PICK won :
           /\ S # {} /\ S \subseteq DOMAIN db.sale
           /\ \A i \in S \ SentIn(db, S) : i \notin DOMAIN db.item
           /\ \A i \in DOMAIN won : i \in SentIn(db, S) /\ won[i] = MailIn(db, S)[i]
           /\ \A i \in SentIn(db, S) : i \notin DOMAIN won => db.sale[i].bidder = Nobody
           /\ t = [NoWrites EXCEPT !.owner = won, !.unsale = S, !.post = MailIn(db, S),
                                   !.coins = ProfitsIn(db, S)]
    BY <1>0
  <1>. DEFINE sent == SentIn(db, S)
              mail == MailIn(db, S)
  <1>2. /\ t.gold = <<>> /\ t.bid = <<>> /\ t.uninv = {} /\ t.sale = <<>> /\ t.inv = <<>>
        /\ t.item = <<>> /\ t.owner = won /\ t.gone = {} /\ t.unsale = S /\ t.post = mail
        /\ t.unpost = {} /\ t.spent = EmptyBag /\ t.purge = {} /\ t.coins = ProfitsIn(db, S)
    BY <1>1 DEF NoWrites
  <1>3. db'.coins = db.coins (+) ProfitsIn(db, S)
    <2>1. IsABag(t.coins) /\ \A l \in DOMAIN t.coins : l.to \in Characters
      BY <1>1, <1>2, ProfitsTyped
    <2>. QED  BY <1>2, <2>1, MoreLetters
  <1>4. Tables(db, t, db')
    BY <1>2, ExecuteTables
  <1>5. /\ sent = {i \in S : Economy!Receiver(db.sale[i]) \in DOMAIN db.chars}
        /\ DOMAIN mail = sent /\ \A i \in sent : mail[i] = Economy!Receiver(db.sale[i])
    BY DEF SentIn, MailIn
  <1>. HIDE DEF sent, mail
  <1>6. db'.chars = db.chars /\ db'.inv = db.inv
    BY <1>2, <1>4, Empty DEF Tables, Typed, Table
  <1>7. db'.sale = Economy!WithoutKeys(db.sale, S)
    BY <1>2, <1>4, Empty DEF Tables, Typed, Table, Economy!WithoutKeys, Economy!Restrict
  <1>8. db'.post = [i \in DOMAIN db.post \cup sent |->
                       IF i \in sent THEN Economy!Receiver(db.sale[i]) ELSE db.post[i]]
    BY <1>2, <1>4, <1>5 DEF Tables
  <1>9. db'.item = [i \in DOMAIN db.item |->
                       IF i \in sent THEN Economy!Receiver(db.sale[i]) ELSE db.item[i]]
    <2>1. db'.item = [i \in DOMAIN db.item |-> IF i \in DOMAIN won THEN won[i] ELSE db.item[i]]
      BY <1>2, <1>4, Empty DEF Tables
    <2>2. \A i \in DOMAIN won : i \in sent /\ won[i] = Economy!Receiver(db.sale[i])
      BY <1>1, <1>5 DEF sent, mail
    <2>3. ASSUME NEW i \in DOMAIN db.item, i \in sent, i \notin DOMAIN won
          PROVE  db.item[i] = Economy!Receiver(db.sale[i])
      <3>1. i \in DOMAIN db.sale /\ db.sale[i].bidder = Nobody
        BY <1>1, <1>5, <2>3 DEF sent
      <3>2. i \notin DOMAIN db.inv /\ i \notin DOMAIN db.post
        BY <3>1 DEF Economy!ItemOnce
      <3>3. db.sale[i].owner = db.item[i]
        BY <3>2 DEF Economy!ItemFound
      <3>. QED  BY <3>1, <3>3 DEF Economy!Receiver
    <2>. QED  BY <2>1, <2>2, <2>3
  <1>10. db'.coins = Economy!(+)(db.coins, Economy!Profits(S))
    BY <1>3, EconomyBags, EconomyLetters
  <1>11. \A i \in S \ sent : i \notin DOMAIN db.item
    BY <1>1 DEF sent
  <1>12. Economy!Settle(S)
    BY <1>1, <1>5, <1>6, <1>7, <1>8, <1>9, <1>10, <1>11 DEF Economy!Settle
  <1>. QED  BY <1>12 DEF Economy!Next

LEMMA TakeItemImplements ==
  ASSUME Typed(db), NEW t, TakesItem(db, t), db' = Execute(db, t)
  PROVE  Economy!Next
  <1>1. PICK i \in Items \cap DOMAIN db.post :
           LET c == db.post[i] IN
           /\ c \in DOMAIN db.chars
           /\ t = [NoWrites EXCEPT !.inv = Row(i, c), !.item = Row(i, c), !.unpost = {i},
                                   !.gold = Row(c, db.chars[c])]
    BY DEF TakesItem
  <1>2. PICK c : c = db.post[i]
    OBVIOUS
  <1>3. /\ c \in DOMAIN db.chars /\ t.gold = Row(c, db.chars[c]) /\ t.bid = <<>>
        /\ t.uninv = {} /\ t.sale = <<>> /\ t.inv = Row(i, c) /\ t.item = Row(i, c) /\ t.owner = <<>>
        /\ t.gone = {} /\ t.unsale = {} /\ t.post = <<>> /\ t.unpost = {i}
        /\ t.spent = EmptyBag /\ t.purge = {} /\ t.coins = EmptyBag
    BY <1>1, <1>2 DEF NoWrites
  <1>4. db'.coins = db.coins
    BY <1>3, SameLetters
  <1>5. Tables(db, t, db')
    BY <1>3, ExecuteTables
  <1>6. db'.chars = db.chars
    BY <1>3, <1>5 DEF Tables, Row, Typed, Table
  <1>7. db'.sale = db.sale
    BY <1>3, <1>5, Empty DEF Tables, Typed, Table
  <1>8. db'.post = Economy!WithoutKeys(db.post, {i})
    BY <1>3, <1>5, Empty DEF Tables, Typed, Table, Economy!WithoutKeys, Economy!Restrict
  <1>9. db'.inv = Economy!Put(db.inv, i, c)
    BY <1>3, <1>5 DEF Tables, Row, Typed, Table, Economy!Put
  <1>10. db'.item = Economy!Put(db.item, i, c)
    BY <1>3, <1>5, Empty DEF Tables, Row, Typed, Table, Economy!Put
  <1>11. Economy!TakeItem(i)
    BY <1>1, <1>2, <1>4, <1>6, <1>7, <1>8, <1>9, <1>10 DEF Economy!TakeItem
  <1>. QED  BY <1>11 DEF Economy!Next

(* A letter that is taken out. *)
LEMMA FewerLetters ==
  ASSUME NEW d, Typed(d), NEW t, t.purge = {}, t.coins = EmptyBag, IsABag(t.spent),
         NEW e, e = Execute(d, t)
  PROVE  e.coins = d.coins (-) t.spent
  <1>1. IsABag(d.coins) /\ IsABag(t.coins) /\ \A l : Copies(l, t.coins) = 0
    BY BagSingle DEF Typed
  <1>2. /\ IsABag(e.coins)
        /\ \A l : Copies(l, e.coins) =
              IF l.to \notin Characters \ t.purge THEN 0
              ELSE IF Copies(l, d.coins) + Copies(l, t.coins) > Copies(l, t.spent)
                   THEN Copies(l, d.coins) + Copies(l, t.coins) - Copies(l, t.spent) ELSE 0
    BY <1>1, CoinsAfter
  <1>3. /\ IsABag(d.coins (-) t.spent)
        /\ \A l : Copies(l, d.coins (-) t.spent) =
              IF Copies(l, d.coins) > Copies(l, t.spent)
              THEN Copies(l, d.coins) - Copies(l, t.spent) ELSE 0
    BY <1>1, BagMinus
  <1>4. ASSUME NEW l PROVE Copies(l, e.coins) = Copies(l, d.coins (-) t.spent)
    <2>1. /\ Copies(l, d.coins) \in Nat /\ Copies(l, t.spent) \in Nat
          /\ l.to \notin Characters => Copies(l, d.coins) = 0
      BY <1>1, CopiesNat DEF Typed, Copies
    <2>2. Copies(l, d.coins (-) t.spent) =
              IF Copies(l, d.coins) > Copies(l, t.spent)
              THEN Copies(l, d.coins) - Copies(l, t.spent) ELSE 0
      BY <1>3
    <2>3. Copies(l, e.coins) =
              IF l.to \notin Characters \ t.purge THEN 0
              ELSE IF Copies(l, d.coins) + Copies(l, t.coins) > Copies(l, t.spent)
                   THEN Copies(l, d.coins) + Copies(l, t.coins) - Copies(l, t.spent) ELSE 0
      BY <1>2
    <2>4. Copies(l, t.coins) = 0
      BY <1>1
    <2>. QED  BY <2>1, <2>2, <2>3, <2>4
  <1>. QED  BY <1>2, <1>3, <1>4, SameBag

LEMMA TakeMoneyImplements ==
  ASSUME Typed(db), NEW t, TakesMoney(db, t), db' = Execute(db, t)
  PROVE  Economy!Next
  <1>1. PICK l \in DOMAIN db.coins :
           /\ l.to \in DOMAIN db.chars
           /\ t = [NoWrites EXCEPT !.gold = Row(l.to, db.chars[l.to] + l.gold), !.spent = SetToBag({l})]
    BY DEF TakesMoney
  <1>2. PICK c, n : c = l.to /\ n = l.gold
    OBVIOUS
  <1>3. /\ c \in DOMAIN db.chars /\ t.gold = Row(c, db.chars[c] + n) /\ t.bid = <<>>
        /\ t.uninv = {} /\ t.sale = <<>> /\ t.inv = <<>> /\ t.item = <<>> /\ t.owner = <<>>
        /\ t.gone = {} /\ t.unsale = {} /\ t.post = <<>> /\ t.unpost = {}
        /\ t.spent = SetToBag({l}) /\ t.purge = {} /\ t.coins = EmptyBag
    BY <1>1, <1>2 DEF NoWrites
  <1>4. db'.coins = db.coins (-) SetToBag({l})
    <2>1. IsABag(t.spent)
      BY <1>3, SingleCopy
    <2>2. db'.coins = db.coins (-) t.spent
      BY <1>3, <2>1, FewerLetters
    <2>. QED  BY <1>3, <2>2
  <1>5. Tables(db, t, db')
    BY <1>3, ExecuteTables
  <1>6. db'.chars = [db.chars EXCEPT ![c] = @ + n]
    BY <1>3, <1>5 DEF Tables, Row, Typed, Table
  <1>7. db'.item = db.item /\ db'.inv = db.inv /\ db'.sale = db.sale /\ db'.post = db.post
    BY <1>3, <1>5, Empty DEF Tables, Typed, Table
  <1>8. db'.coins = Economy!(-)(db.coins, Economy!SetToBag({l}))
    BY <1>4, EconomyBags
  <1>9. Economy!TakeMoney(l)
    BY <1>1, <1>2, <1>6, <1>7, <1>8 DEF Economy!TakeMoney
  <1>. QED  BY <1>1, <1>9 DEF Economy!Next

(* What the deletion of c leaves. *)
LEMMA DeleteTables ==
  ASSUME NEW d, Typed(d), NEW c, NEW t, t = DeleteFromDB(c), NEW e, e = Execute(d, t)
  PROVE  /\ e.chars = Without(d.chars, {c})
         /\ e.item = ItemsSpared(d.item, c) /\ e.inv = ItemsSpared(d.inv, c)
         /\ e.sale = d.sale /\ e.post = ItemsSpared(d.post, c)
         /\ e.coins = LettersSpared(d.coins, c)
  <1>1. /\ t.gold = <<>> /\ t.bid = <<>> /\ t.uninv = {} /\ t.sale = <<>> /\ t.inv = <<>>
        /\ t.item = <<>> /\ t.owner = <<>> /\ t.gone = {} /\ t.unsale = {} /\ t.post = <<>>
        /\ t.unpost = {} /\ t.spent = EmptyBag /\ t.purge = {c} /\ t.coins = EmptyBag
    BY DEF DeleteFromDB, NoWrites
  <1>2. /\ e.chars = Without(Update(d.chars, t.gold), t.purge)
        /\ e.item  = Put(t.item, Without(Spared(Update(d.item, t.owner), t.purge), t.gone))
        /\ e.inv   = Put(t.inv, Without(Spared(d.inv, t.purge), t.uninv))
        /\ e.sale  = Put(t.sale, Without(Update(d.sale, t.bid), t.unsale))
        /\ e.post  = Put(t.post, Without(Spared(d.post, t.purge), t.unpost))
        /\ e.coins = LettersTo((d.coins (+) t.coins) (-) t.spent, Characters \ t.purge)
    BY DEF Execute, Spared
  <1>3. ASSUME NEW f, Table(f) PROVE Update(f, <<>>) = f
    BY <1>3, Empty DEF Update, Table
  <1>4. ASSUME NEW f, Table(f) PROVE Put(<<>>, Without(f, {})) = f
    BY <1>4, Empty DEF Put, Without, Restrict, Table
  <1>5. ASSUME NEW f PROVE Put(<<>>, Without(Spared(f, {c}), {})) = ItemsSpared(f, c)
    <2>1. Table(Spared(f, {c})) /\ Spared(f, {c}) = ItemsSpared(f, c)
      BY DEF Spared, ItemsSpared, RestrictValues, Restrict, Table
    <2>. QED  BY <1>4, <2>1
  <1>6. e.chars = Without(d.chars, {c})
    BY <1>1, <1>2, <1>3 DEF Typed
  <1>7. e.item = ItemsSpared(d.item, c)
    <2>1. Update(d.item, <<>>) = d.item
      BY <1>3 DEF Typed
    <2>2. e.item = Put(<<>>, Without(Spared(d.item, {c}), {}))
      BY <1>1, <1>2, <2>1
    <2>. QED  BY <1>5, <2>2
  <1>8. e.inv = ItemsSpared(d.inv, c) /\ e.post = ItemsSpared(d.post, c)
    BY <1>1, <1>2, <1>5
  <1>9. e.sale = d.sale
    BY <1>1, <1>2, <1>3, <1>4 DEF Typed
  <1>10. e.coins = LettersSpared(d.coins, c)
    <2>. DEFINE B == LettersSpared(d.coins, c)
    <2>1. /\ IsABag(d.coins) /\ IsABag(t.coins) /\ IsABag(t.spent)
          /\ \A l : Copies(l, t.coins) = 0 /\ Copies(l, t.spent) = 0
      BY <1>1, BagSingle DEF Typed
    <2>2. /\ IsABag(e.coins)
          /\ \A l : Copies(l, e.coins) =
                IF l.to \notin Characters \ t.purge THEN 0
                ELSE IF Copies(l, d.coins) + Copies(l, t.coins) > Copies(l, t.spent)
                     THEN Copies(l, d.coins) + Copies(l, t.coins) - Copies(l, t.spent) ELSE 0
      BY <2>1, CoinsAfter
    <2>3. IsABag(B) /\ \A l : Copies(l, B) = IF l.to # c THEN Copies(l, d.coins) ELSE 0
      BY <2>1 DEF IsABag, Copies, LettersSpared, RestrictDomain, Restrict
    <2>. HIDE DEF B
    <2>4. ASSUME NEW l PROVE Copies(l, e.coins) = Copies(l, B)
      <3>1. Copies(l, d.coins) \in Nat /\ (l.to \notin Characters => Copies(l, d.coins) = 0)
        BY <2>1, CopiesNat DEF Typed, Copies
      <3>2. Copies(l, e.coins) =
                IF l.to \notin Characters \ t.purge THEN 0
                ELSE IF Copies(l, d.coins) + Copies(l, t.coins) > Copies(l, t.spent)
                     THEN Copies(l, d.coins) + Copies(l, t.coins) - Copies(l, t.spent) ELSE 0
        BY <2>2
      <3>3. Copies(l, B) = IF l.to # c THEN Copies(l, d.coins) ELSE 0
        BY <2>3
      <3>4. Copies(l, t.coins) = 0 /\ Copies(l, t.spent) = 0 /\ t.purge = {c}
        BY <1>1, <2>1
      <3>. QED  BY <3>1, <3>2, <3>3, <3>4
    <2>5. e.coins = B
      BY <2>2, <2>3, <2>4, SameBag
    <2>. QED  BY <2>5 DEF B
  <1>. QED  BY <1>6, <1>7, <1>8, <1>9, <1>10

LEMMA DeleteImplements ==
  ASSUME Typed(db), NEW t, Deletes(db, t), db' = Execute(db, t)
  PROVE  Economy!Next
  <1>1. PICK c \in DOMAIN db.chars : t = DeleteFromDB(c)
    BY DEF Deletes
  <1>2. /\ db'.chars = Without(db.chars, {c})
        /\ db'.item = ItemsSpared(db.item, c) /\ db'.inv = ItemsSpared(db.inv, c)
        /\ db'.sale = db.sale /\ db'.post = ItemsSpared(db.post, c)
        /\ db'.coins = LettersSpared(db.coins, c)
    <2>1. PICK d, e : d = db /\ e = db'
      OBVIOUS
    <2>2. Typed(d) /\ t = DeleteFromDB(c) /\ e = Execute(d, t)
      BY <1>1, <2>1
    <2>3. /\ e.chars = Without(d.chars, {c})
          /\ e.item = ItemsSpared(d.item, c) /\ e.inv = ItemsSpared(d.inv, c)
          /\ e.sale = d.sale /\ e.post = ItemsSpared(d.post, c)
          /\ e.coins = LettersSpared(d.coins, c)
      BY ONLY <2>2, DeleteTables
    <2>. QED  BY <2>1, <2>3
  <1>3. db'.chars = Economy!WithoutKeys(db.chars, {c})
    BY <1>2 DEF Without, Restrict, Economy!WithoutKeys, Economy!Restrict
  <1>4. /\ db'.item = Economy!RestrictValues(db.item, LAMBDA o : o # c)
        /\ db'.inv = Economy!RestrictValues(db.inv, LAMBDA o : o # c)
        /\ db'.post = Economy!RestrictValues(db.post, LAMBDA o : o # c)
    BY <1>2 DEF ItemsSpared, RestrictValues, Restrict, Economy!RestrictValues, Economy!Restrict
  <1>5. db'.coins = Economy!RestrictDomain(db.coins, LAMBDA l : l.to # c)
    BY <1>2 DEF LettersSpared, RestrictDomain, Restrict, Economy!RestrictDomain, Economy!Restrict
  <1>6. c \in Characters
    BY DEF Typed
  <1>7. Economy!Delete(c)
    BY <1>2, <1>3, <1>4, <1>5 DEF Economy!Delete
  <1>. QED  BY <1>6, <1>7 DEF Economy!Next

LEMMA RepeatImplements ==
  ASSUME Typed(db), NEW t, Repeats(db, t), db' = Execute(db, t)
  PROVE  UNCHANGED Economy!vars
  <1>1. /\ \/ t.gold = <<>>
           \/ \E c \in DOMAIN db.chars : t.gold = Row(c, db.chars[c])
        /\ t.bid = <<>> /\ t.uninv = {} /\ t.sale = <<>> /\ t.inv = <<>>
        /\ t.item = <<>> /\ t.owner = <<>> /\ t.gone = {} /\ t.unsale = {} /\ t.post = <<>>
        /\ t.unpost = {} /\ t.spent = EmptyBag /\ t.purge = {} /\ t.coins = EmptyBag
    BY DEF Repeats, LoginQueries, NoWrites
  <1>2. db'.coins = db.coins
    BY <1>1, SameLetters
  <1>3. Tables(db, t, db')
    BY <1>1, ExecuteTables
  <1>4. db'.chars = db.chars
    <2>1. db'.chars = [c \in DOMAIN db.chars |-> IF c \in DOMAIN t.gold THEN t.gold[c] ELSE db.chars[c]]
      BY <1>3 DEF Tables
    <2>2. CASE t.gold = <<>>
      BY <2>1, <2>2, Empty DEF Typed, Table
    <2>3. CASE \E c \in DOMAIN db.chars : t.gold = Row(c, db.chars[c])
      BY <2>1, <2>3 DEF Row, Typed, Table
    <2>. QED  BY <1>1, <2>2, <2>3
  <1>5. db'.item = db.item /\ db'.inv = db.inv /\ db'.sale = db.sale /\ db'.post = db.post
    BY <1>1, <1>3, Empty DEF Tables, Typed, Table
  <1>. QED  BY <1>2, <1>4, <1>5 DEF Economy!vars

LEMMA LawfulImplements ==
  ASSUME Typed(db), Economy!ItemOnce, Economy!ItemFound,
         NEW t, Lawful(db, t), db' = Execute(db, t)
  PROVE  [Economy!Next]_(Economy!vars)
  BY SellImplements, BidImplements, BuyoutImplements, CancelImplements, DestroyImplements,
     SettleImplements, TakeItemImplements, TakeMoneyImplements, DeleteImplements,
     RepeatImplements DEF Lawful

-----------------------------------------------------------------------------
(* What is lawful keeps the types of the tables. *)

Offer(s) == s \in Economy!Sale /\ (s.buyout = 0 \/ s.bid < s.buyout)

Writable(t) ==
    /\ \A c \in DOMAIN t.gold : t.gold[c] \in Nat
    /\ \A i \in DOMAIN t.sale : Offer(t.sale[i])
    /\ \A i \in DOMAIN t.bid : Offer(t.bid[i])
    /\ IsABag(t.coins) /\ IsABag(t.spent)
    /\ \A l \in DOMAIN t.coins : l.to \in Characters /\ l.gold \in Nat

LEMMA TypedAfter ==
  ASSUME NEW d, Typed(d), NEW t, Writable(t), NEW e, e = Execute(d, t)
  PROVE  Typed(e)
  <1>1. Executed(d, t, e)
    BY ExecuteRows
  <1>2. Table(e.chars) /\ Table(e.item) /\ Table(e.inv) /\ Table(e.sale) /\ Table(e.post)
    <2>1. /\ e.chars = Without(Update(d.chars, t.gold), t.purge)
          /\ e.item  = Put(t.item, Without(Spared(Update(d.item, t.owner), t.purge), t.gone))
          /\ e.inv   = Put(t.inv, Without(Spared(d.inv, t.purge), t.uninv))
          /\ e.sale  = Put(t.sale, Without(Update(d.sale, t.bid), t.unsale))
          /\ e.post  = Put(t.post, Without(Spared(d.post, t.purge), t.unpost))
      BY DEF Execute, Spared
    <2>2. \A f, K : Table(Without(f, K))
      BY DEF Table, Without, Restrict
    <2>3. \A f, g : Table(Put(f, g))
      BY Merged
    <2>. QED  BY <2>1, <2>2, <2>3
  <1>3. DOMAIN e.chars \subseteq Characters /\ \A c \in DOMAIN e.chars : e.chars[c] \in Nat
    BY <1>1 DEF Executed, Typed, Writable
  <1>4. ASSUME NEW i \in DOMAIN e.sale PROVE Offer(e.sale[i])
    <2>1. i \in DOMAIN d.sale => Offer(d.sale[i])
      BY DEF Typed, Offer
    <2>. QED  BY <1>1, <2>1 DEF Executed, Writable
  <1>5. IsABag(e.coins) /\ \A l \in DOMAIN e.coins : l.to \in Characters /\ l.gold \in Nat
    <2>1. IsABag(d.coins) /\ IsABag(t.coins) /\ IsABag(t.spent)
      BY DEF Typed, Writable
    <2>2. /\ IsABag(e.coins)
          /\ \A l : Copies(l, e.coins) =
                IF l.to \notin Characters \ t.purge THEN 0
                ELSE IF Copies(l, d.coins) + Copies(l, t.coins) > Copies(l, t.spent)
                     THEN Copies(l, d.coins) + Copies(l, t.coins) - Copies(l, t.spent) ELSE 0
      BY <2>1, CoinsAfter
    <2>3. ASSUME NEW l \in DOMAIN e.coins PROVE l \in DOMAIN d.coins \cup DOMAIN t.coins
      <3>1. Copies(l, e.coins) > 0 /\ Copies(l, t.spent) \in Nat
        BY <2>1, <2>2, CopiesNat
      <3>2. Copies(l, d.coins) + Copies(l, t.coins) > 0
        <4>1. Copies(l, d.coins) \in Nat /\ Copies(l, t.coins) \in Nat
          BY <2>1, CopiesNat
        <4>. QED  BY <2>2, <3>1, <4>1
      <3>. QED  BY <3>2 DEF Copies
    <2>. QED  BY <2>2, <2>3 DEF Typed, Writable
  <1>. QED  BY <1>2, <1>3, <1>4, <1>5 DEF Typed, Offer

(* No more than one row of each. *)
LEMMA OneRow ==
  ASSUME NEW t, t.gold = <<>> \/ \E c, n : n \in Nat /\ t.gold = Row(c, n),
         t.sale = <<>> \/ \E i, s : Offer(s) /\ t.sale = Row(i, s),
         t.bid = <<>> \/ \E i, s : Offer(s) /\ t.bid = Row(i, s),
         IsABag(t.coins), IsABag(t.spent),
         \A l \in DOMAIN t.coins : l.to \in Characters /\ l.gold \in Nat
  PROVE  Writable(t)
  <1>1. \A c \in DOMAIN t.gold : t.gold[c] \in Nat
    BY Empty DEF Row
  <1>2. \A i \in DOMAIN t.sale : Offer(t.sale[i])
    BY Empty DEF Row
  <1>3. \A i \in DOMAIN t.bid : Offer(t.bid[i])
    BY Empty DEF Row
  <1>. QED  BY <1>1, <1>2, <1>3 DEF Writable

LEMMA LawfulWrites ==
  ASSUME NEW d, Typed(d), NEW t, Lawful(d, t)
  PROVE  Writable(t)
  <1>1. IsABag(EmptyBag) /\ DOMAIN EmptyBag = {} /\ \A x : IsABag(SetToBag({x}))
    BY SingleCopy
  <1>2. Deposit \in Nat /\ Prices \subseteq Nat /\ Buyouts \subseteq Nat /\ Nobody \notin Characters
    BY HouseAssumption
  <1>3. ASSUME Sells(d, t) PROVE Writable(t)
    <2>1. PICK c \in Characters, i \in Items, buyout \in Buyouts :
             /\ Has(d.inv, i, c) /\ CanPayIn(d, c, Deposit)
             /\ t = [NoWrites EXCEPT !.gold = Row(c, d.chars[c] - Deposit), !.uninv = {i},
                       !.sale = Row(i, [owner |-> c, buyout |-> buyout, bidder |-> Nobody, bid |-> 0])]
      BY <1>3 DEF Sells
    <2>. DEFINE s == [owner |-> c, buyout |-> buyout, bidder |-> Nobody, bid |-> 0]
    <2>2. Offer(s)
      BY <1>2 DEF Offer, Economy!Sale
    <2>3. /\ t.gold = Row(c, d.chars[c] - Deposit) /\ t.sale = Row(i, s)
          /\ t.bid = <<>> /\ t.coins = EmptyBag /\ t.spent = EmptyBag
      BY <2>1 DEF NoWrites
    <2>4. d.chars[c] - Deposit \in Nat
      BY <1>2, <2>1 DEF CanPayIn, Typed
    <2>. HIDE DEF s
    <2>. QED  BY <1>1, <2>2, <2>3, <2>4, OneRow
  <1>4. ASSUME Bids(d, t) PROVE Writable(t)
    <2>1. PICK c \in Characters, i \in Items \cap DOMAIN d.sale, price \in Prices :
             LET s == d.sale[i] IN
             /\ c # s.owner /\ price > s.bid /\ price >= StartBid /\ CanPayIn(d, c, price)
             /\ s.buyout = 0 \/ price < s.buyout
             /\ t = [NoWrites EXCEPT !.gold = Row(c, d.chars[c] - PriceOf(c, s, price)),
                                     !.bid = Row(i, Economy!WithBid(s, c, price)),
                                     !.coins = RefundIn(d, c, s)]
      BY <1>4 DEF Bids
    <2>. DEFINE s == d.sale[i]
                new == Economy!WithBid(s, c, price)
    <2>2. s \in Economy!Sale
      BY DEF Typed
    <2>3. Offer(new)
      BY <1>2, <2>1, <2>2 DEF Offer, Economy!Sale, Economy!WithBid
    <2>4. /\ t.gold = Row(c, d.chars[c] - PriceOf(c, s, price)) /\ t.sale = <<>>
          /\ t.bid = Row(i, new) /\ t.coins = RefundIn(d, c, s) /\ t.spent = EmptyBag
      BY <2>1 DEF NoWrites
    <2>5. d.chars[c] - PriceOf(c, s, price) \in Nat
      BY <1>2, <2>1, <2>2 DEF CanPayIn, Typed, PriceOf, Economy!Sale
    <2>6. IsABag(RefundIn(d, c, s)) /\ \A l \in DOMAIN RefundIn(d, c, s) : l.to \in Characters /\ l.gold \in Nat
      BY <2>2, SaleLetters
    <2>. HIDE DEF s, new
    <2>. QED  BY <1>1, <2>3, <2>4, <2>5, <2>6, OneRow
  <1>5. ASSUME BuysOut(d, t) PROVE Writable(t)
    <2>1. PICK c \in Characters, i \in Items \cap DOMAIN d.sale :
             LET s == d.sale[i] IN
             /\ c # s.owner /\ s.buyout > s.bid /\ CanPayIn(d, c, s.buyout)
             /\ t = [NoWrites EXCEPT !.owner = Row(i, c), !.post = Row(i, c), !.unsale = {i},
                       !.gold = Row(c, d.chars[c] - PriceOf(c, s, s.buyout)),
                       !.coins = RefundIn(d, c, s) (+) ProfitIn(d, Economy!WithBid(s, c, s.buyout))]
      BY <1>5 DEF BuysOut
    <2>. DEFINE s == d.sale[i]
                new == Economy!WithBid(s, c, s.buyout)
    <2>2. s \in Economy!Sale /\ new \in Economy!Sale
      BY DEF Typed, Economy!Sale, Economy!WithBid
    <2>4. /\ t.gold = Row(c, d.chars[c] - PriceOf(c, s, s.buyout)) /\ t.sale = <<>>
          /\ t.bid = <<>> /\ t.coins = RefundIn(d, c, s) (+) ProfitIn(d, new) /\ t.spent = EmptyBag
      BY <2>1 DEF NoWrites
    <2>5. d.chars[c] - PriceOf(c, s, s.buyout) \in Nat
      BY <2>1, <2>2 DEF CanPayIn, Typed, PriceOf, Economy!Sale
    <2>6. /\ IsABag(RefundIn(d, c, s)) /\ IsABag(ProfitIn(d, new))
          /\ \A l \in DOMAIN RefundIn(d, c, s) \cup DOMAIN ProfitIn(d, new) :
                l.to \in Characters /\ l.gold \in Nat
      BY <2>2, SaleLetters
    <2>. HIDE DEF s, new
    <2>7. /\ IsABag(t.coins)
          /\ \A l \in DOMAIN t.coins : l.to \in Characters /\ l.gold \in Nat
      BY <2>4, <2>6, LettersSum
    <2>. QED  BY <1>1, <2>4, <2>5, <2>7, OneRow
  <1>6. ASSUME Cancels(d, t) PROVE Writable(t)
    <2>1. PICK i \in Items \cap DOMAIN d.sale :
             LET s == d.sale[i] IN
             /\ CanPayIn(d, s.owner, FeeOf(s))
             /\ t = [NoWrites EXCEPT !.gold = Row(s.owner, d.chars[s.owner] - FeeOf(s)), !.unsale = {i},
                                     !.post = Row(i, s.owner), !.coins = LetterIn(d, s.bidder, s.bid)]
      BY <1>6 DEF Cancels
    <2>. DEFINE s == d.sale[i]
    <2>2. s.bid \in Nat
      BY DEF Typed, Economy!Sale
    <2>3. FeeOf(s) \in Nat
      BY <2>2, CutBound DEF FeeOf
    <2>4. /\ t.gold = Row(s.owner, d.chars[s.owner] - FeeOf(s)) /\ t.sale = <<>>
          /\ t.bid = <<>> /\ t.coins = LetterIn(d, s.bidder, s.bid) /\ t.spent = EmptyBag
      BY <2>1 DEF NoWrites
    <2>5. d.chars[s.owner] - FeeOf(s) \in Nat
      BY <2>1, <2>3 DEF CanPayIn, Typed
    <2>6. /\ IsABag(t.coins) /\ \A l \in DOMAIN t.coins : l.to \in Characters /\ l.gold \in Nat
      BY <2>2, <2>4, LetterTyped
    <2>. HIDE DEF s
    <2>. QED  BY <1>1, <2>4, <2>5, <2>6, OneRow
  <1>7. ASSUME Settles(d, t) PROVE Writable(t)
    <2>1. PICK S \in SUBSET Items : S \subseteq DOMAIN d.sale /\ \E won :
             t = [NoWrites EXCEPT !.owner = won, !.unsale = S, !.post = MailIn(d, S),
                                  !.coins = ProfitsIn(d, S)]
      BY <1>7 DEF Settles
    <2>2. /\ t.gold = <<>> /\ t.sale = <<>> /\ t.bid = <<>> /\ t.coins = ProfitsIn(d, S)
          /\ t.spent = EmptyBag
      BY <2>1 DEF NoWrites
    <2>3. IsABag(t.coins) /\ \A l \in DOMAIN t.coins : l.to \in Characters /\ l.gold \in Nat
      BY <2>1, <2>2, ProfitsTyped
    <2>. QED  BY <1>1, <2>2, <2>3, OneRow
  <1>8. ASSUME TakesMoney(d, t) PROVE Writable(t)
    <2>1. PICK l \in DOMAIN d.coins :
             /\ l.to \in DOMAIN d.chars
             /\ t = [NoWrites EXCEPT !.gold = Row(l.to, d.chars[l.to] + l.gold), !.spent = SetToBag({l})]
      BY <1>8 DEF TakesMoney
    <2>2. /\ t.gold = Row(l.to, d.chars[l.to] + l.gold) /\ t.sale = <<>> /\ t.bid = <<>>
          /\ t.coins = EmptyBag /\ t.spent = SetToBag({l})
      BY <2>1 DEF NoWrites
    <2>3. d.chars[l.to] + l.gold \in Nat
      BY <2>1 DEF Typed
    <2>. QED  BY <1>1, <2>2, <2>3, OneRow
  <1>9. ASSUME TakesItem(d, t) \/ Destroys(d, t) \/ Deletes(d, t) \/ Repeats(d, t) PROVE Writable(t)
    <2>1. /\ t.gold = <<>> \/ \E c \in DOMAIN d.chars : t.gold = Row(c, d.chars[c])
          /\ t.sale = <<>> /\ t.bid = <<>> /\ t.coins = EmptyBag /\ t.spent = EmptyBag
      <3>1. CASE TakesItem(d, t)
        BY <3>1 DEF TakesItem, NoWrites
      <3>2. CASE Destroys(d, t)
        BY <3>2 DEF Destroys, RemoveAItem, NoWrites
      <3>3. CASE Deletes(d, t)
        BY <3>3 DEF Deletes, DeleteFromDB, NoWrites
      <3>4. CASE Repeats(d, t)
        BY <3>4 DEF Repeats, LoginQueries, NoWrites
      <3>. QED  BY <1>9, <3>1, <3>2, <3>3, <3>4
    <2>3. \A c \in DOMAIN d.chars : d.chars[c] \in Nat
      BY DEF Typed
    <2>. QED  BY <1>1, <2>1, <2>3, OneRow
  <1>. QED  BY <1>3, <1>4, <1>5, <1>6, <1>7, <1>8, <1>9 DEF Lawful

LEMMA TypedKept ==
  ASSUME NEW d, Typed(d), NEW t, Lawful(d, t), NEW e, e = Execute(d, t)
  PROVE  Typed(e)
  BY LawfulWrites, TypedAfter

LEMMA FutureTyped ==
  ASSUME IsQueue(queue), Typed(db), EverLawful
  PROVE  Typed(Future)
  <1>. DEFINE n == Len(queue)
              T == {k \in 0..n : Typed(After(db, queue)[k])}
  <1>1. /\ n \in Nat /\ After(db, queue)[0] = db
        /\ \A k \in 1..n : After(db, queue)[k] = Execute(After(db, queue)[k - 1], queue[k])
    <2>1. Len(queue) \in Nat
      BY DEF IsQueue
    <2>. QED  BY <2>1, AfterUnfolds
  <1>2. \A k \in 1..n : Lawful(After(db, queue)[k - 1], queue[k])
    BY DEF EverLawful
  <1>. HIDE DEF n
  <1>3. 0 \in T
    BY <1>1
  <1>4. ASSUME NEW k \in 0..n, k + 1 \in 0..n, k \in T PROVE k + 1 \in T
    <2>1. k + 1 \in 1..n /\ (k + 1) - 1 = k
      BY <1>1, <1>4
    <2>2. PICK d, e, t : d = After(db, queue)[k] /\ e = After(db, queue)[k + 1] /\ t = queue[k + 1]
      OBVIOUS
    <2>3. Typed(d) /\ Lawful(d, t) /\ e = Execute(d, t)
      BY <1>1, <1>2, <1>4, <2>1, <2>2
    <2>4. Typed(e)
      BY ONLY <2>3, TypedKept
    <2>. QED  BY <1>4, <2>2, <2>4
  <1>5. \A k \in 0..n : k \in T
    <2>. HIDE DEF T
    <2>. QED  BY <1>1, <1>3, <1>4, UpTo
  <1>6. n \in 0..n
    BY <1>1
  <1>. QED  BY <1>5, <1>6 DEF Future, n

-----------------------------------------------------------------------------
(* What is committed is lawful when its turn comes. *)

LEMMA CommitLawful ==
  ASSUME IsQueue(queue), EverLawful, NEW r, IsQueue(r), queue' = queue \o r, db' = db,
         \A k \in 1..Len(r) : Lawful(After(Future, r)[k - 1], r[k])
  PROVE  EverLawful'
  <1>1. /\ Len(queue) \in Nat /\ Len(r) \in Nat /\ Len(queue') = Len(queue) + Len(r)
        /\ \A k \in 0..Len(queue) : After(db, queue)'[k] = After(db, queue)[k]
        /\ \A k \in 0..Len(r) : After(db, queue)'[Len(queue) + k] = After(Future, r)[k]
        /\ \A k \in 1..Len(queue) : queue'[k] = queue[k]
        /\ \A k \in 1..Len(r) : queue'[Len(queue) + k] = r[k]
    BY Commit
  <1>2. ASSUME NEW k \in 1..Len(queue') PROVE Lawful(After(db, queue)'[k - 1], queue'[k])
    <2>1. CASE k \in 1..Len(queue)
      <3>1. k - 1 \in 0..Len(queue)
        BY <1>1, <2>1
      <3>2. After(db, queue)'[k - 1] = After(db, queue)[k - 1] /\ queue'[k] = queue[k]
        BY <1>1, <2>1, <3>1
      <3>3. Lawful(After(db, queue)[k - 1], queue[k])
        BY <2>1 DEF EverLawful
      <3>. QED  BY <3>2, <3>3
    <2>2. CASE k \notin 1..Len(queue)
      <3>1. PICK j \in 1..Len(r) : k = Len(queue) + j
        <4>1. k - Len(queue) \in 1..Len(r) /\ k = Len(queue) + (k - Len(queue))
          BY <1>1, <2>2
        <4>. QED  BY <4>1
      <3>2. j - 1 \in 0..Len(r) /\ k - 1 = Len(queue) + (j - 1)
        BY <1>1, <3>1
      <3>3. After(db, queue)'[k - 1] = After(Future, r)[j - 1] /\ queue'[k] = r[j]
        BY <1>1, <3>1, <3>2
      <3>. QED  BY <3>1, <3>3
    <2>. QED  BY <2>1, <2>2
  <1>. QED  BY <1>2 DEF EverLawful, After

LEMMA OneLawful ==
  ASSUME IsQueue(queue), EverLawful, NEW t, queue' = queue \o <<t>>, db' = db,
         NEW f, f = Future, Lawful(f, t)
  PROVE  EverLawful'
  <1>. DEFINE r == <<t>>
  <1>1. IsQueue(r) /\ Len(r) = 1 /\ r[1] = t
    BY QueueOne
  <1>2. queue' = queue \o r
    OBVIOUS
  <1>. HIDE DEF r
  <1>3. After(Future, r)[0] = f
    BY <1>1, AfterUnfolds
  <1>4. \A k \in 1..Len(r) : Lawful(After(Future, r)[k - 1], r[k])
    BY <1>1, <1>3
  <1>. QED  BY <1>1, <1>2, <1>4, CommitLawful

-----------------------------------------------------------------------------
(* The handlers. *)

(* A player who has enough is saved with what is left. *)
LEMMA PaidExact ==
  ASSUME NEW f, AheadOf(f), NEW c \in online, f.chars[c] \in Nat, NEW n \in Nat, gold[c] >= n,
         gold' = Paid(c, n)
  PROVE  SaveGoldToDB(c, gold') = Row(c, f.chars[c] - n)
  <1>1. gold[c] = f.chars[c]
    BY DEF AheadOf, Has
  <1>2. gold'[c] = f.chars[c] - n
    <2>1. PICK m \in Nat : m = gold[c]
      BY <1>1
    <2>2. gold'[c] = IF m > n THEN m - n ELSE 0
      BY <2>1 DEF Paid
    <2>3. m >= n
      BY <2>1
    <2>. QED  BY <1>1, <2>1, <2>2, <2>3
  <1>. QED  BY <1>2 DEF SaveGoldToDB

(* Memory sends the letters that the database calls for. *)
LEMMA SameMail ==
  ASSUME NEW f, known = DOMAIN f.chars
  PROVE  /\ \A c, n : Letter(c, n) = LetterIn(f, c, n)
         /\ \A s, c : SendAuctionOutbiddedMail(s, c) = RefundIn(f, c, s)
         /\ \A s : SendAuctionCancelledToBidderMail(s) = LetterIn(f, s.bidder, s.bid)
         /\ \A s : s.bidder # Nobody => SendAuctionSuccessfulMail(s) = ProfitIn(f, s)
  <1>1. \A c, n : Letter(c, n) = LetterIn(f, c, n)
    BY DEF Letter, LetterIn
  <1>. QED
    BY <1>1 DEF SendAuctionOutbiddedMail, RefundIn, SendAuctionCancelledToBidderMail,
                SendAuctionSuccessfulMail, ProfitIn, GetAuctionCut, Economy!AuctionCut

LEMMA SellLawful ==
  ASSUME IInv, Typed(Future), EverLawful, NEW c \in Characters, NEW i \in Items, NEW buyout \in Buyouts,
         HandleAuctionSellItem(c, i, buyout)
  PROVE  EverLawful'
  <1>. DEFINE s == [owner |-> c, buyout |-> buyout, bidder |-> Nobody, bid |-> 0]
  <1>1. PICK t, f : t = SellWrites(c, i, s, gold') /\ f = Future
    OBVIOUS
  <1>2. /\ server = "up" /\ i \in DOMAIN held /\ held[i] = c /\ gold[c] >= Deposit
        /\ gold' = Paid(c, Deposit) /\ queue' = queue \o <<t>> /\ db' = db
    BY <1>1 DEF HandleAuctionSellItem, Handling, CommitTransaction
  <1>3. AheadOf(f) /\ Typed(f)
    BY <1>1, <1>2, Up
  <1>4. c \in online /\ Has(f.inv, i, c) /\ c \in DOMAIN f.chars /\ f.chars[c] = gold[c] /\ f.chars[c] \in Nat
    BY <1>2, <1>3 DEF AheadOf, Has, Typed
  <1>5. SaveGoldToDB(c, gold') = Row(c, f.chars[c] - Deposit)
    <2>1. Deposit \in Nat
      BY HouseAssumption
    <2>. QED  BY <1>2, <1>3, <1>4, <2>1, PaidExact
  <1>6. t = [NoWrites EXCEPT !.gold = Row(c, f.chars[c] - Deposit), !.uninv = {i}, !.sale = Row(i, s)]
    BY <1>1, <1>5 DEF SellWrites
  <1>7. Sells(f, t)
    BY <1>2, <1>4, <1>6 DEF Sells, CanPayIn
  <1>. QED  BY <1>1, <1>2, <1>7, OneLawful DEF Lawful, IInv

(* A bid changes two columns of a row. *)
LEMMA Rebid ==
  ASSUME NEW s \in Economy!Sale, NEW c, NEW price
  PROVE  [s EXCEPT !.bidder = c, !.bid = price] = Economy!WithBid(s, c, price)
  <1>. DEFINE r == [s EXCEPT !.bidder = c, !.bid = price]
              w == Economy!WithBid(s, c, price)
              F == {"owner", "buyout", "bidder", "bid"}
  <1>1. DOMAIN s = F
    BY DEF Economy!Sale
  <1>2. r = [x \in F |-> r[x]]
    BY <1>1
  <1>3. w = [x \in F |-> w[x]]
    BY DEF Economy!WithBid
  <1>4. r.owner = s.owner /\ r.buyout = s.buyout /\ r.bidder = c /\ r.bid = price
    BY <1>1
  <1>5. w.owner = s.owner /\ w.buyout = s.buyout /\ w.bidder = c /\ w.bid = price
    BY DEF Economy!WithBid
  <1>. HIDE DEF r, w
  <1>6. \A x \in F : r[x] = w[x]
    BY <1>4, <1>5
  <1>7. r = w
    BY <1>2, <1>3, <1>6
  <1> QED BY <1>7 DEF r, w

LEMMA BidLawful ==
  ASSUME IInv, Typed(Future), EverLawful, NEW c \in Characters, NEW i \in Items, NEW price \in Prices,
         PlaceBid(c, i, price)
  PROVE  EverLawful'
  <1>. DEFINE s      == auctions[i]
              new    == [s EXCEPT !.bidder = c, !.bid = price]
              refund == SendAuctionOutbiddedMail(s, c)
              pay    == IF s.bidder = c THEN price - s.bid ELSE price
  <1>1. PICK t, f : /\ t = [NoWrites EXCEPT !.gold = SaveGoldToDB(c, gold'), !.bid = Row(i, new),
                                            !.coins = refund]
                    /\ f = Future
    OBVIOUS
  <1>2. /\ server = "up" /\ c \in online /\ i \in DOMAIN auctions
        /\ s.owner # c /\ price > s.bid /\ price >= StartBid /\ gold[c] >= price
        /\ price < s.buyout \/ s.buyout = 0
        /\ gold' = Paid(c, pay) /\ queue' = queue \o <<t>> /\ db' = db
    BY <1>1 DEF PlaceBid, MayBid, Handling, CommitTransaction
  <1>3. AheadOf(f) /\ Typed(f)
    BY <1>1, <1>2, Up
  <1>4. /\ c \in DOMAIN f.chars /\ f.chars[c] = gold[c] /\ f.chars[c] \in Nat
        /\ i \in DOMAIN f.sale /\ f.sale[i] = s /\ s \in Economy!Sale /\ known = DOMAIN f.chars
    BY <1>2, <1>3 DEF AheadOf, Has, Typed
  <1>5. price \in Nat /\ s.bid \in Nat
    BY <1>4, HouseAssumption DEF Economy!Sale
  <1>6. pay \in Nat /\ gold[c] >= pay /\ pay = PriceOf(c, s, price)
    BY <1>2, <1>4, <1>5 DEF PriceOf
  <1>7. new = Economy!WithBid(s, c, price)
    BY <1>4, Rebid
  <1>8. refund = RefundIn(f, c, s)
    BY <1>4, SameMail
  <1>. HIDE DEF refund, pay, new, s
  <1>9. SaveGoldToDB(c, gold') = Row(c, f.chars[c] - pay)
    BY <1>2, <1>3, <1>4, <1>6, PaidExact
  <1>10. t = [NoWrites EXCEPT !.gold = Row(c, f.chars[c] - PriceOf(c, s, price)),
                              !.bid = Row(i, Economy!WithBid(s, c, price)), !.coins = RefundIn(f, c, s)]
    BY <1>1, <1>6, <1>7, <1>8, <1>9
  <1>11. Bids(f, t)
    BY <1>2, <1>4, <1>10 DEF Bids, CanPayIn
  <1>. QED  BY <1>1, <1>2, <1>11, OneLawful DEF Lawful, IInv

LEMMA BuyOutLawful ==
  ASSUME IInv, Typed(Future), EverLawful, NEW c \in Characters, NEW i \in Items, NEW price \in Prices,
         BuyOut(c, i, price)
  PROVE  EverLawful'
  <1>. DEFINE s   == auctions[i]
              new == [s EXCEPT !.bidder = c, !.bid = s.buyout]
              bag == SendAuctionOutbiddedMail(s, c) (+) SendAuctionSuccessfulMail(new)
              pay == IF s.bidder = c THEN s.buyout - s.bid ELSE s.buyout
  <1>1. PICK t, f : /\ t = [SendAuctionWonMail(Row(i, c)) EXCEPT !.gold = SaveGoldToDB(c, gold'),
                                                                 !.unsale = {i}, !.coins = bag]
                    /\ f = Future
    OBVIOUS
  <1>2. /\ server = "up" /\ c \in online /\ i \in DOMAIN auctions
        /\ s.owner # c /\ gold[c] >= price /\ price >= s.buyout /\ s.buyout # 0
        /\ gold' = Paid(c, pay) /\ queue' = queue \o <<t>> /\ db' = db
    BY <1>1 DEF BuyOut, MayBid, Handling, CommitTransaction
  <1>3. AheadOf(f) /\ Typed(f)
    BY <1>1, <1>2, Up
  <1>4. /\ c \in DOMAIN f.chars /\ f.chars[c] = gold[c] /\ f.chars[c] \in Nat
        /\ i \in DOMAIN f.sale /\ f.sale[i] = s /\ s \in Economy!Sale /\ known = DOMAIN f.chars
        /\ s.bid < s.buyout
    BY <1>2, <1>3 DEF AheadOf, Has, Typed
  <1>5. price \in Nat /\ s.bid \in Nat /\ s.buyout \in Nat
    BY <1>4, HouseAssumption DEF Economy!Sale
  <1>6. pay \in Nat /\ gold[c] >= pay /\ pay = PriceOf(c, s, s.buyout) /\ gold[c] >= s.buyout
    BY <1>2, <1>4, <1>5 DEF PriceOf
  <1>7. new = Economy!WithBid(s, c, s.buyout) /\ new.bidder # Nobody
    <2>1. new = Economy!WithBid(s, c, s.buyout)
      <3>1. PICK b : b = s.buyout
        OBVIOUS
      <3>2. [s EXCEPT !.bidder = c, !.bid = b] = Economy!WithBid(s, c, b)
        <4>. HIDE DEF s
        <4>. QED  BY <1>4, Rebid
      <3>. QED  BY <3>1, <3>2
    <2>2. c # Nobody
      BY HouseAssumption
    <2>. QED  BY <2>1, <2>2 DEF Economy!WithBid
  <1>8. bag = RefundIn(f, c, s) (+) ProfitIn(f, new)
    BY <1>4, <1>7, SameMail
  <1>. HIDE DEF bag, pay, new, s
  <1>9. SaveGoldToDB(c, gold') = Row(c, f.chars[c] - pay)
    BY <1>2, <1>3, <1>4, <1>6, PaidExact
  <1>10. t = [NoWrites EXCEPT !.owner = Row(i, c), !.post = Row(i, c), !.unsale = {i},
                !.gold = Row(c, f.chars[c] - PriceOf(c, s, s.buyout)),
                !.coins = RefundIn(f, c, s) (+) ProfitIn(f, Economy!WithBid(s, c, s.buyout))]
    BY <1>1, <1>6, <1>7, <1>8, <1>9 DEF SendAuctionWonMail, NoWrites
  <1>11. BuysOut(f, t)
    BY <1>2, <1>4, <1>6, <1>10 DEF BuysOut, CanPayIn
  <1>. QED  BY <1>1, <1>2, <1>11, OneLawful DEF Lawful, IInv

LEMMA CancelLawful ==
  ASSUME IInv, Typed(Future), EverLawful, NEW c \in Characters, NEW i \in Items,
         HandleAuctionRemoveItem(c, i)
  PROVE  EverLawful'
  <1>. DEFINE s   == auctions[i]
              cut == IF s.bidder = Nobody THEN 0 ELSE GetAuctionCut(s)
              bag == SendAuctionCancelledToBidderMail(s)
  <1>1. PICK t, f : /\ t = [NoWrites EXCEPT !.gold = SaveGoldToDB(c, gold'), !.unsale = {i},
                                            !.post = Row(i, c), !.coins = bag]
                    /\ f = Future
    OBVIOUS
  <1>2. /\ server = "up" /\ c \in online /\ i \in DOMAIN auctions
        /\ s.owner = c /\ gold[c] >= cut
        /\ gold' = Paid(c, cut) /\ queue' = queue \o <<t>> /\ db' = db
    BY <1>1 DEF HandleAuctionRemoveItem, CancelWrites, Handling, CommitTransaction
  <1>3. AheadOf(f) /\ Typed(f)
    BY <1>1, <1>2, Up
  <1>4. /\ c \in DOMAIN f.chars /\ f.chars[c] = gold[c] /\ f.chars[c] \in Nat
        /\ i \in DOMAIN f.sale /\ f.sale[i] = s /\ s \in Economy!Sale /\ known = DOMAIN f.chars
    BY <1>2, <1>3 DEF AheadOf, Has, Typed
  <1>5. cut = FeeOf(s)
    BY DEF FeeOf, GetAuctionCut, Economy!AuctionCut
  <1>6. cut \in Nat
    <2>1. s.bid \in Nat
      BY <1>4 DEF Economy!Sale
    <2>. QED  BY <1>5, <2>1, CutBound DEF FeeOf
  <1>7. bag = LetterIn(f, s.bidder, s.bid)
    BY <1>4, SameMail
  <1>. HIDE DEF bag, cut, s
  <1>8. SaveGoldToDB(c, gold') = Row(c, f.chars[c] - cut)
    BY <1>2, <1>3, <1>4, <1>6, PaidExact
  <1>9. t = [NoWrites EXCEPT !.gold = Row(s.owner, f.chars[s.owner] - FeeOf(s)), !.unsale = {i},
                             !.post = Row(i, s.owner), !.coins = LetterIn(f, s.bidder, s.bid)]
    BY <1>1, <1>2, <1>5, <1>7, <1>8
  <1>10. Cancels(f, t)
    BY <1>2, <1>4, <1>5, <1>9 DEF Cancels, CanPayIn
  <1>. QED  BY <1>1, <1>2, <1>10, OneLawful DEF Lawful, IInv

LEMMA TakeItemLawful ==
  ASSUME IInv, Typed(Future), EverLawful, NEW c \in Characters, NEW i \in Items,
         HandleMailTakeItem(c, i)
  PROVE  EverLawful'
  <1>1. PICK t, f : /\ t = [NoWrites EXCEPT !.inv = Row(i, c), !.item = Row(i, c), !.unpost = {i},
                                            !.gold = SaveGoldToDB(c, gold)]
                    /\ f = Future
    OBVIOUS
  <1>2. /\ server = "up" /\ i \in DOMAIN parcels /\ parcels[i] = c
        /\ queue' = queue \o <<t>> /\ db' = db
    BY <1>1 DEF HandleMailTakeItem, Handling, CommitTransaction
  <1>3. AheadOf(f) /\ Shape
    BY <1>1, <1>2, Up
  <1>4. c \in DOMAIN f.chars /\ f.chars[c] = gold[c] /\ i \in DOMAIN f.post /\ f.post[i] = c
    BY <1>2, <1>3 DEF AheadOf, Has, Shape
  <1>5. t = [NoWrites EXCEPT !.inv = Row(i, c), !.item = Row(i, c), !.unpost = {i},
                             !.gold = Row(c, f.chars[c])]
    BY <1>1, <1>4 DEF SaveGoldToDB
  <1>6. TakesItem(f, t)
    BY <1>4, <1>5 DEF TakesItem
  <1>. QED  BY <1>1, <1>2, <1>6, OneLawful DEF Lawful, IInv

LEMMA TakeMoneyLawful ==
  ASSUME IInv, Typed(Future), EverLawful, NEW letter \in DOMAIN letters, HandleMailTakeMoney(letter)
  PROVE  EverLawful'
  <1>1. PICK c, n : c = letter.to /\ n = letter.gold
    OBVIOUS
  <1>2. PICK t, f : /\ t = [NoWrites EXCEPT !.gold = SaveGoldToDB(c, gold'),
                                            !.spent = SetToBag({letter})]
                    /\ f = Future
    OBVIOUS
  <1>3. /\ server = "up" /\ gold' = [gold EXCEPT ![c] = @ + n]
        /\ queue' = queue \o <<t>> /\ db' = db
    BY <1>1, <1>2 DEF HandleMailTakeMoney, Handling, CommitTransaction
  <1>4. AheadOf(f) /\ Shape /\ Typed(f)
    BY <1>2, <1>3, Up
  <1>5. c \in online /\ c \in DOMAIN f.chars /\ f.chars[c] = gold[c]
    BY <1>1, <1>4 DEF AheadOf, Has, Shape
  <1>6. letter \in DOMAIN f.coins
    <2>1. IsABag(letters) /\ IsABag(f.coins)
      BY <1>4 DEF Shape, Typed
    <2>2. /\ Copies(letter, letters) > 0 /\ Copies(letter, letters) <= Copies(letter, f.coins)
          /\ Copies(letter, letters) \in Nat /\ Copies(letter, f.coins) \in Nat
      BY <1>4, <2>1, CopiesNat DEF AheadOf
    <2>3. Copies(letter, f.coins) > 0
      BY <2>2
    <2>. QED  BY <2>3 DEF Copies
  <1>7. SaveGoldToDB(c, gold') = Row(c, f.chars[c] + n)
    <2>1. PICK m : m = gold[c]
      OBVIOUS
    <2>2. gold'[c] = m + n
      BY <1>3, <1>5, <2>1
    <2>. QED  BY <1>5, <2>1, <2>2 DEF SaveGoldToDB
  <1>8. t = [NoWrites EXCEPT !.gold = Row(letter.to, f.chars[letter.to] + letter.gold),
                             !.spent = SetToBag({letter})]
    BY <1>1, <1>2, <1>7
  <1>9. TakesMoney(f, t)
    BY <1>1, <1>5, <1>6, <1>8 DEF TakesMoney
  <1>. QED  BY <1>2, <1>3, <1>9, OneLawful DEF Lawful, IInv

(* A player who leaves is stored as he is: also when the server stops. *)
LEMMA LogoutLawful ==
  ASSUME IInv, Typed(Future), EverLawful, server = "closing" => GoldKept, NEW c, LogoutPlayer(c)
  PROVE  EverLawful'
  <1>1. PICK t, f : t = [NoWrites EXCEPT !.gold = SaveGoldToDB(c, gold)] /\ f = Future
    OBVIOUS
  <1>2. /\ (server = "closing" \/ server = "up") /\ c \in online
        /\ queue' = queue \o <<t>> /\ db' = db
    BY <1>1 DEF LogoutPlayer, Handling, CommitTransaction
  <1>3. c \in online
    BY DEF LogoutPlayer
  <1>4. Has(f.chars, c, gold[c])
    <2>1. CASE server = "up"
      BY <1>1, <1>3, <2>1, Up DEF AheadOf
    <2>2. CASE server = "closing"
      BY <1>1, <1>3, <2>2 DEF GoldKept
    <2>. QED  BY <1>2, <2>1, <2>2
  <1>5. t = [NoWrites EXCEPT !.gold = Row(c, f.chars[c])] /\ c \in DOMAIN f.chars
    BY <1>1, <1>4 DEF SaveGoldToDB, Has
  <1>6. Repeats(f, t)
    BY <1>5 DEF Repeats
  <1>. QED  BY <1>1, <1>2, <1>6, OneLawful DEF Lawful, IInv

LEMMA CharDeleteLawful ==
  ASSUME IInv, Typed(Future), EverLawful, NEW c, HandleCharDelete(c)
  PROVE  EverLawful'
  <1>1. PICK t, f : t = DeleteFromDB(c) /\ f = Future
    OBVIOUS
  <1>2. server = "up" /\ c \in known /\ queue' = queue \o <<t>> /\ db' = db
    BY <1>1 DEF HandleCharDelete, Handling, CommitTransaction
  <1>3. c \in DOMAIN f.chars
    BY <1>1, <1>2, Up DEF AheadOf
  <1>4. Deletes(f, t)
    BY <1>1, <1>3 DEF Deletes
  <1>. QED  BY <1>1, <1>2, <1>4, OneLawful DEF Lawful, IInv

LEMMA LoginLawful ==
  ASSUME IInv, EverLawful, NEW c, HandlePlayerLogin(c)
  PROVE  EverLawful'
  <1>1. PICK t, f : t = LoginQueries(c) /\ f = Future
    OBVIOUS
  <1>2. queue' = queue \o <<t>> /\ db' = db
    <2>1. queue' = Append(queue, t) /\ db' = db
      BY <1>1 DEF HandlePlayerLogin
    <2>2. Append(queue, t) = queue \o <<t>>
      <3>. DEFINE A == {queue[k] : k \in DOMAIN queue} \cup {t}
      <3>1. queue \in Seq({queue[k] : k \in DOMAIN queue})
        BY DEF IInv, IsQueue
      <3>2. queue \in Seq(A) /\ t \in A
        BY <3>1
      <3>. HIDE DEF A
      <3>. QED  BY <3>2
    <2>. QED  BY <2>1, <2>2
  <1>3. Repeats(f, t)
    BY <1>1 DEF Repeats
  <1>. QED  BY <1>1, <1>2, <1>3, OneLawful DEF Lawful, IInv

(* The items that nobody can receive are gone by the time their auctions end. *)
LEMMA Removed ==
  ASSUME NEW f, NEW q, Len(q) \in Nat, NEW u, \A k \in 1..Len(q) : q[k] = RemoveAItem(u[k])
  PROVE  \A k \in 1..Len(q) : u[k] \notin DOMAIN After(f, q)[Len(q)].item
  <1>. DEFINE n == Len(q)
              T == {k \in 0..n : \A j \in 1..k : u[j] \notin DOMAIN After(f, q)[k].item}
  <1>1. \A k \in 1..n : After(f, q)[k] = Execute(After(f, q)[k - 1], q[k])
    BY AfterUnfolds
  <1>2. 0 \in T
    OBVIOUS
  <1>3. ASSUME NEW k \in 0..n, k + 1 \in 0..n, k \in T PROVE k + 1 \in T
    <2>1. k + 1 \in 1..n /\ (k + 1) - 1 = k
      BY <1>3
    <2>2. PICK d, e, t, i : /\ d = After(f, q)[k] /\ e = After(f, q)[k + 1] /\ t = q[k + 1]
                            /\ i = u[k + 1]
      OBVIOUS
    <2>3. e = Execute(d, t) /\ t.item = <<>> /\ t.gone = {i}
      BY <1>1, <2>1, <2>2 DEF RemoveAItem, NoWrites
    <2>4. DOMAIN e.item \subseteq DOMAIN t.item \cup (DOMAIN d.item \ t.gone)
      <3>1. Executed(d, t, e)
        BY <2>3, ExecuteRows
      <3>. QED  BY <3>1 DEF Executed
    <2>5. DOMAIN e.item \subseteq DOMAIN d.item \ {i}
      BY <2>3, <2>4, Empty
    <2>6. ASSUME NEW j \in 1..k + 1 PROVE u[j] \notin DOMAIN e.item
      <3>1. j \in 1..k \/ j = k + 1
        BY <1>3
      <3>2. j \in 1..k => u[j] \notin DOMAIN d.item
        BY <1>3, <2>2
      <3>. QED  BY <2>2, <2>5, <3>1, <3>2
    <2>. QED  BY <1>3, <2>2, <2>6
  <1>. HIDE DEF T
  <1>4. \A k \in 0..n : k \in T
    BY <1>2, <1>3, UpTo
  <1>5. n \in T
    BY <1>4
  <1>. QED  BY <1>5 DEF T

(* A list of a finite set leaves nothing out. *)
LEMMA Listed ==
  ASSUME NEW S, IsFiniteSet(S), NEW u, u = SetToSeq(S), NEW n, n = Cardinality(S)
  PROVE  /\ n \in Nat /\ \A k \in 1..n : u[k] \in S
         /\ \A x \in S : \E k \in 1..n : u[k] = x
  <1>1. n \in Nat /\ ExistsBijection(1..n, S)
    BY FS_CardinalityType
  <1>2. PICK b \in [1..n -> S] : IsInjective(b)
    BY <1>1 DEF ExistsBijection, Bijection, Injection, IsInjective
  <1>3. u \in [1..n -> S] /\ IsInjective(u)
    BY <1>2 DEF SetToSeq
  <1>4. u \in Injection(1..n, S)
    BY <1>3 DEF Injection, IsInjective
  <1>5. Cardinality(1..n) = n
    BY <1>1, FS_Interval
  <1>6. u \in Surjection(1..n, S)
    BY <1>4, <1>5, FS_Injection
  <1>. QED  BY <1>1, <1>3, <1>6 DEF Surjection

LEMMA ExpireLawful ==
  ASSUME IInv, EverLawful, NEW S \in SUBSET Items, Expire(S)
  PROVE  EverLawful'
  <1>. DEFINE Receiver(i) == IF auctions[i].bidder = Nobody THEN auctions[i].owner
                             ELSE auctions[i].bidder
              Won    == {i \in S : auctions[i].bidder # Nobody}
              Sent   == {i \in S : Receiver(i) \in known}
              mail   == [i \in Sent |-> Receiver(i)]
              Sellers(l) == {i \in Won : l \in DOMAIN SendAuctionSuccessfulMail(auctions[i])}
              dom    == UNION {DOMAIN SendAuctionSuccessfulMail(auctions[i]) : i \in Won}
              bag    == [l \in dom |-> Cardinality(Sellers(l))]
              gone   == [k \in 1..Cardinality(S \ Sent) |-> RemoveAItem(SetToSeq(S \ Sent)[k])]
              won    == Restrict(mail, Sent \cap Won)
  <1>1. PICK t, f, u, n : /\ t = [SendAuctionWonMail(won) EXCEPT !.unsale = S, !.post = mail, !.coins = bag]
                          /\ f = Future /\ u = SetToSeq(S \ Sent) /\ n = Cardinality(S \ Sent)
    OBVIOUS
  <1>2. /\ server = "up" /\ S \subseteq DOMAIN auctions /\ S # {}
        /\ queue' = queue \o (gone \o <<t>>) /\ db' = db
    BY <1>1, Zenon DEF Expire, Handling, CommitTransaction
  <1>3. t = [NoWrites EXCEPT !.owner = won, !.unsale = S, !.post = mail, !.coins = bag]
    BY <1>1 DEF SendAuctionWonMail, NoWrites
  <1>4. /\ n \in Nat /\ \A k \in 1..n : u[k] \in S \ Sent
        /\ \A x \in S \ Sent : \E k \in 1..n : u[k] = x
    <2>1. S \ Sent \subseteq Items
      OBVIOUS
    <2>. HIDE DEF Sent
    <2>2. PICK D : D = S \ Sent
      OBVIOUS
    <2>3. IsFiniteSet(D)
      BY <2>1, <2>2, FS_Subset, HouseAssumption
    <2>4. u = SetToSeq(D) /\ n = Cardinality(D)
      BY <1>1, <2>2
    <2>5. /\ n \in Nat /\ \A k \in 1..n : u[k] \in D
          /\ \A x \in D : \E k \in 1..n : u[k] = x
      BY ONLY <2>3, <2>4, Listed
    <2>. QED  BY <2>2, <2>5
  <1>5. gone = [k \in 1..n |-> RemoveAItem(u[k])]
    BY <1>1
  <1>6. Sound(f) /\ AheadOf(f) /\ Shape
    BY <1>1, <1>2, Up
  <1>7. /\ \A i \in DOMAIN won : i \in Sent /\ won[i] = mail[i]
        /\ \A i \in Sent : i \notin DOMAIN won => auctions[i].bidder = Nobody
    BY DEF Restrict
  <1>8. /\ Sent = {i \in S : Economy!Receiver(auctions[i]) \in known}
        /\ mail = [i \in Sent |-> Economy!Receiver(auctions[i])]
    BY DEF Economy!Receiver
  <1>9. ASSUME NEW d, AheadOf(d)
        PROVE  /\ Sent = SentIn(d, S) /\ mail = MailIn(d, S) /\ bag = ProfitsIn(d, S)
    <2>1. known = DOMAIN d.chars /\ \A i \in S : i \in DOMAIN d.sale /\ d.sale[i] = auctions[i]
      BY <1>2, <1>9 DEF AheadOf, Has
    <2>2. Sent = SentIn(d, S)
      BY <1>8, <2>1 DEF SentIn
    <2>3. mail = MailIn(d, S)
      BY <1>8, <2>1, <2>2 DEF MailIn
    <2>4. \A i \in Won : SendAuctionSuccessfulMail(auctions[i]) = ProfitIn(d, d.sale[i])
      BY <2>1, SameMail
    <2>5. \A i \in S \ Won : DOMAIN ProfitIn(d, d.sale[i]) = {}
      BY <2>1, SingleCopy DEF ProfitIn
    <2>6. dom = UNION {DOMAIN ProfitIn(d, d.sale[i]) : i \in S}
      BY <2>4, <2>5
    <2>7. \A l : Sellers(l) = Earns(d, S, l)
      BY <2>4, <2>5 DEF Earns
    <2>. HIDE DEF dom, Sellers
    <2>8. bag = ProfitsIn(d, S)
      BY <2>6, <2>7 DEF ProfitsIn
    <2>. QED  BY <2>2, <2>3, <2>8
  <1>. HIDE DEF gone, bag, mail, Sent, Won, won
  <1>10. IsQueue(gone) /\ Len(gone) = n /\ \A k \in 1..n : gone[k] = RemoveAItem(u[k])
    <2>. DEFINE V == {RemoveAItem(u[k]) : k \in 1..n}
    <2>1. \A k \in 1..n : RemoveAItem(u[k]) \in V
      OBVIOUS
    <2>. HIDE DEF V
    <2>2. gone \in [1..n -> V]
      BY <1>5, <2>1
    <2>3. gone \in Seq(V) /\ Len(gone) = n
      BY ONLY <1>4, <2>2
    <2>4. IsQueue(gone)
      BY ONLY <2>3, QueueTyped, Zenon
    <2>. QED  BY <1>5, <2>3, <2>4
  <1>11. \A k \in 0..n : AheadOf(After(f, gone)[k])
    <2>1. Len(gone) \in Nat /\ \A k \in 1..Len(gone) : \E i : gone[k] = RemoveAItem(i)
      BY <1>4, <1>10
    <2>. QED  BY <1>6, <1>10, <2>1, Removals
  <1>12. \A i \in S \ Sent : i \notin DOMAIN After(f, gone)[n].item
    <2>1. Len(gone) \in Nat /\ \A k \in 1..Len(gone) : gone[k] = RemoveAItem(u[k])
      BY <1>4, <1>10
    <2>2. \A k \in 1..n : u[k] \notin DOMAIN After(f, gone)[n].item
      BY <1>10, <2>1, Removed
    <2>. QED  BY <1>4, <2>2
  <1>13. ASSUME NEW k \in 1..n PROVE Lawful(After(f, gone)[k - 1], gone[k])
    <2>1. PICK d, i : d = After(f, gone)[k - 1] /\ i = u[k]
      OBVIOUS
    <2>2. AheadOf(d)
      BY <1>4, <1>11, <2>1
    <2>3. /\ i \in Items /\ i \in S /\ i \in DOMAIN d.sale /\ i \notin SentIn(d, S)
          /\ gone[k] = RemoveAItem(i)
      BY <1>2, <1>4, <1>9, <1>10, <2>1, <2>2 DEF AheadOf, Has
    <2>4. Destroys(d, gone[k])
      BY <2>3 DEF Destroys, SentIn
    <2>. QED  BY <2>1, <2>4 DEF Lawful
  <1>14. Lawful(After(f, gone)[n], t)
    <2>1. PICK d : d = After(f, gone)[n]
      OBVIOUS
    <2>2. AheadOf(d) /\ \A i \in S \ Sent : i \notin DOMAIN d.item
      BY <1>4, <1>11, <1>12, <2>1
    <2>3. \A i \in S : i \in DOMAIN d.sale /\ d.sale[i] = auctions[i]
      BY <1>2, <2>2 DEF AheadOf, Has
    <2>4. Sent = SentIn(d, S) /\ mail = MailIn(d, S) /\ bag = ProfitsIn(d, S)
      BY <1>9, <2>2
    <2>5. /\ \A i \in S \ SentIn(d, S) : i \notin DOMAIN d.item
          /\ \A i \in DOMAIN won : i \in SentIn(d, S) /\ won[i] = MailIn(d, S)[i]
          /\ \A i \in SentIn(d, S) : i \notin DOMAIN won => d.sale[i].bidder = Nobody
          /\ t = [NoWrites EXCEPT !.owner = won, !.unsale = S, !.post = MailIn(d, S),
                                  !.coins = ProfitsIn(d, S)]
      <3>1. SentIn(d, S) \subseteq S
        BY DEF SentIn
      <3>. QED  BY <1>3, <1>7, <2>2, <2>3, <2>4, <3>1
    <2>6. Settles(d, t)
      BY <1>2, <2>3, <2>5 DEF Settles
    <2>. QED  BY <2>1, <2>6 DEF Lawful
  <1>. DEFINE r == gone \o <<t>>
  <1>15. /\ IsQueue(r) /\ Len(r) = n + 1
         /\ \A k \in 0..n : After(f, r)[k] = After(f, gone)[k]
         /\ \A k \in 1..n : r[k] = gone[k]
         /\ r[n + 1] = t
    <2>. DEFINE o == <<t>>
    <2>1. IsQueue(o) /\ Len(o) = 1 /\ o[1] = t
      BY QueueOne
    <2>2. r = gone \o o
      OBVIOUS
    <2>. HIDE DEF o, r
    <2>3. /\ IsQueue(gone \o o) /\ Len(gone \o o) = Len(gone) + Len(o)
          /\ \A k \in 1..Len(gone) : (gone \o o)[k] = gone[k]
          /\ \A k \in 1..Len(o) : (gone \o o)[Len(gone) + k] = o[k]
      <3>1. IsQueue(gone) /\ IsQueue(o)
        BY <1>10, <2>1
      <3>. QED  BY ONLY <3>1, QueueConcat
    <2>4. \A k \in 0..n : After(f, r)[k] = After(f, gone)[k]
      BY <1>10, <2>1, <2>2, AfterConcat
    <2>5. 1 \in 1..1
      OBVIOUS
    <2>. QED  BY ONLY <1>4, <1>10, <2>1, <2>2, <2>3, <2>4, <2>5
  <1>16. queue' = queue \o r
    BY <1>2
  <1>. HIDE DEF r
  <1>17. ASSUME NEW k \in 1..Len(r) PROVE Lawful(After(f, r)[k - 1], r[k])
    <2>1. CASE k \in 1..n
      <3>1. k - 1 \in 0..n
        BY <1>4, <2>1
      <3>. QED  BY <1>13, <1>15, <2>1, <3>1
    <2>2. CASE k = n + 1
      <3>1. k - 1 = n /\ n \in 0..n
        BY <1>4, <2>2
      <3>. QED  BY <1>14, <1>15, <2>2, <3>1
    <2>. QED  BY <1>4, <1>15, <2>1, <2>2
  <1>18. IsQueue(queue)
    BY DEF IInv
  <1>. QED  BY <1>1, <1>2, <1>15, <1>16, <1>17, <1>18, CommitLawful

-----------------------------------------------------------------------------
(* The invariant of the refinement. *)

LEMMA FirstLawful ==
  ASSUME IsQueue(queue), queue # <<>>, EverLawful
  PROVE  Lawful(db, Head(queue))
  <1>1. Len(queue) \in Nat /\ Len(queue) # 0 /\ Head(queue) = queue[1]
    BY QueueTail
  <1>2. After(db, queue)[0] = db
    BY <1>1, AfterUnfolds
  <1>3. 1 \in 1..Len(queue) /\ 1 - 1 = 0
    BY <1>1
  <1>4. Lawful(After(db, queue)[1 - 1], queue[1])
    BY <1>3 DEF EverLawful
  <1>. QED  BY <1>1, <1>2, <1>3, <1>4

(* The worker takes one request, and the others wait for what they waited for. *)
LEMMA WorkerAfter ==
  ASSUME IsQueue(queue), Worker
  PROVE  /\ Future' = Future /\ Len(queue) \in Nat /\ Len(queue') = Len(queue) - 1
         /\ \A k \in 1..Len(queue') : queue'[k] = queue[k + 1]
         /\ \A k \in 0..Len(queue') : After(db, queue)'[k] = After(db, queue)[k + 1]
  <1>1. PICK n : n = Len(queue) - 1
    OBVIOUS
  <1>2. queue # <<>> /\ db' = Execute(db, Head(queue)) /\ queue' = Tail(queue)
    BY DEF Worker
  <1>3. /\ n \in Nat /\ Len(queue) = n + 1 /\ Len(queue') = n
        /\ \A k \in 1..n : queue'[k] = queue[k + 1]
    BY <1>1, <1>2, QueueTail
  <1>4. \A k \in 0..n : After(db, queue)'[k] = After(db, queue)[k + 1]
    <2>1. After(db, queue)' = After(Execute(db, Head(queue)), Tail(queue))
      BY <1>2 DEF After
    <2>2. \A k \in 0..n : After(Execute(db, Head(queue)), Tail(queue))[k] = After(db, queue)[k + 1]
      BY <1>1, <1>2, AfterTail
    <2>. QED  BY <2>1, <2>2
  <1>5. Future' = Future
    <2>1. Future' = After(db, queue)'[n] /\ Future = After(db, queue)[n + 1]
      BY <1>3 DEF Future
    <2>2. n \in 0..n
      BY <1>3
    <2>. QED  BY <1>4, <2>1, <2>2
  <1>. QED  BY <1>3, <1>4, <1>5

LEMMA WorkerLawful ==
  ASSUME IsQueue(queue), EverLawful, Worker
  PROVE  EverLawful'
  <1>1. /\ Len(queue) \in Nat /\ Len(queue') = Len(queue) - 1
        /\ \A k \in 1..Len(queue') : queue'[k] = queue[k + 1]
        /\ \A k \in 0..Len(queue') : After(db, queue)'[k] = After(db, queue)[k + 1]
    BY WorkerAfter
  <1>2. ASSUME NEW k \in 1..Len(queue') PROVE Lawful(After(db, queue)'[k - 1], queue'[k])
    <2>1. k + 1 \in 1..Len(queue) /\ k - 1 \in 0..Len(queue') /\ (k - 1) + 1 = k /\ (k + 1) - 1 = k
      BY <1>1
    <2>2. Lawful(After(db, queue)[(k + 1) - 1], queue[k + 1])
      BY <2>1 DEF EverLawful
    <2>3. After(db, queue)'[k - 1] = After(db, queue)[k] /\ queue'[k] = queue[k + 1]
      BY <1>1, <2>1
    <2>. QED  BY <2>1, <2>2, <2>3
  <1>. QED  BY <1>2 DEF EverLawful, After

(* The database of AuctionEconomy is of the types the proofs need. *)
LEMMA Stocked ==
  ASSUME EconomyProofs!FInv
  PROVE  Economy!ItemOnce /\ Economy!ItemFound /\ Economy!BidsStand
  BY DEF EconomyProofs!FInv, EconomyProofs!IInv, EconomyProofs!ItemOnce, EconomyProofs!ItemFound,
         EconomyProofs!BidsStand, Economy!ItemOnce, Economy!ItemFound, Economy!BidsStand

(* EconomyProofs speaks of the same operations as Economy. *)
LEMMA SameOperators ==
  /\ EconomyProofs!EmptyBag = Economy!EmptyBag
  /\ \A S : EconomyProofs!SetToBag(S) = Economy!SetToBag(S)
  /\ \A A, B : EconomyProofs!(+)(A, B) = Economy!(+)(A, B)
  /\ \A A, B : EconomyProofs!(-)(A, B) = Economy!(-)(A, B)
  /\ \A c, n : EconomyProofs!Letter(c, n) = Economy!Letter(c, n)
  /\ \A s, c, n : EconomyProofs!WithBid(s, c, n) = Economy!WithBid(s, c, n)
  /\ \A s, c : EconomyProofs!Refund(c, s) = Economy!Refund(c, s)
  /\ \A s : EconomyProofs!Profit(s) = Economy!Profit(s)
  /\ \A S : EconomyProofs!Profits(S) = Economy!Profits(S)
  /\ \A s, c, n : EconomyProofs!Pay(c, s, n) <=> Economy!Pay(c, s, n)
  /\ \A table, keys : EconomyProofs!WithoutKeys(table, keys) = Economy!WithoutKeys(table, keys)
  /\ \A table, k, row : EconomyProofs!Put(table, k, row) = Economy!Put(table, k, row)
  <1>1. /\ EconomyProofs!EmptyBag = Economy!EmptyBag
        /\ \A S : EconomyProofs!SetToBag(S) = Economy!SetToBag(S)
        /\ \A A, B : EconomyProofs!(+)(A, B) = Economy!(+)(A, B)
        /\ \A A, B : EconomyProofs!(-)(A, B) = Economy!(-)(A, B)
    BY DEF Economy!EmptyBag, EconomyProofs!EmptyBag, Economy!SetToBag, EconomyProofs!SetToBag,
           Economy!(+), EconomyProofs!(+), Economy!(-), EconomyProofs!(-)
  <1>2. \A S : EconomyProofs!Cardinality(S) = Economy!Cardinality(S)
    BY DEF Economy!Cardinality, EconomyProofs!Cardinality
  <1>3. \A c, n : EconomyProofs!Letter(c, n) = Economy!Letter(c, n)
    BY <1>1 DEF Economy!Letter, EconomyProofs!Letter
  <1>4. \A s, c, n : EconomyProofs!WithBid(s, c, n) = Economy!WithBid(s, c, n)
    BY DEF Economy!WithBid, EconomyProofs!WithBid
  <1>5. \A s, c : EconomyProofs!Refund(c, s) = Economy!Refund(c, s)
    BY <1>1, <1>3 DEF Economy!Refund, EconomyProofs!Refund
  <1>6. \A s : EconomyProofs!Profit(s) = Economy!Profit(s)
    BY <1>1, <1>3 DEF Economy!Profit, EconomyProofs!Profit, Economy!AuctionCut, EconomyProofs!AuctionCut
  <1>7. \A S : EconomyProofs!Profits(S) = Economy!Profits(S)
    BY <1>2, <1>6 DEF Economy!Profits, EconomyProofs!Profits
  <1>8. \A s, c, n : EconomyProofs!Pay(c, s, n) <=> Economy!Pay(c, s, n)
    BY DEF Economy!Pay, EconomyProofs!Pay
  <1>9. /\ \A table, keys : EconomyProofs!WithoutKeys(table, keys) = Economy!WithoutKeys(table, keys)
        /\ \A table, k, row : EconomyProofs!Put(table, k, row) = Economy!Put(table, k, row)
    BY DEF Economy!WithoutKeys, EconomyProofs!WithoutKeys, Economy!Restrict, EconomyProofs!Restrict,
           Economy!Put, EconomyProofs!Put
  <1>. QED  BY <1>1, <1>3, <1>4, <1>5, <1>6, <1>7, <1>8, <1>9

LEMMA SameEconomy ==
  ASSUME [Economy!Next]_(Economy!vars)
  PROVE  [EconomyProofs!Next]_(EconomyProofs!vars)
  <1>1. CASE UNCHANGED Economy!vars
    BY <1>1 DEF Economy!vars, EconomyProofs!vars
  <1>2. ASSUME NEW c, NEW i, NEW n, Economy!Sell(c, i, n) PROVE EconomyProofs!Sell(c, i, n)
    BY <1>2, SameOperators DEF Economy!Sell, EconomyProofs!Sell, Economy!CanPay, EconomyProofs!CanPay
  <1>3. ASSUME NEW c, NEW i, NEW n, Economy!Bid(c, i, n) PROVE EconomyProofs!Bid(c, i, n)
    BY <1>3, SameOperators DEF Economy!Bid, EconomyProofs!Bid, Economy!Offered, EconomyProofs!Offered,
                               Economy!CanPay, EconomyProofs!CanPay
  <1>4. ASSUME NEW c, NEW i, Economy!Buyout(c, i) PROVE EconomyProofs!Buyout(c, i)
    BY <1>4, SameOperators DEF Economy!Buyout, EconomyProofs!Buyout, Economy!Offered,
                               EconomyProofs!Offered, Economy!CanPay, EconomyProofs!CanPay
  <1>5. ASSUME NEW i, Economy!Cancel(i) PROVE EconomyProofs!Cancel(i)
    BY <1>5, SameOperators DEF Economy!Cancel, EconomyProofs!Cancel, Economy!CanPay,
                    EconomyProofs!CanPay, Economy!AuctionCut, EconomyProofs!AuctionCut
  <1>6. ASSUME NEW i, Economy!Destroy(i) PROVE EconomyProofs!Destroy(i)
    BY <1>6, SameOperators DEF Economy!Destroy, EconomyProofs!Destroy, Economy!Receiver,
                               EconomyProofs!Receiver
  <1>7. ASSUME NEW i, Economy!TakeItem(i) PROVE EconomyProofs!TakeItem(i)
    BY <1>7, SameOperators DEF Economy!TakeItem, EconomyProofs!TakeItem
  <1>8. ASSUME NEW S, Economy!Settle(S) PROVE EconomyProofs!Settle(S)
    BY <1>8, SameOperators DEF Economy!Settle, EconomyProofs!Settle, Economy!Receiver,
                               EconomyProofs!Receiver
  <1>9. ASSUME NEW l, Economy!TakeMoney(l) PROVE EconomyProofs!TakeMoney(l)
    BY <1>9, SameOperators DEF Economy!TakeMoney, EconomyProofs!TakeMoney
  <1>10. ASSUME NEW c, Economy!Delete(c) PROVE EconomyProofs!Delete(c)
    BY <1>10, SameOperators DEF Economy!Delete, EconomyProofs!Delete, Economy!RestrictValues,
                    EconomyProofs!RestrictValues, Economy!RestrictDomain, EconomyProofs!RestrictDomain,
                    Economy!Restrict, EconomyProofs!Restrict
  <1>. QED
    BY <1>1, <1>2, <1>3, <1>4, <1>5, <1>6, <1>7, <1>8, <1>9, <1>10
    DEF Economy!Next, EconomyProofs!Next

(* Finite sets are the same in both, which the assumption on the constants needs. *)
LEMMA Finitely ==
  \A S : EconomyProofs!IsFiniteSet(S) <=> IsFiniteSet(S)
  BY DEF IsFiniteSet, EconomyProofs!IsFiniteSet

LEMMA EconomyKept ==
  ASSUME [Economy!Next]_(Economy!vars), EconomyProofs!FInv
  PROVE  EconomyProofs!FInv'
  <1>1. [EconomyProofs!Next]_(EconomyProofs!vars)
    BY SameEconomy
  <1>. QED  BY <1>1, HouseAssumption, Finitely, EconomyProofs!NextFair

LEMMA WorkerEconomy ==
  ASSUME LInv, Worker
  PROVE  [Economy!Next]_(Economy!vars) /\ Typed(db)' /\ EverLawful' /\ EconomyProofs!FInv'
  <1>1. IsQueue(queue) /\ Typed(db) /\ EverLawful /\ EconomyProofs!FInv
    BY DEF LInv, IInv
  <1>2. PICK t : t = Head(queue)
    OBVIOUS
  <1>3. queue # <<>> /\ db' = Execute(db, t)
    BY <1>2 DEF Worker
  <1>4. Lawful(db, t)
    BY <1>1, <1>2, <1>3, FirstLawful
  <1>5. Economy!ItemOnce /\ Economy!ItemFound
    BY <1>1, Stocked
  <1>6. [Economy!Next]_(Economy!vars)
    BY <1>1, <1>3, <1>4, <1>5, LawfulImplements
  <1>7. EconomyProofs!FInv'
    BY <1>1, <1>6, EconomyKept
  <1>8. PICK d, e : d = db /\ e = db'
    OBVIOUS
  <1>9. Typed(e)
    BY <1>1, <1>3, <1>4, <1>8, TypedKept
  <1>10. Typed(db')
    BY <1>8, <1>9
  <1>. QED  BY <1>1, <1>6, <1>7, <1>10, WorkerLawful

-----------------------------------------------------------------------------
(* Every step of the auction house is a step of AuctionEconomy, or none. *)

(* What the other steps leave to be said. *)
LEMMA SameTables ==
  ASSUME LInv, UNCHANGED db
  PROVE  UNCHANGED Economy!vars /\ Typed(db)' /\ EconomyProofs!FInv'
  <1>1. UNCHANGED Economy!vars
    BY DEF Economy!vars
  <1>2. PICK d : d = db
    OBVIOUS
  <1>3. Typed(d)
    BY <1>2 DEF LInv
  <1>4. Typed(db')
    BY <1>2, <1>3
  <1>. QED  BY <1>1, <1>4, EconomyKept DEF LInv

LEMMA SameLawful ==
  ASSUME LInv, UNCHANGED <<db, queue>>
  PROVE  EverLawful'
  <1>1. After(db, queue)' = After(db, queue)
    BY DEF After
  <1>2. \A k \in 1..Len(queue) : Lawful(After(db, queue)[k - 1], queue[k])
    BY DEF LInv, EverLawful
  <1>3. \A k \in 1..Len(queue') : Lawful(After(db, queue)'[k - 1], queue'[k])
    BY <1>1, <1>2
  <1>. QED  BY <1>3 DEF EverLawful, After

LEMMA NoneLawful ==
  ASSUME queue' = <<>>
  PROVE  EverLawful'
  <1>1. Len(queue') = 0
    BY AtOnce
  <1>2. \A k \in 1..Len(queue') : Lawful(After(db, queue)'[k - 1], queue'[k])
    BY <1>1
  <1>. QED  BY <1>2 DEF EverLawful, After

(* The handlers that the world thread runs while the server is up. *)
Handled ==
    \/ \E c \in Characters, i \in Items :
          \/ \E buyout \in Buyouts : HandleAuctionSellItem(c, i, buyout)
          \/ \E price \in Prices : PlaceBid(c, i, price) \/ BuyOut(c, i, price)
          \/ HandleAuctionRemoveItem(c, i)
          \/ HandleMailTakeItem(c, i)
    \/ \E S \in SUBSET Items : Expire(S)
    \/ \E letter \in DOMAIN letters : HandleMailTakeMoney(letter)
    \/ \E c \in Characters : HandlePlayerLogin(c) \/ HandleCharDelete(c)

LEMMA HandledLawful ==
  ASSUME LInv, Handled
  PROVE  EverLawful' /\ db' = db /\ server' = "up"
  <1>1. IInv /\ EverLawful /\ Typed(Future)
    BY FutureTyped DEF LInv, IInv
  <1>2. CASE \E c \in Characters, i \in Items :
                \/ \E buyout \in Buyouts : HandleAuctionSellItem(c, i, buyout)
                \/ \E price \in Prices : PlaceBid(c, i, price) \/ BuyOut(c, i, price)
                \/ HandleAuctionRemoveItem(c, i)
                \/ HandleMailTakeItem(c, i)
    <2>1. EverLawful'
      BY <1>1, <1>2, SellLawful, BidLawful, BuyOutLawful, CancelLawful, TakeItemLawful
    <2>2. PICK c, i : \/ \E buyout : HandleAuctionSellItem(c, i, buyout)
                      \/ \E price : PlaceBid(c, i, price) \/ BuyOut(c, i, price)
                      \/ HandleAuctionRemoveItem(c, i) \/ HandleMailTakeItem(c, i)
      BY <1>2
    <2>3. ASSUME NEW buyout, HandleAuctionSellItem(c, i, buyout) PROVE db' = db /\ server' = "up"
      BY <2>3 DEF HandleAuctionSellItem, Handling
    <2>4. ASSUME NEW price, PlaceBid(c, i, price) PROVE db' = db /\ server' = "up"
      BY <2>4 DEF PlaceBid, Handling
    <2>5. ASSUME NEW price, BuyOut(c, i, price) PROVE db' = db /\ server' = "up"
      BY <2>5 DEF BuyOut, Handling
    <2>6. ASSUME HandleAuctionRemoveItem(c, i) PROVE db' = db /\ server' = "up"
      BY <2>6 DEF HandleAuctionRemoveItem, Handling
    <2>7. ASSUME HandleMailTakeItem(c, i) PROVE db' = db /\ server' = "up"
      BY <2>7 DEF HandleMailTakeItem, Handling
    <2>. QED  BY <2>1, <2>2, <2>3, <2>4, <2>5, <2>6, <2>7
  <1>3. CASE \E S \in SUBSET Items : Expire(S)
    <2>1. EverLawful'
      BY <1>1, <1>3, ExpireLawful
    <2>2. db' = db /\ server' = "up"
      BY <1>3, Zenon DEF Expire, Handling
    <2>. QED  BY <2>1, <2>2
  <1>4. CASE \E letter \in DOMAIN letters : HandleMailTakeMoney(letter)
    <2>1. EverLawful'
      BY <1>1, <1>4, TakeMoneyLawful
    <2>2. db' = db /\ server' = "up"
      BY <1>4 DEF HandleMailTakeMoney, Handling
    <2>. QED  BY <2>1, <2>2
  <1>5. CASE \E c \in Characters : HandlePlayerLogin(c) \/ HandleCharDelete(c)
    <2>1. EverLawful'
      BY <1>1, <1>5, LoginLawful, CharDeleteLawful
    <2>2. db' = db /\ server' = "up"
      BY <1>5 DEF HandlePlayerLogin, HandleCharDelete, Handling
    <2>. QED  BY <2>1, <2>2
  <1>. QED  BY <1>2, <1>3, <1>4, <1>5 DEF Handled

(* Players are kicked one by one: what is stored of the others stays. *)
LEMMA LogoutGold ==
  ASSUME LInv, NEW c \in Characters, LogoutPlayer(c)
  PROVE  /\ db' = db /\ server' = server
         /\ server = "closing" => GoldKept'
  <1>1. PICK t, f, e : /\ t = [NoWrites EXCEPT !.gold = SaveGoldToDB(c, gold)]
                       /\ f = Future /\ e = Execute(f, t)
    OBVIOUS
  <1>2. /\ queue' = queue \o <<t>> /\ gold' = Without(gold, {c})
        /\ db' = db /\ server' = server
    BY <1>1 DEF LogoutPlayer, CommitTransaction
  <1>3. Future' = e
    <2>. DEFINE r == <<t>>
    <2>1. IsQueue(r) /\ Len(r) = 1 /\ r[1] = t
      BY QueueOne
    <2>2. queue' = queue \o r /\ db' = db /\ IsQueue(queue)
      BY <1>2 DEF LInv, IInv
    <2>. HIDE DEF r
    <2>3. Future' = After(f, r)[1]
      BY <1>1, <2>1, <2>2, Commit
    <2>4. After(f, r)[0] = f /\ After(f, r)[1] = Execute(After(f, r)[1 - 1], r[1])
      BY <2>1, AfterUnfolds
    <2>. QED  BY <1>1, <2>1, <2>3, <2>4
  <1>4. t.purge = {} /\ DOMAIN t.gold = {c}
    BY <1>1 DEF NoWrites, SaveGoldToDB, Row
  <1>5. Executed(f, t, e)
    BY <1>1, ExecuteRows
  <1>6. ASSUME server = "closing", NEW o \in DOMAIN gold'
        PROVE  o \in DOMAIN e.chars /\ e.chars[o] = gold'[o]
    <2>1. o \in DOMAIN gold /\ o # c /\ gold'[o] = gold[o]
      BY <1>2, <1>6 DEF Without, Restrict
    <2>2. Has(f.chars, o, gold[o])
      BY <1>1, <1>6, <2>1 DEF LInv, GoldKept
    <2>. QED  BY <1>4, <1>5, <2>1, <2>2 DEF Executed, Has
  <1>. QED  BY <1>2, <1>3, <1>6 DEF GoldKept, Has

LEMMA EconomyStart == Init => LInv /\ Economy!Init
  <1>. SUFFICES ASSUME Init PROVE LInv /\ Economy!Init
    OBVIOUS
  <1>1. /\ queue = <<>> /\ server = "up"
        /\ db.chars = StartGold /\ db.item = Home /\ db.inv = Home
        /\ db.sale = <<>> /\ db.post = <<>> /\ db.coins = EmptyBag
    BY DEF Init
  <1>2. IInv
    BY Start
  <1>3. Typed(db)
    <2>1. Table(db.chars) /\ Table(db.item) /\ Table(db.inv) /\ Table(db.sale) /\ Table(db.post)
      BY <1>1, HouseAssumption, Empty DEF Table
    <2>2. DOMAIN db.chars \subseteq Characters /\ \A c \in DOMAIN db.chars : db.chars[c] \in Nat
      BY <1>1, HouseAssumption
    <2>3. DOMAIN db.sale = {}
      BY <1>1, Empty
    <2>4. IsABag(db.coins) /\ DOMAIN db.coins = {}
      BY <1>1, SingleCopy
    <2>. QED  BY <2>1, <2>2, <2>3, <2>4 DEF Typed
  <1>4. EverLawful
    <2>1. Len(queue) = 0
      BY <1>1, AtOnce
    <2>. QED  BY <2>1 DEF EverLawful
  <1>5. Economy!Init
    BY <1>1, EconomyBags DEF Economy!Init
  <1>6. EconomyProofs!FInv
    <2>1. EconomyProofs!Init
      BY <1>5, SameOperators DEF Economy!Init, EconomyProofs!Init
    <2>. QED  BY <2>1, HouseAssumption, Finitely, EconomyProofs!InitFInv
  <1>. QED  BY <1>1, <1>2, <1>3, <1>4, <1>5, <1>6 DEF LInv

LEMMA EconomyStep ==
  ASSUME LInv, [Next]_vars
  PROVE  LInv' /\ [Economy!Next]_(Economy!vars)
  <1>1. IInv'
    BY Step DEF LInv
  <1>2. CASE UNCHANGED vars
    <2>1. UNCHANGED <<gold, queue, db, server>>
      BY <1>2 DEF vars, memory
    <2>2. Future' = Future
      BY <2>1, SameQueue DEF LInv
    <2>3. server' = "closing" => GoldKept'
      BY <2>1, <2>2 DEF LInv, GoldKept, Has
    <2>. QED  BY <1>1, <2>1, <2>3, SameTables, SameLawful DEF LInv
  <1>3. CASE Handled
    BY <1>1, <1>3, HandledLawful, SameTables DEF LInv
  <1>4. CASE \E c \in Characters : HandlePlayerLoginFromDB(c)
    <2>1. server' = "up" /\ UNCHANGED <<db, queue>>
      BY <1>4 DEF HandlePlayerLoginFromDB
    <2>. QED  BY <1>1, <2>1, SameTables, SameLawful DEF LInv
  <1>5. CASE \E c \in Characters : LogoutPlayer(c)
    <2>1. PICK c \in Characters : LogoutPlayer(c)
      BY <1>5
    <2>2. db' = db /\ server' = server /\ (server = "closing" => GoldKept')
      BY <2>1, LogoutGold
    <2>3. EverLawful'
      BY <2>1, LogoutLawful, FutureTyped DEF LInv, IInv
    <2>. QED  BY <1>1, <2>2, <2>3, SameTables DEF LInv
  <1>6. CASE Worker
    <2>1. Future' = Future /\ UNCHANGED <<gold, server>>
      BY <1>6, WorkerAfter DEF LInv, IInv, Worker, memory
    <2>2. server' = "closing" => GoldKept'
      BY <2>1 DEF LInv, GoldKept, Has
    <2>. QED  BY <1>1, <1>6, <2>2, WorkerEconomy DEF LInv
  <1>7. CASE Crash \/ Close
    <2>1. queue' = <<>> /\ server' = "down" /\ db' = db
      BY <1>7 DEF Crash, Close, Forget
    <2>. QED  BY <1>1, <2>1, SameTables, NoneLawful DEF LInv
  <1>8. CASE Shutdown
    <2>1. server = "up" /\ UNCHANGED <<gold, queue, db>>
      BY <1>8 DEF Shutdown, memory
    <2>2. Future' = Future /\ AheadOf(Future)
      BY <2>1, SameQueue, Up DEF LInv
    <2>3. GoldKept'
      BY <2>1, <2>2 DEF AheadOf, GoldKept, Has
    <2>. QED  BY <1>1, <2>1, <2>3, SameTables, SameLawful DEF LInv
  <1>9. CASE Boot
    <2>1. server' = "up" /\ UNCHANGED <<db, queue>>
      BY <1>9 DEF Boot
    <2>. QED  BY <1>1, <2>1, SameTables, SameLawful DEF LInv
  <1>. QED
    BY <1>2, <1>3, <1>4, <1>5, <1>6, <1>7, <1>8, <1>9 DEF Next, Handled

(* Whatever handlers run, whenever players come and go and wherever the server crashes, gold
   and items in the character database move only by the whole operations of AuctionEconomy:
   no transaction that waits meets tables for which it was not meant. *)
THEOREM RefinesEconomy == Spec => ImplementsEconomy
  <1>1. Init => LInv /\ Economy!Init
    BY EconomyStart
  <1>2. LInv /\ [Next]_vars => LInv' /\ [Economy!Next]_(Economy!vars)
    BY EconomyStep
  <1>. QED  BY <1>1, <1>2, PTL DEF Spec, ImplementsEconomy, Economy!Spec

(* Every item that exists is in an inventory, on sale or in the mail, under the name of its
   owner, and bids are in order: also between two transactions and after a crash. *)
THEOREM NothingLost == Spec => [](Economy!ItemFound /\ Economy!BidsStand)
  <1>1. Init => LInv
    BY EconomyStart
  <1>2. LInv /\ [Next]_vars => LInv'
    BY EconomyStep
  <1>3. LInv => Economy!ItemFound /\ Economy!BidsStand
    BY Stocked DEF LInv
  <1>. QED  BY <1>1, <1>2, <1>3, PTL DEF Spec

(* Both instances of the economy count gold alike. *)
LEMMA SameSums ==
  \A f : EconomyProofs!SumFunction(f) = Economy!SumFunction(f)
  BY DEF EconomyProofs!SumFunction, EconomyProofs!SumFunctionOnSet, EconomyProofs!FoldFunctionOnSet,
         EconomyProofs!MapThenFoldSet, Economy!SumFunction, Economy!SumFunctionOnSet,
         Economy!FoldFunctionOnSet, Economy!MapThenFoldSet

LEMMA SameWealth ==
  EconomyProofs!Wealth = Economy!Wealth /\ EconomyProofs!Wealth' = Economy!Wealth'
  BY SameSums DEF EconomyProofs!Wealth, Economy!Wealth

LEMMA SameDeal ==
  ASSUME EconomyProofs!FairDeal
  PROVE  Economy!FairDeal
  <1>1. \A s : EconomyProofs!Fee(s) = Economy!Fee(s)
    BY DEF EconomyProofs!Fee, Economy!Fee, EconomyProofs!AuctionCut, Economy!AuctionCut
  <1>. QED  BY <1>1, SameSums, SameWealth DEF EconomyProofs!FairDeal, Economy!FairDeal

(* No transaction that is executed creates gold or loses more than the house may keep, whatever
   was queued before it and whatever a crash has cut off. *)
THEOREM PaysFeesOnly == Spec => FeesOnly
  <1>1. LInv /\ [Next]_vars => LInv' /\ [Economy!FairDeal]_(Economy!vars)
    <2>. SUFFICES ASSUME LInv, [Next]_vars PROVE LInv' /\ [Economy!FairDeal]_(Economy!vars)
      OBVIOUS
    <2>1. LInv' /\ [EconomyProofs!Next]_(EconomyProofs!vars)
      BY EconomyStep, SameEconomy
    <2>2. EconomyProofs!FairDeal
      BY <2>1, HouseAssumption, Finitely, EconomyProofs!NextFair DEF LInv
    <2>. QED  BY <2>1, <2>2, SameDeal
  <1>. QED  BY <1>1, EconomyStart, PTL DEF Spec, FeesOnly, Economy!FeesOnly
=============================================================================
