------------------------ MODULE AuctionEconomy_proofs ------------------------
(***************************************************************************)
(* Proofs about AuctionEconomy: an item is never in two places, every item *)
(* is somewhere under its owner's name, bids are in order, and gold is     *)
(* lost only to the house.                                                 *)
(***************************************************************************)
EXTENDS AuctionEconomy, FiniteSetTheorems, WellFoundedInduction, TLAPS

(* Rows of auctionhouse have the types of its columns. *)
SaleTyped == DOMAIN sale \subseteq Items /\ \A i \in DOMAIN sale : sale[i] \in Sale

(* ItemFound is inductive only together with ItemOnce: an item that leaves one place could
   otherwise be in another one, under another name.  BidsStand needs the types of the rows. *)
IInv == SaleTyped /\ ItemOnce /\ ItemFound /\ BidsStand

-----------------------------------------------------------------------------
(* The tables of a new server hold nothing twice. *)
LEMMA InitIInv == Init => IInv
<1> SUFFICES ASSUME Init PROVE IInv
  OBVIOUS
<1>1. DOMAIN sale = {} /\ DOMAIN post = {}
  BY DEF Init
<1>2. inv = item
  BY DEF Init
<1> QED
  BY <1>1, <1>2 DEF IInv, SaleTyped, ItemOnce, ItemFound, BidsStand

(* An item goes from the inventory of its owner to an auction without bids. *)
LEMMA SellIInv ==
    ASSUME IInv, NEW c \in Characters, NEW i \in Items, NEW buyout \in Buyouts, Sell(c, i, buyout)
    PROVE  IInv'
<1> DEFINE new == [owner |-> c, buyout |-> buyout, bidder |-> Nobody, bid |-> 0]
<1>1. /\ DOMAIN inv' = DOMAIN inv \ {i}
      /\ \A k \in DOMAIN inv' : inv'[k] = inv[k]
  BY DEF Sell, WithoutKeys, Restrict
<1>2. /\ DOMAIN sale' = DOMAIN sale \cup {i}
      /\ sale'[i] = new
      /\ \A k \in DOMAIN sale : k # i => sale'[k] = sale[k]
  BY DEF Sell, Put
<1>3. item' = item /\ post' = post /\ i \in DOMAIN inv /\ inv[i] = c
  BY DEF Sell
<1>4. new \in Sale /\ Nobody # c
  BY EconomyAssumption DEF Sale
<1>5. SaleTyped'
  BY <1>2, <1>4 DEF IInv, SaleTyped
<1>6. ItemOnce'
  BY <1>1, <1>2, <1>3 DEF IInv, ItemOnce
<1>7. ItemFound'
  BY <1>1, <1>2, <1>3 DEF IInv, ItemOnce, ItemFound
<1>8. BidsStand'
  <2>1. /\ new.bid = 0 /\ new.bidder = Nobody /\ new.owner = c
        /\ new.buyout = 0 \/ new.bid < new.buyout
    BY EconomyAssumption
  <2> QED
    BY <1>2, <1>4, <2>1 DEF IInv, BidsStand
<1> QED
  BY <1>5, <1>6, <1>7, <1>8 DEF IInv

(* A bid changes the bidder and the bid of one auction. *)
LEMMA BidIInv ==
    ASSUME IInv, NEW c \in Characters, NEW i \in Items, NEW price \in Prices, Bid(c, i, price)
    PROVE  IInv'
<1>1. /\ i \in DOMAIN sale
      /\ c # sale[i].owner /\ price > sale[i].bid
      /\ sale[i].buyout = 0 \/ price < sale[i].buyout
      /\ item' = item /\ inv' = inv /\ post' = post
  BY DEF Bid, Offered
<1>2. sale[i] \in Sale /\ price \in Nat /\ Nobody # c
  BY <1>1, EconomyAssumption DEF IInv, SaleTyped
<1>3. /\ DOMAIN sale' = DOMAIN sale
      /\ sale'[i] = WithBid(sale[i], c, price)
      /\ \A k \in DOMAIN sale : k # i => sale'[k] = sale[k]
  BY <1>1 DEF Bid, Put
<1>4. /\ sale'[i] \in Sale
      /\ sale'[i].owner = sale[i].owner /\ sale'[i].buyout = sale[i].buyout
      /\ sale'[i].bidder = c /\ sale'[i].bid = price
  BY <1>2, <1>3 DEF Sale, WithBid
<1>5. SaleTyped'
  BY <1>3, <1>4 DEF IInv, SaleTyped
<1>6. ItemOnce'
  BY <1>1, <1>3 DEF IInv, ItemOnce
<1>7. ItemFound'
  BY <1>1, <1>3, <1>4 DEF IInv, ItemFound
<1>8. BidsStand'
  <2>1. price # 0
    BY <1>1, <1>2 DEF Sale
  <2> QED
    BY <1>1, <1>2, <1>3, <1>4, <2>1 DEF IInv, BidsStand
<1> QED
  BY <1>5, <1>6, <1>7, <1>8 DEF IInv

(* A buyout ends an auction; its item is mailed to the buyer and becomes the buyer's. *)
LEMMA BuyoutIInv ==
    ASSUME IInv, NEW c \in Characters, NEW i \in Items, Buyout(c, i)
    PROVE  IInv'
<1>1. /\ i \in DOMAIN sale /\ inv' = inv
      /\ DOMAIN sale' = DOMAIN sale \ {i}
      /\ \A k \in DOMAIN sale' : sale'[k] = sale[k]
  BY DEF Buyout, WithoutKeys, Restrict
<1>2. /\ DOMAIN post' = DOMAIN post \cup {i}
      /\ post'[i] = c
      /\ \A k \in DOMAIN post : k # i => post'[k] = post[k]
  BY DEF Buyout, Put
<1>3. /\ DOMAIN item' = DOMAIN item
      /\ \A k \in DOMAIN item : item'[k] = IF k = i THEN c ELSE item[k]
  BY DEF Buyout
<1>4. SaleTyped' /\ BidsStand'
  BY <1>1 DEF IInv, SaleTyped, BidsStand
<1>5. ItemOnce'
  BY <1>1, <1>2 DEF IInv, ItemOnce
<1>6. ItemFound'
  BY <1>1, <1>2, <1>3 DEF IInv, ItemOnce, ItemFound
<1> QED
  BY <1>4, <1>5, <1>6 DEF IInv

(* A cancelled auction sends its item back to its owner. *)
LEMMA CancelIInv ==
    ASSUME IInv, NEW i \in Items, Cancel(i)
    PROVE  IInv'
<1>1. /\ i \in DOMAIN sale /\ inv' = inv /\ item' = item
      /\ DOMAIN sale' = DOMAIN sale \ {i}
      /\ \A k \in DOMAIN sale' : sale'[k] = sale[k]
  BY DEF Cancel, WithoutKeys, Restrict
<1>2. /\ DOMAIN post' = DOMAIN post \cup {i}
      /\ post'[i] = sale[i].owner
      /\ \A k \in DOMAIN post : k # i => post'[k] = post[k]
  BY DEF Cancel, Put
<1>3. SaleTyped' /\ BidsStand'
  BY <1>1 DEF IInv, SaleTyped, BidsStand
<1>4. ItemOnce'
  BY <1>1, <1>2 DEF IInv, ItemOnce
<1>5. ItemFound'
  BY <1>1, <1>2 DEF IInv, ItemOnce, ItemFound
<1> QED
  BY <1>3, <1>4, <1>5 DEF IInv

(* Auctions that end send each item to its receiver, and the others exist no more. *)
LEMMA SettleIInv ==
    ASSUME IInv, NEW S \in SUBSET Items, Settle(S)
    PROVE  IInv'
<1> DEFINE sent == {i \in S : Receiver(sale[i]) \in DOMAIN chars}
<1>1. /\ S \subseteq DOMAIN sale /\ inv' = inv
      /\ \A i \in S \ sent : i \notin DOMAIN item
      /\ DOMAIN sale' = DOMAIN sale \ S
      /\ \A k \in DOMAIN sale' : sale'[k] = sale[k]
  BY DEF Settle, WithoutKeys, Restrict
<1>3. /\ DOMAIN post' = DOMAIN post \cup sent
      /\ \A k \in sent : post'[k] = Receiver(sale[k])
      /\ \A k \in DOMAIN post \ sent : post'[k] = post[k]
  BY DEF Settle
<1>4. /\ DOMAIN item' = DOMAIN item
      /\ \A k \in DOMAIN item : item'[k] = IF k \in sent THEN Receiver(sale[k]) ELSE item[k]
  BY DEF Settle
<1>5. sent \subseteq S
  OBVIOUS
<1> HIDE DEF sent
<1>6. SaleTyped' /\ BidsStand'
  BY <1>1 DEF IInv, SaleTyped, BidsStand
<1>7. ItemOnce'
  BY <1>1, <1>3, <1>5 DEF IInv, ItemOnce
<1>8. ItemFound'
  BY <1>1, <1>3, <1>4, <1>5 DEF IInv, ItemOnce, ItemFound
<1> QED
  BY <1>6, <1>7, <1>8 DEF IInv

(* An item that nobody can receive is destroyed, its auction is not. *)
LEMMA DestroyIInv ==
    ASSUME IInv, NEW i \in Items, Destroy(i)
    PROVE  IInv'
<1>1. /\ inv' = inv /\ sale' = sale /\ post' = post
      /\ DOMAIN item' = DOMAIN item \ {i}
      /\ \A k \in DOMAIN item' : item'[k] = item[k]
  BY DEF Destroy, WithoutKeys, Restrict
<1> QED
  BY <1>1 DEF IInv, SaleTyped, ItemOnce, ItemFound, BidsStand

(* A mailed item goes to the inventory of its receiver. *)
LEMMA TakeItemIInv ==
    ASSUME IInv, NEW i \in Items, TakeItem(i)
    PROVE  IInv'
<1>1. /\ i \in DOMAIN post /\ sale' = sale
      /\ DOMAIN inv' = DOMAIN inv \cup {i}
      /\ inv'[i] = post[i]
      /\ \A k \in DOMAIN inv : k # i => inv'[k] = inv[k]
  BY DEF TakeItem, Put
<1>2. /\ DOMAIN item' = DOMAIN item \cup {i}
      /\ item'[i] = post[i]
      /\ \A k \in DOMAIN item : k # i => item'[k] = item[k]
  BY DEF TakeItem, Put
<1>3. /\ DOMAIN post' = DOMAIN post \ {i}
      /\ \A k \in DOMAIN post' : post'[k] = post[k]
  BY DEF TakeItem, WithoutKeys, Restrict
<1>4. SaleTyped' /\ BidsStand'
  BY <1>1 DEF IInv, SaleTyped, BidsStand
<1>5. ItemOnce'
  BY <1>1, <1>3 DEF IInv, ItemOnce
<1>6. ItemFound'
  BY <1>1, <1>2, <1>3 DEF IInv, ItemOnce, ItemFound
<1> QED
  BY <1>4, <1>5, <1>6 DEF IInv

(* What a deleted character owned goes together with where it was. *)
LEMMA DeleteIInv ==
    ASSUME IInv, NEW c \in Characters, Delete(c)
    PROVE  IInv'
<1>1. /\ DOMAIN item' = {k \in DOMAIN item : item[k] # c}
      /\ \A k \in DOMAIN item' : item'[k] = item[k]
  BY DEF Delete, RestrictValues, Restrict
<1>2. /\ DOMAIN inv' = {k \in DOMAIN inv : inv[k] # c}
      /\ \A k \in DOMAIN inv' : inv'[k] = inv[k]
  BY DEF Delete, RestrictValues, Restrict
<1>3. /\ DOMAIN post' = {k \in DOMAIN post : post[k] # c}
      /\ \A k \in DOMAIN post' : post'[k] = post[k]
  BY DEF Delete, RestrictValues, Restrict
<1>4. sale' = sale
  BY DEF Delete
<1>5. SaleTyped' /\ BidsStand'
  BY <1>4 DEF IInv, SaleTyped, BidsStand
<1>6. ItemOnce'
  BY <1>2, <1>3, <1>4 DEF IInv, ItemOnce
<1>7. ItemFound'
  BY <1>1, <1>2, <1>3, <1>4 DEF IInv, ItemFound
<1> QED
  BY <1>5, <1>6, <1>7 DEF IInv

(* Every operation preserves the invariant. *)
LEMMA NextIInv == IInv /\ [Next]_vars => IInv'
<1> SUFFICES ASSUME IInv, [Next]_vars PROVE IInv'
  OBVIOUS
<1>1. CASE UNCHANGED vars
  BY <1>1 DEF vars, IInv, SaleTyped, ItemOnce, ItemFound, BidsStand
<1>2. ASSUME NEW c \in Characters, NEW i \in Items, NEW b \in Buyouts, Sell(c, i, b) PROVE IInv'
  BY <1>2, SellIInv
<1>3. ASSUME NEW c \in Characters, NEW i \in Items, NEW p \in Prices, Bid(c, i, p) PROVE IInv'
  BY <1>3, BidIInv
<1>4. ASSUME NEW c \in Characters, NEW i \in Items, Buyout(c, i) PROVE IInv'
  BY <1>4, BuyoutIInv
<1>5. ASSUME NEW i \in Items, Cancel(i) PROVE IInv'
  BY <1>5, CancelIInv
<1>6. ASSUME NEW i \in Items, Destroy(i) PROVE IInv'
  BY <1>6, DestroyIInv
<1>7. ASSUME NEW i \in Items, TakeItem(i) PROVE IInv'
  BY <1>7, TakeItemIInv
<1>8. ASSUME NEW S \in SUBSET Items, Settle(S) PROVE IInv'
  BY <1>8, SettleIInv
<1>9. ASSUME NEW letter \in DOMAIN coins, TakeMoney(letter) PROVE IInv'
  BY <1>9 DEF TakeMoney, IInv, SaleTyped, ItemOnce, ItemFound, BidsStand
<1>10. ASSUME NEW c \in Characters, Delete(c) PROVE IInv'
  BY <1>10, DeleteIInv
<1> QED
  BY <1>1, <1>2, <1>3, <1>4, <1>5, <1>6, <1>7, <1>8, <1>9, <1>10 DEF Next

(* The invariant holds in every state of the database. *)
LEMMA EconomyIInv == Spec => []IInv
  BY InitIInv, NextIInv, PTL DEF Spec

-----------------------------------------------------------------------------
(* Whatever is sold, bid on, cancelled, mailed and deleted, no item is ever doubled. *)
THEOREM EconomyItemOnce == Spec => []ItemOnce
<1>1. IInv => ItemOnce
  BY DEF IInv
<1> QED
  BY <1>1, EconomyIInv, PTL

(* Every item that exists is somewhere under the name of its owner: SendAuctionWonMail's
   change of owner comes together with the mail. *)
THEOREM EconomyItemFound == Spec => []ItemFound
<1>1. IInv => ItemFound
  BY DEF IInv
<1> QED
  BY <1>1, EconomyIInv, PTL

(* HandleAuctionPlaceBid keeps bids and bidders in order. *)
THEOREM EconomyBidsStand == Spec => []BidsStand
<1>1. IInv => BidsStand
  BY DEF IInv
<1> QED
  BY <1>1, EconomyIInv, PTL
-----------------------------------------------------------------------------
(* Sums over finite sets. *)

LEMMA Least ==
  ASSUME NEW S \in SUBSET Nat, S # {}
  PROVE  \E i \in S : \A j \in S : i <= j
  <1>1. \E i \in S : \A j \in S : ~ (<<j, i>> \in OpToRel(<, Nat))
    <2>. DEFINE R == OpToRel(<, Nat)
    <2>1. IsWellFoundedOn(R, Nat)
      BY NatLessThanWellFounded, Zenon
    <2>. HIDE DEF R
    <2>2. \E i \in S : \A j \in S : ~ (<<j, i>> \in R)
      BY <2>1, WFMin
    <2>. QED  BY <2>2 DEF R
  <1>2. PICK i \in S : \A j \in S : ~ (<<j, i>> \in OpToRel(<, Nat))
    BY <1>1, Zenon
  <1>3. ASSUME NEW j \in S PROVE i <= j
    <2>1. ~ (j < i)
      BY <1>2 DEF OpToRel
    <2>. QED  BY <2>1
  <1>. QED  BY <1>2, <1>3

(* What holds of a set as soon as it holds of it without any of its elements holds of every
   subset of a finite set: T is the set of those of which it holds. *)
LEMMA Subsets ==
  ASSUME NEW S, IsFiniteSet(S), NEW T,
         \A s \in SUBSET S : (\A x \in s : s \ {x} \in T) => s \in T
  PROVE  \A s \in SUBSET S : s \in T
  <1>. DEFINE Bad  == {s \in SUBSET S : s \notin T}
              Size == {Cardinality(s) : s \in Bad}
  <1>1. SUFFICES ASSUME Bad # {} PROVE FALSE
    OBVIOUS
  <1>2. \A s \in SUBSET S : IsFiniteSet(s) /\ Cardinality(s) \in Nat
    BY FS_Subset, FS_CardinalityType
  <1>3. Size \in SUBSET Nat /\ Size # {}
    BY <1>1, <1>2
  <1>4. PICK m \in Size : \A k \in Size : m <= k
    <2>. HIDE DEF Size
    <2>. QED  BY <1>3, Least
  <1>5. PICK s \in Bad : m = Cardinality(s)
    BY <1>4
  <1>6. PICK x \in s : s \ {x} \notin T
    BY <1>5
  <1>7. s \ {x} \in Bad /\ IsFiniteSet(s)
    BY <1>2, <1>5, <1>6
  <1>8. Cardinality(s \ {x}) = m - 1 /\ m \in Nat
    BY <1>2, <1>5, <1>6, <1>7, FS_RemoveElement
  <1>9. Cardinality(s \ {x}) \in Size
    BY <1>7
  <1>. HIDE DEF Size
  <1>10. m <= m - 1
    BY <1>4, <1>8, <1>9
  <1>. QED  BY <1>8, <1>10

(* What holds of the empty set, and of a set with one element more, holds of a finite set. *)
LEMMA Growing ==
  ASSUME NEW S, IsFiniteSet(S), NEW T, {} \in T,
         \A s \in SUBSET S : \A x \in S \ s : s \in T => s \cup {x} \in T
  PROVE  S \in T
  <1>1. ASSUME NEW s \in SUBSET S, \A x \in s : s \ {x} \in T PROVE s \in T
    <2>1. CASE s = {}
      BY <2>1
    <2>2. CASE s # {}
      <3>1. PICK x \in s : TRUE
        BY <2>2
      <3>2. s \ {x} \in SUBSET S /\ x \in S \ (s \ {x}) /\ (s \ {x}) \cup {x} = s
        BY <3>1
      <3>3. s \ {x} \in T
        BY <1>1, <3>1
      <3>. QED  BY <3>2, <3>3
    <2>. QED  BY <2>1, <2>2
  <1>2. \A s \in SUBSET S : s \in T
    BY <1>1, Subsets
  <1>. QED  BY <1>2

AnyOf(s) == CHOOSE x \in s : TRUE
Unfolds(g, f, S) == g = [s \in S |-> IF s = {} THEN 0 ELSE f[AnyOf(s)] + g[s \ {AnyOf(s)}]]

LEMMA AnyIn == \A s : s # {} => AnyOf(s) \in s
  BY DEF AnyOf

(* The recursion of the sum has a solution, size by size. *)
LEMMA SumExists ==
  ASSUME NEW f, NEW S, IsFiniteSet(S)
  PROVE  \E g : Unfolds(g, f, SUBSET S)
  <1>. DEFINE Level(k) == {s \in SUBSET S : Cardinality(s) <= k}
              Bad == {k \in Nat : ~ \E g : Unfolds(g, f, Level(k))}
  <1>1. \A s \in SUBSET S : IsFiniteSet(s) /\ Cardinality(s) \in Nat /\ Cardinality(s) <= Cardinality(S)
    BY FS_Subset, FS_CardinalityType
  <1>2. \A s \in SUBSET S : s # {} => /\ AnyOf(s) \in s
                                      /\ Cardinality(s \ {AnyOf(s)}) = Cardinality(s) - 1
    BY <1>1, AnyIn, FS_RemoveElement
  <1>3. ~ (0 \in Bad)
    <2>. DEFINE g == [s \in Level(0) |-> 0]
    <2>1. \A s \in Level(0) : s = {}
      BY <1>1, FS_EmptySet
    <2>2. g = [s \in Level(0) |-> IF s = {} THEN 0 ELSE f[AnyOf(s)] + g[s \ {AnyOf(s)}]]
      BY <2>1
    <2>. QED  BY <2>2 DEF Unfolds
  <1>4. ASSUME NEW k \in Nat, k \notin Bad PROVE k + 1 \notin Bad
    <2>1. PICK g : Unfolds(g, f, Level(k))
      BY <1>4
    <2>. DEFINE h == [s \in Level(k + 1) |-> IF s = {} THEN 0 ELSE f[AnyOf(s)] + g[s \ {AnyOf(s)}]]
    <2>2. \A s \in Level(k) : g[s] = IF s = {} THEN 0 ELSE f[AnyOf(s)] + g[s \ {AnyOf(s)}]
      BY <2>1 DEF Unfolds
    <2>3. \A s \in Level(k) : s \in Level(k + 1) /\ h[s] = g[s]
      <3>. SUFFICES ASSUME NEW s \in Level(k) PROVE s \in Level(k + 1) /\ h[s] = g[s]
        OBVIOUS
      <3>1. s \in Level(k + 1)
        <4>1. PICK n \in Nat : n = Cardinality(s)
          BY <1>1
        <4>2. n <= k + 1
          BY <4>1
        <4>. QED  BY <4>1, <4>2
      <3>2. h[s] = IF s = {} THEN 0 ELSE f[AnyOf(s)] + g[s \ {AnyOf(s)}]
        BY <3>1
      <3>3. g[s] = IF s = {} THEN 0 ELSE f[AnyOf(s)] + g[s \ {AnyOf(s)}]
        BY <2>2
      <3>. HIDE DEF h, Level
      <3>. QED  BY <3>1, <3>2, <3>3
    <2>4. \A s \in Level(k + 1) : s # {} => s \ {AnyOf(s)} \in Level(k)
      BY <1>1, <1>2
    <2>5. h = [s \in Level(k + 1) |-> IF s = {} THEN 0 ELSE f[AnyOf(s)] + h[s \ {AnyOf(s)}]]
      <3>1. \A s \in Level(k + 1) : s # {} => g[s \ {AnyOf(s)}] = h[s \ {AnyOf(s)}]
        BY <2>3, <2>4
      <3>2. \A s \in Level(k + 1) : h[s] = IF s = {} THEN 0 ELSE f[AnyOf(s)] + h[s \ {AnyOf(s)}]
        BY <3>1
      <3>. DEFINE r == [s \in Level(k + 1) |-> IF s = {} THEN 0
                                              ELSE f[AnyOf(s)] + h[s \ {AnyOf(s)}]]
      <3>3. h = [s \in Level(k + 1) |-> h[s]] /\ r = [s \in Level(k + 1) |-> r[s]]
        OBVIOUS
      <3>4. \A s \in Level(k + 1) : r[s] = h[s]
        BY <3>2
      <3>5. h = r
        <4>. HIDE DEF Level, h, r
        <4>. QED  BY <3>3, <3>4
      <3>. QED  BY <3>5
    <2>6. Unfolds(h, f, Level(k + 1))
      BY <2>5 DEF Unfolds
    <2>. HIDE DEF h
    <2>. QED  BY <2>6
  <1>5. Bad = {}
    <2>1. SUFFICES ASSUME Bad # {} PROVE FALSE
      OBVIOUS
    <2>. HIDE DEF Bad
    <2>2. Bad \in SUBSET Nat
      BY DEF Bad
    <2>3. PICK m \in Bad : \A j \in Bad : m <= j
      BY <2>1, <2>2, Least
    <2>4. m \in Nat /\ m # 0
      BY <1>3, <2>2, <2>3
    <2>5. m - 1 \in Nat /\ (m - 1) + 1 = m /\ ~ (m <= m - 1)
      BY <2>4
    <2>. QED  BY <1>4, <2>3, <2>5
  <1>6. Cardinality(S) \in Nat /\ Level(Cardinality(S)) = SUBSET S
    BY <1>1
  <1>7. \E g : Unfolds(g, f, Level(Cardinality(S)))
    BY <1>5, <1>6
  <1>. QED  BY <1>6, <1>7

Solves(g, f, S) == Unfolds(g, f, SUBSET S)

LEMMA SumUnfolds ==
  ASSUME NEW f, NEW S, IsFiniteSet(S)
  PROVE  \E g : Solves(g, f, S) /\ SumFunctionOnSet(f, S) = g[S]
  <1>. DEFINE h == CHOOSE g : Unfolds(g, f, SUBSET S)
  <1>1. Unfolds(h, f, SUBSET S)
    BY SumExists
  <1>2. SumFunctionOnSet(f, S) = h[S]
    BY DEF Unfolds, AnyOf, SumFunctionOnSet, FoldFunctionOnSet, MapThenFoldSet
  <1>. QED  BY <1>1, <1>2 DEF Solves

Counts(f, S) == \A x \in S : f[x] \in Nat

(* A solution is a number, the same whichever element is taken out first, and the same for
   functions that agree. *)
LEMMA SumNumber ==
  ASSUME NEW f, NEW S, IsFiniteSet(S), Counts(f, S), NEW g, Solves(g, f, S)
  PROVE  \A s \in SUBSET S : g[s] \in Nat
  <1>. DEFINE T == {s \in SUBSET S : g[s] \in Nat}
  <1>1. ASSUME NEW s \in SUBSET S, \A x \in s : s \ {x} \in T PROVE s \in T
    <2>1. g[s] = IF s = {} THEN 0 ELSE f[AnyOf(s)] + g[s \ {AnyOf(s)}]
      BY DEF Solves, Unfolds
    <2>2. s # {} => f[AnyOf(s)] \in Nat /\ g[s \ {AnyOf(s)}] \in Nat
      BY <1>1, AnyIn DEF Counts
    <2>. QED  BY <2>1, <2>2
  <1>2. \A s \in SUBSET S : s \in T
    <2>. HIDE DEF T
    <2>. QED  BY <1>1, Subsets
  <1>. QED  BY <1>2

LEMMA SumOrder ==
  ASSUME NEW f, NEW S, IsFiniteSet(S), Counts(f, S), NEW g, Solves(g, f, S)
  PROVE  \A s \in SUBSET S : \A x \in s : g[s] = f[x] + g[s \ {x}]
  <1>. DEFINE T == {s \in SUBSET S : \A x \in s : g[s] = f[x] + g[s \ {x}]}
  <1>1. \A s \in SUBSET S : g[s] \in Nat
    BY SumNumber
  <1>2. ASSUME NEW s \in SUBSET S, \A x \in s : s \ {x} \in T PROVE s \in T
    <2>. SUFFICES ASSUME NEW x \in s PROVE g[s] = f[x] + g[s \ {x}]
      OBVIOUS
    <2>1. PICK y \in s : y = AnyOf(s)
      BY AnyIn
    <2>2. g[s] = f[y] + g[s \ {y}]
      BY <2>1 DEF Solves, Unfolds
    <2>3. CASE x = y
      BY <2>2, <2>3
    <2>4. CASE x # y
      <3>1. s \ {y} \in T /\ x \in s \ {y} /\ s \ {x} \in T /\ y \in s \ {x}
        BY <1>2, <2>4
      <3>2. g[s \ {y}] = f[x] + g[(s \ {y}) \ {x}] /\ g[s \ {x}] = f[y] + g[(s \ {x}) \ {y}]
        BY <3>1
      <3>3. PICK r \in SUBSET S : (s \ {x}) \ {y} = r /\ (s \ {y}) \ {x} = r
        OBVIOUS
      <3>4. /\ g[s] = f[y] + g[s \ {y}] /\ g[s \ {y}] = f[x] + g[r] /\ g[s \ {x}] = f[y] + g[r]
        BY <2>2, <3>2, <3>3
      <3>5. PICK a \in Nat, b \in Nat, n \in Nat : f[x] = a /\ f[y] = b /\ g[r] = n
        BY <1>1 DEF Counts
      <3>6. g[s] = b + (a + n) /\ g[s \ {x}] = b + n
        BY <3>4, <3>5
      <3>7. b + (a + n) = a + (b + n)
        OBVIOUS
      <3>. QED  BY <3>5, <3>6, <3>7
    <2>. QED  BY <2>3, <2>4
  <1>3. \A s \in SUBSET S : s \in T
    <2>. HIDE DEF T
    <2>. QED  BY <1>2, Subsets
  <1>. QED  BY <1>3

Agree(f, h, S) == \A x \in S : f[x] = h[x]

LEMMA SumAgrees ==
  ASSUME NEW D, NEW S, S \subseteq D, IsFiniteSet(S), NEW f, NEW h, Agree(f, h, S),
         NEW g, Solves(g, f, D), NEW k, Solves(k, h, S)
  PROVE  g[S] = k[S]
  <1>. DEFINE T == {s \in SUBSET S : g[s] = k[s]}
  <1>1. ASSUME NEW s \in SUBSET S, \A x \in s : s \ {x} \in T PROVE s \in T
    <2>1. /\ g[s] = IF s = {} THEN 0 ELSE f[AnyOf(s)] + g[s \ {AnyOf(s)}]
          /\ k[s] = IF s = {} THEN 0 ELSE h[AnyOf(s)] + k[s \ {AnyOf(s)}]
      <3>1. s \in SUBSET D
        OBVIOUS
      <3>. QED  BY <3>1 DEF Solves, Unfolds
    <2>2. s # {} => f[AnyOf(s)] = h[AnyOf(s)] /\ g[s \ {AnyOf(s)}] = k[s \ {AnyOf(s)}]
      BY <1>1, AnyIn DEF Agree
    <2>. QED  BY <2>1, <2>2
  <1>2. \A s \in SUBSET S : s \in T
    <2>. HIDE DEF T
    <2>. QED  BY <1>1, Subsets
  <1>. QED  BY <1>2

(* What is used of sums from here on. *)
LEMMA SumEmpty == \A f : SumFunctionOnSet(f, {}) = 0
  <1>. SUFFICES ASSUME NEW f PROVE SumFunctionOnSet(f, {}) = 0
    OBVIOUS
  <1>1. PICK g : Solves(g, f, {}) /\ SumFunctionOnSet(f, {}) = g[{}]
    BY SumUnfolds, FS_EmptySet
  <1>. QED  BY <1>1 DEF Solves, Unfolds

LEMMA SumSame ==
  ASSUME NEW S, IsFiniteSet(S), NEW f, NEW h, Agree(f, h, S)
  PROVE  SumFunctionOnSet(f, S) = SumFunctionOnSet(h, S)
  <1>1. PICK g : Solves(g, f, S) /\ SumFunctionOnSet(f, S) = g[S]
    BY SumUnfolds
  <1>2. PICK k : Solves(k, h, S) /\ SumFunctionOnSet(h, S) = k[S]
    BY SumUnfolds
  <1>3. g[S] = k[S]
    BY <1>1, <1>2, SumAgrees
  <1>. QED  BY <1>1, <1>2, <1>3

LEMMA SumNat ==
  ASSUME NEW S, IsFiniteSet(S), NEW f, Counts(f, S)
  PROVE  SumFunctionOnSet(f, S) \in Nat
  <1>1. PICK g : Solves(g, f, S) /\ SumFunctionOnSet(f, S) = g[S]
    BY SumUnfolds
  <1>. QED  BY <1>1, SumNumber

LEMMA SumTake ==
  ASSUME NEW S, IsFiniteSet(S), NEW f, Counts(f, S), NEW x \in S
  PROVE  SumFunctionOnSet(f, S) = f[x] + SumFunctionOnSet(f, S \ {x})
  <1>1. PICK g : Solves(g, f, S) /\ SumFunctionOnSet(f, S) = g[S]
    BY SumUnfolds
  <1>2. PICK r : r = S \ {x} /\ IsFiniteSet(r)
    BY FS_Subset
  <1>3. r \subseteq S /\ Agree(f, f, r)
    BY <1>2 DEF Agree
  <1>4. PICK k : Solves(k, f, r) /\ SumFunctionOnSet(f, r) = k[r]
    BY <1>2, SumUnfolds
  <1>5. g[r] = k[r]
    BY <1>1, <1>2, <1>3, <1>4, SumAgrees
  <1>6. g[S] = f[x] + g[r]
    BY <1>1, <1>2, SumOrder
  <1>. QED  BY <1>1, <1>2, <1>4, <1>5, <1>6

LEMMA SumPut ==
  ASSUME NEW S, IsFiniteSet(S), NEW x, x \notin S, NEW f, Counts(f, S \cup {x})
  PROVE  SumFunctionOnSet(f, S \cup {x}) = f[x] + SumFunctionOnSet(f, S)
  <1>1. IsFiniteSet(S \cup {x}) /\ (S \cup {x}) \ {x} = S
    BY FS_AddElement
  <1>. QED  BY <1>1, SumTake

LEMMA SumParts ==
  ASSUME NEW S, IsFiniteSet(S), NEW f, Counts(f, S), NEW A \in SUBSET S
  PROVE  SumFunctionOnSet(f, S) = SumFunctionOnSet(f, A) + SumFunctionOnSet(f, S \ A)
  <1>. DEFINE T == {s \in SUBSET A : SumFunctionOnSet(f, S) =
                                       SumFunctionOnSet(f, s) + SumFunctionOnSet(f, S \ s)}
  <1>1. \A s \in SUBSET S : IsFiniteSet(s) /\ Counts(f, s) /\ SumFunctionOnSet(f, s) \in Nat
    BY FS_Subset, SumNat DEF Counts
  <1>2. {} \in T
    <2>1. S \ {} = S /\ SumFunctionOnSet(f, S) = 0 + SumFunctionOnSet(f, S)
      BY <1>1
    <2>. QED  BY <2>1, SumEmpty
  <1>3. ASSUME NEW s \in SUBSET A, NEW x \in A \ s, s \in T PROVE s \cup {x} \in T
    <2>1. PICK r \in SUBSET S : r = S \ s
      OBVIOUS
    <2>2. s \in SUBSET S /\ s \cup {x} \in SUBSET S /\ x \in r /\ x \notin s /\ S \ (s \cup {x}) = r \ {x}
      BY <2>1
    <2>3. r \ {x} \in SUBSET S /\ s \in SUBSET S /\ f[x] \in Nat
      BY <2>2 DEF Counts
    <2>4. SumFunctionOnSet(f, r) = f[x] + SumFunctionOnSet(f, r \ {x})
      BY <1>1, <2>2, SumTake
    <2>5. SumFunctionOnSet(f, s \cup {x}) = f[x] + SumFunctionOnSet(f, s)
      BY <1>1, <2>2, SumPut
    <2>6. SumFunctionOnSet(f, S) = SumFunctionOnSet(f, s) + SumFunctionOnSet(f, r)
      BY <1>3, <2>1
    <2>7. PICK a \in Nat, b \in Nat, n \in Nat :
             f[x] = a /\ SumFunctionOnSet(f, s) = b /\ SumFunctionOnSet(f, r \ {x}) = n
      BY <1>1, <2>3
    <2>8. b + (a + n) = (a + b) + n
      OBVIOUS
    <2>9. SumFunctionOnSet(f, S) = SumFunctionOnSet(f, s \cup {x}) + SumFunctionOnSet(f, r \ {x})
      BY <2>4, <2>5, <2>6, <2>7, <2>8
    <2>. QED  BY <2>2, <2>9
  <1>4. A \in T
    <2>. HIDE DEF T
    <2>. QED  BY <1>1, <1>2, <1>3, Growing
  <1>. QED  BY <1>4

LEMMA SumBetween ==
  ASSUME NEW S, IsFiniteSet(S), NEW f, Counts(f, S), NEW h, Counts(h, S), NEW k, Counts(k, S),
         \A x \in S : f[x] <= h[x] /\ h[x] <= f[x] + k[x]
  PROVE  /\ SumFunctionOnSet(f, S) <= SumFunctionOnSet(h, S)
         /\ SumFunctionOnSet(h, S) <= SumFunctionOnSet(f, S) + SumFunctionOnSet(k, S)
  <1>. DEFINE T == {s \in SUBSET S :
                      /\ SumFunctionOnSet(f, s) <= SumFunctionOnSet(h, s)
                      /\ SumFunctionOnSet(h, s) <= SumFunctionOnSet(f, s) + SumFunctionOnSet(k, s)}
  <1>1. \A s \in SUBSET S : /\ IsFiniteSet(s) /\ Counts(f, s) /\ Counts(h, s) /\ Counts(k, s)
    BY FS_Subset DEF Counts
  <1>2. {} \in T
    BY SumEmpty
  <1>3. ASSUME NEW s \in SUBSET S, NEW x \in S \ s, s \in T PROVE s \cup {x} \in T
    <2>1. s \cup {x} \in SUBSET S
      OBVIOUS
    <2>2. /\ SumFunctionOnSet(f, s \cup {x}) = f[x] + SumFunctionOnSet(f, s)
          /\ SumFunctionOnSet(h, s \cup {x}) = h[x] + SumFunctionOnSet(h, s)
          /\ SumFunctionOnSet(k, s \cup {x}) = k[x] + SumFunctionOnSet(k, s)
      BY <1>1, <2>1, SumPut
    <2>3. PICK a \in Nat, b \in Nat, c \in Nat : f[x] = a /\ h[x] = b /\ k[x] = c
      BY DEF Counts
    <2>4. PICK m \in Nat, n \in Nat, p \in Nat : /\ SumFunctionOnSet(f, s) = m
                                               /\ SumFunctionOnSet(h, s) = n
                                               /\ SumFunctionOnSet(k, s) = p
      BY <1>1, SumNat
    <2>5. a <= b /\ b <= a + c /\ m <= n /\ n <= m + p
      BY <1>3, <2>3, <2>4
    <2>6. a + m <= b + n /\ b + n <= (a + m) + (c + p)
      BY <2>5
    <2>. QED  BY <2>1, <2>2, <2>3, <2>4, <2>6
  <1>4. S \in T
    <2>. HIDE DEF T
    <2>. QED  BY <1>2, <1>3, Growing
  <1>. QED  BY <1>4

(* One value changes. *)
LEMMA SumChange ==
  ASSUME NEW S, IsFiniteSet(S), NEW f, Counts(f, S), NEW h, Counts(h, S), NEW x \in S,
         \A y \in S \ {x} : h[y] = f[y]
  PROVE  SumFunctionOnSet(h, S) + f[x] = SumFunctionOnSet(f, S) + h[x]
  <1>1. IsFiniteSet(S \ {x}) /\ Counts(f, S \ {x})
    BY FS_Subset DEF Counts
  <1>2. PICK r \in Nat : SumFunctionOnSet(f, S \ {x}) = r /\ SumFunctionOnSet(h, S \ {x}) = r
    BY <1>1, SumNat, SumSame DEF Agree
  <1>3. SumFunctionOnSet(f, S) = f[x] + r /\ SumFunctionOnSet(h, S) = h[x] + r
    BY <1>2, SumTake
  <1>4. PICK a \in Nat, b \in Nat : f[x] = a /\ h[x] = b
    BY DEF Counts
  <1>5. (b + r) + a = (a + r) + b
    OBVIOUS
  <1>. QED  BY <1>3, <1>4, <1>5

-----------------------------------------------------------------------------
(* Bags of letters, and what they are worth. *)

Copies(l, bag) == IF l \in DOMAIN bag THEN bag[l] ELSE 0

Letters(bag) == /\ IsABag(bag) /\ IsFiniteSet(DOMAIN bag)
                /\ \A l \in DOMAIN bag : l.to \in Characters /\ l.gold \in Nat

Values(bag) == [l \in DOMAIN bag |-> l.gold * bag[l]]
Worth(bag) == SumFunctionOnSet(Values(bag), DOMAIN bag)

LEMMA Products ==
  ASSUME NEW a \in Nat, NEW n \in Nat
  PROVE  a * n \in Nat /\ a * (n + 1) = a * n + a /\ a * 1 = a /\ a * 0 = 0
  OBVIOUS

LEMMA CopiesNat ==
  ASSUME NEW B, IsABag(B)
  PROVE  \A l : Copies(l, B) \in Nat /\ (l \in DOMAIN B <=> Copies(l, B) > 0)
  BY DEF IsABag, Copies

LEMMA BagPlus ==
  ASSUME NEW A, IsABag(A), NEW B, IsABag(B)
  PROVE  /\ IsABag(A (+) B) /\ DOMAIN (A (+) B) = DOMAIN A \cup DOMAIN B
         /\ \A l : Copies(l, A (+) B) = Copies(l, A) + Copies(l, B)
  BY DEF IsABag, Copies, (+)

LEMMA BagMinus ==
  ASSUME NEW A, IsABag(A), NEW B, IsABag(B)
  PROVE  /\ IsABag(A (-) B)
         /\ \A l : Copies(l, A (-) B) =
               IF Copies(l, A) > Copies(l, B) THEN Copies(l, A) - Copies(l, B) ELSE 0
  BY DEF IsABag, Copies, (-)

LEMMA BagSingle ==
  ASSUME NEW x
  PROVE  /\ IsABag(SetToBag({x})) /\ IsABag(EmptyBag)
         /\ DOMAIN SetToBag({x}) = {x} /\ DOMAIN EmptyBag = {}
         /\ \A l : Copies(l, SetToBag({x})) = IF l = x THEN 1 ELSE 0
         /\ \A l : Copies(l, EmptyBag) = 0
  BY DEF IsABag, Copies, SetToBag, EmptyBag

LEMMA SameBag ==
  ASSUME NEW A, IsABag(A), NEW B, IsABag(B), \A l : Copies(l, A) = Copies(l, B)
  PROVE  A = B
  <1>1. DOMAIN A = DOMAIN B
    BY CopiesNat
  <1>2. \A l \in DOMAIN A : A[l] = B[l]
    BY <1>1 DEF Copies
  <1>3. A = [l \in DOMAIN A |-> A[l]] /\ B = [l \in DOMAIN B |-> B[l]]
    BY DEF IsABag
  <1>. QED  BY <1>1, <1>2, <1>3

LEMMA LettersCount ==
  ASSUME NEW b, Letters(b)
  PROVE  Counts(Values(b), DOMAIN b) /\ Worth(b) \in Nat
  <1>1. Counts(Values(b), DOMAIN b)
    <2>. SUFFICES ASSUME NEW l \in DOMAIN b PROVE l.gold * b[l] \in Nat
      BY DEF Counts, Values
    <2>1. PICK a \in Nat, n \in Nat : l.gold = a /\ b[l] = n
      BY DEF Letters, IsABag
    <2>. QED  BY <2>1, Products
  <1>. QED  BY <1>1, SumNat DEF Worth, Letters

(* One letter more. *)
LEMMA LetterAdded ==
  ASSUME NEW b, Letters(b), NEW l, l.to \in Characters, l.gold \in Nat,
         NEW c, IsABag(c), \A m : Copies(m, c) = Copies(m, b) + (IF m = l THEN 1 ELSE 0)
  PROVE  Letters(c) /\ Worth(c) = Worth(b) + l.gold
  <1>1. IsABag(b) /\ IsFiniteSet(DOMAIN b) /\ \A m : Copies(m, b) \in Nat
    BY CopiesNat DEF Letters
  <1>2. DOMAIN c = DOMAIN b \cup {l}
    <2>1. \A m : m \in DOMAIN c <=> Copies(m, c) > 0
      BY CopiesNat
    <2>2. \A m : m \in DOMAIN b <=> Copies(m, b) > 0
      BY <1>1, CopiesNat
    <2>3. \A m : Copies(m, c) > 0 <=> m = l \/ Copies(m, b) > 0
      BY <1>1
    <2>. QED  BY <2>1, <2>2, <2>3
  <1>3. Letters(c)
    BY <1>1, <1>2, FS_AddElement DEF Letters
  <1>4. PICK a \in Nat, n \in Nat : l.gold = a /\ Copies(l, b) = n
    BY <1>1
  <1>5. c[l] = n + 1 /\ \A m \in DOMAIN b \ {l} : c[m] = b[m]
    <2>1. \A m \in DOMAIN c : c[m] = Copies(m, c)
      BY DEF Copies
    <2>2. \A m \in DOMAIN b : b[m] = Copies(m, b)
      BY DEF Copies
    <2>3. Copies(l, c) = n + 1
      BY <1>4
    <2>4. \A m \in DOMAIN b \ {l} : Copies(m, c) = Copies(m, b)
      BY <1>1
    <2>. QED  BY <1>2, <2>1, <2>2, <2>3, <2>4
  <1>6. Values(c)[l] = a * (n + 1) /\ \A m \in DOMAIN b \ {l} : Values(c)[m] = Values(b)[m]
    BY <1>2, <1>4, <1>5 DEF Values
  <1>7. /\ Counts(Values(c), DOMAIN b \cup {l}) /\ Counts(Values(b), DOMAIN b)
        /\ Counts(Values(c), DOMAIN b) /\ Worth(b) \in Nat
    BY <1>2, <1>3, LettersCount DEF Counts
  <1>8. Worth(c) = SumFunctionOnSet(Values(c), DOMAIN b \cup {l})
    BY <1>2 DEF Worth
  <1>9. CASE l \in DOMAIN b
    <2>1. DOMAIN b \cup {l} = DOMAIN b
      BY <1>9
    <2>2. Values(b)[l] = a * n
      BY <1>4, <1>9 DEF Values, Copies
    <2>3. Worth(c) + a * n = Worth(b) + a * (n + 1)
      BY <1>1, <1>6, <1>7, <1>8, <1>9, <2>1, <2>2, SumChange DEF Worth
    <2>4. PICK p \in Nat, w \in Nat : p = a * n /\ a * (n + 1) = p + a /\ w = Worth(b)
      BY <1>7, Products
    <2>5. PICK v \in Nat : v = Worth(c)
      BY <1>3, LettersCount
    <2>6. v + p = w + (p + a)
      BY <2>3, <2>4, <2>5
    <2>7. v = w + a
      BY <2>6
    <2>. QED  BY <1>3, <1>4, <2>4, <2>5, <2>7
  <1>10. CASE l \notin DOMAIN b
    <2>1. n = 0
      BY <1>4, <1>10 DEF Copies
    <2>2. Values(c)[l] = a
      BY <1>6, <2>1, Products
    <2>3. Worth(c) = a + SumFunctionOnSet(Values(c), DOMAIN b)
      BY <1>1, <1>7, <1>8, <1>10, <2>2, SumPut
    <2>4. Agree(Values(c), Values(b), DOMAIN b)
      BY <1>6, <1>10 DEF Agree
    <2>5. SumFunctionOnSet(Values(c), DOMAIN b) = Worth(b)
      BY <1>1, <2>4, SumSame DEF Worth
    <2>6. PICK w \in Nat : w = Worth(b)
      BY <1>7
    <2>. QED  BY <1>3, <1>4, <2>3, <2>5, <2>6
  <1>. QED  BY <1>9, <1>10

LEMMA NothingAdded ==
  ASSUME NEW b, Letters(b)
  PROVE  b (+) EmptyBag = b
  <1>1. IsABag(b) /\ IsABag(EmptyBag) /\ \A l : Copies(l, b) \in Nat /\ Copies(l, EmptyBag) = 0
    BY BagSingle, CopiesNat DEF Letters
  <1>2. IsABag(b (+) EmptyBag) /\ \A l : Copies(l, b (+) EmptyBag) = Copies(l, b) + Copies(l, EmptyBag)
    BY <1>1, BagPlus
  <1>3. \A l : Copies(l, b (+) EmptyBag) = Copies(l, b)
    BY <1>1, <1>2
  <1>. QED  BY <1>1, <1>2, <1>3, SameBag

(* A letter to somebody who exists is worth its gold. *)
Gold(c, n) == IF c \in DOMAIN chars THEN n ELSE 0

LEMMA LetterWorth ==
  ASSUME NEW b, Letters(b), DOMAIN chars \subseteq Characters, NEW c, NEW n \in Nat
  PROVE  Letters(b (+) Letter(c, n)) /\ Worth(b (+) Letter(c, n)) = Worth(b) + Gold(c, n)
  <1>1. CASE c \in DOMAIN chars
    <2>. DEFINE l == [to |-> c, gold |-> n]
    <2>1. l.to = c /\ l.gold = n /\ c \in Characters /\ Letter(c, n) = SetToBag({l})
      BY <1>1 DEF Letter
    <2>. HIDE DEF l
    <2>2. IsABag(b) /\ IsABag(SetToBag({l})) /\ \A m : Copies(m, SetToBag({l})) = IF m = l THEN 1 ELSE 0
      BY BagSingle DEF Letters
    <2>3. /\ IsABag(b (+) SetToBag({l}))
          /\ \A m : Copies(m, b (+) SetToBag({l})) = Copies(m, b) + (IF m = l THEN 1 ELSE 0)
      BY <2>2, BagPlus
    <2>. QED  BY <1>1, <2>1, <2>3, LetterAdded DEF Gold
  <1>2. CASE c \notin DOMAIN chars
    <2>1. b (+) Letter(c, n) = b /\ Gold(c, n) = 0
      BY <1>2, NothingAdded DEF Letter, Gold
    <2>. QED  BY <2>1, LettersCount
  <1>. QED  BY <1>1, <1>2

(* One letter less. *)
LEMMA LetterTaken ==
  ASSUME NEW b, Letters(b), NEW l \in DOMAIN b
  PROVE  Letters(b (-) SetToBag({l})) /\ Worth(b (-) SetToBag({l})) + l.gold = Worth(b)
  <1>. DEFINE c == b (-) SetToBag({l})
  <1>1. IsABag(b) /\ IsABag(SetToBag({l})) /\ \A m : Copies(m, SetToBag({l})) = IF m = l THEN 1 ELSE 0
    BY BagSingle DEF Letters
  <1>2. IsABag(c) /\ \A m : Copies(m, c) = IF Copies(m, b) > (IF m = l THEN 1 ELSE 0)
                                           THEN Copies(m, b) - (IF m = l THEN 1 ELSE 0) ELSE 0
    BY <1>1, BagMinus
  <1>3. \A m : Copies(m, b) \in Nat /\ (m \in DOMAIN b <=> Copies(m, b) > 0)
    BY <1>1, CopiesNat
  <1>. HIDE DEF c
  <1>4. \A m : Copies(m, b) = Copies(m, c) + (IF m = l THEN 1 ELSE 0)
    <2>. SUFFICES ASSUME NEW m PROVE Copies(m, b) = Copies(m, c) + (IF m = l THEN 1 ELSE 0)
      OBVIOUS
    <2>1. PICK n \in Nat : Copies(m, b) = n
      BY <1>3
    <2>2. CASE m = l
      <3>1. n > 0
        BY <1>3, <2>1, <2>2
      <3>2. Copies(m, c) = IF n > 1 THEN n - 1 ELSE 0
        BY <1>2, <2>1, <2>2
      <3>. QED  BY <2>1, <2>2, <3>1, <3>2
    <2>3. CASE m # l
      <3>1. Copies(m, c) = IF n > 0 THEN n - 0 ELSE 0
        BY <1>2, <2>1, <2>3
      <3>. QED  BY <2>1, <2>3, <3>1
    <2>. QED  BY <2>2, <2>3
  <1>5. DOMAIN c \subseteq DOMAIN b
    <2>1. \A m : Copies(m, c) \in Nat /\ (m \in DOMAIN c <=> Copies(m, c) > 0)
      BY <1>2, CopiesNat
    <2>2. \A m : Copies(m, c) > 0 => Copies(m, b) > 0
      BY <1>4, <2>1
    <2>. QED  BY <1>3, <2>1, <2>2
  <1>6. Letters(c) /\ l.to \in Characters /\ l.gold \in Nat
    BY <1>2, <1>5, FS_Subset DEF Letters
  <1>7. Worth(b) = Worth(c) + l.gold
    BY <1>1, <1>4, <1>6, LetterAdded
  <1>. QED  BY <1>6, <1>7 DEF c

(* Some letters less. *)
LEMMA LettersLeft ==
  ASSUME NEW b, Letters(b), NEW d, DOMAIN d \subseteq DOMAIN b, d = [l \in DOMAIN d |-> b[l]]
  PROVE  Letters(d) /\ Worth(d) <= Worth(b)
  <1>1. DOMAIN d \subseteq DOMAIN b /\ \A l \in DOMAIN d : d[l] = b[l]
    OBVIOUS
  <1>2. IsFiniteSet(DOMAIN b) /\ IsFiniteSet(DOMAIN d)
    BY <1>1, FS_Subset DEF Letters
  <1>3. Letters(d)
    BY <1>1, <1>2 DEF Letters, IsABag
  <1>4. Agree(Values(d), Values(b), DOMAIN d)
    BY <1>1 DEF Agree, Values
  <1>5. Worth(d) = SumFunctionOnSet(Values(b), DOMAIN d)
    BY <1>2, <1>4, SumSame DEF Worth
  <1>6. Counts(Values(b), DOMAIN b) /\ Counts(Values(b), DOMAIN b \ DOMAIN d) /\ Counts(Values(b), DOMAIN d)
    BY <1>1, LettersCount DEF Counts
  <1>7. Worth(b) = SumFunctionOnSet(Values(b), DOMAIN d) + SumFunctionOnSet(Values(b), DOMAIN b \ DOMAIN d)
    BY <1>1, <1>2, <1>6, SumParts DEF Worth
  <1>8. IsFiniteSet(DOMAIN b \ DOMAIN d)
    BY <1>2, FS_Subset
  <1>9. PICK m \in Nat, n \in Nat : /\ SumFunctionOnSet(Values(b), DOMAIN d) = m
                                    /\ SumFunctionOnSet(Values(b), DOMAIN b \ DOMAIN d) = n
    BY <1>2, <1>6, <1>8, SumNat
  <1>. QED  BY <1>3, <1>5, <1>7, <1>9

-----------------------------------------------------------------------------
(* The gold in the tables, table by table. *)

Stakes == [i \in DOMAIN sale |-> sale[i].bid + Deposit]

Purses == SumFunctionOnSet(chars, DOMAIN chars)
Pots   == SumFunctionOnSet(Stakes, DOMAIN sale)
Mail   == Worth(coins)

LEMMA WealthIs == Wealth = (Purses + Pots) + Mail /\ Wealth' = (Purses' + Pots') + Mail'
  BY DEF Wealth, Purses, Pots, Mail, Worth, Values, Stakes, SumFunction

(* The gold of characters and letters is counted in natural numbers, of finitely many. *)
Rich == /\ DOMAIN chars \subseteq Characters /\ chars = [c \in DOMAIN chars |-> chars[c]]
        /\ Counts(chars, DOMAIN chars) /\ Letters(coins)

FInv == IInv /\ Rich

(* What FeesOnly says of a step. *)
Ended == DOMAIN sale \ DOMAIN sale'
Fees == [i \in Ended |-> Fee(sale[i])]
Together == /\ DOMAIN chars' = DOMAIN chars
            /\ \A i \in DOMAIN sale : {sale[i].owner, sale[i].bidder} \subseteq DOMAIN chars \cup {Nobody}
Honest == /\ Wealth' <= Wealth
          /\ Together => Wealth' + SumFunctionOnSet(Fees, Ended) >= Wealth

LEMMA CutBound ==
  ASSUME NEW b \in Nat
  PROVE  AuctionCut(b) \in 0..b /\ \A a \in 0..b : AuctionCut(a) <= AuctionCut(b)
  <1>1. CutPercent \in 0..100
    BY EconomyAssumption
  <1>2. PICK p \in 0..100 : p = CutPercent
    BY <1>1
  <1>3. b * (100 - p) >= 0 /\ b * p >= 0 /\ b * p \in Nat /\ b * (100 - p) = b * 100 - b * p
    BY <1>2
  <1>4. PICK m \in Nat : m = b * p
    BY <1>3
  <1>5. m <= b * 100
    BY <1>3, <1>4
  <1>6. m \div 100 \in 0..b
    BY <1>4, <1>5
  <1>7. ASSUME NEW a \in 0..b PROVE AuctionCut(a) <= AuctionCut(b)
    <2>1. PICK n \in Nat : n = b - a /\ b = a + n
      OBVIOUS
    <2>2. a * p \in Nat /\ n * p \in Nat /\ (a + n) * p = a * p + n * p
      BY <2>1
    <2>3. PICK k \in Nat, j \in Nat : k = a * p /\ j = n * p /\ m = k + j
      BY <1>4, <2>1, <2>2
    <2>4. k \div 100 <= (k + j) \div 100
      OBVIOUS
    <2>. QED  BY <1>2, <1>4, <2>3, <2>4 DEF AuctionCut
  <1>. QED  BY <1>2, <1>4, <1>6, <1>7 DEF AuctionCut

(* Reading the invariant. *)
LEMMA Stocks ==
  ASSUME FInv
  PROVE  /\ IsFiniteSet(DOMAIN chars) /\ IsFiniteSet(DOMAIN sale)
         /\ \A c \in DOMAIN chars : chars[c] \in Nat /\ c \in Characters
         /\ Nobody \notin DOMAIN chars /\ Deposit \in Nat
         /\ \A i \in DOMAIN sale : /\ sale[i].bid \in Nat /\ sale[i].buyout \in Nat
                                   /\ sale[i].owner \in Characters
                                   /\ sale[i].bid = 0 <=> sale[i].bidder = Nobody
         /\ Counts(Stakes, DOMAIN sale) /\ Purses \in Nat /\ Pots \in Nat /\ Mail \in Nat
  <1>1. IsFiniteSet(DOMAIN chars) /\ IsFiniteSet(DOMAIN sale)
    BY EconomyAssumption, FS_Subset DEF FInv, Rich, IInv, SaleTyped
  <1>2. \A i \in DOMAIN sale : /\ sale[i].bid \in Nat /\ sale[i].buyout \in Nat
                               /\ sale[i].owner \in Characters
                               /\ sale[i].bid = 0 <=> sale[i].bidder = Nobody
    BY DEF FInv, IInv, SaleTyped, Sale, BidsStand
  <1>3. Deposit \in Nat /\ Nobody \notin DOMAIN chars /\ \A c \in DOMAIN chars : chars[c] \in Nat /\ c \in Characters
    BY EconomyAssumption DEF FInv, Rich, Counts
  <1>4. Counts(Stakes, DOMAIN sale)
    BY <1>2, <1>3 DEF Stakes, Counts
  <1>5. Purses \in Nat /\ Pots \in Nat /\ Mail \in Nat
    BY <1>1, <1>4, SumNat, LettersCount DEF FInv, Rich, Purses, Pots, Mail
  <1>. QED  BY <1>1, <1>2, <1>3, <1>4, <1>5

(* One purse changes. *)
LEMMA PurseChanges ==
  ASSUME FInv, NEW c \in DOMAIN chars, NEW v \in Nat, chars' = [chars EXCEPT ![c] = v]
  PROVE  /\ DOMAIN chars' = DOMAIN chars /\ chars' = [x \in DOMAIN chars' |-> chars'[x]]
         /\ Counts(chars', DOMAIN chars') /\ Purses' \in Nat
         /\ Purses' + chars[c] = Purses + v
  <1>1. /\ DOMAIN chars' = DOMAIN chars /\ chars' = [x \in DOMAIN chars' |-> chars'[x]]
        /\ chars'[c] = v /\ \A x \in DOMAIN chars \ {c} : chars'[x] = chars[x]
    BY DEF FInv, Rich
  <1>2. IsFiniteSet(DOMAIN chars) /\ Counts(chars, DOMAIN chars)
    BY Stocks DEF FInv, Rich
  <1>3. Counts(chars', DOMAIN chars)
    BY <1>1, <1>2 DEF Counts
  <1>4. SumFunctionOnSet(chars', DOMAIN chars) + chars[c] = SumFunctionOnSet(chars, DOMAIN chars) + chars'[c]
    BY <1>1, <1>2, <1>3, SumChange
  <1>5. SumFunctionOnSet(chars', DOMAIN chars) \in Nat
    BY <1>2, <1>3, SumNat
  <1>. QED  BY <1>1, <1>3, <1>4, <1>5 DEF Purses

(* Auctions end. *)
LEMMA SalesEnd ==
  ASSUME FInv, NEW S \in SUBSET DOMAIN sale, sale' = WithoutKeys(sale, S)
  PROVE  /\ Ended = S /\ Pots' \in Nat /\ IsFiniteSet(S) /\ Counts(Stakes, S)
         /\ Pots = Pots' + SumFunctionOnSet(Stakes, S)
  <1>1. /\ DOMAIN sale' = DOMAIN sale \ S /\ \A i \in DOMAIN sale' : sale'[i] = sale[i]
    BY DEF WithoutKeys, Restrict
  <1>2. IsFiniteSet(DOMAIN sale) /\ Counts(Stakes, DOMAIN sale) /\ IsFiniteSet(S) /\ IsFiniteSet(DOMAIN sale')
    BY <1>1, Stocks, FS_Subset
  <1>3. Agree(Stakes', Stakes, DOMAIN sale')
    BY <1>1 DEF Agree, Stakes
  <1>4. Pots' = SumFunctionOnSet(Stakes, DOMAIN sale')
    BY <1>2, <1>3, SumSame DEF Pots
  <1>5. Pots = SumFunctionOnSet(Stakes, S) + SumFunctionOnSet(Stakes, DOMAIN sale')
    BY <1>1, <1>2, SumParts DEF Pots
  <1>6. Counts(Stakes, S) /\ Counts(Stakes, DOMAIN sale')
    BY <1>1, <1>2 DEF Counts
  <1>7. PICK m \in Nat, n \in Nat : /\ SumFunctionOnSet(Stakes, S) = m
                                    /\ SumFunctionOnSet(Stakes, DOMAIN sale') = n
    BY <1>2, <1>6, SumNat
  <1>. QED  BY <1>1, <1>2, <1>4, <1>5, <1>6, <1>7 DEF Ended

LEMMA SaleEnds ==
  ASSUME FInv, NEW i \in DOMAIN sale, sale' = WithoutKeys(sale, {i})
  PROVE  /\ Pots' \in Nat /\ Pots = Pots' + (sale[i].bid + Deposit)
         /\ SumFunctionOnSet(Fees, Ended) = Fee(sale[i])
  <1>1. Ended = {i} /\ Pots' \in Nat /\ Counts(Stakes, {i}) /\ Pots = Pots' + SumFunctionOnSet(Stakes, {i})
    BY SalesEnd
  <1>2. IsFiniteSet({i}) /\ {i} \ {i} = {} /\ i \in {i}
    BY FS_Singleton
  <1>3. SumFunctionOnSet(Stakes, {i}) = Stakes[i] + 0
    BY <1>1, <1>2, SumTake, SumEmpty
  <1>4. Stakes[i] = sale[i].bid + Deposit /\ sale[i].bid \in Nat /\ sale[i].buyout \in Nat /\ Deposit \in Nat
    BY Stocks DEF Stakes
  <1>5. Fee(sale[i]) \in Nat
    <2>1. \A b \in Nat : AuctionCut(b) \in Nat
      BY CutBound
    <2>. QED  BY <1>4, <2>1 DEF Fee
  <1>6. Fees[i] = Fee(sale[i]) /\ Counts(Fees, {i})
    BY <1>1, <1>5 DEF Fees, Counts
  <1>7. SumFunctionOnSet(Fees, {i}) = Fees[i] + 0
    BY <1>2, <1>6, SumTake, SumEmpty
  <1>. QED  BY <1>1, <1>3, <1>4, <1>5, <1>6, <1>7

(* Without an auction that ends there are no fees. *)
LEMMA NoneEnded ==
  ASSUME Ended = {}
  PROVE  SumFunctionOnSet(Fees, Ended) = 0
  BY SumEmpty

(* An auction is put up, or has a new bid. *)
LEMMA SalePut ==
  ASSUME FInv, NEW i, NEW row, row.bid \in Nat, sale' = Put(sale, i, row)
  PROVE  /\ Ended = {} /\ Pots' \in Nat
         /\ i \in DOMAIN sale => Pots' + (sale[i].bid + Deposit) = Pots + (row.bid + Deposit)
         /\ i \notin DOMAIN sale => Pots' = Pots + (row.bid + Deposit)
  <1>1. /\ DOMAIN sale' = DOMAIN sale \cup {i} /\ sale'[i] = row
        /\ \A k \in DOMAIN sale \ {i} : sale'[k] = sale[k]
    BY DEF Put
  <1>2. /\ IsFiniteSet(DOMAIN sale) /\ Counts(Stakes, DOMAIN sale) /\ Deposit \in Nat /\ Pots \in Nat
        /\ \A k \in DOMAIN sale : sale[k].bid \in Nat
    BY Stocks
  <1>3. IsFiniteSet(DOMAIN sale')
    BY <1>1, <1>2, FS_AddElement
  <1>4. /\ Stakes'[i] = row.bid + Deposit /\ \A k \in DOMAIN sale \ {i} : Stakes'[k] = Stakes[k]
        /\ \A k \in DOMAIN sale : Stakes[k] = sale[k].bid + Deposit
    BY <1>1 DEF Stakes
  <1>5. Counts(Stakes', DOMAIN sale')
    BY <1>1, <1>2, <1>4 DEF Counts
  <1>6. Pots' \in Nat
    BY <1>3, <1>5, SumNat DEF Pots
  <1>7. ASSUME i \in DOMAIN sale PROVE Pots' + (sale[i].bid + Deposit) = Pots + (row.bid + Deposit)
    <2>1. DOMAIN sale' = DOMAIN sale
      BY <1>1, <1>7
    <2>2. Pots' + Stakes[i] = Pots + Stakes'[i]
      BY <1>2, <1>4, <1>5, <1>7, <2>1, SumChange DEF Pots
    <2>. QED  BY <1>4, <1>7, <2>2
  <1>8. ASSUME i \notin DOMAIN sale PROVE Pots' = Pots + (row.bid + Deposit)
    <2>1. Agree(Stakes', Stakes, DOMAIN sale)
      BY <1>4, <1>8 DEF Agree
    <2>2. SumFunctionOnSet(Stakes', DOMAIN sale) = Pots
      BY <1>2, <2>1, SumSame DEF Pots
    <2>3. SumFunctionOnSet(Stakes', DOMAIN sale \cup {i}) = Stakes'[i] + SumFunctionOnSet(Stakes', DOMAIN sale)
      BY <1>1, <1>2, <1>5, <1>8, SumPut
    <2>4. Pots' = (row.bid + Deposit) + Pots
      BY <1>1, <1>4, <2>2, <2>3 DEF Pots
    <2>. QED  BY <1>2, <2>4
  <1>. QED  BY <1>1, <1>6, <1>7, <1>8 DEF Ended

-----------------------------------------------------------------------------
(* What each operation costs. *)

(* The gold that Refund sends. *)
Refunded(c, s) == IF s.bidder = c THEN 0 ELSE Gold(s.bidder, s.bid)

LEMMA RefundWorth ==
  ASSUME NEW b, Letters(b), DOMAIN chars \subseteq Characters, NEW c, NEW s, s.bid \in Nat
  PROVE  Letters(b (+) Refund(c, s)) /\ Worth(b (+) Refund(c, s)) = Worth(b) + Refunded(c, s)
  <1>1. CASE s.bidder = c
    <2>1. b (+) Refund(c, s) = b /\ Refunded(c, s) = 0
      BY <1>1, NothingAdded DEF Refund, Refunded
    <2>. QED  BY <2>1, LettersCount
  <1>2. CASE s.bidder # c
    BY <1>2, LetterWorth DEF Refund, Refunded
  <1>. QED  BY <1>1, <1>2

(* The gold that Profit sends. *)
Gain(s) == IF s.bidder = Nobody THEN 0 ELSE Gold(s.owner, s.bid + Deposit - AuctionCut(s.bid))

LEMMA ProfitWorth ==
  ASSUME NEW b, Letters(b), DOMAIN chars \subseteq Characters, NEW s, s.bid \in Nat
  PROVE  /\ Letters(b (+) Profit(s)) /\ Worth(b (+) Profit(s)) = Worth(b) + Gain(s)
         /\ Gain(s) \in Nat /\ Gain(s) <= s.bid + Deposit
         /\ s.owner \in DOMAIN chars /\ s.bidder # Nobody => s.bid + Deposit = Gain(s) + AuctionCut(s.bid)
  <1>1. Deposit \in Nat /\ AuctionCut(s.bid) \in 0..s.bid
    BY EconomyAssumption, CutBound
  <1>2. PICK n \in Nat, a \in Nat, d \in Nat :
           n = s.bid + Deposit - AuctionCut(s.bid) /\ a = AuctionCut(s.bid) /\ d = s.bid + Deposit /\ d = n + a
    BY <1>1
  <1>3. CASE s.bidder = Nobody
    <2>1. b (+) Profit(s) = b /\ Gain(s) = 0
      BY <1>3, NothingAdded DEF Profit, Gain
    <2>. QED  BY <1>2, <1>3, <2>1, LettersCount
  <1>4. CASE s.bidder # Nobody
    <2>1. Profit(s) = Letter(s.owner, n) /\ Gain(s) = Gold(s.owner, n)
      BY <1>2, <1>4 DEF Profit, Gain
    <2>2. Letters(b (+) Profit(s)) /\ Worth(b (+) Profit(s)) = Worth(b) + Gain(s)
      BY <2>1, LetterWorth
    <2>3. Gain(s) \in {0, n} /\ (s.owner \in DOMAIN chars => Gain(s) = n)
      BY <2>1 DEF Gold
    <2>. QED  BY <1>2, <2>2, <2>3
  <1>. QED  BY <1>3, <1>4

(* The deposit goes from the purse to the auction. *)
LEMMA SellHonest ==
  ASSUME FInv, NEW c \in Characters, NEW i \in Items, NEW buyout \in Buyouts, Sell(c, i, buyout)
  PROVE  Rich' /\ Honest
  <1>. DEFINE row == [owner |-> c, buyout |-> buyout, bidder |-> Nobody, bid |-> 0]
  <1>1. /\ c \in DOMAIN chars /\ chars[c] >= Deposit /\ chars' = [chars EXCEPT ![c] = chars[c] - Deposit]
        /\ i \in DOMAIN inv /\ sale' = Put(sale, i, row) /\ coins' = coins
    BY DEF Sell, CanPay
  <1>2. chars[c] \in Nat /\ Deposit \in Nat /\ Purses \in Nat /\ Pots \in Nat /\ Mail \in Nat
    BY <1>1, Stocks
  <1>3. PICK g \in Nat, v \in Nat, d \in Nat : g = chars[c] /\ v = chars[c] - Deposit /\ d = Deposit /\ g = v + d
    BY <1>1, <1>2
  <1>4. /\ DOMAIN chars' = DOMAIN chars /\ chars' = [x \in DOMAIN chars' |-> chars'[x]]
        /\ Counts(chars', DOMAIN chars') /\ Purses' \in Nat /\ Purses' + g = Purses + v
    BY <1>1, <1>3, PurseChanges
  <1>5. i \notin DOMAIN sale /\ row.bid = 0
    BY <1>1 DEF FInv, IInv, ItemOnce
  <1>. HIDE DEF row
  <1>6. Ended = {} /\ Pots' \in Nat /\ Pots' = Pots + (0 + d)
    BY <1>1, <1>3, <1>5, SalePut
  <1>7. Mail' = Mail /\ Rich'
    BY <1>1, <1>4 DEF Mail, FInv, Rich
  <1>8. Wealth' = Wealth /\ Wealth \in Nat
    <2>1. PICK m \in Nat, n \in Nat, k \in Nat : m = Purses /\ n = Pots /\ k = Mail
      BY <1>2
    <2>2. PICK x \in Nat, y \in Nat : x = Purses' /\ y = Pots'
      BY <1>4, <1>6
    <2>3. x + g = m + v
      BY <1>4, <2>1, <2>2
    <2>4. g = v + d
      BY <1>3
    <2>5. y = n + (0 + d)
      BY <1>6, <2>1, <2>2
    <2>6. (x + y) + k = (m + n) + k
      BY <2>3, <2>4, <2>5
    <2>7. Wealth = (m + n) + k
      BY <2>1, WealthIs
    <2>8. Wealth' = (x + y) + k
      BY <1>7, <2>1, <2>2, WealthIs
    <2>. QED  BY <2>6, <2>7, <2>8
  <1>. QED  BY <1>6, <1>7, <1>8, NoneEnded DEF Honest

(* A bidder pays into the auction, and the last one is paid back if there is one. *)
LEMMA BidHonest ==
  ASSUME FInv, NEW c \in Characters, NEW i \in Items, NEW price \in Prices, Bid(c, i, price)
  PROVE  Rich' /\ Honest
  <1>. DEFINE s == sale[i]
              pay == IF s.bidder = c THEN price - s.bid ELSE price
  <1>1. /\ c \in DOMAIN chars /\ chars[c] >= price /\ chars' = [chars EXCEPT ![c] = chars[c] - pay]
        /\ i \in DOMAIN sale /\ price > s.bid /\ sale' = Put(sale, i, WithBid(s, c, price))
        /\ coins' = coins (+) Refund(c, s)
    BY DEF Bid, Offered, CanPay, Pay
  <1>2. chars[c] \in Nat /\ Deposit \in Nat /\ Purses \in Nat /\ Pots \in Nat /\ Mail \in Nat
    BY <1>1, Stocks
  <1>3. s.bid \in Nat /\ price \in Nat /\ (s.bid = 0 <=> s.bidder = Nobody) /\ Nobody \notin DOMAIN chars
    BY <1>1, Stocks, EconomyAssumption
  <1>4. PICK g \in Nat, v \in Nat, p \in Nat :
           g = chars[c] /\ v = chars[c] - pay /\ p = pay /\ g = v + p
    <2>1. PICK g \in Nat, n \in Nat, b \in Nat : g = chars[c] /\ n = price /\ b = s.bid
      BY <1>2, <1>3
    <2>2. g >= n /\ n > b
      BY <1>1, <2>1
    <2>3. pay \in {n, n - b}
      BY <2>1
    <2>4. PICK p \in Nat : p = pay /\ p <= n
      BY <2>2, <2>3
    <2>5. g - p \in Nat /\ g = (g - p) + p
      BY <2>2, <2>4
    <2>. QED  BY <2>1, <2>4, <2>5
  <1>5. /\ DOMAIN chars' = DOMAIN chars /\ chars' = [x \in DOMAIN chars' |-> chars'[x]]
        /\ Counts(chars', DOMAIN chars') /\ Purses' \in Nat /\ Purses' + g = Purses + v
    BY <1>1, <1>4, PurseChanges
  <1>6. /\ Ended = {} /\ Pots' \in Nat
        /\ Pots' + (s.bid + Deposit) = Pots + (price + Deposit)
    <2>1. WithBid(s, c, price).bid = price
      BY DEF WithBid
    <2>. HIDE DEF s
    <2>. QED  BY <1>1, <1>3, <2>1, SalePut DEF s
  <1>7. /\ Letters(coins') /\ Mail' = Mail + Refunded(c, s) /\ Mail' \in Nat
    BY <1>1, <1>3, RefundWorth, LettersCount DEF Mail, FInv, Rich
  <1>8. Rich'
    BY <1>5, <1>7 DEF FInv, Rich
  <1>9. PICK r \in Nat : /\ r = Refunded(c, s) /\ price + r <= s.bid + p
                         /\ Together => price + r = s.bid + p
    <2>1. CASE s.bidder = c
      <3>1. Refunded(c, s) = 0 /\ p = price - s.bid
        BY <1>4, <2>1 DEF Refunded
      <3>. QED  BY <1>1, <1>3, <3>1
    <2>2. CASE s.bidder # c
      <3>1. p = price /\ Refunded(c, s) = Gold(s.bidder, s.bid)
        BY <1>4, <2>2 DEF Refunded
      <3>2. Refunded(c, s) \in {0, s.bid}
        BY <3>1 DEF Gold
      <3>3. Together => s.bidder \in DOMAIN chars \/ s.bid = 0
        BY <1>1, <1>3 DEF Together
      <3>4. Together => Refunded(c, s) = s.bid
        BY <3>1, <3>2, <3>3 DEF Gold
      <3>. QED  BY <1>3, <3>1, <3>2, <3>4
    <2>. QED  BY <2>1, <2>2
  <1>10. PICK b \in Nat, d \in Nat : b = s.bid /\ d = Deposit
    BY <1>2, <1>3
  <1>. HIDE DEF s, pay
  <1>11. Wealth' <= Wealth /\ (Together => Wealth' = Wealth) /\ Wealth \in Nat
    <2>1. Purses' + p = Purses
      BY <1>2, <1>4, <1>5
    <2>2. Pots' + b = Pots + price
      BY <1>2, <1>3, <1>6, <1>10
    <2>3. Mail' = Mail + r
      BY <1>7, <1>9
    <2>4. price + r <= b + p /\ (Together => price + r = b + p)
      BY <1>9, <1>10
    <2>. QED  BY <1>2, <1>3, <1>5, <1>6, <1>7, <2>1, <2>2, <2>3, <2>4, WealthIs
  <1>. QED  BY <1>6, <1>8, <1>11, NoneEnded DEF Honest

(* A buyout is paid in full; the house keeps its share. *)
LEMMA BuyoutHonest ==
  ASSUME FInv, NEW c \in Characters, NEW i \in Items, Buyout(c, i)
  PROVE  Rich' /\ Honest
  <1>. DEFINE s == sale[i]
              won == WithBid(s, c, s.buyout)
              pay == IF s.bidder = c THEN s.buyout - s.bid ELSE s.buyout
  <1>1. /\ c \in DOMAIN chars /\ chars[c] >= s.buyout /\ chars' = [chars EXCEPT ![c] = chars[c] - pay]
        /\ i \in DOMAIN sale /\ s.buyout > s.bid /\ sale' = WithoutKeys(sale, {i})
        /\ coins' = (coins (+) Refund(c, s)) (+) Profit(won)
    BY DEF Buyout, Offered, CanPay, Pay
  <1>2. /\ chars[c] \in Nat /\ Deposit \in Nat /\ Purses \in Nat /\ Pots \in Nat /\ Mail \in Nat
        /\ s.bid \in Nat /\ s.buyout \in Nat /\ s.owner \in Characters
        /\ (s.bid = 0 <=> s.bidder = Nobody) /\ Nobody \notin Characters
    BY <1>1, Stocks, EconomyAssumption
  <1>3. PICK g \in Nat, v \in Nat, p \in Nat, o \in Nat, b \in Nat, d \in Nat :
           /\ g = chars[c] /\ v = chars[c] - pay /\ p = pay /\ g = v + p
           /\ o = s.buyout /\ b = s.bid /\ d = Deposit
    BY <1>1, <1>2
  <1>4. won.bid = s.buyout /\ won.bidder = c /\ won.owner = s.owner /\ c # Nobody
    BY <1>2 DEF WithBid
  <1>5. /\ DOMAIN chars' = DOMAIN chars /\ chars' = [x \in DOMAIN chars' |-> chars'[x]]
        /\ Counts(chars', DOMAIN chars') /\ Purses' \in Nat /\ Purses' + g = Purses + v
    BY <1>1, <1>3, PurseChanges
  <1>6. /\ Letters(coins (+) Refund(c, s)) /\ Worth(coins (+) Refund(c, s)) = Mail + Refunded(c, s)
        /\ Letters(coins) /\ DOMAIN chars \subseteq Characters
    BY <1>2, RefundWorth DEF Mail, FInv, Rich
  <1>7. PICK r \in Nat : /\ r = Refunded(c, s) /\ o + r <= b + p
                         /\ Together => o + r = b + p
    <2>1. CASE s.bidder = c
      <3>1. Refunded(c, s) = 0 /\ p = o - b
        BY <1>3, <2>1 DEF Refunded
      <3>. QED  BY <1>1, <1>3, <3>1
    <2>2. CASE s.bidder # c
      <3>1. p = o /\ Refunded(c, s) = Gold(s.bidder, s.bid)
        BY <1>3, <2>2 DEF Refunded
      <3>2. Refunded(c, s) \in {0, b}
        BY <1>3, <3>1 DEF Gold
      <3>3. Together => s.bidder \in DOMAIN chars \/ s.bid = 0
        BY <1>1, <1>2 DEF Together
      <3>4. Together => Refunded(c, s) = b
        BY <1>3, <3>1, <3>2, <3>3 DEF Gold
      <3>. QED  BY <1>3, <3>1, <3>2, <3>4
    <2>. QED  BY <2>1, <2>2
  <1>. HIDE DEF won
  <1>8. PICK w \in Nat : /\ w = Gain(won) /\ w <= o + d
                         /\ Letters(coins') /\ Mail' = (Mail + r) + w
                         /\ s.owner \in DOMAIN chars => o + d = w + AuctionCut(o)
    BY <1>1, <1>2, <1>3, <1>4, <1>6, <1>7, ProfitWorth DEF Mail
  <1>9. Pots' \in Nat /\ Pots = Pots' + (b + d) /\ SumFunctionOnSet(Fees, Ended) = d + AuctionCut(o)
    BY <1>1, <1>2, <1>3, SaleEnds DEF Fee
  <1>10. Rich'
    BY <1>5, <1>6, <1>8 DEF Rich
  <1>11. Together => s.owner \in DOMAIN chars
    BY <1>1, <1>2 DEF Together
  <1>12. PICK a \in Nat : a = AuctionCut(o)
    BY CutBound
  <1>. HIDE DEF s, pay
  <1>13. Wealth' <= Wealth /\ (Together => Wealth' + (d + a) >= Wealth)
    <2>1. Purses' + p = Purses
      BY <1>2, <1>3, <1>5
    <2>2. Mail' = (Mail + r) + w /\ Pots = Pots' + (b + d)
      BY <1>8, <1>9
    <2>3. o + r <= b + p /\ w <= o + d /\ (Together => o + r = b + p /\ o + d = w + a)
      BY <1>7, <1>8, <1>11, <1>12
    <2>. QED  BY <1>2, <1>5, <1>9, <2>1, <2>2, <2>3, WealthIs
  <1>. QED  BY <1>9, <1>10, <1>12, <1>13 DEF Honest

(* Whoever cancels loses the deposit and pays the share of the bid, which goes back. *)
LEMMA CancelHonest ==
  ASSUME FInv, NEW i \in Items, Cancel(i)
  PROVE  Rich' /\ Honest
  <1>. DEFINE s == sale[i]
              c == s.owner
              fee == IF s.bidder = Nobody THEN 0 ELSE AuctionCut(s.bid)
  <1>1. /\ c \in DOMAIN chars /\ chars[c] >= fee /\ chars' = [chars EXCEPT ![c] = chars[c] - fee]
        /\ i \in DOMAIN sale /\ sale' = WithoutKeys(sale, {i})
        /\ coins' = coins (+) Letter(s.bidder, s.bid)
    BY DEF Cancel, CanPay
  <1>2. /\ chars[c] \in Nat /\ Deposit \in Nat /\ Purses \in Nat /\ Pots \in Nat /\ Mail \in Nat
        /\ s.bid \in Nat /\ s.buyout \in Nat /\ (s.bid = 0 <=> s.bidder = Nobody)
    BY <1>1, Stocks
  <1>3. PICK m \in Nat : m = (IF s.buyout > s.bid THEN s.buyout ELSE s.bid) /\ s.bid \in 0..m
    BY <1>2
  <1>4. PICK a \in Nat, f \in Nat : a = AuctionCut(m) /\ f = fee /\ f <= a
    <2>1. AuctionCut(m) \in Nat /\ AuctionCut(s.bid) \in Nat /\ AuctionCut(s.bid) <= AuctionCut(m)
      BY <1>2, <1>3, CutBound
    <2>. QED  BY <2>1
  <1>5. PICK g \in Nat, v \in Nat, b \in Nat, d \in Nat :
           g = chars[c] /\ v = chars[c] - fee /\ g = v + f /\ b = s.bid /\ d = Deposit
    BY <1>1, <1>2, <1>4
  <1>6. /\ DOMAIN chars' = DOMAIN chars /\ chars' = [x \in DOMAIN chars' |-> chars'[x]]
        /\ Counts(chars', DOMAIN chars') /\ Purses' \in Nat /\ Purses' + g = Purses + v
    <2>. HIDE DEF c, fee
    <2>. QED  BY <1>1, <1>5, PurseChanges
  <1>7. Letters(coins') /\ Mail' = Mail + Gold(s.bidder, s.bid) /\ DOMAIN chars \subseteq Characters
    BY <1>1, <1>2, LetterWorth DEF Mail, FInv, Rich
  <1>8. PICK r \in Nat : r = Gold(s.bidder, s.bid) /\ r <= b /\ (Together => r = b)
    <2>1. Gold(s.bidder, s.bid) \in {0, b}
      BY <1>5 DEF Gold
    <2>2. Together => s.bidder \in DOMAIN chars \/ s.bid = 0
      BY <1>1, <1>2 DEF Together
    <2>3. Together => Gold(s.bidder, s.bid) = b
      BY <1>5, <2>1, <2>2 DEF Gold
    <2>. QED  BY <1>5, <2>1, <2>3
  <1>9. Pots' \in Nat /\ Pots = Pots' + (b + d) /\ SumFunctionOnSet(Fees, Ended) = d + a
    BY <1>1, <1>3, <1>4, <1>5, SaleEnds DEF Fee
  <1>10. Rich'
    BY <1>6, <1>7 DEF Rich
  <1>. HIDE DEF s, c, fee
  <1>11. Wealth' <= Wealth /\ (Together => Wealth' + (d + a) >= Wealth)
    <2>1. Purses' + f = Purses
      BY <1>2, <1>5, <1>6
    <2>2. Mail' = Mail + r /\ Pots = Pots' + (b + d)
      BY <1>7, <1>8, <1>9
    <2>3. r <= b /\ f <= a /\ (Together => r = b)
      BY <1>4, <1>8
    <2>. QED  BY <1>2, <1>6, <1>9, <2>1, <2>2, <2>3, WealthIs
  <1>. QED  BY <1>9, <1>10, <1>11 DEF Honest

(* Money that is taken was in the letter. *)
LEMMA TakeMoneyHonest ==
  ASSUME FInv, NEW l \in DOMAIN coins, TakeMoney(l)
  PROVE  Rich' /\ Honest
  <1>1. /\ l.to \in DOMAIN chars /\ chars' = [chars EXCEPT ![l.to] = chars[l.to] + l.gold]
        /\ coins' = coins (-) SetToBag({l}) /\ sale' = sale
    BY DEF TakeMoney
  <1>2. chars[l.to] \in Nat /\ l.gold \in Nat /\ Purses \in Nat /\ Pots \in Nat /\ Mail \in Nat
    BY <1>1, Stocks DEF FInv, Rich, Letters
  <1>3. PICK g \in Nat, n \in Nat, v \in Nat : g = chars[l.to] /\ n = l.gold /\ v = chars[l.to] + l.gold /\ v = g + n
    BY <1>2
  <1>4. /\ DOMAIN chars' = DOMAIN chars /\ chars' = [x \in DOMAIN chars' |-> chars'[x]]
        /\ Counts(chars', DOMAIN chars') /\ Purses' \in Nat /\ Purses' + g = Purses + v
    BY <1>1, <1>3, PurseChanges
  <1>5. Letters(coins') /\ Mail' + n = Mail /\ Mail' \in Nat /\ DOMAIN chars \subseteq Characters
    BY <1>1, <1>3, LetterTaken, LettersCount DEF Mail, FInv, Rich
  <1>6. Pots' = Pots /\ Ended = {}
    BY <1>1 DEF Pots, Stakes, Ended
  <1>7. Wealth' = Wealth /\ Wealth \in Nat
    BY <1>2, <1>3, <1>4, <1>5, <1>6, WealthIs
  <1>. QED  BY <1>4, <1>5, <1>6, <1>7, NoneEnded DEF Honest, Rich

(* What a deleted character had is lost to everybody. *)
LEMMA DeleteHonest ==
  ASSUME FInv, NEW c \in Characters, Delete(c)
  PROVE  Rich' /\ Honest
  <1>1. /\ c \in DOMAIN chars /\ chars' = WithoutKeys(chars, {c}) /\ sale' = sale
        /\ DOMAIN coins' \subseteq DOMAIN coins /\ coins' = [l \in DOMAIN coins' |-> coins[l]]
    BY DEF Delete, RestrictDomain, Restrict
  <1>2. Letters(coins') /\ Mail' <= Mail /\ Mail' \in Nat
    BY <1>1, LettersLeft, LettersCount DEF Mail, FInv, Rich
  <1>3. /\ DOMAIN chars' = DOMAIN chars \ {c} /\ chars' = [x \in DOMAIN chars' |-> chars'[x]]
        /\ \A x \in DOMAIN chars' : chars'[x] = chars[x]
    BY <1>1 DEF WithoutKeys, Restrict
  <1>4. /\ IsFiniteSet(DOMAIN chars) /\ Counts(chars, DOMAIN chars) /\ chars[c] \in Nat
        /\ DOMAIN chars \subseteq Characters /\ Purses \in Nat /\ Pots \in Nat /\ Mail \in Nat
    BY <1>1, Stocks DEF FInv, Rich
  <1>5. IsFiniteSet(DOMAIN chars') /\ Counts(chars', DOMAIN chars') /\ Agree(chars', chars, DOMAIN chars')
    BY <1>3, <1>4, FS_Subset DEF Counts, Agree
  <1>6. Purses' = SumFunctionOnSet(chars, DOMAIN chars \ {c}) /\ Purses' \in Nat
    BY <1>3, <1>5, SumSame, SumNat DEF Purses
  <1>7. Purses = chars[c] + Purses'
    BY <1>1, <1>4, <1>6, SumTake DEF Purses
  <1>8. Pots' = Pots /\ ~Together
    BY <1>1, <1>3 DEF Pots, Stakes, Together
  <1>9. Wealth' <= Wealth
    BY <1>2, <1>4, <1>6, <1>7, <1>8, WealthIs
  <1>10. Rich'
    BY <1>2, <1>3, <1>4, <1>5 DEF Rich
  <1>. QED  BY <1>8, <1>9, <1>10 DEF Honest

(* Steps that touch neither gold nor auctions. *)
LEMMA SameHonest ==
  ASSUME FInv, UNCHANGED <<chars, sale, coins>>
  PROVE  Rich' /\ Honest
  <1>1. Purses' = Purses /\ Pots' = Pots /\ Mail' = Mail /\ Ended = {}
    BY DEF Purses, Pots, Stakes, Mail, Ended
  <1>2. Purses \in Nat /\ Pots \in Nat /\ Mail \in Nat
    BY Stocks
  <1>3. Wealth' = Wealth /\ Wealth \in Nat
    BY <1>1, <1>2, WealthIs
  <1>. QED  BY <1>1, <1>3, NoneEnded DEF Honest, FInv, Rich

-----------------------------------------------------------------------------
(* What Settle sends, one auction after the other. *)

Sold(l, S) == {i \in S : l \in DOMAIN Profit(sale[i])}
Gains == [i \in DOMAIN sale |-> Gain(sale[i])]

LEMMA ProfitIs ==
  ASSUME DOMAIN chars \subseteq Characters, NEW s, s.bid \in Nat
  PROVE  \/ DOMAIN Profit(s) = {} /\ Gain(s) = 0
         \/ \E l : DOMAIN Profit(s) = {l} /\ l.to \in Characters /\ l.gold = Gain(s) /\ l.gold \in Nat
  <1>1. PICK n \in Nat : n = s.bid + Deposit - AuctionCut(s.bid)
    <2>1. Deposit \in Nat /\ AuctionCut(s.bid) \in 0..s.bid
      BY EconomyAssumption, CutBound
    <2>2. s.bid + Deposit - AuctionCut(s.bid) \in Nat
      BY <2>1
    <2>. QED  BY <2>2
  <1>2. CASE s.bidder = Nobody \/ s.owner \notin DOMAIN chars
    <2>1. Profit(s) = EmptyBag /\ Gain(s) = 0
      BY <1>2 DEF Profit, Letter, Gain, Gold
    <2>. QED  BY <2>1, BagSingle
  <1>3. CASE s.bidder # Nobody /\ s.owner \in DOMAIN chars
    <2>. DEFINE l == [to |-> s.owner, gold |-> n]
    <2>1. Profit(s) = SetToBag({l}) /\ Gain(s) = n
      BY <1>1, <1>3 DEF Profit, Letter, Gain, Gold
    <2>2. l.to \in Characters /\ l.gold = n
      BY <1>3
    <2>. HIDE DEF l
    <2>3. DOMAIN Profit(s) = {l}
      BY <2>1, BagSingle
    <2>. QED  BY <1>1, <2>1, <2>2, <2>3
  <1>. QED  BY <1>2, <1>3

LEMMA ProfitsCopies ==
  ASSUME NEW S, IsFiniteSet(S)
  PROVE  IsABag(Profits(S)) /\ \A l : Copies(l, Profits(S)) = Cardinality(Sold(l, S))
  <1>1. /\ DOMAIN Profits(S) = UNION {DOMAIN Profit(sale[i]) : i \in S}
        /\ Profits(S) = [l \in DOMAIN Profits(S) |-> Cardinality(Sold(l, S))]
    BY DEF Profits, Sold
  <1>2. ASSUME NEW l
        PROVE  /\ IsFiniteSet(Sold(l, S)) /\ Cardinality(Sold(l, S)) \in Nat
               /\ l \in DOMAIN Profits(S) <=> Sold(l, S) # {}
               /\ Cardinality(Sold(l, S)) = 0 <=> Sold(l, S) = {}
    <2>1. Sold(l, S) \subseteq S /\ (l \in DOMAIN Profits(S) <=> Sold(l, S) # {})
      BY <1>1 DEF Sold
    <2>2. IsFiniteSet(Sold(l, S))
      BY <2>1, FS_Subset
    <2>. QED  BY <2>1, <2>2, FS_CardinalityType, FS_EmptySet
  <1>. DEFINE D == DOMAIN Profits(S)
  <1>3. \A l \in D : Profits(S)[l] = Cardinality(Sold(l, S)) /\ Profits(S)[l] \in {n \in Nat : n > 0}
    <2>1. \A l \in D : Profits(S)[l] = Cardinality(Sold(l, S))
      BY <1>1
    <2>. QED  BY <1>2, <2>1
  <1>4. IsABag(Profits(S))
    BY <1>1, <1>3 DEF IsABag
  <1>. QED  BY <1>2, <1>3, <1>4 DEF Copies

LEMMA SoldOne ==
  ASSUME NEW S, IsFiniteSet(S), NEW x, x \notin S, NEW l
  PROVE  Cardinality(Sold(l, S \cup {x})) =
            Cardinality(Sold(l, S)) + (IF l \in DOMAIN Profit(sale[x]) THEN 1 ELSE 0)
  <1>1. Sold(l, S) \subseteq S /\ x \notin Sold(l, S)
    BY DEF Sold
  <1>2. IsFiniteSet(Sold(l, S)) /\ Cardinality(Sold(l, S)) \in Nat
    BY <1>1, FS_Subset, FS_CardinalityType
  <1>3. CASE l \in DOMAIN Profit(sale[x])
    <2>1. Sold(l, S \cup {x}) = Sold(l, S) \cup {x}
      BY <1>3 DEF Sold
    <2>. QED  BY <1>1, <1>2, <1>3, <2>1, FS_AddElement
  <1>4. CASE l \notin DOMAIN Profit(sale[x])
    <2>1. Sold(l, S \cup {x}) = Sold(l, S)
      BY <1>4 DEF Sold
    <2>. QED  BY <1>2, <1>4, <2>1
  <1>. QED  BY <1>3, <1>4

LEMMA ProfitsWorth ==
  ASSUME FInv, NEW S \in SUBSET DOMAIN sale
  PROVE  /\ Letters(coins (+) Profits(S))
         /\ Worth(coins (+) Profits(S)) = Mail + SumFunctionOnSet(Gains, S)
  <1>. DEFINE Sent(s) == coins (+) Profits(s)
              T == {s \in SUBSET S : /\ Letters(Sent(s))
                                     /\ Worth(Sent(s)) = Mail + SumFunctionOnSet(Gains, s)}
  <1>1. /\ Letters(coins) /\ IsABag(coins) /\ DOMAIN chars \subseteq Characters /\ Mail \in Nat
        /\ IsFiniteSet(S) /\ \A i \in DOMAIN sale : sale[i].bid \in Nat
    BY Stocks, FS_Subset DEF FInv, Rich, Letters
  <1>2. \A s \in SUBSET S : IsFiniteSet(s) /\ IsABag(Profits(s))
    BY <1>1, FS_Subset, ProfitsCopies
  <1>3. ASSUME NEW s \in SUBSET S
        PROVE  IsABag(Sent(s)) /\ \A l : Copies(l, Sent(s)) = Copies(l, coins) + Cardinality(Sold(l, s))
    <2>1. \A l : Copies(l, Profits(s)) = Cardinality(Sold(l, s))
      BY <1>2, ProfitsCopies
    <2>. QED  BY <1>1, <1>2, <2>1, BagPlus
  <1>4. Counts(Gains, S)
    <2>1. \A i \in S : Gains[i] = Gain(sale[i]) /\ Gain(sale[i]) \in Nat
      BY <1>1, ProfitWorth DEF Gains
    <2>. QED  BY <2>1 DEF Counts
  <1>5. {} \in T
    <2>1. \A l : Sold(l, {}) = {}
      BY DEF Sold
    <2>2. \A l : Copies(l, Sent({})) = Copies(l, coins) + 0
      BY <1>3, <2>1, FS_EmptySet
    <2>3. \A l : Copies(l, coins) \in Nat
      BY <1>1, CopiesNat
    <2>4. \A l : Copies(l, Sent({})) = Copies(l, coins)
      BY <2>2, <2>3
    <2>5. Sent({}) = coins
      BY <1>1, <1>3, <2>4, SameBag
    <2>. QED  BY <1>1, <2>5, SumEmpty DEF Mail
  <1>6. ASSUME NEW s \in SUBSET S, NEW x \in S \ s, s \in T PROVE s \cup {x} \in T
    <2>. DEFINE r == s \cup {x}
    <2>1. r \in SUBSET S /\ IsFiniteSet(s) /\ x \notin s /\ x \in DOMAIN sale /\ IsFiniteSet(r)
      BY <1>2
    <2>2. /\ \A l : Copies(l, Sent(s)) = Copies(l, coins) + Cardinality(Sold(l, s))
          /\ \A l : Copies(l, Sent(r)) = Copies(l, coins) + Cardinality(Sold(l, r))
          /\ IsABag(Sent(s)) /\ IsABag(Sent(r))
      BY <1>3, <2>1
    <2>3. \A l : Cardinality(Sold(l, r)) =
                    Cardinality(Sold(l, s)) + (IF l \in DOMAIN Profit(sale[x]) THEN 1 ELSE 0)
      BY <2>1, SoldOne
    <2>4. \A l : Copies(l, coins) \in Nat /\ Cardinality(Sold(l, s)) \in Nat
      <3>1. \A l : Copies(l, Profits(s)) \in Nat /\ Copies(l, Profits(s)) = Cardinality(Sold(l, s))
        BY <1>2, CopiesNat, ProfitsCopies
      <3>. QED  BY <1>1, <3>1, CopiesNat
    <2>5. \A l : Copies(l, Sent(r)) = Copies(l, Sent(s)) + (IF l \in DOMAIN Profit(sale[x]) THEN 1 ELSE 0)
      <3>. SUFFICES ASSUME NEW l
                    PROVE  Copies(l, Sent(r)) = Copies(l, Sent(s)) + (IF l \in DOMAIN Profit(sale[x]) THEN 1 ELSE 0)
        OBVIOUS
      <3>1. PICK a \in Nat, n \in Nat : a = Copies(l, coins) /\ n = Cardinality(Sold(l, s))
        BY <2>4
      <3>2. PICK e \in {0, 1} : e = IF l \in DOMAIN Profit(sale[x]) THEN 1 ELSE 0
        OBVIOUS
      <3>3. Copies(l, Sent(r)) = a + (n + e) /\ Copies(l, Sent(s)) = a + n
        BY <2>2, <2>3, <3>1, <3>2
      <3>. QED  BY <3>2, <3>3
    <2>6. SumFunctionOnSet(Gains, r) = Gain(sale[x]) + SumFunctionOnSet(Gains, s)
      <3>1. Counts(Gains, r) /\ Gains[x] = Gain(sale[x])
        BY <1>4, <2>1 DEF Counts, Gains
      <3>. QED  BY <2>1, <3>1, SumPut
    <2>7. PICK g \in Nat, n \in Nat, m \in Nat :
             g = Gain(sale[x]) /\ n = SumFunctionOnSet(Gains, s) /\ m = Mail
      <3>1. Gain(sale[x]) \in Nat
        BY <1>1, <2>1, ProfitWorth
      <3>2. Counts(Gains, s)
        BY <1>4 DEF Counts
      <3>. QED  BY <1>1, <2>1, <3>1, <3>2, SumNat
    <2>8. Letters(Sent(s)) /\ Worth(Sent(s)) = m + n
      BY <1>6, <2>7
    <2>. HIDE DEF r, Sent
    <2>9. CASE DOMAIN Profit(sale[x]) = {} /\ Gain(sale[x]) = 0
      <3>1. \A l : Copies(l, Sent(s)) \in Nat
        BY <2>2, CopiesNat
      <3>2. \A l : Copies(l, Sent(r)) = Copies(l, Sent(s))
        BY <2>5, <2>9, <3>1
      <3>3. Sent(r) = Sent(s)
        BY <2>2, <3>2, SameBag
      <3>4. SumFunctionOnSet(Gains, r) = n
        BY <2>6, <2>7, <2>9
      <3>. QED  BY <2>1, <2>7, <2>8, <3>3, <3>4 DEF r
    <2>10. ASSUME NEW l, DOMAIN Profit(sale[x]) = {l}, l.to \in Characters, l.gold = Gain(sale[x]), l.gold \in Nat
           PROVE  r \in T
      <3>1. \A k : Copies(k, Sent(r)) = Copies(k, Sent(s)) + (IF k = l THEN 1 ELSE 0)
        BY <2>5, <2>10
      <3>2. Letters(Sent(r)) /\ Worth(Sent(r)) = (m + n) + l.gold
        BY <2>2, <2>8, <2>10, <3>1, LetterAdded
      <3>3. (m + n) + g = m + (g + n)
        OBVIOUS
      <3>4. Worth(Sent(r)) = Mail + SumFunctionOnSet(Gains, r)
        BY <2>6, <2>7, <2>10, <3>2, <3>3
      <3>. QED  BY <2>1, <3>2, <3>4
    <2>. QED  BY <1>1, <2>1, <2>9, <2>10, ProfitIs DEF r
  <1>7. S \in T
    <2>. HIDE DEF T
    <2>. QED  BY <1>1, <1>5, <1>6, Growing
  <1>. QED  BY <1>7

(* An auction that ends with a bidder goes to its owner but for the share of the house; one
   without keeps its deposit. *)
LEMMA SettleHonest ==
  ASSUME FInv, NEW S \in SUBSET Items, Settle(S)
  PROVE  Rich' /\ Honest
  <1>1. /\ chars' = chars /\ S \in SUBSET DOMAIN sale /\ sale' = WithoutKeys(sale, S)
        /\ coins' = coins (+) Profits(S)
    BY DEF Settle
  <1>2. /\ Ended = S /\ Pots' \in Nat /\ IsFiniteSet(S) /\ Counts(Stakes, S)
        /\ Pots = Pots' + SumFunctionOnSet(Stakes, S)
    BY <1>1, SalesEnd
  <1>3. Letters(coins') /\ Mail' = Mail + SumFunctionOnSet(Gains, S) /\ Purses' = Purses
    BY <1>1, ProfitsWorth DEF Mail, Purses
  <1>4. ASSUME NEW i \in S
        PROVE  /\ Gains[i] \in Nat /\ Stakes[i] \in Nat /\ Fees[i] \in Nat /\ Gains[i] <= Stakes[i]
               /\ Together => Stakes[i] <= Gains[i] + Fees[i]
    <2>. DEFINE s == sale[i]
    <2>1. /\ s.bid \in Nat /\ s.buyout \in Nat /\ Deposit \in Nat /\ (s.bid = 0 <=> s.bidder = Nobody)
          /\ DOMAIN chars \subseteq Characters /\ s.owner \in Characters /\ Nobody \notin Characters
      BY <1>1, Stocks, EconomyAssumption DEF FInv, Rich
    <2>2. Gains[i] = Gain(s) /\ Stakes[i] = s.bid + Deposit /\ Fees[i] = Fee(s)
      BY <1>1, <1>2 DEF Gains, Stakes, Fees
    <2>3. Together => s.owner \in DOMAIN chars
      BY <1>1, <2>1 DEF Together
    <2>. HIDE DEF s
    <2>4. /\ Gain(s) \in Nat /\ Gain(s) <= s.bid + Deposit
          /\ s.owner \in DOMAIN chars /\ s.bidder # Nobody => s.bid + Deposit = Gain(s) + AuctionCut(s.bid)
      <3>1. Letters(coins)
        BY DEF FInv, Rich
      <3>. QED  BY <2>1, <3>1, ProfitWorth
    <2>5. PICK m \in Nat : m = (IF s.buyout > s.bid THEN s.buyout ELSE s.bid) /\ s.bid \in 0..m
      BY <2>1
    <2>6. AuctionCut(m) \in Nat /\ AuctionCut(s.bid) \in Nat /\ AuctionCut(s.bid) <= AuctionCut(m)
      BY <2>1, <2>5, CutBound
    <2>7. PICK a \in Nat, f \in Nat, b \in Nat, d \in Nat, g \in Nat :
             /\ a = AuctionCut(m) /\ f = AuctionCut(s.bid) /\ f <= a
             /\ b = s.bid /\ d = Deposit /\ g = Gain(s)
      BY <2>1, <2>4, <2>6
    <2>8. Fee(s) = d + a /\ Fee(s) \in Nat
      BY <2>5, <2>7 DEF Fee
    <2>9. Together => b + d <= g + (d + a)
      <3>1. CASE s.bidder = Nobody
        BY <2>1, <2>7, <3>1
      <3>2. CASE s.bidder # Nobody
        BY <2>3, <2>4, <2>7, <3>2
      <3>. QED  BY <3>1, <3>2
    <2>. QED  BY <2>1, <2>2, <2>4, <2>7, <2>8, <2>9
  <1>5. Counts(Gains, S) /\ Counts(Fees, S)
    BY <1>4 DEF Counts
  <1>6. PICK a \in Nat, h \in Nat, f \in Nat : /\ a = SumFunctionOnSet(Gains, S)
                                              /\ h = SumFunctionOnSet(Stakes, S)
                                              /\ f = SumFunctionOnSet(Fees, S)
    BY <1>2, <1>5, SumNat
  <1>7. a <= h
    <2>1. \A i \in S : Gains[i] <= Stakes[i] /\ Stakes[i] <= Gains[i] + Stakes[i]
      BY <1>4
    <2>. QED  BY <1>2, <1>5, <1>6, <2>1, SumBetween
  <1>8. Together => h <= a + f
    <2>. SUFFICES ASSUME Together PROVE h <= a + f
      OBVIOUS
    <2>1. \A i \in S : Gains[i] <= Stakes[i] /\ Stakes[i] <= Gains[i] + Fees[i]
      BY <1>4
    <2>. QED  BY <1>2, <1>5, <1>6, <2>1, SumBetween
  <1>9. Rich'
    BY <1>1, <1>3 DEF FInv, Rich
  <1>10. PICK p \in Nat, q \in Nat, m \in Nat : p = Purses /\ q = Pots' /\ m = Mail
    BY <1>2, Stocks
  <1>11. Wealth = (p + (q + h)) + m
    BY <1>2, <1>6, <1>10, WealthIs
  <1>12. Wealth' = (p + q) + (m + a)
    BY <1>3, <1>6, <1>10, WealthIs
  <1>13. Wealth' <= Wealth /\ (Together => Wealth' + f >= Wealth)
    BY <1>7, <1>8, <1>11, <1>12
  <1>. QED  BY <1>2, <1>6, <1>9, <1>13 DEF Honest

-----------------------------------------------------------------------------
LEMMA InitFInv == Init => FInv
  <1>. SUFFICES ASSUME Init PROVE FInv
    OBVIOUS
  <1>1. /\ StartGold \in [Characters -> Nat] /\ chars = StartGold /\ coins = EmptyBag
    BY EconomyAssumption DEF Init
  <1>2. Letters(coins)
    BY <1>1, BagSingle, FS_EmptySet DEF Letters
  <1>3. Rich
    BY <1>1, <1>2 DEF Rich, Counts
  <1>. QED  BY <1>3, InitIInv DEF FInv

LEMMA NextFInv ==
  ASSUME FInv, [Next]_vars
  PROVE  FInv' /\ Honest
  <1>1. IInv'
    BY NextIInv DEF FInv
  <1>2. ASSUME UNCHANGED vars PROVE Rich' /\ Honest
    BY <1>2, SameHonest DEF vars
  <1>3. ASSUME NEW c \in Characters, NEW i \in Items, NEW b \in Buyouts, Sell(c, i, b) PROVE Rich' /\ Honest
    BY <1>3, SellHonest
  <1>4. ASSUME NEW c \in Characters, NEW i \in Items, NEW p \in Prices, Bid(c, i, p) PROVE Rich' /\ Honest
    BY <1>4, BidHonest
  <1>5. ASSUME NEW c \in Characters, NEW i \in Items, Buyout(c, i) PROVE Rich' /\ Honest
    BY <1>5, BuyoutHonest
  <1>6. ASSUME NEW i \in Items, Cancel(i) PROVE Rich' /\ Honest
    BY <1>6, CancelHonest
  <1>7. ASSUME NEW i \in Items, Destroy(i) \/ TakeItem(i) PROVE Rich' /\ Honest
    BY <1>7, SameHonest DEF Destroy, TakeItem
  <1>8. ASSUME NEW S \in SUBSET Items, Settle(S) PROVE Rich' /\ Honest
    BY <1>8, SettleHonest
  <1>9. ASSUME NEW letter \in DOMAIN coins, TakeMoney(letter) PROVE Rich' /\ Honest
    BY <1>9, TakeMoneyHonest
  <1>10. ASSUME NEW c \in Characters, Delete(c) PROVE Rich' /\ Honest
    BY <1>10, DeleteHonest
  <1>11. Rich' /\ Honest
    BY <1>2, <1>3, <1>4, <1>5, <1>6, <1>7, <1>8, <1>9, <1>10 DEF Next
  <1>. QED  BY <1>1, <1>11 DEF FInv

LEMMA NextFair ==
  ASSUME FInv, [Next]_vars
  PROVE  FInv' /\ FairDeal
  <1>1. Honest => FairDeal
    BY DEF FairDeal, Honest, Together, Fees, Ended, SumFunction
  <1>. QED  BY <1>1, NextFInv

(* No operation creates gold, and none loses more of it than the deposits and the shares of the
   auctions it ends, as long as the parties of all auctions exist: the tables balance. *)
THEOREM EconomyFeesOnly == Spec => FeesOnly
  <1>1. FInv /\ [Next]_vars => FInv' /\ [FairDeal]_vars
    BY NextFair
  <1>. QED  BY <1>1, InitFInv, PTL DEF Spec, FeesOnly
=============================================================================
