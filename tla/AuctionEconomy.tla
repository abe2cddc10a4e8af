--------------------------- MODULE AuctionEconomy ---------------------------
(***************************************************************************)
(* What the auction house promises: gold, items, auctions and mail change  *)
(* only by whole operations.  The variables are the tables of the          *)
(* character database, a table being a function on the keys of its rows.   *)
(* AuctionHouse shows that the database goes through these states alone,   *)
(* whatever the server still has in memory and wherever it crashes.        *)
(***************************************************************************)
EXTENDS Naturals, FiniteSets, Bags, Functions

CONSTANTS Characters, Items, Nobody,
          StartGold,          \* the gold of a character at first
          Home,               \* the character an item belongs to at first
          Deposit,            \* GetAuctionDeposit of an item
          CutPercent,         \* share of the highest bid the house keeps
          StartBid,           \* AH->startbid
          Prices,             \* bids that are offered
          Buyouts             \* buyout prices that are asked, 0 for none

ASSUME EconomyAssumption == /\ IsFiniteSet(Characters) /\ IsFiniteSet(Items)
                            /\ Nobody \notin Characters
                            /\ StartGold \in [Characters -> Nat]
                            /\ Home \in [Items -> Characters]
                            /\ Deposit \in Nat
                            /\ CutPercent \in 0..100
                            /\ StartBid \in Nat \ {0}
                            /\ Prices \subseteq Nat /\ Buyouts \subseteq Nat

VARIABLES chars,              \* characters: the gold of those that exist
          item,               \* item_instance: the owner_guid of the items that exist
          inv,                \* character_inventory: whose inventory an item is in
          sale,               \* auctionhouse: the auction of an item
          post,               \* mail_items: to whom an item is mailed
          coins               \* mail: the bag of letters that carry gold

vars == <<chars, item, inv, sale, post, coins>>

Sale == [owner : Characters, buyout : Nat, bidder : Characters \cup {Nobody}, bid : Nat]

AuctionCut(bid) == (bid * CutPercent) \div 100

WithoutKeys(table, keys) == Restrict(table, DOMAIN table \ keys)

Put(table, key, row) == [k \in DOMAIN table \cup {key} |-> IF k = key THEN row ELSE table[k]]

WithBid(s, c, price) == [owner |-> s.owner, buyout |-> s.buyout, bidder |-> c, bid |-> price]

(* A letter with gold n to c, if there is such a character. *)
Letter(c, n) == IF c \in DOMAIN chars THEN SetToBag({[to |-> c, gold |-> n]}) ELSE EmptyBag

(* Who gets the item when the auction ends. *)
Receiver(s) == IF s.bidder = Nobody THEN s.owner ELSE s.bidder

Profit(s) == IF s.bidder = Nobody THEN EmptyBag
             ELSE Letter(s.owner, s.bid + Deposit - AuctionCut(s.bid))

(* One letter for each auction of S that is sold. *)
Profits(S) ==
    LET Sellers(l) == {i \in S : l \in DOMAIN Profit(sale[i])} IN
    [l \in UNION {DOMAIN Profit(sale[i]) : i \in S} |-> Cardinality(Sellers(l))]

Init == /\ chars = StartGold
        /\ item = Home /\ inv = Home
        /\ sale = <<>> /\ post = <<>> /\ coins = EmptyBag

CanPay(c, n) == c \in DOMAIN chars /\ chars[c] >= n

Sell(c, i, buyout) ==
    /\ i \in DOMAIN inv /\ inv[i] = c
    /\ CanPay(c, Deposit)
    /\ chars' = [chars EXCEPT ![c] = @ - Deposit]
    /\ inv' = WithoutKeys(inv, {i})
    /\ sale' = Put(sale, i, [owner |-> c, buyout |-> buyout, bidder |-> Nobody, bid |-> 0])
    /\ UNCHANGED <<item, post, coins>>

(* Mutant: a bid need not exceed the last one. *)
Offered_Low(c, i, price) == i \in DOMAIN sale /\ CanPay(c, price)

Offered(c, i, price) == /\ i \in DOMAIN sale
                        /\ c # sale[i].owner
                        /\ price > sale[i].bid
                        /\ CanPay(c, price)

(* A bidder who raises pays the difference, another one refunds the last bidder. *)
Pay(c, s, price) ==
    chars' = [chars EXCEPT ![c] = @ - (IF s.bidder = c THEN price - s.bid ELSE price)]

Refund(c, s) == IF s.bidder = c THEN EmptyBag ELSE Letter(s.bidder, s.bid)

Bid(c, i, price) ==
    /\ Offered(c, i, price) /\ price >= StartBid
    /\ sale[i].buyout = 0 \/ price < sale[i].buyout
    /\ Pay(c, sale[i], price)
    /\ coins' = coins (+) Refund(c, sale[i])
    /\ sale' = Put(sale, i, WithBid(sale[i], c, price))
    /\ UNCHANGED <<item, inv, post>>

Buyout(c, i) ==
    LET s == sale[i] IN
    /\ i \in DOMAIN sale /\ Offered(c, i, s.buyout)
    /\ Pay(c, s, s.buyout)
    /\ coins' = (coins (+) Refund(c, s)) (+) Profit(WithBid(s, c, s.buyout))
    /\ sale' = WithoutKeys(sale, {i})
    /\ post' = Put(post, i, c)
    /\ item' = [j \in DOMAIN item |-> IF j = i THEN c ELSE item[j]]
    /\ UNCHANGED inv

Cancel(i) ==
    LET s   == sale[i]
        fee == IF s.bidder = Nobody THEN 0 ELSE AuctionCut(s.bid) IN
    /\ i \in DOMAIN sale
    /\ CanPay(s.owner, fee)
    /\ chars' = [chars EXCEPT ![s.owner] = @ - fee]
    /\ coins' = coins (+) Letter(s.bidder, s.bid)
    /\ post' = Put(post, i, s.owner)
    /\ sale' = WithoutKeys(sale, {i})
    /\ UNCHANGED <<item, inv>>

(* The auctions of S end.  An item nobody can receive was destroyed before. *)
Settle(S) ==
    LET sent == {i \in S : Receiver(sale[i]) \in DOMAIN chars} IN
    /\ S # {} /\ S \subseteq DOMAIN sale
    /\ \A i \in S \ sent : i \notin DOMAIN item
    /\ coins' = coins (+) Profits(S)
    /\ post' = [i \in DOMAIN post \cup sent |-> IF i \in sent THEN Receiver(sale[i]) ELSE post[i]]
    /\ item' = [i \in DOMAIN item |-> IF i \in sent THEN Receiver(sale[i]) ELSE item[i]]
    /\ sale' = WithoutKeys(sale, S)
    /\ UNCHANGED <<chars, inv>>

Destroy(i) ==
    /\ i \in DOMAIN sale \cap DOMAIN item
    /\ Receiver(sale[i]) \notin DOMAIN chars
    /\ item' = WithoutKeys(item, {i})
    /\ UNCHANGED <<chars, inv, sale, post, coins>>

(* Mutant: the mail keeps what was taken out of it. *)
TakeItem_Kept(i) ==
    /\ i \in DOMAIN post
    /\ inv' = Put(inv, i, post[i])
    /\ item' = Put(item, i, post[i])
    /\ UNCHANGED <<chars, sale, coins, post>>

(* An item whose row was deleted is stored anew when it is taken. *)
TakeItem(i) ==
    /\ i \in DOMAIN post
    /\ inv' = Put(inv, i, post[i])
    /\ item' = Put(item, i, post[i])
    /\ post' = WithoutKeys(post, {i})
    /\ UNCHANGED <<chars, sale, coins>>

TakeMoney(letter) ==
    /\ letter \in DOMAIN coins /\ letter.to \in DOMAIN chars
    /\ chars' = [chars EXCEPT ![letter.to] = @ + letter.gold]
    /\ coins' = coins (-) SetToBag({letter})
    /\ UNCHANGED <<item, inv, sale, post>>

(* Mutant: the rows of the items stay. *)
Delete_KeepsItems(c) ==
    /\ c \in DOMAIN chars
    /\ chars' = WithoutKeys(chars, {c})
    /\ inv' = RestrictValues(inv, LAMBDA o : o # c)
    /\ post' = RestrictValues(post, LAMBDA o : o # c)
    /\ coins' = RestrictDomain(coins, LAMBDA l : l.to # c)
    /\ UNCHANGED <<item, sale>>

(* A deleted character leaves nothing behind but its auctions and bids. *)
Delete(c) ==
    /\ c \in DOMAIN chars
    /\ chars' = WithoutKeys(chars, {c})
    /\ item' = RestrictValues(item, LAMBDA o : o # c)
    /\ inv' = RestrictValues(inv, LAMBDA o : o # c)
    /\ post' = RestrictValues(post, LAMBDA o : o # c)
    /\ coins' = RestrictDomain(coins, LAMBDA l : l.to # c)
    /\ UNCHANGED sale

Next == \/ \E c \in Characters, i \in Items :
              \/ \E buyout \in Buyouts : Sell(c, i, buyout)
              \/ \E price \in Prices : Bid(c, i, price)
              \/ Buyout(c, i)
        \/ \E i \in Items : Cancel(i) \/ Destroy(i) \/ TakeItem(i)
        \/ \E S \in SUBSET Items : Settle(S)
        \/ \E letter \in DOMAIN coins : TakeMoney(letter)
        \/ \E c \in Characters : Delete(c)

Spec == Init /\ [][Next]_vars

-----------------------------------------------------------------------------
(* The columns hold what they may: nobody's gold falls below zero, and letters, items and
   auctions name characters. *)
TypeOK ==
    LET Rows(table, K, V) == DOMAIN table \subseteq K /\ \A k \in DOMAIN table : table[k] \in V IN
    /\ Rows(chars, Characters, Nat)
    /\ Rows(item, Items, Characters) /\ Rows(inv, Items, Characters) /\ Rows(post, Items, Characters)
    /\ Rows(sale, Items, Sale)
    /\ IsABag(coins) /\ \A l \in DOMAIN coins : l.to \in Characters /\ l.gold \in Nat

(* No item is in two of: an inventory, the auction house, the mail.  An item that is
   sold, cancelled, won and taken again, each by its own transaction, is never doubled. *)
ItemOnce == /\ DOMAIN inv \cap DOMAIN sale = {}
            /\ DOMAIN inv \cap DOMAIN post = {}
            /\ DOMAIN sale \cap DOMAIN post = {}

(* Every item that exists is in an inventory, on sale or in the mail, and there under the
   name of its owner: deleting a character deletes nothing that has become another's. *)
ItemFound == \A i \in DOMAIN item : \/ i \in DOMAIN inv /\ inv[i] = item[i]
                                    \/ i \in DOMAIN sale /\ sale[i].owner = item[i]
                                    \/ i \in DOMAIN post /\ post[i] = item[i]

(* An auction has a highest bidder when it has a bid, never its owner, and no bid reaches
   the buyout price. *)
BidsStand == \A i \in DOMAIN sale :
                LET s == sale[i] IN /\ s.bid = 0 <=> s.bidder = Nobody
                                    /\ s.bidder # s.owner
                                    /\ s.buyout = 0 \/ s.bid < s.buyout

(* The gold in the tables: of characters, in bids and deposits, in letters. *)
Wealth == SumFunction(chars)
          + SumFunction([i \in DOMAIN sale |-> sale[i].bid + Deposit])
          + SumFunction([l \in DOMAIN coins |-> l.gold * coins[l]])

(* What the house may keep of an auction: the deposit, and its share of what it is sold for. *)
Fee(s) == Deposit + AuctionCut(IF s.buyout > s.bid THEN s.buyout ELSE s.bid)

(* A step creates no gold.  While everybody in an auction exists, it loses gold only to the
   house: deposits of auctions that end unsold, and its share of a bid. *)
FairDeal ==
    LET Ended     == DOMAIN sale \ DOMAIN sale'
        Exists(s) == {s.owner, s.bidder} \subseteq DOMAIN chars \cup {Nobody} IN
    /\ Wealth' <= Wealth
    /\ DOMAIN chars' = DOMAIN chars /\ (\A i \in DOMAIN sale : Exists(sale[i]))
       => Wealth' + SumFunction([i \in Ended |-> Fee(sale[i])]) >= Wealth

(* Every operation is fair: gold that is bid, refunded, paid out or mailed is neither doubled
   nor lost. *)
FeesOnly == [][FairDeal]_vars
=============================================================================
