---------------------------- MODULE AuctionHouse ----------------------------
(***************************************************************************)
(* The auction house and its mail between memory and the character         *)
(* database.  Handlers change memory at once and commit a transaction,     *)
(* which a database worker executes later, in order; queries made directly *)
(* see the database as it is.  A crash loses memory and the queue, and the *)
(* server starts again from the tables.                                    *)
(***************************************************************************)
EXTENDS Naturals, Sequences, FiniteSets, SequencesExt

CONSTANTS Characters, Items, Nobody,
          Account,            \* the account of a character
          Home,               \* the character an item belongs to at first
          StartGold,          \* the gold of a character at first
          Deposit, CutPercent, StartBid, Prices, Buyouts,    \* as in AuctionEconomy
          MaxQueue            \* bound: requests that wait when a handler begins

ASSUME HouseAssumption == /\ \A c \in Characters : c \in DOMAIN Account
                          /\ Nobody \notin Characters
                          /\ Home \in [Items -> Characters]
                          /\ IsFiniteSet(Characters) /\ IsFiniteSet(Items)
                          /\ StartGold \in [Characters -> Nat] /\ MaxQueue \in Nat
                          /\ Deposit \in Nat /\ CutPercent \in 0..100
                          /\ StartBid \in Nat \ {0} /\ Prices \subseteq Nat /\ Buyouts \subseteq Nat

VARIABLES known,              \* characters of the global player data
          gold,               \* the money of the players in the world
          held,               \* the items in their inventories
          parcels, letters,   \* their mail in memory: items, and gold
          auctions,           \* AuctionsMap, whose items are mAitems
          queue,              \* transactions and login queries that the worker has yet to execute
          read,               \* results of login queries: what was read of a character
          db,                 \* the character database
          server              \* "up", "closing" when the world thread has ended, "down"

memory == <<known, gold, held, parcels, letters, auctions>>
vars == <<memory, queue, read, db, server>>

Economy == INSTANCE AuctionEconomy WITH chars <- db.chars, item <- db.item, inv <- db.inv,
                                        sale <- db.sale, post <- db.post, coins <- db.coins

online == DOMAIN gold
Loading == {c \in Characters : c \in DOMAIN read \/ \E k \in DOMAIN queue : c \in queue[k].login}

Row(k, v) == [x \in {k} |-> v]
Put(rows, table) ==
    [k \in DOMAIN rows \cup DOMAIN table |-> IF k \in DOMAIN rows THEN rows[k] ELSE table[k]]
Without(table, keys) == Restrict(table, DOMAIN table \ keys)
ItemsOf(table, c) == RestrictValues(table, LAMBDA o : o = c)
LettersTo(bag, C) == RestrictDomain(bag, LAMBDA l : l.to \in C)
Update(table, new) == [k \in DOMAIN table |-> IF k \in DOMAIN new THEN new[k] ELSE table[k]]

-----------------------------------------------------------------------------
(* Transactions: the rows that the statements of each write and delete.  The queries of a
   login are a request as well, that writes nothing. *)

NoWrites == [gold |-> <<>>, owner |-> <<>>, item |-> <<>>, gone |-> {}, inv |-> <<>>, uninv |-> {},
             sale |-> <<>>, bid |-> <<>>, unsale |-> {}, post |-> <<>>, unpost |-> {},
             coins |-> EmptyBag, spent |-> EmptyBag, purge |-> {}, login |-> {}]

LoginQueries(c) == [NoWrites EXCEPT !.login = {c}]

(* An UPDATE of a row that is not there does nothing; the deletion of a character
   deletes its mail, inventory and every item under its name. *)
Execute(d, t) ==
    LET Stay(table) == RestrictValues(table, LAMBDA o : o \notin t.purge) IN
    [chars |-> Without(Update(d.chars, t.gold), t.purge),
     item  |-> Put(t.item, Without(Stay(Update(d.item, t.owner)), t.gone)),
     inv   |-> Put(t.inv, Without(Stay(d.inv), t.uninv)),
     sale  |-> Put(t.sale, Without(Update(d.sale, t.bid), t.unsale)),
     post  |-> Put(t.post, Without(Stay(d.post), t.unpost)),
     coins |-> LettersTo((d.coins (+) t.coins) (-) t.spent, Characters \ t.purge)]

(* What the first requests of a queue make of a database. *)
After(d, requests) ==
    LET state[k \in 0..Len(requests)] == IF k = 0 THEN d ELSE Execute(state[k - 1], requests[k])
    IN state

(* The database when all that is committed is executed. *)
Future == After(db, queue)[Len(queue)]

CommitTransaction(transactions) == queue' = queue \o transactions

Handling == server = "up" /\ Len(queue) < MaxQueue

Init == /\ known = Characters
        /\ gold = <<>> /\ held = <<>> /\ parcels = <<>> /\ letters = EmptyBag
        /\ auctions = <<>> /\ queue = <<>> /\ read = <<>>
        /\ db = [chars |-> StartGold, item |-> Home, inv |-> Home,
                 sale |-> <<>>, post |-> <<>>, coins |-> EmptyBag]
        /\ server = "up"

-----------------------------------------------------------------------------
(* Money and mail. *)

(* Player::ModifyMoney: what is not there to be paid is not missed. *)
Paid(c, n) == [gold EXCEPT ![c] = IF @ > n THEN @ - n ELSE 0]

SaveGoldToDB(c, table) == Row(c, table[c])

GetAuctionCut(s) == (s.bid * CutPercent) \div 100

GetAuctionOutBid(s) == LET outbid == (s.bid * 5) \div 100 IN IF outbid = 0 THEN 1 ELSE outbid

(* A letter with gold, written only to characters that exist. *)
Letter(c, n) == IF c \in known THEN SetToBag({[to |-> c, gold |-> n]}) ELSE EmptyBag

SendAuctionSuccessfulMail(s) == Letter(s.owner, s.bid + Deposit - GetAuctionCut(s))

(* Mutant: the last bidder is not paid back. *)
SendAuctionOutbiddedMail_Lost(s, c) == EmptyBag
SendAuctionOutbiddedMail(s, c) == IF s.bidder = c THEN EmptyBag ELSE Letter(s.bidder, s.bid)

SendAuctionCancelledToBidderMail(s) == Letter(s.bidder, s.bid)

(* MailDraft::SendMailTo: receivers in the world have the mail in memory as well. *)
SendMailTo(items, bag) ==
    /\ parcels' = Put(RestrictValues(items, LAMBDA c : c \in online), parcels)
    /\ letters' = letters (+) LettersTo(bag, online)

-----------------------------------------------------------------------------
(* The auction handlers.  Buyers and sellers stand at an auctioneer. *)

SellWrites(c, i, s, table) ==
    [NoWrites EXCEPT !.gold = SaveGoldToDB(c, table), !.uninv = {i}, !.sale = Row(i, s)]

(* A whole stack is put up. *)
HandleAuctionSellItem(c, i, buyout) ==
    LET s == [owner |-> c, buyout |-> buyout, bidder |-> Nobody, bid |-> 0] IN
    /\ Handling
    /\ i \in DOMAIN held /\ held[i] = c
    /\ gold[c] >= Deposit
    /\ gold' = Paid(c, Deposit)
    /\ held' = Without(held, {i})
    /\ auctions' = Put(Row(i, s), auctions)
    /\ CommitTransaction(<<SellWrites(c, i, s, gold')>>)
    /\ UNCHANGED <<known, parcels, letters, read, db, server>>

(* Not one's own auction, nor that of another character of the account, which is not
   looked for when the owner is in the world; a price that outbids, and the money. *)
MayBid(c, s, price) ==
    /\ s.owner # c
    /\ ~(s.owner \notin online /\ s.owner \in known /\ Account[s.owner] = Account[c])
    /\ price > s.bid /\ price >= StartBid
    /\ price < s.buyout \/ s.buyout = 0 => price >= s.bid + GetAuctionOutBid(s)
    /\ gold[c] >= price

(* HandleAuctionPlaceBid below the buyout price. *)
PlaceBid(c, i, price) ==
    LET s      == auctions[i]
        new    == [s EXCEPT !.bidder = c, !.bid = price]
        refund == SendAuctionOutbiddedMail(s, c) IN
    /\ Handling
    /\ c \in online /\ i \in DOMAIN auctions
    /\ MayBid(c, s, price)
    /\ price < s.buyout \/ s.buyout = 0
    /\ gold' = Paid(c, IF s.bidder = c THEN price - s.bid ELSE price)
    /\ auctions' = [auctions EXCEPT ![i] = new]
    /\ SendMailTo(<<>>, refund)
    /\ CommitTransaction(<<[NoWrites EXCEPT !.gold = SaveGoldToDB(c, gold'), !.bid = Row(i, new),
                                            !.coins = refund]>>)
    /\ UNCHANGED <<known, held, read, db, server>>

(* The winner's parcel; the item becomes the winner's at once, to outlive the seller. *)
SendAuctionWonMail(won) == [NoWrites EXCEPT !.owner = won, !.post = won]

(* HandleAuctionPlaceBid at the buyout price or above. *)
BuyOut(c, i, price) ==
    LET s   == auctions[i]
        new == [s EXCEPT !.bidder = c, !.bid = s.buyout]
        bag == SendAuctionOutbiddedMail(s, c) (+) SendAuctionSuccessfulMail(new) IN
    /\ Handling
    /\ c \in online /\ i \in DOMAIN auctions
    /\ MayBid(c, s, price)
    /\ price >= s.buyout /\ s.buyout # 0
    /\ gold' = Paid(c, IF s.bidder = c THEN s.buyout - s.bid ELSE s.buyout)
    /\ auctions' = Without(auctions, {i})
    /\ SendMailTo(Row(i, c), bag)
    /\ CommitTransaction(<<[SendAuctionWonMail(Row(i, c)) EXCEPT !.gold = SaveGoldToDB(c, gold'),
                                                              !.unsale = {i}, !.coins = bag]>>)
    /\ UNCHANGED <<known, held, read, db, server>>

(* Mutant: the gold of the player is not saved. *)
CancelWrites_NoGold(c, i, bag, table) ==
    <<[NoWrites EXCEPT !.unsale = {i}, !.post = Row(i, c), !.coins = bag]>>

(* Mutant: the mail and the end of the auction are committed one after the other. *)
CancelWrites_Twice(c, i, bag, table) ==
    <<[NoWrites EXCEPT !.gold = SaveGoldToDB(c, table), !.post = Row(i, c), !.coins = bag],
      [NoWrites EXCEPT !.unsale = {i}]>>

CancelWrites(c, i, bag, table) ==
    <<[NoWrites EXCEPT !.gold = SaveGoldToDB(c, table), !.unsale = {i}, !.post = Row(i, c),
                       !.coins = bag]>>

(* The owner cancels, and pays the house's share of a bid. *)
HandleAuctionRemoveItem(c, i) ==
    LET s   == auctions[i]
        cut == IF s.bidder = Nobody THEN 0 ELSE GetAuctionCut(s)
        bag == SendAuctionCancelledToBidderMail(s) IN
    /\ Handling
    /\ c \in online /\ i \in DOMAIN auctions /\ s.owner = c
    /\ gold[c] >= cut
    /\ gold' = Paid(c, cut)
    /\ auctions' = Without(auctions, {i})
    /\ SendMailTo(Row(i, c), bag)
    /\ CommitTransaction(CancelWrites(c, i, bag, gold'))
    /\ UNCHANGED <<known, held, read, db, server>>

RemoveAItem(i) == [NoWrites EXCEPT !.gone = {i}]

(* AuctionHouseObject::Update: the auctions of S have expired.  An item that nobody can
   receive is deleted by a transaction of its own, committed before that of the rest. *)
Expire(S) ==
    LET Receiver(i) == IF auctions[i].bidder = Nobody THEN auctions[i].owner ELSE auctions[i].bidder
        Won    == {i \in S : auctions[i].bidder # Nobody}
        Sent   == {i \in S : Receiver(i) \in known}
        mail   == [i \in Sent |-> Receiver(i)]
        Sellers(l) == {i \in Won : l \in DOMAIN SendAuctionSuccessfulMail(auctions[i])}
        bag    == [l \in UNION {DOMAIN SendAuctionSuccessfulMail(auctions[i]) : i \in Won} |->
                       Cardinality(Sellers(l))] IN
    /\ Handling
    /\ S # {} /\ S \subseteq DOMAIN auctions
    /\ auctions' = Without(auctions, S)
    /\ SendMailTo(mail, bag)
    /\ CommitTransaction(
          [k \in 1..Cardinality(S \ Sent) |-> RemoveAItem(SetToSeq(S \ Sent)[k])]
          \o <<[SendAuctionWonMail(Restrict(mail, Sent \cap Won)) EXCEPT !.unsale = S, !.post = mail,
                                                                        !.coins = bag]>>)
    /\ UNCHANGED <<known, gold, held, read, db, server>>

-----------------------------------------------------------------------------
(* Mail that is taken. *)

HandleMailTakeItem(c, i) ==
    /\ Handling
    /\ i \in DOMAIN parcels /\ parcels[i] = c
    /\ parcels' = Without(parcels, {i})
    /\ held' = Put(Row(i, c), held)
    /\ CommitTransaction(<<[NoWrites EXCEPT !.inv = Row(i, c), !.item = Row(i, c), !.unpost = {i},
                                            !.gold = SaveGoldToDB(c, gold)]>>)
    /\ UNCHANGED <<known, gold, letters, auctions, read, db, server>>

HandleMailTakeMoney(letter) ==
    LET c == letter.to IN
    /\ Handling
    /\ letter \in DOMAIN letters
    /\ gold' = [gold EXCEPT ![c] = @ + letter.gold]
    /\ letters' = letters (-) SetToBag({letter})
    /\ CommitTransaction(<<[NoWrites EXCEPT !.gold = SaveGoldToDB(c, gold'),
                                            !.spent = SetToBag({letter})]>>)
    /\ UNCHANGED <<known, held, parcels, auctions, read, db, server>>

-----------------------------------------------------------------------------
(* Characters come and go.  An account has one character in the world or on its way. *)

Idle(c) == \A o \in online \cup Loading : Account[o] # Account[c]

HandlePlayerLogin(c) ==
    /\ Handling
    /\ c \in known /\ Idle(c)
    /\ queue' = Append(queue, LoginQueries(c))
    /\ UNCHANGED <<memory, read, db, server>>

(* Player::LoadFromDB, from what the worker read.  Mail sent in between is not in it. *)
HandlePlayerLoginFromDB(c) ==
    /\ server = "up"
    /\ c \in DOMAIN read
    /\ gold' = Put(Row(c, read[c].gold), gold)
    /\ held' = Put(read[c].held, held)
    /\ parcels' = Put(read[c].parcels, parcels)
    /\ letters' = letters (+) read[c].letters
    /\ read' = Without(read, {c})
    /\ UNCHANGED <<known, auctions, queue, db, server>>

LogoutPlayer(c) ==
    /\ server = "closing" \/ Handling
    /\ c \in online
    /\ gold' = Without(gold, {c})
    /\ held' = RestrictValues(held, LAMBDA o : o # c)
    /\ parcels' = RestrictValues(parcels, LAMBDA o : o # c)
    /\ letters' = LettersTo(letters, Characters \ {c})
    /\ CommitTransaction(<<[NoWrites EXCEPT !.gold = SaveGoldToDB(c, gold)]>>)
    /\ UNCHANGED <<known, auctions, read, db, server>>

(* CharDelete.Method 0: rows are removed for good. *)
DeleteFromDB(c) == [NoWrites EXCEPT !.purge = {c}]

(* At the character screen. *)
HandleCharDelete(c) ==
    /\ Handling
    /\ c \in known /\ Idle(c)
    /\ known' = known \ {c}
    /\ CommitTransaction(<<DeleteFromDB(c)>>)
    /\ UNCHANGED <<gold, held, parcels, letters, auctions, read, db, server>>

-----------------------------------------------------------------------------
(* The database worker, and the life of the server. *)

(* What the queries of a login find. *)
RowsOf(d, c) == [gold    |-> d.chars[c],
                 held    |-> ItemsOf(d.inv, c),
                 parcels |-> ItemsOf(Restrict(d.post, DOMAIN d.post \cap DOMAIN d.item), c),
                 letters |-> LettersTo(d.coins, {c})]

(* A transaction, or the queries of a character's login. *)
Worker ==
    /\ queue # <<>>
    /\ read' = Put([c \in Head(queue).login |-> RowsOf(db, c)], read)
    /\ db' = Execute(db, Head(queue))
    /\ queue' = Tail(queue)
    /\ UNCHANGED <<memory, server>>

Forget == /\ gold' = <<>> /\ held' = <<>> /\ parcels' = <<>> /\ letters' = EmptyBag
          /\ auctions' = <<>> /\ known' = {} /\ queue' = <<>> /\ read' = <<>>
          /\ server' = "down"
          /\ UNCHANGED db

Crash == server = "up" /\ Forget

(* The world stops; every player is kicked and saved. *)
Shutdown == /\ server = "up"
            /\ server' = "closing"
            /\ UNCHANGED <<memory, queue, read, db>>

(* DatabaseWorkerPool::Close: the queue is closed, which discards what waits in it. *)
Close == /\ server = "closing" /\ online = {}
         /\ Forget

(* LoadAuctions joins item_instance: an auction whose item has no row is not loaded. *)
Boot == /\ server = "down"
        /\ server' = "up"
        /\ known' = DOMAIN db.chars
        /\ auctions' = Restrict(db.sale, DOMAIN db.sale \cap DOMAIN db.item)
        /\ UNCHANGED <<gold, held, parcels, letters, queue, read, db>>

Next == \/ \E c \in Characters, i \in Items :
              \/ \E buyout \in Buyouts : HandleAuctionSellItem(c, i, buyout)
              \/ \E price \in Prices : PlaceBid(c, i, price) \/ BuyOut(c, i, price)
              \/ HandleAuctionRemoveItem(c, i)
              \/ HandleMailTakeItem(c, i)
        \/ \E S \in SUBSET Items : Expire(S)
        \/ \E letter \in DOMAIN letters : HandleMailTakeMoney(letter)
        \/ \E c \in Characters : \/ HandlePlayerLogin(c) \/ HandlePlayerLoginFromDB(c)
                                 \/ LogoutPlayer(c) \/ HandleCharDelete(c)
        \/ Worker \/ Crash \/ Shutdown \/ Close \/ Boot

Spec == Init /\ [][Next]_vars

-----------------------------------------------------------------------------
TypeOK ==
    LET Rows(table, K, V) == DOMAIN table \subseteq K /\ \A k \in DOMAIN table : table[k] \in V
        Letters(bag) == IsABag(bag) /\ \A l \in DOMAIN bag : l.to \in Characters /\ l.gold \in Nat
        Sale == [owner : Characters, buyout : Nat, bidder : Characters \cup {Nobody}, bid : Nat] IN
    /\ known \subseteq Characters
    /\ Rows(gold, Characters, Nat)
    /\ Rows(held, Items, online) /\ Rows(parcels, Items, online)
    /\ Letters(letters) /\ \A l \in DOMAIN letters : l.to \in online
    /\ Rows(auctions, Items, Sale)
    /\ Rows(db.chars, Characters, Nat)
    /\ Rows(db.item, Items, Characters) /\ Rows(db.inv, Items, Characters)
    /\ Rows(db.sale, Items, Sale) /\ Rows(db.post, Items, Characters) /\ Letters(db.coins)
    /\ server \in {"up", "closing", "down"}

(* Whatever waits in the queue, what it will make of the database is what the server has
   in memory: a crash loses time but never leaves the two at odds.  Mail may be missing
   in memory, when it was sent while its receiver was loading, and an auction whose
   seller was deleted is not loaded again; the rest is the same. *)
WorldAhead ==
    LET f == Future IN
    server = "up" =>
        /\ known = DOMAIN f.chars
        /\ gold = Restrict(f.chars, online)
        /\ held = RestrictValues(f.inv, LAMBDA c : c \in online)
        /\ \A i \in DOMAIN parcels : i \in DOMAIN f.post /\ f.post[i] = parcels[i]
        /\ letters \sqsubseteq f.coins
        /\ \A i \in DOMAIN f.sale \ DOMAIN auctions : i \notin DOMAIN f.item
        /\ auctions = Restrict(f.sale, DOMAIN auctions)

(* Gold and items in the database move only by the whole operations of AuctionEconomy,
   in whatever order handlers, logins, deletions, crashes and restarts come; so ItemOnce,
   ItemFound and BidsStand of AuctionEconomy hold of the database. *)
ImplementsEconomy == Economy!Spec

(* No step of the database creates gold, whatever waits in the queue and wherever the server
   crashes, and what is lost is lost to the house. *)
FeesOnly == Economy!FeesOnly

(* Stopping the server stores what the players had when they were kicked. *)
ShutdownStores == [][server = "closing" /\ server' = "down" => db' = Future]_vars
=============================================================================
