-------------------------------- MODULE Trade --------------------------------
(***************************************************************************)
(* Trade between two players.  Each has a TradeData that names the other:  *)
(* what is offered, in slots that are exchanged and in one that is only    *)
(* shown to be enchanted, the gold, a spell for the other's shown item,    *)
(* and whether the player accepts.  Items and gold stay usable meanwhile,  *)
(* so the handler of the second acceptance checks everything again.        *)
(***************************************************************************)
EXTENDS Integers, FiniteSets

CONSTANTS Traders, NoTrader, TradeItems, NoItem,
          TradedSlots,        \* slots whose items change hands
          ShownSlot,          \* TRADE_SLOT_NONTRADED
          Eligible,           \* of each item: those it is not bound against
          FirstOwner,         \* the owner of each item at first
          FirstGold,          \* the gold of each player at first
          Room,               \* items a player has room for
          Sums,               \* bound: amounts of gold that players have or offer
          MaxMoney            \* MAX_MONEY_AMOUNT

TradeSlots == TradedSlots \cup {ShownSlot}

ASSUME TradeAssumption == /\ NoTrader \notin Traders /\ NoItem \notin TradeItems
                          /\ ShownSlot \notin TradedSlots
                          /\ Eligible \in [TradeItems -> SUBSET Traders]
                          /\ FirstOwner \in [TradeItems -> Traders]
                          /\ \A i \in TradeItems : FirstOwner[i] \in Eligible[i]
                          /\ MaxMoney \in Nat /\ Sums \subseteq 0..MaxMoney
                          /\ FirstGold \in [Traders -> Sums]
                          /\ Room \in [Traders -> Nat]

VARIABLES partner,            \* m_trade: whose TradeData a player has, if any
          slots,              \* m_items
          money,              \* m_money
          spell,              \* m_spell is set
          accepted,           \* m_accepted
          owner,              \* in whose bags an item is, if in anyone's here
          gold,
          tradable,           \* the items for which CanBeTraded holds
          agreed              \* history: nothing on the table has changed since the player's
                              \* last acceptance

tradeDataVars == <<partner, slots, money, spell, accepted>>
possessionVars == <<owner, gold, tradable>>
tradeVars == <<tradeDataVars, possessionVars, agreed>>

Empty == [s \in TradeSlots |-> NoItem]

TRInit == /\ partner = [p \in Traders |-> NoTrader]
          /\ slots = [p \in Traders |-> Empty]
          /\ money = [p \in Traders |-> 0]
          /\ spell = [p \in Traders |-> FALSE]
          /\ accepted = [p \in Traders |-> FALSE]
          /\ owner = FirstOwner
          /\ gold = FirstGold
          /\ tradable = TradeItems
          /\ agreed = [p \in Traders |-> FALSE]

Trading(p) == partner[p] # NoTrader

(* The history: in a step in which the players of S accept. *)
TableKept(p) == /\ Trading(p)
                /\ \A r \in {p, partner[p]} :
                      /\ partner'[r] = partner[r] /\ slots'[r] = slots[r]
                      /\ money'[r] = money[r] /\ spell'[r] = spell[r]

Watch(S) == agreed' = [p \in Traders |-> TableKept(p) /\ (agreed[p] \/ p \in S)]

(* TradeData::GetItem: the item of a slot, if the player still has it. *)
Present(p, s) == slots[p][s] # NoItem /\ owner[slots[p][s]] = p

ItemsIn(p, S) == {slots[p][s] : s \in {t \in S : Present(p, t)}}
OnTable(p) == ItemsIn(p, TradedSlots)

Held(p) == {i \in TradeItems : owner[i] = p}

-----------------------------------------------------------------------------
(* Opening and closing. *)

(* The tests of HandleInitiateTradeOpcode on life, distance, level and faction may let any
   two players through. *)
InitiateTrade(p, q) ==
    /\ p # q /\ ~Trading(p) /\ ~Trading(q)
    /\ partner' = [partner EXCEPT ![p] = q, ![q] = p]
    /\ slots' = [slots EXCEPT ![p] = Empty, ![q] = Empty]
    /\ money' = [money EXCEPT ![p] = 0, ![q] = 0]
    /\ spell' = [spell EXCEPT ![p] = FALSE, ![q] = FALSE]
    /\ accepted' = [accepted EXCEPT ![p] = FALSE, ![q] = FALSE]
    /\ UNCHANGED possessionVars
    /\ Watch({})

(* Both TradeData are deleted; their fields are gone. *)
DeleteTrade(p) ==
    LET both == {p, partner[p]} IN
    /\ partner' = [r \in Traders |-> IF r \in both THEN NoTrader ELSE partner[r]]
    /\ slots' = [r \in Traders |-> IF r \in both THEN Empty ELSE slots[r]]
    /\ money' = [r \in Traders |-> IF r \in both THEN 0 ELSE money[r]]
    /\ spell' = [r \in Traders |-> IF r \in both THEN FALSE ELSE spell[r]]
    /\ accepted' = [r \in Traders |-> IF r \in both THEN FALSE ELSE accepted[r]]
    /\ Watch({})

(* TradeCancel: on request, on a taxi, when the socket closes, at logout. *)
TradeCancel(p) ==
    /\ Trading(p)
    /\ DeleteTrade(p)
    /\ UNCHANGED possessionVars

-----------------------------------------------------------------------------
(* Changes of an offer: each takes both acceptances back. *)

Unaccept(p) ==
    accepted' = [r \in Traders |-> IF r \in {p, partner[p]} THEN FALSE ELSE accepted[r]]

(* Mutant: only the player who changes the gold has to accept again. *)
SetMoney_Alone(p, n) ==
    /\ Trading(p) /\ n # money[p] /\ gold[p] >= n
    /\ money' = [money EXCEPT ![p] = n]
    /\ accepted' = [accepted EXCEPT ![p] = FALSE]
    /\ UNCHANGED <<partner, slots, spell, possessionVars>>
    /\ Watch({})

SetMoney(p, n) ==
    /\ Trading(p) /\ n # money[p] /\ gold[p] >= n
    /\ money' = [money EXCEPT ![p] = n]
    /\ Unaccept(p)
    /\ UNCHANGED <<partner, slots, spell, possessionVars>>
    /\ Watch({})

(* A changed slot removes the player's own spell, and the shown one the other's too. *)
SetItem(p, s, i) ==
    /\ slots' = [slots EXCEPT ![p][s] = i]
    /\ spell' = [r \in Traders |-> IF r = p \/ (s = ShownSlot /\ r = partner[p]) THEN FALSE
                                   ELSE spell[r]]
    /\ Unaccept(p)
    /\ UNCHANGED <<partner, money, possessionVars>>
    /\ Watch({})

SetTradeItem(p, s, i) ==
    /\ Trading(p) /\ owner[i] = p
    /\ s = ShownSlot \/ i \in tradable
    /\ \A t \in TradeSlots : slots[p][t] # i
    /\ SetItem(p, s, i)

ClearTradeItem(p, s) ==
    /\ Trading(p) /\ slots[p][s] # NoItem
    /\ SetItem(p, s, NoItem)

(* A spell cast on the item the partner shows is remembered until the trade completes. *)
CastSpell(p) ==
    /\ Trading(p) /\ ~spell[p] /\ Present(partner[p], ShownSlot)
    /\ spell' = [spell EXCEPT ![p] = TRUE]
    /\ Unaccept(p)
    /\ UNCHANGED <<partner, slots, money, possessionVars>>
    /\ Watch({})

UnacceptTrade(p) ==
    /\ Trading(p) /\ accepted[p]
    /\ accepted' = [accepted EXCEPT ![p] = FALSE]
    /\ UNCHANGED <<partner, slots, money, spell, possessionVars>>
    /\ Watch({})

-----------------------------------------------------------------------------
(* HandleAcceptTradeOpcode of player p, whose partner is q. *)

Poor(p) == gold[p] < money[p]

Rich(p) == gold[p] >= MaxMoney - money[partner[p]]

(* The items of both must be tradable, but only one's own must suit the other. *)
ItemsTradable(p) == /\ OnTable(p) \cup OnTable(partner[p]) \subseteq tradable
                    /\ \A i \in OnTable(p) : partner[p] \in Eligible[i]

(* CanStoreItems refuses items that are bound against p, and does not count the items of p
   that are in trade. *)
CanStoreItems(p) ==
    /\ \A i \in OnTable(partner[p]) : p \in Eligible[i]
    /\ Cardinality(Held(p) \ OnTable(p)) + Cardinality(OnTable(partner[p])) <= Room[p]

Answer(yes, no) ==
    /\ accepted' = [r \in Traders |-> IF r \in no THEN FALSE ELSE IF r \in yes THEN TRUE ELSE accepted[r]]
    /\ UNCHANGED <<partner, slots, money, spell, possessionVars>>

(* A first acceptance, or one that comes to nothing.  Where an item may not be traded the
   acceptance stays. *)
Agree(p) ==
    LET q == partner[p] IN
    /\ Trading(p)
    /\ \/ Poor(p) /\ Answer({p}, {p})
       \/ ~Poor(p) /\ Poor(q) /\ Answer({p}, {q})
       \/ ~Poor(p) /\ ~Poor(q) /\ Rich(p) /\ Answer({p}, {p})
       \/ ~Poor(p) /\ ~Poor(q) /\ ~Rich(p) /\ Rich(q) /\ Answer({p}, {q})
       \/ /\ ~Poor(p) /\ ~Poor(q) /\ ~Rich(p) /\ ~Rich(q)
          /\ ~ItemsTradable(p) \/ ~accepted[q]
          /\ Answer({p}, {})
    /\ Watch({p})

(* All checks that come before the spells are passed. *)
Settled(p) ==
    LET q == partner[p] IN
    /\ Trading(p) /\ accepted[q]
    /\ ~Poor(p) /\ ~Poor(q) /\ ~Rich(p) /\ ~Rich(q)
    /\ ItemsTradable(p)

(* A spell whose target is gone or that cannot be cast for any other reason is removed. *)
SpellFails(p) ==
    /\ Settled(p)
    /\ \E r \in {p, partner[p]} :
          /\ spell[r]
          /\ spell' = [spell EXCEPT ![r] = FALSE]
    /\ Unaccept(p)
    /\ UNCHANGED <<partner, slots, money, possessionVars>>
    /\ Watch({})

SpellsReady(p) == \A r \in {p, partner[p]} : spell[r] => Present(partner[r], ShownSlot)

NoSpace(p) ==
    /\ Settled(p) /\ SpellsReady(p)
    /\ ~CanStoreItems(p) \/ ~CanStoreItems(partner[p])
    /\ Unaccept(p)
    /\ UNCHANGED <<partner, slots, money, spell, possessionVars>>
    /\ Watch({})

(* Mutant: an item that can be stored is handed over though the other of its slot cannot. *)
MoveItems_Each(p, stuck, lost) ==
    LET q == partner[p] IN
    owner' = [i \in TradeItems |-> IF i \in lost THEN NoTrader
                                  ELSE IF i \in ItemsIn(p, TradedSlots) THEN q
                                  ELSE IF i \in ItemsIn(q, TradedSlots \ stuck) THEN p ELSE owner[i]]

(* The items of a slot change hands together.  Where one of them cannot be stored (stuck) both
   go back, and what its owner cannot store any more is with nobody (lost). *)
MoveItems(p, stuck, lost) ==
    LET q == partner[p] IN
    owner' = [i \in TradeItems |-> IF i \in lost THEN NoTrader
                                  ELSE IF i \in ItemsIn(p, TradedSlots \ stuck) THEN q
                                  ELSE IF i \in ItemsIn(q, TradedSlots \ stuck) THEN p ELSE owner[i]]

(* CanStoreItems counts room for all items but tests the limits on similar items one by one,
   so any slot may turn out to be stuck.  The gold is paid all the same, and the trade ends. *)
Exchange(p) ==
    LET q == partner[p]
        used == {s \in TradedSlots : Present(p, s) \/ Present(q, s)}
    IN
    /\ Settled(p) /\ SpellsReady(p)
    /\ CanStoreItems(p) /\ CanStoreItems(q)
    /\ \E stuck \in SUBSET used :
          \E lost \in SUBSET (ItemsIn(p, stuck) \cup ItemsIn(q, stuck)) : MoveItems(p, stuck, lost)
    /\ gold' = [gold EXCEPT ![p] = (@ - money[p]) + money[q], ![q] = (@ - money[q]) + money[p]]
    /\ DeleteTrade(p)
    /\ UNCHANGED tradable

AcceptTrade(p) == Agree(p) \/ SpellFails(p) \/ NoSpace(p) \/ Exchange(p)

-----------------------------------------------------------------------------
(* What happens to items and gold outside the trade window, and does not touch it. *)

ItemLeaves(i) ==
    /\ owner[i] # NoTrader
    /\ owner' = [owner EXCEPT ![i] = NoTrader]
    /\ UNCHANGED <<tradeDataVars, gold, tradable>>
    /\ Watch({})

ItemComes(i, p) ==
    /\ owner[i] = NoTrader /\ p \in Eligible[i]
    /\ owner' = [owner EXCEPT ![i] = p]
    /\ UNCHANGED <<tradeDataVars, gold, tradable>>
    /\ Watch({})

ItemBinds(i) ==
    /\ i \in tradable
    /\ tradable' = tradable \ {i}
    /\ UNCHANGED <<tradeDataVars, owner, gold>>
    /\ Watch({})

GoldChanges(p, n) ==
    /\ gold' = [gold EXCEPT ![p] = n]
    /\ UNCHANGED <<tradeDataVars, owner, tradable>>
    /\ Watch({})

TRNext == \/ \E p, q \in Traders : InitiateTrade(p, q)
          \/ \E p \in Traders : TradeCancel(p) \/ UnacceptTrade(p) \/ AcceptTrade(p) \/ CastSpell(p)
          \/ \E p \in Traders, n \in Sums : SetMoney(p, n) \/ GoldChanges(p, n)
          \/ \E p \in Traders, s \in TradeSlots :
                ClearTradeItem(p, s) \/ \E i \in TradeItems : SetTradeItem(p, s, i)
          \/ \E i \in TradeItems :
                ItemLeaves(i) \/ ItemBinds(i) \/ \E p \in Traders : ItemComes(i, p)

TRSpec == TRInit /\ [][TRNext]_tradeVars

-----------------------------------------------------------------------------
TRTypeOK == /\ partner \in [Traders -> Traders \cup {NoTrader}]
            /\ slots \in [Traders -> [TradeSlots -> TradeItems \cup {NoItem}]]
            /\ money \in [Traders -> Nat]
            /\ spell \in [Traders -> BOOLEAN] /\ accepted \in [Traders -> BOOLEAN]
            /\ agreed \in [Traders -> BOOLEAN]
            /\ owner \in [TradeItems -> Traders \cup {NoTrader}]
            /\ gold \in [Traders -> Int]

Paired == \A p \in Traders : Trading(p) => /\ partner[p] \in Traders \ {p}
                                          /\ partner[partner[p]] = p

OnceOnTable == \A p \in Traders : \A s, t \in TradeSlots :
                  slots[p][s] = slots[p][t] /\ slots[p][s] # NoItem => s = t

AcceptsWhatIsThere == \A p \in Traders : accepted[p] => Trading(p) /\ agreed[p]

OwnedByEligible == \A i \in TradeItems : owner[i] \in Eligible[i] \cup {NoTrader}

(* TradeData come in pairs that name each other, no item lies in two slots, and a player who
   accepts does so for what is on the table now, on both sides: offers that change while the
   other's acceptance is under way, spells that fall away with the item they are meant for
   and trades that are cancelled and opened anew never leave an acceptance behind.  And no
   item ends up with a player it is bound against, whose acceptance ever comes last. *)
TradeSound == Paired /\ OnceOnTable /\ AcceptsWhatIsThere /\ OwnedByEligible

Contents(table) == {table[s] : s \in TradedSlots}

(* An item of p comes to somebody else, or a trade of p ends with a change of his items or gold. *)
Moves(p) ==
    LET ends == Trading(p) /\ partner'[p] = NoTrader IN
    \/ \E i \in TradeItems : owner[i] = p /\ owner'[i] # p /\ (owner'[i] # NoTrader \/ ends)
    \/ ends /\ gold'[p] # gold[p]

Honoured(p) ==
    LET q == partner[p] IN
    /\ Trading(p)
    /\ \E r \in {p, q} : accepted[r] /\ agreed[r]
    /\ \A i \in TradeItems : owner[i] = p /\ owner'[i] # p =>
          owner'[i] \in {q, NoTrader} /\ i \in Contents(slots[p]) \cap tradable
    /\ \A s \in TradedSlots : Present(p, s) /\ Present(q, s) =>
          (owner'[slots[p][s]] = q <=> owner'[slots[q][s]] = p)
    /\ gold[p] >= money[p]
    /\ gold'[p] = (gold[p] - money[p]) + money[q]
    /\ gold'[p] + gold'[q] = gold[p] + gold[q]

(* Items and gold change hands only between two players who both accepted exactly these
   items and this much gold (one of them in this very step), and nobody pays what he does not
   have.  Of two items that lie in the same slot on both sides either both are handed over or
   none: nobody gets an item and keeps the one he offered for it.  The gold one side pays the
   other receives.  It is paid also for items that are not handed over: those that left their
   owner's bags after the acceptances, and those that moveItems gives back or drops because
   they cannot be stored (TradeHandler.cpp:172).  The code lets such a trade complete. *)
ExchangeHonoured == [][\A p \in Traders : Moves(p) => Honoured(p)]_tradeVars
=============================================================================
