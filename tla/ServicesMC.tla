----------------------------- MODULE ServicesMC -----------------------------
(***************************************************************************)
(* The services of the world server that share no state with each other,   *)
(* each on a small instance: part chooses which of them runs.              *)
(***************************************************************************)
EXTENDS LoginQueue, AuctionEconomy, SavingSystem, Trade, BattlegroundQueue, GroupLoot,
        DungeonFinder, TLC

CONSTANTS a1, a2, a3, a4, a5,       \* accounts
          c1, c2, c3,               \* characters
          i1, i2,                   \* items
          g1, g2,                   \* groups
          ShownItems,               \* bound: items that traders show to be enchanted
          Parts                     \* the services that run

VARIABLE part

MCStartGold  == c1 :> 1 @@ c2 :> 3 @@ c3 :> 2
MCHome       == i1 :> c1 @@ i2 :> c2
MCEligible   == i1 :> {c1, c2} @@ i2 :> {c1, c2}   \* bound to nobody
MCBound      == i1 :> {c1, c2} @@ i2 :> {c2}       \* i1 bound to nobody, i2 to c2
MCFirstGold  == c1 :> 1 @@ c2 :> 1
MCRoom       == c1 :> 2 @@ c2 :> 1
MCSide       == c1 :> "alliance" @@ c2 :> "alliance" @@ c3 :> "horde"

servicesVars == <<part, lqVars, vars, savingVars, tradeVars, bgVars, lootVars, finderVars>>

ServicesInit == /\ part \in Parts
                /\ LQInit /\ Init /\ SVInit /\ TRInit /\ BGInit /\ GLInit /\ DFInit

(* The step A is one of the service p, and what are the variables of the other services. *)
Runs(p, A, others) == part = p /\ A /\ UNCHANGED <<part, others>>

TradeNext == TRNext /\ \A p \in Traders : slots'[p][ShownSlot] \in ShownItems \cup {NoItem}

ServicesNext ==
    \/ Runs("login",   LQNext, <<vars, savingVars, tradeVars, bgVars, lootVars, finderVars>>)
    \/ Runs("market",  Next,   <<lqVars, savingVars, tradeVars, bgVars, lootVars, finderVars>>)
    \/ Runs("saving",  SVNext, <<lqVars, vars, tradeVars, bgVars, lootVars, finderVars>>)
    \/ Runs("trade",   TradeNext, <<lqVars, vars, savingVars, bgVars, lootVars, finderVars>>)
    \/ Runs("battle",  BGNext, <<lqVars, vars, savingVars, tradeVars, lootVars, finderVars>>)
    \/ Runs("loot",    GLNext, <<lqVars, vars, savingVars, tradeVars, bgVars, finderVars>>)
    \/ Runs("dungeon", DFNext, <<lqVars, vars, savingVars, tradeVars, bgVars, lootVars>>)

ServicesSpec == ServicesInit /\ [][ServicesNext]_servicesVars

(* SVFair and BGFair of the service that runs. *)
ServicesFairSpec ==
    /\ ServicesSpec
    /\ WF_savingVars(part = "saving" /\ UpdateSaving(1))
    /\ \A p \in Savers : /\ WF_savingVars(part = "saving" /\ PeriodicSave(p))
                          /\ WF_savingVars(part = "saving" /\ ArriveOnMap(p))
    /\ \A p \in Fighters : /\ WF_bgVars(part = "battle" /\ FireTimer(p))
                            /\ WF_bgVars(part = "battle" /\ EndTravel(p))
    /\ \A b \in Battlegrounds : WF_bgVars(part = "battle" /\ CloseBattleground(b))

=============================================================================
