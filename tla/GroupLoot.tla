----------------------------- MODULE GroupLoot -----------------------------
(***************************************************************************)
(* Group loot.  Opening a corpse starts a roll for each item of quality,   *)
(* the members near it vote, and the item is handed out when everyone has *)
(* voted, when a member who has not voted leaves the group, or when the    *)
(* minute is over.  One group and the loot of one corpse at a time.        *)
(***************************************************************************)
EXTENDS Naturals, FiniteSets, FiniteSetsExt

CONSTANTS Looters,            \* players
          LootItems,          \* the items of a corpse
          NoLooter,
          MaxCast             \* bound: votes counted for a roll, repeated ones included

ASSUME LootAssumption == IsFiniteSet(Looters) /\ NoLooter \notin Looters

VARIABLES party,              \* the group, {} when there is none
          place,              \* of each player: on the map of the corpse, on another map, or in no
                              \* world (loading, offline)
          opened,             \* the loot exists
          lootItem,           \* LootItem: is_blocked, is_looted (by whom), rollWinnerGUID
          roll,               \* RollId: the roll for each item, or none
          timer               \* m_groupLootTimer runs

lootVars == <<party, place, opened, lootItem, roll, timer>>

Votes == {"pass", "need", "greed", "disenchant"}
Greedy == {"greed", "disenchant"}
NoRoll == [votes |-> <<>>, rolling |-> 0, need |-> 0, greed |-> 0, pass |-> 0, on |-> FALSE]
Fresh == [blocked |-> FALSE, taker |-> NoLooter, winner |-> NoLooter]
Cast(r) == r.pass + r.need + r.greed

GLInit == /\ party = {} /\ place = [p \in Looters |-> "here"]
          /\ opened = FALSE /\ timer = FALSE
          /\ lootItem = [i \in LootItems |-> Fresh]
          /\ roll = [i \in LootItems |-> NoRoll]

-----------------------------------------------------------------------------
(* Group::GroupLoot, Group::NeedBeforeGreed: who passes on everything has voted already. *)
OpenLoot(rollers, passers) ==
    /\ party # {} /\ ~opened
    /\ \A i \in LootItems : rollers[i] \subseteq {p \in party : place[p] = "here"}
    /\ LET Start(i) ==
              [votes   |-> [p \in rollers[i] |-> IF p \in passers THEN "pass" ELSE "none"],
               rolling |-> Cardinality(rollers[i]), need |-> 0, greed |-> 0,
               pass    |-> Cardinality(rollers[i] \cap passers), on |-> TRUE]
       IN /\ roll' = [i \in LootItems |-> IF rollers[i] # {} THEN Start(i) ELSE NoRoll]
          /\ lootItem' = [i \in LootItems |-> [Fresh EXCEPT !.blocked = rollers[i] # {}]]
    /\ opened' = TRUE
    /\ timer' = (\E i \in LootItems : rollers[i] # {})
    /\ UNCHANGED <<party, place>>

-----------------------------------------------------------------------------
(* Group::CountTheRoll.  The dice choose among those who can be found, on the map of the corpse
   if the time is up; a winner without room is remembered; if nobody wants the item it is
   free for all. *)

CanFind(p, timeUp) == IF timeUp THEN place[p] = "here" ELSE place[p] # "gone"
Voters(r, kinds) == {p \in DOMAIN r.votes : r.votes[p] \in kinds}
Takers(r, kinds, timeUp) == {p \in Voters(r, kinds) : CanFind(p, timeUp)}

(* The total after the voters that cannot be found were taken off it. *)
Remaining(total, r, kinds, timeUp) ==
    IF total = 0 \/ DOMAIN r.votes = {} THEN total
    ELSE IF Takers(r, kinds, timeUp) = {} THEN 0
    ELSE total - Cardinality(Voters(r, kinds) \ Takers(r, kinds, timeUp))

HandedTo(it, p, vote) ==
    {[it EXCEPT !.taker = p]}
    \cup (IF vote = "disenchant" THEN {} ELSE {[it EXCEPT !.blocked = FALSE, !.winner = p]})

HandOut(it, total, r, kinds, timeUp) ==
    IF total = 0 \/ Takers(r, kinds, timeUp) = {} THEN {it}
    ELSE UNION {HandedTo(it, p, r.votes[p]) : p \in Takers(r, kinds, timeUp)}

(* Mutant: the need votes of those who cannot be found are not taken off the total. *)
Outcomes_Absent(it, r, timeUp) ==
    IF r.need > 0 THEN HandOut(it, r.need, r, {"need"}, timeUp)
    ELSE {IF Remaining(r.greed, r, Greedy, timeUp) = 0 THEN [u EXCEPT !.blocked = FALSE] ELSE u :
            u \in HandOut(it, r.greed, r, Greedy, timeUp)}

Outcomes(it, r, timeUp) ==
    LET need  == Remaining(r.need, r, {"need"}, timeUp)
        greed == Remaining(r.greed, r, Greedy, timeUp)
    IN IF need > 0 THEN HandOut(it, r.need, r, {"need"}, timeUp)
       ELSE IF greed > 0 THEN HandOut(it, r.greed, r, Greedy, timeUp)
       ELSE {[it EXCEPT !.blocked = FALSE]}

(* The rolls become rs; the complete ones are counted and gone. *)
CountRolls(rs, complete, timeUp) ==
    /\ lootItem' \in {f \in [LootItems -> UNION {Outcomes(lootItem[i], rs[i], timeUp) \cup {lootItem[i]} :
                                             i \in LootItems}] :
                     \A i \in LootItems :
                         f[i] \in IF i \in complete THEN Outcomes(lootItem[i], rs[i], timeUp)
                                                    ELSE {lootItem[i]}}
    /\ roll' = [i \in LootItems |-> IF i \in complete THEN NoRoll ELSE rs[i]]

Complete(r) == r.on /\ Cast(r) >= r.rolling

(* Group::CountRollVote for a vote, which a player may repeat.  Bound: MaxCast. *)
Voted(r, p, choice) ==
    [r EXCEPT !.votes[p] = choice,
              !.pass  = @ + (IF choice = "pass" THEN 1 ELSE 0),
              !.need  = @ + (IF choice = "need" THEN 1 ELSE 0),
              !.greed = @ + (IF choice \in Greedy THEN 1 ELSE 0)]

Vote(p, i, choice) ==
    /\ p \in party /\ place[p] # "gone"
    /\ roll[i].on /\ p \in DOMAIN roll[i].votes /\ Cast(roll[i]) < MaxCast
    /\ LET voted == Voted(roll[i], p, choice)
       IN CountRolls([roll EXCEPT ![i] = voted], IF Complete(voted) THEN {i} ELSE {}, FALSE)
    /\ UNCHANGED <<party, place, opened, timer>>

(* Creature::Update when the minute is over: Group::EndRoll if the group still exists. *)
EndRoll ==
    /\ timer
    /\ CountRolls(roll, {i \in LootItems : roll[i].on}, TRUE)
    /\ timer' = FALSE
    /\ UNCHANGED <<party, place, opened>>

-----------------------------------------------------------------------------
(* The group. *)

(* Group::Disband forgets the rolls; their items stay blocked. *)
Disband ==
    /\ party' = {}
    /\ roll' = [i \in LootItems |-> NoRoll]
    /\ UNCHANGED lootItem

Less(n, r, p, kinds) == n - (IF r.votes[p] \in kinds THEN 1 ELSE 0)

TakenOff(r, p) ==
    IF p \notin DOMAIN r.votes THEN r
    ELSE [r EXCEPT !.votes = [q \in DOMAIN r.votes \ {p} |-> r.votes[q]],
                   !.rolling = @ - 1,
                   !.need  = Less(@, r, p, {"need"}), !.pass = Less(@, r, p, {"pass"}),
                   !.greed = Less(@, r, p, Greedy)]

(* Group::RemoveMember: his vote and his place in the rolls go, and the rolls that only waited
   for him are counted.  A group of two is disbanded, and so is, after that, one with fewer than
   two members left online (a member who travels between maps is gone, but online). *)
RemoveMember(p) ==
    LET rest  == party \ {p}
        few   == Cardinality({q \in rest : place[q] # "gone"}) < 2
        rolls == [i \in LootItems |-> TakenOff(roll[i], p)]
        done  == {i \in LootItems : p \in DOMAIN roll[i].votes /\ Complete(rolls[i])}
    IN /\ p \in party
       /\ \/ Cardinality(party) <= 2 /\ Disband
          \/ /\ Cardinality(party) > 2
             /\ CountRolls(rolls, done, FALSE)
             /\ party' = rest
          \/ /\ Cardinality(party) > 2 /\ few
             /\ CountRolls([i \in LootItems |-> IF i \in done THEN rolls[i] ELSE NoRoll], done, FALSE)
             /\ party' = {}
       /\ UNCHANGED <<place, opened, timer>>

AddMember(p) ==
    /\ party # {} /\ p \notin party /\ place[p] # "gone"
    /\ party' = party \cup {p}
    /\ UNCHANGED <<place, opened, lootItem, roll, timer>>

(* Bound: a new group forms only once the corpse of the last one is gone. *)
Form(players) ==
    /\ party = {} /\ ~opened /\ Cardinality(players) >= 2
    /\ party' = players
    /\ UNCHANGED <<place, opened, lootItem, roll, timer>>

DisbandGroup ==
    /\ party # {} /\ Disband
    /\ UNCHANGED <<place, opened, timer>>

-----------------------------------------------------------------------------
(* The players and the corpse. *)

Travel(p, where) ==
    /\ (place[p] = "gone") # (where = "gone")
    /\ place' = [place EXCEPT ![p] = where]
    /\ UNCHANGED <<party, opened, lootItem, roll, timer>>

(* Player::StoreLootItem of someone who has room. *)
StoreLootItem(p, i) ==
    /\ opened /\ place[p] = "here"
    /\ lootItem[i].taker = NoLooter /\ ~lootItem[i].blocked /\ lootItem[i].winner \in {NoLooter, p}
    /\ lootItem' = [lootItem EXCEPT ![i].taker = p]
    /\ UNCHANGED <<party, place, opened, roll, timer>>

(* The corpse is removed; a roll whose loot is gone is found by nobody any more. *)
RemoveCorpse ==
    /\ opened
    /\ opened' = FALSE /\ timer' = FALSE
    /\ lootItem' = [i \in LootItems |-> Fresh]
    /\ roll' = [i \in LootItems |-> NoRoll]
    /\ UNCHANGED <<party, place>>

GLNext ==
    \/ \E rollers \in [LootItems -> SUBSET Looters], passers \in SUBSET Looters :
          OpenLoot(rollers, passers)
    \/ \E p \in Looters, i \in LootItems, choice \in Votes : Vote(p, i, choice)
    \/ \E p \in Looters, i \in LootItems : StoreLootItem(p, i)
    \/ \E p \in Looters : AddMember(p) \/ RemoveMember(p)
    \/ \E p \in Looters, where \in {"here", "away", "gone"} : Travel(p, where)
    \/ \E players \in SUBSET Looters : Form(players)
    \/ EndRoll \/ DisbandGroup \/ RemoveCorpse

GLSpec == GLInit /\ [][GLNext]_lootVars

-----------------------------------------------------------------------------
(* As long as the group exists, an item that is blocked for everyone has a roll that still runs
   and a timer that will end it: members leaving or travelling, repeated votes and votes of
   absent players never leave it locked.  (Disband leaves the items of its rolls blocked.) *)
BlockedHasRoll ==
    party # {} => \A i \in LootItems :
        lootItem[i].blocked /\ lootItem[i].taker = NoLooter => roll[i].on /\ timer

(* When votes have been counted, the item, which nobody had taken meanwhile, belongs to someone
   who needs it and can be found; if there is none, to one who is greedy; if there is none, it
   is free for all. *)
Deserved(i, votes, timeUp) ==
    LET among(kinds) == {p \in DOMAIN votes : votes[p] \in kinds /\ CanFind(p, timeUp)}
        to == IF lootItem'[i].taker = NoLooter THEN lootItem'[i].winner ELSE lootItem'[i].taker
    IN /\ lootItem[i].taker = NoLooter
       /\ IF among({"need"}) # {} THEN to \in among({"need"})
          ELSE IF among(Greedy) # {} THEN to \in among(Greedy)
          ELSE lootItem'[i] = [lootItem[i] EXCEPT !.blocked = FALSE]

(* However a roll ends, the item goes to those its votes favour: after the last vote, when the
   last one who had not voted leaves, or when the minute is over. *)
RollFair == [][\A i \in LootItems :
    (/\ roll[i].on /\ opened'
     /\ lootItem'[i] # lootItem[i] \/ (~roll'[i].on /\ party' # {})) =>
        LET votes == roll[i].votes
        IN \/ \E p \in DOMAIN votes, choice \in Votes :
                  Vote(p, i, choice) /\ Deserved(i, Voted(roll[i], p, choice).votes, FALSE)
           \/ \E p \in DOMAIN votes :
                  RemoveMember(p) /\ Deserved(i, TakenOff(roll[i], p).votes, FALSE)
           \/ EndRoll /\ Deserved(i, votes, TRUE)]_lootVars
=============================================================================
