---------------------------- MODULE SavingSystem ----------------------------
(***************************************************************************)
(* The saving system spreads the periodic saves of the players.  A player  *)
(* draws a ticket, a counter follows the tickets at a pace that depends on *)
(* the number of players, and a player whose ticket the counter has        *)
(* reached is saved and draws the next one.  A ticket that is given back   *)
(* is put on a list of tickets the counter may skip.                       *)
(***************************************************************************)
EXTENDS Naturals, Sequences, FiniteSets, SequencesExt

CONSTANTS Savers,             \* players
          SaveInterval,       \* PlayerSaveInterval, 900000 by default
          MaxTicket,          \* bound: tickets that are drawn
          MaxSkip             \* bound: length of the skip list

ASSUME SavingAssumption == /\ IsFiniteSet(Savers)
                           /\ SaveInterval \in Nat /\ MaxTicket \in Nat /\ MaxSkip \in Nat
                           /\ SaveInterval > 2 * MaxTicket

VARIABLES current,            \* m_savingCurrentValue
          assigned,           \* m_savingMaxValueAssigned
          skip,               \* m_savingSkipList
          ticket,             \* m_nextSave of each player
          presence            \* of each player: offline, in the world, teleported far, or
                              \* teleported far with DELAYED_SAVE_PLAYER scheduled

savingVars == <<current, assigned, skip, ticket, presence>>

SVInit == /\ current = 0 /\ assigned = 0 /\ skip = <<>>
          /\ ticket = [p \in Savers |-> 0]
          /\ presence = [p \in Savers |-> "offline"]

(* World::GetPlayerCount: a Player object counts as long as it exists. *)
PlayerCount == Cardinality({p \in Savers : presence[p] # "offline"})

(* InsertToSavingSkipListIfNeeded. *)
GivenBack(id) == IF id > current THEN Append(skip, id) ELSE skip

Drawable == assigned < MaxTicket /\ Len(skip) < MaxSkip

-----------------------------------------------------------------------------
(* SavingSystemMgr::Update. *)

Clamped == IF assigned - current > PlayerCount + Len(skip)
           THEN current + PlayerCount + Len(skip) ELSE assigned

(* One turn of the loop: the counter moves on, and once more for every ticket at the head
   of the list that it has reached. *)
Advance(s) ==
    LET popped == Min({n \in 0..Len(s.skip) : \/ n = Len(s.skip)
                                              \/ s.skip[n + 1] > s.current + 1 + n})
    IN [current |-> s.current + 1 + popped, skip |-> SubSeq(s.skip, popped + 1, Len(s.skip))]

(* Mutant: the last ticket is left for later. *)
UpdateSaving_Last(turns) ==
    /\ assigned > current + 1
    /\ PlayerCount > 0
    /\ LET Turn[k \in 0..turns] == IF k = 0 THEN [current |-> current, skip |-> skip]
                                   ELSE IF Turn[k - 1].current > Clamped THEN Turn[k - 1]
                                   ELSE Advance(Turn[k - 1])
       IN /\ current' = Turn[turns].current
          /\ skip' = Turn[turns].skip
    /\ assigned' = Clamped
    /\ UNCHANGED <<ticket, presence>>

(* The time that has passed is worth a number of turns; the loop ends early when the
   counter is past the last ticket. *)
UpdateSaving(turns) ==
    /\ assigned > current
    /\ PlayerCount > 0
    /\ LET Turn[k \in 0..turns] == IF k = 0 THEN [current |-> current, skip |-> skip]
                                   ELSE IF Turn[k - 1].current > Clamped THEN Turn[k - 1]
                                   ELSE Advance(Turn[k - 1])
       IN /\ current' = Turn[turns].current
          /\ skip' = Turn[turns].skip
    /\ assigned' = Clamped
    /\ UNCHANGED <<ticket, presence>>

(* Mutant: players who are between two maps do not count. *)
ResetSaving_InWorld ==
    /\ assigned > current
    /\ \A p \in Savers : presence[p] # "online"
    /\ current' = 0 /\ assigned' = 0 /\ skip' = <<>>
    /\ UNCHANGED <<ticket, presence>>

(* With nobody on the realm the numbers start again. *)
ResetSaving ==
    /\ assigned > current
    /\ PlayerCount = 0
    /\ current' = 0 /\ assigned' = 0 /\ skip' = <<>>
    /\ UNCHANGED <<ticket, presence>>

-----------------------------------------------------------------------------
(* Players. *)

(* The constructor draws a ticket, and LoadFromDB puts a random number around it in its
   place. *)
EnterRealm(p) ==
    /\ presence[p] = "offline" /\ Drawable
    /\ assigned' = assigned + 1
    /\ \E t \in (assigned' \div 2)..((assigned' * 3) \div 2) : ticket' = [ticket EXCEPT ![p] = t]
    /\ presence' = [presence EXCEPT ![p] = "online"]
    /\ UNCHANGED <<current, skip>>

(* A Player object that is not kept: a character is created, or fails to load. *)
FleetingPlayer ==
    /\ Drawable
    /\ assigned' = assigned + 1
    /\ UNCHANGED <<current, skip, ticket, presence>>

(* SaveToDB of a player in the world.  m_nextSave is the interval by the time the ticket
   is given back. *)
SaveToDB(p) ==
    /\ Drawable
    /\ skip' = GivenBack(SaveInterval)
    /\ assigned' = assigned + 1
    /\ ticket' = [ticket EXCEPT ![p] = assigned']
    /\ UNCHANGED current

(* Player::Update finds the ticket reached. *)
PeriodicSave(p) ==
    /\ presence[p] = "online" /\ ticket[p] <= current
    /\ SaveToDB(p)
    /\ UNCHANGED presence

(* A save after an important change, whatever the ticket. *)
ImportantSave(p) ==
    /\ presence[p] = "online" /\ ticket[p] > current
    /\ SaveToDB(p)
    /\ UNCHANGED presence

TeleportFar(p) ==
    /\ presence[p] = "online"
    /\ presence' = [presence EXCEPT ![p] = "far"]
    /\ UNCHANGED <<current, assigned, skip, ticket>>

(* SaveToDB of a player who is being teleported far is delayed. *)
DelaySave(p) ==
    /\ presence[p] \in {"far", "delayed"}
    /\ ticket' = [ticket EXCEPT ![p] = SaveInterval]
    /\ presence' = [presence EXCEPT ![p] = "delayed"]
    /\ UNCHANGED <<current, assigned, skip>>

ArriveOnMap(p) ==
    /\ \/ presence[p] = "far" /\ UNCHANGED <<current, assigned, skip, ticket>>
       \/ presence[p] = "delayed" /\ SaveToDB(p)
    /\ presence' = [presence EXCEPT ![p] = "online"]

(* LogoutPlayer gives the ticket back and saves without drawing another one. *)
LeaveRealm(p) ==
    /\ presence[p] = "online" /\ Len(skip) < MaxSkip
    /\ skip' = GivenBack(ticket[p])
    /\ ticket' = [ticket EXCEPT ![p] = 0]
    /\ presence' = [presence EXCEPT ![p] = "offline"]
    /\ UNCHANGED <<current, assigned>>

SVNext == \/ \E turns \in 0..2 : UpdateSaving(turns)
          \/ ResetSaving
          \/ FleetingPlayer
          \/ \E p \in Savers : \/ EnterRealm(p) \/ PeriodicSave(p) \/ ImportantSave(p)
                               \/ TeleportFar(p) \/ DelaySave(p) \/ ArriveOnMap(p) \/ LeaveRealm(p)

(* The world thread updates the saving system in every loop, and time passes; it updates
   the players in the world, and a client loads the map it is sent to or is logged out. *)
SVFair == /\ WF_savingVars(UpdateSaving(1))
          /\ \A p \in Savers : WF_savingVars(PeriodicSave(p)) /\ WF_savingVars(ArriveOnMap(p))

SVSpec == SVInit /\ [][SVNext]_savingVars /\ SVFair

-----------------------------------------------------------------------------
(* A player whose save is due stays due until it is saved: no reset and no clamp takes a
   ticket that was reached away from a player who is still there, in the world or not. *)
DueStays ==
    [][\A p \in Savers :
          presence[p] # "offline" /\ ticket[p] <= current =>
             \/ ticket'[p] <= current'
             \/ ticket'[p] # ticket[p]]_savingVars

(* A ticket among those that are assigned is reached by the counter, unless its player saves
   or leaves or the clamp takes it off the end: skipped tickets, sudden logouts and new
   players never leave the counter standing before it. *)
TicketReached ==
    \A p \in Savers, t \in 1..MaxTicket :
        (presence[p] = "online" /\ ticket[p] = t /\ t <= assigned)
            ~> (ticket[p] # t \/ t <= current \/ t > assigned \/ presence[p] = "offline")
=============================================================================
