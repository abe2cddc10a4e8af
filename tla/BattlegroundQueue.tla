------------------------- MODULE BattlegroundQueue -------------------------
(***************************************************************************)
(* The battleground queues.  Players queue alone or as a group for up to   *)
(* two battlegrounds, the queue update fills running battlegrounds and     *)
(* creates new ones, an invitation is accepted, refused or expires, and a  *)
(* battleground counts whom it invited to know whom it may still invite.   *)
(***************************************************************************)
EXTENDS Naturals, Sequences, FiniteSets, SequencesExt, FiniteSetsExt

CONSTANTS Fighters,           \* players
          Side,               \* their team, a function
          BGTypes,            \* battleground types, each with a queue
          Battlegrounds,      \* bound: instances that exist at a time
          Stamps,             \* bound: values of RemoveInviteTime in use at a time
          NoBG,
          MinPerTeam, MaxPerTeam, MaxGroupSize,
          InvitationTypes     \* Battleground.InvitationType, which a reload may change

Teams == {"alliance", "horde"}
Ranks == {"premade", "normal"}
MaxSlots == 2                 \* PLAYER_MAX_BATTLEGROUND_QUEUES

ASSUME BattlegroundAssumption ==
    /\ IsFiniteSet(Fighters) /\ IsFiniteSet(BGTypes) /\ IsFiniteSet(Battlegrounds)
    /\ Side \in [Fighters -> Teams]
    /\ NoBG \notin Battlegrounds /\ Stamps \subseteq Nat
    /\ MinPerTeam \in Nat \ {0} /\ MaxPerTeam \in Nat /\ MaxGroupSize \in Nat
    /\ InvitationTypes \subseteq {"no_balance", "balanced", "even"}

VARIABLES queued,             \* m_QueuedGroups: by type, rank and team, GroupQueueInfo in order
          bgs,                \* the instances: status, m_BgInvitedPlayers, m_Players
          timers,             \* the pending BGQueueRemoveEvents
          aborted,            \* an assertion has failed and stopped the program
          queueSlots,         \* m_bgBattlegroundQueueID of each player
          bgData              \* m_bgData of each player, and whether he has arrived

bgVars == <<queued, bgs, timers, aborted, queueSlots, bgData>>

Other(t) == CHOOSE u \in Teams : u # t
Outside == [bg |-> NoBG, inside |-> FALSE]
Gone == [status |-> "none", type |-> NoBG, invited |-> [t \in Teams |-> 0], players |-> {}]

BGInit == /\ queued = [q \in BGTypes |-> [r \in Ranks |-> [t \in Teams |-> <<>>]]]
          /\ bgs = [b \in Battlegrounds |-> Gone]
          /\ timers = {} /\ aborted = FALSE
          /\ queueSlots = [p \in Fighters |-> {}]
          /\ bgData = [p \in Fighters |-> Outside]

(* The queues and instances as one record, which the steps of a handler pass on. *)
Realm == [queued |-> queued, bgs |-> bgs, timers |-> timers, aborted |-> aborted]
Become(s) == /\ queued' = s.queued /\ bgs' = s.bgs
             /\ timers' = s.timers /\ aborted' = s.aborted

GroupsIn(s, q) == UNION {Range(s.queued[q][r][t]) : r \in Ranks, t \in Teams}
InQueue(s, p, q) == \E g \in GroupsIn(s, q) : p \in g.players
GroupOf(s, p, q) == CHOOSE g \in GroupsIn(s, q) : p \in g.players

-----------------------------------------------------------------------------
(* Entering and leaving a queue. *)

(* DecreaseInvitedCount, counts[b][t] times; an instance that is gone counts nobody. *)
DecreaseInvited(s, counts) ==
    LET Less(m, n) == IF m > n THEN m - n ELSE 0
    IN [s EXCEPT !.bgs = [b \in Battlegrounds |->
           [s.bgs[b] EXCEPT !.invited = [t \in Teams |-> Less(s.bgs[b].invited[t], counts[b][t])]]]]

AddGroup(s, members, q, rank) ==
    LET ginfo == [players |-> members, bg |-> NoBG, stamp |-> 0]
        team  == Side[CHOOSE p \in members : TRUE]
    IN IF \E p \in members : InQueue(s, p, q) THEN [s EXCEPT !.aborted = TRUE]
       ELSE [s EXCEPT !.queued[q][rank][team] = Append(@, ginfo)]

(* The groups of gs at the places in keep, in their order. *)
Only(gs, keep) ==
    LET Upto[n \in 0..Len(gs)] == IF n = 0 THEN <<>>
                                  ELSE IF n \in keep THEN Append(Upto[n - 1], gs[n])
                                  ELSE Upto[n - 1]
    IN Upto[Len(gs)]

(* The queues after the players have left, pairs of a player and a queue. *)
QueuesLeft(s, pairs) ==
    LET Stay(gs, q) == [i \in DOMAIN gs |->
                          [gs[i] EXCEPT !.players = {p \in gs[i].players : <<p, q>> \notin pairs}]]
        Rest(gs)    == Only(gs, {i \in DOMAIN gs : gs[i].players # {}})
    IN [q \in BGTypes |-> [r \in Ranks |-> [t \in Teams |-> Rest(Stay(s.queued[q][r][t], q))]]]

(* Mutant: the invited count of the battleground is left as it is. *)
RemovePlayers_Counted(s, pairs) ==
    IF \E pq \in pairs : ~InQueue(s, pq[1], pq[2]) THEN [s EXCEPT !.aborted = TRUE]
    ELSE [s EXCEPT !.queued = QueuesLeft(s, pairs)]

(* RemovePlayer for each of the pairs, in any order. *)
RemovePlayers(s, pairs) ==
    LET invited == [b \in Battlegrounds |-> [t \in Teams |->
                      Cardinality({pq \in pairs : /\ Side[pq[1]] = t
                                                  /\ GroupOf(s, pq[1], pq[2]).bg = b})]]
    IN IF \E pq \in pairs : ~InQueue(s, pq[1], pq[2]) THEN [s EXCEPT !.aborted = TRUE]
       ELSE DecreaseInvited([s EXCEPT !.queued = QueuesLeft(s, pairs)], invited)

InBattleground(p) == bgData[p].bg # NoBG
HasFreeSlot(p) == Cardinality(queueSlots[p]) < MaxSlots

JoinAlone(p, q) ==
    /\ HasFreeSlot(p) /\ ~InBattleground(p) /\ q \notin queueSlots[p]
    /\ Become(AddGroup(Realm, {p}, q, "normal"))
    /\ queueSlots' = [queueSlots EXCEPT ![p] = @ \cup {q}]
    /\ UNCHANGED bgData

(* The queues the leader is not in are left by the members before anything is checked. *)
JoinAsGroup(leader, members, q) ==
    LET left    == [p \in members |-> queueSlots[p] \ queueSlots[leader]]
        cleared == RemovePlayers(Realm, UNION {{p} \X left[p] : p \in members})
        mayJoin == /\ Cardinality(members) <= MaxGroupSize
                   /\ \A p \in members : /\ Side[p] = Side[leader] /\ ~InBattleground(p)
                                         /\ Cardinality(queueSlots[p] \ left[p]) < MaxSlots
        rank    == IF Cardinality(members) >= MinPerTeam THEN "premade" ELSE "normal"
    IN /\ leader \in members /\ HasFreeSlot(leader)
       /\ Become(IF mayJoin THEN AddGroup(cleared, members, q, rank) ELSE cleared)
       /\ queueSlots' = [p \in Fighters |->
                       IF p \notin members THEN queueSlots[p]
                       ELSE (queueSlots[p] \ left[p]) \cup (IF mayJoin THEN {q} ELSE {})]
       /\ UNCHANGED bgData

(* The player refuses the invitation, or no longer wants to wait. *)
LeaveQueue(p, q) ==
    /\ queueSlots[p] # {} /\ InQueue(Realm, p, q)
    /\ Become(RemovePlayers(Realm, {<<p, q>>}))
    /\ queueSlots' = [queueSlots EXCEPT ![p] = @ \ {q}]
    /\ UNCHANGED bgData

(* Mutant: the player keeps his slot of the queue. *)
Expire_Slot(tm) ==
    LET p == tm.player  q == tm.type
        s == [Realm EXCEPT !.timers = @ \ {tm}]
        matches == /\ q \in queueSlots[p] /\ InQueue(s, p, q)
                   /\ GroupOf(s, p, q).bg = tm.bg /\ GroupOf(s, p, q).stamp = tm.stamp
    IN /\ tm \in timers
       /\ Become(IF matches THEN RemovePlayers(s, {<<p, q>>}) ELSE s)
       /\ UNCHANGED <<queueSlots, bgData>>

(* BGQueueRemoveEvent::Execute. *)
Expire(tm) ==
    LET p == tm.player  q == tm.type
        s == [Realm EXCEPT !.timers = @ \ {tm}]
        matches == /\ q \in queueSlots[p] /\ InQueue(s, p, q)
                   /\ GroupOf(s, p, q).bg = tm.bg /\ GroupOf(s, p, q).stamp = tm.stamp
    IN /\ tm \in timers
       /\ Become(IF matches THEN RemovePlayers(s, {<<p, q>>}) ELSE s)
       /\ queueSlots' = [queueSlots EXCEPT ![p] = IF matches THEN @ \ {q} ELSE @]
       /\ UNCHANGED bgData

-----------------------------------------------------------------------------
(* Entering and leaving a battleground. *)

(* How many of the players ps each battleground counts as its own. *)
CountsOf(ps) == [b \in Battlegrounds |-> [t \in Teams |->
                    Cardinality({p \in ps : Side[p] = t /\ bgData[p].bg = b})]]

(* Player::SetBattlegroundId: the invited count follows the player. *)
SetBattlegroundId(s, p, b) ==
    LET left == DecreaseInvited(s, CountsOf({p}))
    IN IF b = NoBG THEN left ELSE [left EXCEPT !.bgs[b].invited[Side[p]] = @ + 1]

Accept(p, q) ==
    /\ queueSlots[p] # {} /\ InQueue(Realm, p, q)
    /\ LET b == GroupOf(Realm, p, q).bg
       IN /\ b # NoBG /\ bgs[b].status # "none"
          /\ Become(SetBattlegroundId(RemovePlayers(Realm, {p} \X queueSlots[p]), p, b))
          /\ queueSlots' = [queueSlots EXCEPT ![p] = {}]
          /\ bgData' = [bgData EXCEPT ![p] = [bg |-> b, inside |-> FALSE]]

Enter(s, p) == [s EXCEPT !.bgs[bgData[p].bg].players = @ \cup {p}]

(* Battleground::RemovePlayerAtLeave, for each of the players. *)
Exit(s, ps) ==
    DecreaseInvited([s EXCEPT !.bgs = [b \in Battlegrounds |->
                        [s.bgs[b] EXCEPT !.players = {p \in s.bgs[b].players :
                                                         ~(p \in ps /\ bgData[p].bg = b)}]]],
                    CountsOf(ps))

Travelling(p) == InBattleground(p) /\ ~bgData[p].inside

ArriveInBG(p) ==
    /\ Travelling(p) /\ bgs[bgData[p].bg].status # "none"
    /\ Become(Enter(Realm, p))
    /\ bgData' = [bgData EXCEPT ![p].inside = TRUE]
    /\ UNCHANGED queueSlots

(* The map could not be entered, or another teleport took the player elsewhere. *)
LandElsewhere(p) ==
    /\ Travelling(p)
    /\ Become(SetBattlegroundId(Realm, p, NoBG))
    /\ bgData' = [bgData EXCEPT ![p] = Outside]
    /\ UNCHANGED queueSlots

LeaveBattleground(p) ==
    /\ bgData[p].inside
    /\ Become(Exit(Realm, {p}))
    /\ bgData' = [bgData EXCEPT ![p] = Outside]
    /\ UNCHANGED queueSlots

(* LogoutPlayer finishes a pending transfer, leaves the battleground and the queues. *)
Logout(p) ==
    /\ InBattleground(p) \/ queueSlots[p] # {}
    /\ Become(RemovePlayers(Exit(Realm, {p}), {p} \X queueSlots[p]))
    /\ bgData' = [bgData EXCEPT ![p] = Outside]
    /\ queueSlots' = [queueSlots EXCEPT ![p] = {}]

(* The match is decided while it is played. *)
EndBattleground(b) ==
    /\ bgs[b].status = "open" /\ bgs[b].players # {}
    /\ bgs' = [bgs EXCEPT ![b].status = "wait_leave"]
    /\ UNCHANGED <<queued, timers, aborted, queueSlots, bgData>>

(* _ProcessLeave: two minutes after the end everyone inside is sent away. *)
ProcessLeave(b) ==
    /\ bgs[b].status = "wait_leave" /\ bgs[b].players # {}
    /\ Become(Exit(Realm, bgs[b].players))
    /\ bgData' = [p \in Fighters |-> IF p \in bgs[b].players THEN Outside ELSE bgData[p]]
    /\ UNCHANGED queueSlots

(* Battleground::Update finds nobody inside and nobody invited. *)
DeleteBattleground(b) ==
    /\ bgs[b].status # "none" /\ bgs[b].players = {}
    /\ \A t \in Teams : bgs[b].invited[t] = 0
    /\ bgs' = [bgs EXCEPT ![b] = Gone]
    /\ UNCHANGED <<queued, timers, aborted, queueSlots, bgData>>

-----------------------------------------------------------------------------
(* Selection pools: the places of the groups picked so far and the position in the queue.  No
   player is in two groups of a queue, so a pool counts its players. *)

SizeOf(waiting, places) == Cardinality(UNION {waiting[i].players : i \in places})
Apart(m, n) == IF m > n THEN m - n ELSE n - m
EmptyPool == [picked |-> {}, next |-> 1]

(* SelectionPool::AddGroup along the queue until it returns false. *)
TakeFrom(pool, waiting, desired) ==
    LET Taken[i \in 0..Len(waiting)] ==
            IF i = 0 THEN pool
            ELSE LET s == Taken[i - 1]
                 IN CASE i # s.next -> s
                      [] i = s.next /\ waiting[i].bg = NoBG
                            /\ desired >= SizeOf(waiting, s.picked \cup {i}) ->
                           [picked |-> s.picked \cup {i}, next |-> i + 1]
                      [] OTHER -> IF SizeOf(waiting, s.picked) < desired
                                  THEN [s EXCEPT !.next = i + 1] ELSE s
    IN Taken[Len(waiting)]

(* SelectionPool::KickGroup: the last group of about the size, else the last largest. *)
KickGroup(pool, waiting, size) ==
    LET Members(i) == Cardinality(waiting[i].players)
        proper  == {i \in pool.picked : Apart(Members(i), size) <= 1}
        largest == {i \in pool.picked : \A j \in pool.picked : Members(i) >= Members(j)}
        i       == Max(IF proper # {} THEN proper ELSE largest)
    IN [pool |-> [pool EXCEPT !.picked = @ \ {i}],
        more |-> proper = {} /\ Members(i) > size]

(* FillPlayersToBG.  The groups in both queues bound the rounds of balancing. *)
FillPlayersToBG(waiting, free, invitation) ==
    LET gap == IF invitation = "balanced" THEN 1 ELSE 0
        Diff(pools, t) == free[t] - SizeOf(waiting[t], pools[t].picked)
        Balanced(pools) ==
            LET t == IF Diff(pools, "alliance") < Diff(pools, "horde")
                     THEN "alliance" ELSE "horde"
                room    == Diff(pools, Other(t))
                kicked  == KickGroup(pools[t], waiting[t], room - Diff(pools, t))
                desired == IF free[t] >= room THEN free[t] - room ELSE 0
            IN IF \/ Apart(Diff(pools, "alliance"), Diff(pools, "horde")) <= gap
                  \/ pools[t].picked = {}
               THEN pools
               ELSE [pools EXCEPT ![t] = IF kicked.more
                                         THEN TakeFrom(kicked.pool, waiting[t], desired)
                                         ELSE kicked.pool]
        empty  == [t \in Teams |-> EmptyPool]
        filled == [t \in Teams |-> TakeFrom(EmptyPool, waiting[t], free[t])]
        rounds == Len(waiting["alliance"]) + Len(waiting["horde"])
        Round[i \in 0..rounds] == IF i = 0 THEN filled ELSE Balanced(Round[i - 1])
    IN IF \E t \in Teams : free[t] > free[Other(t)] /\ waiting[t] = <<>> THEN empty
       ELSE IF invitation = "no_balance" THEN filled
       ELSE Round[rounds]

(* Mutant: the limit of players per team is not looked at. *)
GetFreeSlotsForTeam_Max(s, b, t, invitation) ==
    LET invited == s.bgs[b].invited
        present == [u \in Teams |-> Cardinality({p \in s.bgs[b].players : Side[p] = u})]
        Lead(n) == IF n[t] = n[Other(t)] THEN 1
                   ELSE IF n[Other(t)] > n[t] THEN n[Other(t)] - n[t] ELSE 0
    IN IF s.bgs[b].status # "open" THEN 0 ELSE Lead(invited)

(* The least of: how far the invited of the other team lead, the room under the limit, and
   how far the players inside of the other team lead. *)
GetFreeSlotsForTeam(s, b, t, invitation) ==
    LET invited == s.bgs[b].invited
        present == [u \in Teams |-> Cardinality({p \in s.bgs[b].players : Side[p] = u})]
        Lead(n) == IF n[t] = n[Other(t)] THEN 1
                   ELSE IF n[Other(t)] > n[t] THEN n[Other(t)] - n[t] ELSE 0
        room    == IF invited[t] < MaxPerTeam THEN MaxPerTeam - invited[t] ELSE 0
        inside  == IF present[t] > present[Other(t)] /\ invited[t] <= MinPerTeam
                   THEN MinPerTeam - invited[t] + 1 ELSE Lead(present)
    IN IF s.bgs[b].status # "open" THEN 0
       ELSE IF invitation = "no_balance" THEN room
       ELSE Min({Lead(invited), room, inside})

FreeSlots(s, b, invitation) == [t \in Teams |-> GetFreeSlotsForTeam(s, b, t, invitation)]
HasFreeSlots(s, b, invitation) == \E t \in Teams : FreeSlots(s, b, invitation)[t] > 0
-----------------------------------------------------------------------------
(* BattlegroundQueueUpdate.  A stamp or an instance that nothing refers to can be used. *)

FreshStamp == Stamps \ {tm.stamp : tm \in timers}
FreeIds(s) == {b \in Battlegrounds : /\ s.bgs[b].status = "none"
                                     /\ \A tm \in s.timers : tm.bg # b}

(* The groups at the places that the pools have picked. *)
Chosen(waiting, pools) == [t \in Teams |-> {waiting[t][i] : i \in pools[t].picked}]

(* InviteGroupToBG for every group that is chosen. *)
Invite(s, q, b, chosen) ==
    LET Mark(gs) == [i \in DOMAIN gs |-> IF \E t \in Teams : gs[i] \in chosen[t]
                                         THEN [gs[i] EXCEPT !.bg = b, !.stamp = Min(FreshStamp)]
                                         ELSE gs[i]]
        called == [t \in Teams |-> UNION {g.players : g \in chosen[t]}]
    IN [s EXCEPT !.queued[q] = [r \in Ranks |-> [t \in Teams |-> Mark(s.queued[q][r][t])]],
                 !.bgs[b].invited = [t \in Teams |-> @[t] + Cardinality(called[t])],
                 !.timers = @ \cup {[player |-> p, type |-> q, bg |-> b, stamp |-> Min(FreshStamp)] :
                                        p \in UNION Range(called)},
                 !.aborted = @ \/ \E p \in UNION Range(called) : q \notin queueSlots[p]]

FillRunning(s, q, b, invitation) ==
    LET waiting == s.queued[q]["normal"]
    IN Invite(s, q, b, Chosen(waiting, FillPlayersToBG(waiting, FreeSlots(s, b, invitation), invitation)))

(* The running battlegrounds with room, the emptiest first; of several that are equally empty
   the ordered set keeps one. *)
Needing(q, invitation) ==
    LET running == {b \in Battlegrounds : bgs[b].type = q /\ HasFreeSlots(Realm, b, invitation)}
        Emptiness(b) == Max(Range(FreeSlots(Realm, b, invitation)))
    IN {l \in SeqOf(running, Cardinality(running)) :
           /\ \A i, j \in DOMAIN l : i < j => Emptiness(l[i]) > Emptiness(l[j])
           /\ {Emptiness(l[i]) : i \in DOMAIN l} = {Emptiness(b) : b \in running}}

Create(s, q, b) == [s EXCEPT !.bgs[b] = [Gone EXCEPT !.status = "open", !.type = q]]

(* CheckPremadeMatch: the first premade group of each team that is still large enough. *)
Fitting(s, q, t) == LET gs == s.queued[q]["premade"][t]
                    IN Only(gs, {i \in DOMAIN gs : gs[i].bg = NoBG /\ Cardinality(gs[i].players) >= MinPerTeam})
PremadeMatch(s, q) ==
    LET first(t) == <<Head(Fitting(s, q, t))>>
    IN Chosen([t \in Teams |-> first(t)],
              [t \in Teams |-> TakeFrom(EmptyPool, first(t), MaxPerTeam)])

(* A premade group that has waited too long, or has become too small, goes to the front of the
   normal queue; waited says how many at the front of the list have waited too long. *)
MovePremade(s, q, waited) ==
    LET premade(t) == s.queued[q]["premade"][t]
        leaving(t) == {i \in DOMAIN premade(t) :
                          /\ premade(t)[i].bg = NoBG
                          /\ i <= waited[t] \/ Cardinality(premade(t)[i].players) < MinPerTeam}
        normal  == [t \in Teams |-> Reverse(Only(premade(t), leaving(t))) \o s.queued[q]["normal"][t]]
        staying == [t \in Teams |-> Only(premade(t), DOMAIN premade(t) \ leaving(t))]
    IN [s EXCEPT !.queued[q] = [r \in Ranks |-> IF r = "normal" THEN normal ELSE staying]]

(* CheckNormalMatch. *)
NormalPools(s, q, invitation) ==
    FillPlayersToBG(s.queued[q]["normal"], [t \in Teams |-> MaxPerTeam], invitation)

IsMatch(waiting, pools, invitation) ==
    LET n == [t \in Teams |-> SizeOf(waiting[t], pools[t].picked)]
    IN /\ \A t \in Teams : n[t] >= MinPerTeam
       /\ invitation = "balanced" => Apart(n["alliance"], n["horde"]) <= 1
       /\ invitation = "even" => n["alliance"] = n["horde"]

FillBattlegrounds(q, invitation) ==
    \E l \in Needing(q, invitation) :
        /\ l # <<>>
        /\ LET Filled[i \in 0..Len(l)] ==
                   IF i = 0 THEN Realm ELSE FillRunning(Filled[i - 1], q, l[i], invitation)
           IN Become(Filled[Len(l)])
        /\ UNCHANGED <<queueSlots, bgData>>

(* A premade match is filled up from the normal queue; a normal match is looked for besides. *)
CreateMatches(q, invitation, waited) ==
    LET premade == PremadeMatch(Realm, q)
        found   == \A t \in Teams : Fitting(Realm, q, t) # <<>>
        pairing == found /\ \A t \in Teams : premade[t] # {}
        first   == CHOOSE b \in FreeIds(Realm) : TRUE
        opened  == Invite(Create(Realm, q, first), q, first, premade)
        filled  == IF HasFreeSlots(opened, first, invitation)
                   THEN FillRunning(opened, q, first, invitation) ELSE opened
        rest    == IF pairing THEN filled
                   ELSE IF found THEN Realm ELSE MovePremade(Realm, q, waited)
        waiting == rest.queued[q]["normal"]
        normal  == NormalPools(rest, q, invitation)
        second  == CHOOSE b \in FreeIds(rest) : TRUE
        match   == IsMatch(waiting, normal, invitation)
    IN /\ Needing(q, invitation) = {<<>>}
       /\ pairing => FreeIds(Realm) # {}
       /\ match => FreeIds(rest) # {}
       /\ Become(IF match THEN Invite(Create(rest, q, second), q, second, Chosen(waiting, normal)) ELSE rest)
       /\ UNCHANGED <<queueSlots, bgData>>

QueueUpdate(q) ==
    /\ GroupsIn(Realm, q) # {} /\ FreshStamp # {}
    /\ \E invitation \in InvitationTypes :
          \/ FillBattlegrounds(q, invitation)
          \/ \E waited \in [Teams -> 0..Cardinality(Fighters)] :
                /\ \A t \in Teams : waited[t] <= Len(queued[q]["premade"][t])
                /\ CreateMatches(q, invitation, waited)

-----------------------------------------------------------------------------
BGNext ==
    /\ ~aborted
    /\ \/ \E p \in Fighters, q \in BGTypes : JoinAlone(p, q) \/ LeaveQueue(p, q) \/ Accept(p, q)
       \/ \E p \in Fighters, members \in SUBSET Fighters, q \in BGTypes :
             JoinAsGroup(p, members, q)
       \/ \E p \in Fighters : \/ ArriveInBG(p) \/ LandElsewhere(p)
                              \/ LeaveBattleground(p) \/ Logout(p)
       \/ \E tm \in timers : Expire(tm)
       \/ \E b \in Battlegrounds : EndBattleground(b) \/ ProcessLeave(b) \/ DeleteBattleground(b)
       \/ \E q \in BGTypes : QueueUpdate(q)

BGSpec == BGInit /\ [][BGNext]_bgVars

(* The world thread updates the instances and fires the timers; a client that never arrives
   is logged out when its connection times out. *)
FireTimer(p) == ~aborted /\ \E tm \in timers : tm.player = p /\ Expire(tm)
EndTravel(p) == ~aborted /\ (ArriveInBG(p) \/ LandElsewhere(p))
CloseBattleground(b) == ~aborted /\ (ProcessLeave(b) \/ DeleteBattleground(b))

BGFair == /\ \A p \in Fighters : WF_bgVars(FireTimer(p)) /\ WF_bgVars(EndTravel(p))
          /\ \A b \in Battlegrounds : WF_bgVars(CloseBattleground(b))

-----------------------------------------------------------------------------
(* What a battleground believes it has invited is what is on its way to it: the players of the
   invited groups that still queue and the players that travel to it or are inside.  Too high
   a count keeps seats empty and the instance alive for ever, too low a one overfills it. *)
InvitedMatches ==
    aborted \/ \A b \in Battlegrounds, t \in Teams :
        bgs[b].invited[t] =
            Cardinality({pq \in Fighters \X BGTypes :
                             /\ Side[pq[1]] = t /\ InQueue(Realm, pq[1], pq[2])
                             /\ GroupOf(Realm, pq[1], pq[2]).bg = b})
            + Cardinality({p \in Fighters : Side[p] = t /\ bgData[p].bg = b})

(* "invitations are limited by Battleground::GetFreeSlotsForTeam" (Map.cpp): entering checks
   no limit, so a battleground must never have invited more than a team's seats. *)
NoOverfill == \A b \in Battlegrounds, t \in Teams : bgs[b].invited[t] <= MaxPerTeam

(* The player's slots and the queues agree, which RemovePlayer aborts over otherwise, and
   whoever is in a battleground or on his way to one waits in no queue. *)
SlotsMatch == aborted \/ \A p \in Fighters :
    /\ \A q \in BGTypes : q \in queueSlots[p] <=> InQueue(Realm, p, q)
    /\ InBattleground(p) => queueSlots[p] = {}

(* A battleground that has ended is deleted: nobody stays inside or invited for ever. *)
EndedIsDeleted == \A b \in Battlegrounds :
    bgs[b].status = "wait_leave" ~> (bgs[b].status = "none" \/ aborted)
=============================================================================
