--------------------------- MODULE DungeonFinder ---------------------------
(***************************************************************************)
(* The dungeon finder.  Players and parties (the entries) queue, the queue *)
(* keeps the combinations that fit together, a combination of full size    *)
(* becomes a proposal, and when all its players agree they form a group    *)
(* in a dungeon.  Meanwhile parties form, lose members and disband.        *)
(***************************************************************************)
EXTENDS Naturals, Sequences, FiniteSets, SequencesExt, FiniteSetsExt

CONSTANTS Finders,            \* players, of one faction
          Parties,            \* bound: groups that exist at a time
          NoParty,
          PartySize,          \* MAXGROUPSIZE
          MaxRequests,        \* bound: requests of players in a behaviour
          MinFound,           \* finds after which a search turns common sets of roles down
          AllFound,           \* finds without which no search has every set of roles four times
          Unfit               \* sets of players whom ignores, roles or dungeons keep apart

ASSUME DungeonAssumption ==
    /\ IsFiniteSet(Finders) /\ IsFiniteSet(Parties)
    /\ Finders \cap Parties = {} /\ NoParty \notin Finders \cup Parties
    /\ {PartySize, MinFound, AllFound} \subseteq Nat \ {0} /\ MaxRequests \in Nat
    /\ Unfit \subseteq SUBSET Finders

Entries == Finders \cup Parties

VARIABLES lfgState, lfgOld,   \* m_State and m_OldState of players and groups
          parties,            \* the groups: members, leader, invited players, kind
          online,             \* players in the realm
          data,               \* QueueDataStore: the players of each queued entry
          newToQueue,         \* newToQueueStore, in any order
          compatible,         \* CompatibleList: combinations of entries, in any order
          proposals,          \* ProposalsStore, by ascending id
          roleChecks,         \* RoleChecksStore: who has chosen a role, by group
          requests,           \* requests that players have made
          cutShort,           \* history: entries whose last search left something out
          requeued            \* history: groups that were queued again while a proposal named them

finderVars == <<lfgState, lfgOld, parties, online, data, newToQueue, compatible,
                proposals, roleChecks, requests, cutShort, requeued>>

NoGroup == [members |-> {}, leader |-> NoParty, invited |-> {}, lfg |-> FALSE]

DFInit == /\ lfgState = [x \in Entries |-> "none"] /\ lfgOld = [x \in Entries |-> "none"]
          /\ parties = [g \in Parties |-> NoGroup]
          /\ online = Finders
          /\ data = [x \in {} |-> {}]
          /\ newToQueue = {} /\ compatible = {}
          /\ proposals = <<>>
          /\ roleChecks = [g \in {} |-> {}]
          /\ requests = 0
          /\ cutShort = {} /\ requeued = {}

(* The whole state as one record, which the steps of a handler pass on. *)
Finder == [state |-> lfgState, old |-> lfgOld, parties |-> parties, online |-> online,
           data |-> data, new |-> newToQueue, compatible |-> compatible,
           proposals |-> proposals, checks |-> roleChecks]
Install(s) == /\ lfgState' = s.state /\ lfgOld' = s.old
              /\ parties' = s.parties /\ online' = s.online
              /\ data' = s.data /\ newToQueue' = s.new /\ compatible' = s.compatible
              /\ proposals' = s.proposals /\ roleChecks' = s.checks

PartyOf(s, p) == LET gs == {g \in Parties : p \in s.parties[g].members}
                 IN IF gs = {} THEN NoParty ELSE CHOOSE g \in gs : TRUE
InvitedBy(s, p) == {g \in Parties : p \in s.parties[g].invited}
Exists(s, g) == g # NoParty /\ s.parties[g].members # {}
IsFull(s, g) == Cardinality(s.parties[g].members) >= PartySize
Drop(f, S) == [x \in DOMAIN f \ S |-> f[x]]
With(f, x, v) == [y \in DOMAIN f \cup {x} |-> IF y = x THEN v ELSE f[y]]

(* An id is used again only when nothing refers to it any more. *)
Unused(s, g) == /\ s.parties[g] = NoGroup
                /\ g \notin DOMAIN s.data /\ g \notin s.new /\ g \notin DOMAIN s.checks
                /\ \A c \in s.compatible : g \notin c
                /\ \A P \in Range(s.proposals) : g \notin P.entries

SetState(s, X, st) ==
    [s EXCEPT !.state = [x \in Entries |-> IF x \in X THEN st ELSE @[x]],
              !.old   = [x \in Entries |->
                           IF x \in X /\ st \in {"none", "dungeon"} THEN st ELSE @[x]]]

RestoreState(s, X) ==
    [s EXCEPT !.state = [x \in Entries |-> IF x \in X THEN s.old[x] ELSE @[x]]]

-----------------------------------------------------------------------------
(* The queue. *)

(* Mutant: only the entry alone is taken off the list, not what it is combined with. *)
Unlist_Alone(s, X) == [s EXCEPT !.new = @ \ X,
                                !.compatible = @ \ {{x} : x \in X}]

Unlist(s, X) == [s EXCEPT !.new = @ \ X,
                          !.compatible = {c \in @ : c \cap X = {}}]

RemoveFromQueue(s, X) == [Unlist(s, X) EXCEPT !.data = Drop(@, X)]

AddToQueue(s, X) == [s EXCEPT !.new = @ \cup (X \cap DOMAIN s.data)]

AddQueueData(s, x, who) ==
    AddToQueue([s EXCEPT !.data = With(@, x, who)], {x})

(* g is NoParty where the code passes allowgroup = false or finds no group. *)
LeaveAllLfgQueues(s, p, g) ==
    LET t    == RemoveFromQueue(s, {p, g})
        left == IF g = NoParty THEN {p} ELSE {g} \cup t.parties[g].members
    IN IF t.state[IF g = NoParty THEN p ELSE g] = "queued" THEN SetState(t, left, "none") ELSE t

-----------------------------------------------------------------------------
(* Role checks. *)

EndRoleCheck(s, g) ==
    IF g \notin DOMAIN s.checks THEN s
    ELSE [RestoreState(s, DOMAIN s.checks[g] \cup {g}) EXCEPT !.checks = Drop(@, {g})]

(* answer: "none" (no role chosen), or a role with which a complete check "fits" or does not. *)
UpdateRoleCheck(s, g, p, answer) ==
    IF g \notin DOMAIN s.checks THEN s
    ELSE IF answer = "none" THEN EndRoleCheck(s, g)
    ELSE LET roles == With(s.checks[g], p, TRUE)
             t     == [s EXCEPT !.checks[g] = roles]
             who   == DOMAIN roles
         IN IF \E q \in who : ~roles[q] THEN t
            ELSE IF answer # "fits" THEN EndRoleCheck(t, g)
            ELSE [AddQueueData(SetState(t, who \cup {g}, "queued"), g, who)
                  EXCEPT !.checks = Drop(@, {g})]

-----------------------------------------------------------------------------
(* Proposals. *)

EntryOf(P, p) == IF P.from[p] = NoParty THEN p ELSE P.from[p]
WithEntries(P, ps) == ps \cup {EntryOf(P, p) : p \in ps}

(* Mutant: the members of a party that is removed are left as they were. *)
RemoveProposal_Mates(s, i, failed) ==
    LET P       == s.proposals[i]
        denied  == {p \in DOMAIN P.answer :
                       P.answer[p] = "deny" \/ (failed /\ P.answer[p] = "pending")}
        removed == {EntryOf(P, p) : p \in denied}
        back    == {p \in DOMAIN P.answer : EntryOf(P, p) \notin removed}
        t == SetState(RestoreState(s, WithEntries(P, denied)), WithEntries(P, back), "queued")
        u == AddToQueue(RemoveFromQueue(t, removed), P.entries \ removed)
    IN [u EXCEPT !.proposals = RemoveAt(@, i)]

RemoveProposal(s, i, failed) ==
    LET P       == s.proposals[i]
        removed == {EntryOf(P, p) : p \in {q \in DOMAIN P.answer :
                       P.answer[q] = "deny" \/ (failed /\ P.answer[q] = "pending")}}
        back    == {p \in DOMAIN P.answer : EntryOf(P, p) \notin removed}
        out     == DOMAIN P.answer \ back
        t == SetState(RestoreState(s, WithEntries(P, out)), WithEntries(P, back), "queued")
        u == AddToQueue(RemoveFromQueue(t, removed), P.entries \ removed)
    IN [u EXCEPT !.proposals = RemoveAt(@, i)]

(* The first proposal that p is in fails because of him. *)
DenyFirst(s, p) ==
    LET with == {i \in DOMAIN s.proposals : p \in DOMAIN s.proposals[i].answer}
    IN IF with = {} THEN s
       ELSE RemoveProposal([s EXCEPT !.proposals[Min(with)].answer[p] = "deny"], Min(with), FALSE)

LeaveLfg(s, x) ==
    LET g == IF x \in Parties THEN x ELSE PartyOf(s, x)
    IN CASE s.state[x] = "queued" ->
              LET who == IF g = NoParty THEN {x} ELSE {g} \cup s.parties[g].members
              IN SetState(RemoveFromQueue(s, {IF g = NoParty THEN x ELSE g}), who, "none")
         [] s.state[x] = "rolecheck" /\ g # NoParty -> EndRoleCheck(s, g)
         [] s.state[x] = "proposal" -> DenyFirst(s, IF g = x THEN s.parties[g].leader ELSE x)
         [] s.state[x] = "dungeon" /\ g # x -> SetState(s, {x}, "none")
         [] OTHER -> s

-----------------------------------------------------------------------------
(* Parties: the hooks of LFGScripts within Group and Player. *)

OnAddMember(s, g, p) ==
    LET leader == s.parties[g].leader
        Unqueue(t, x) == IF p # leader /\ s.state[x] = "queued" THEN LeaveLfg(t, x) ELSE t
        u == Unqueue(Unqueue(s, p), g)
    IN IF s.parties[g].lfg THEN u
       ELSE LeaveAllLfgQueues(LeaveAllLfgQueues(u, leader, g), p, NoParty)

JoinParty(s, g, p) ==
    LET t == [s EXCEPT !.parties = [h \in Parties |->
                  [s.parties[h] EXCEPT !.invited = s.parties[h].invited \ {p}]]]
        u == OnAddMember(t, g, p)
    IN [u EXCEPT !.parties[g].members = @ \cup {p}]

(* A group whose member joins another one by a proposal is left without further ado. *)
OnRemoveMember(s, g, p, method) ==
    LET t == IF s.state[g] = "proposal" /\ method = "default" THEN s
             ELSE LeaveAllLfgQueues(LeaveLfg(s, p), p, g)
    IN [t EXCEPT !.parties[g].members = @ \ {p}]

DisbandParty(s, g) ==
    LET t == IF s.state[g] = "proposal" THEN s ELSE SetState(s, s.parties[g].members, "none")
    IN [SetState(t, {g}, "none") EXCEPT !.parties[g] = NoGroup]

LeastMembers(G) == IF G.lfg THEN 1 ELSE 2

(* inside: the last member of a dungeon group is in the dungeon, or dead. *)
DisbandIfFew(s, g, inside) ==
    LET G     == s.parties[g]
        alone == /\ G.lfg /\ Cardinality(G.members) = 1
                 /\ \/ s.old[g] = "none" \/ s.state[g] = "none"
                    \/ G.leader \notin s.online \/ ~inside
    IN IF alone \/ Cardinality(G.members \cap s.online) < LeastMembers(G) THEN DisbandParty(s, g) ELSE s

LeaveGroup(s, g, p, method, inside) ==
    LET G      == s.parties[g]
        others == (G.members \ {p}) \cap s.online
        leader == IF G.leader = p /\ others # {} THEN CHOOSE q \in others : TRUE ELSE G.leader
        led    == [s EXCEPT !.parties[g].leader = leader]
    IN IF Cardinality(G.members) <= LeastMembers(G) THEN DisbandParty(OnRemoveMember(s, g, p, method), g)
       ELSE DisbandIfFew(OnRemoveMember(led, g, p, method), g, inside)

(* Player p, who is in no other group, gets into g, or into a new group if there is none. *)
Place(s, g, p) ==
    LET n   == CHOOSE h \in Parties : Unused(s, h)
        new == [NoGroup EXCEPT !.leader = p, !.lfg = TRUE]
    IN CASE g = NoParty ->
              [g |-> n, s |-> SetState(JoinParty([SetState(s, {n}, "none") EXCEPT !.parties[n] = new],
                                                 n, p), {n}, "proposal")]
         [] g # NoParty /\ (p \in s.parties[g].members \/ IsFull(s, g)) -> [g |-> g, s |-> s]
         [] OTHER -> [g |-> g, s |-> JoinParty(s, g, p)]

(* MakeNewGroup takes the players out of their groups and into one, the leader first. *)
MakeNewGroup(s, P, leader, inside) ==
    LET Take(acc, p) ==
            LET g == PartyOf(acc.s, p)
            IN IF p \notin acc.s.online THEN acc
               ELSE Place(IF g \in {NoParty, acc.g} THEN acc.s
                          ELSE LeaveGroup(acc.s, g, p, "default", inside), acc.g, p)
        order    == <<leader>> \o SetToSeq(DOMAIN P.answer \ {leader})
        start    == [g |-> IF Exists(s, P.group) THEN P.group ELSE NoParty, s |-> s]
        Taken[i \in 0..Len(order)] == IF i = 0 THEN start ELSE Take(Taken[i - 1], order[i])
        Enter(m) == IF m.g = NoParty THEN m.s ELSE SetState(m.s, {m.g}, "dungeon")
    IN Enter(Taken[Len(order)])

(* A player answers; the last agreement makes the group. *)
UpdateProposal(s, i, p, accept, leader, inside) ==
    LET t == [s EXCEPT !.proposals[i].answer[p] = IF accept THEN "agree" ELSE "deny"]
        P == t.proposals[i]
        players == DOMAIN P.answer
        u == [SetState(t, players, "dungeon") EXCEPT !.data = Drop(@, P.entries)]
    IN IF ~accept THEN RemoveProposal(t, i, FALSE)
       ELSE IF \E q \in players : P.answer[q] # "agree" THEN t
       ELSE [MakeNewGroup(u, P, leader, inside) EXCEPT !.proposals = RemoveAt(@, i)]

-----------------------------------------------------------------------------
(* Combinations. *)

(* A player who is in two entries counts twice in the size. *)
PlayersOf(s, e) == UNION {s.data[x] : x \in e}
SizeOfEntries(s, e) == Cardinality(UNION {{x} \X s.data[x] : x \in e})
LfgGroupsIn(s, e) == {g \in e \cap Parties : s.old[g] # "none"}

(* No player twice, at most one dungeon group, and players who may play together. *)
Fits(s, e) ==
    /\ Cardinality(LfgGroupsIn(s, e)) <= 1
    /\ SizeOfEntries(s, e) <= PartySize
    /\ Cardinality(e) > 1 => /\ SizeOfEntries(s, e) = Cardinality(PlayersOf(s, e))
                             /\ \A U \in Unfit : ~(U \subseteq PlayersOf(s, e))
Full(s, e) == SizeOfEntries(s, e) = PartySize
AllQueued(s, e) == \A x \in e : s.state[x] = "queued"

NewProposal(s, e, x) ==
    LET lfg   == LfgGroupsIn(s, e)
        group == IF lfg = {} THEN NoParty ELSE CHOOSE g \in lfg : TRUE
        from  == [p \in PlayersOf(s, e) |->
                    LET gs == {g \in e \cap Parties : p \in s.data[g]}
                    IN IF gs = {} THEN NoParty ELSE CHOOSE g \in gs : TRUE]
        agreed(p) == lfg # {} /\ s.old[x] = "dungeon" /\ from[p] = group
    IN [answer  |-> [p \in DOMAIN from |-> IF agreed(p) THEN "agree" ELSE "pending"],
        from    |-> from, entries |-> e, group |-> group]

(* The combination e becomes a proposal, which the next update announces. *)
Match(s, e, x) ==
    LET P   == NewProposal(s, e, x)
        who == DOMAIN P.answer
    IN SetState([Unlist(s, e) EXCEPT !.proposals = Append(@, P)],
                who \cup ({PartyOf(s, p) : p \in who} \ {NoParty}), "proposal")

(* What a search of x, which found these combinations, may leave out: with MinFound finds   *)
(* those that are not full (they have a set of roles that was found four times), with       *)
(* AllFound finds everything that comes later.  x alone is not counted.                     *)
LeftOut(x, found, tried, few) ==
    LET n == Cardinality(found \ {{x}})
    IN CASE n >= AllFound                   -> tried \ (found \cup {{x}})
         [] n \in MinFound .. (AllFound - 1) -> few \ (found \cup {{x}})
         [] OTHER                           -> {}

(* One entry x that is new is tried alone and with every combination listed, until one       *)
(* matches, x itself turns out to be gone or enough is found.  The combinations met before   *)
(* (met) that hold an entry without data, or that are full and hold one that is not queued,  *)
(* lose that entry.                                                                          *)
FindGroups(x) ==
    LET s       == [Finder EXCEPT !.new = @ \ {x}]
        known   == {c \in s.compatible : x \in c}
        more    == {c \cup {x} : c \in s.compatible} \ known
        alone   == x \in DOMAIN s.data => Full(s, {x})
        tried   == CASE known # {} -> more
                     [] known = {} /\ alone -> {{x}}
                     [] OTHER -> more \cup {{x}}
        absent(e) == CASE x \notin DOMAIN s.data -> {x}
                       [] e \subseteq DOMAIN s.data -> {}
                       [] OTHER -> {CHOOSE y \in e : y \notin DOMAIN s.data}
        good    == {e \in tried : absent(e) = {} /\ Fits(s, e)}
        full    == {e \in good : Full(s, e)}
        out(e)  == IF e \in full THEN {y \in e : s.state[y] # "queued"} ELSE absent(e)
        matches == {e \in full : out(e) = {}}
        losing  == {e \in tried : out(e) # {}}
    IN /\ x \in newToQueue
       /\ \E met \in SUBSET losing :
             LET gone == UNION {out(d) : d \in met}
             IN \/ \E left \in SUBSET tried :
                      LET found == (good \ full) \ left
                      IN /\ left \subseteq LeftOut(x, found, tried, good \ full)
                         /\ matches \subseteq left
                         /\ met = losing \ left \/ x \in gone
                         /\ Install(RemoveFromQueue([s EXCEPT !.compatible = @ \cup found], gone))
                         /\ cutShort' = IF left = {} THEN cutShort \ {x} ELSE cutShort \cup {x}
                \/ \E e \in matches : /\ gone \cap e = {}
                                       /\ Install(Match(RemoveFromQueue(s, gone), e, x))
                                       /\ UNCHANGED cutShort

(* UpdateQueueTimers, when nothing is new: entries with few combinations are tried again, *)
(* one that has queued for two hours is removed.                                          *)
Refresh(X) == /\ newToQueue = {} /\ X # {}
              /\ X \subseteq DOMAIN data \cap UNION compatible
              /\ Install(AddToQueue(Finder, X))

QueuedTooLong(x) ==
    /\ newToQueue = {} /\ x \in DOMAIN data
    /\ LET s == [Finder EXCEPT !.data = Drop(@, {x})]
       IN Install(IF x \in Finders THEN LeaveAllLfgQueues(s, x, PartyOf(s, x))
                  ELSE LeaveAllLfgQueues(s, x, x))

ProposalExpires(i)  == i \in DOMAIN proposals /\ Install(RemoveProposal(Finder, i, TRUE))
RoleCheckExpires(g) == g \in DOMAIN roleChecks /\ Install(EndRoleCheck(Finder, g))

-----------------------------------------------------------------------------
(* Handlers. *)

(* Any member may ask for a party, only the leader for a dungeon group.  A second request *)
(* ends the first one, also when it is refused for another reason (valid = FALSE).        *)
JoinLfg(p, valid, answer) ==
    LET g == PartyOf(Finder, p)
        x == IF g = NoParty THEN p ELSE g
        s == CASE lfgState[x] = "rolecheck" /\ g # NoParty -> EndRoleCheck(Finder, g)
               [] lfgState[x] = "queued" -> RemoveFromQueue(Finder, {x})
               [] OTHER -> Finder
        who == parties[g].members
        t == [SetState(s, who \cup {g}, "rolecheck")
              EXCEPT !.checks = With(@, g, [q \in who |-> FALSE])]
        mayJoin == /\ valid /\ lfgState[x] # "proposal"
                   /\ g # NoParty => who \subseteq online /\ Cardinality(who) <= PartySize
    IN /\ p \in online
       /\ g # NoParty => ~parties[g].lfg \/ parties[g].leader = p
       /\ Install(CASE ~mayJoin -> s
                    [] mayJoin /\ g = NoParty ->
                         SetState(AddQueueData(s, p, {p}), {p}, "queued")
                    [] OTHER -> UpdateRoleCheck(t, g, p, answer))

LeaveFinder(p) ==
    LET g == PartyOf(Finder, p)
    IN /\ p \in online
       /\ g # NoParty => parties[g].leader = p
       /\ Install(LeaveAllLfgQueues(LeaveLfg(Finder, IF g = NoParty THEN p ELSE g), p, g))

ChooseRole(p, answer) ==
    LET g == PartyOf(Finder, p)
    IN /\ p \in online /\ g \in DOMAIN roleChecks
       /\ Install(UpdateRoleCheck(Finder, g, p, answer))

AnswerProposal(i, p, accept, leader, inside) ==
    /\ p \in online
    /\ i \in DOMAIN proposals
    /\ {p, leader} \subseteq DOMAIN proposals[i].answer
    /\ \E g \in Parties : Unused(Finder, g)
    /\ Install(UpdateProposal(Finder, i, p, accept, leader, inside))

(* Player l invites p into his group, or into one that is created when p accepts. *)
InviteToParty(l, p) ==
    LET g    == PartyOf(Finder, l)
        own  == {h \in InvitedBy(Finder, l) : parties[h].leader = l}
        s(h) == [Finder EXCEPT !.parties[h].invited = @ \cup {p}]
        t(h) == [Finder EXCEPT !.parties[h] = [NoGroup EXCEPT !.leader = l, !.invited = {l, p}]]
        left(u) == LeaveAllLfgQueues(LeaveLfg(u, l), l, NoParty)
    IN /\ l # p /\ {l, p} \subseteq online
       /\ PartyOf(Finder, p) = NoParty /\ InvitedBy(Finder, p) = {}
       /\ \/ /\ g # NoParty /\ parties[g].leader = l /\ ~IsFull(Finder, g)
             /\ Install(s(g))
          \/ /\ g = NoParty
             /\ \E h \in own : Install(left(s(h)))
          \/ /\ g = NoParty /\ InvitedBy(Finder, l) = {}
             /\ \E h \in Parties : Unused(Finder, h) /\ Install(left(t(h)))

(* A leader who has got into another group meanwhile is left out (see README). *)
AcceptInvitation(p) ==
    \E g \in InvitedBy(Finder, p) :
        LET l == parties[g].leader
            s == [Finder EXCEPT !.parties[g].invited = @ \ {p}]
            t == IF Exists(s, g) THEN s ELSE JoinParty(SetState(s, {g}, "none"), g, l)
        IN /\ p \in online
           /\ Exists(s, g) \/ PartyOf(s, l) = NoParty
           /\ Install(IF l = p \/ IsFull(s, g) THEN s
                      ELSE IF ~Exists(s, g) /\ l \notin online
                           THEN [s EXCEPT !.parties[g] = NoGroup]
                      ELSE JoinParty(t, g, p))

UninviteFromGroup(s, p) ==
    IF InvitedBy(s, p) = {} THEN s
    ELSE LET g == CHOOSE h \in InvitedBy(s, p) : TRUE
             t == [s EXCEPT !.parties[g].invited = @ \ {p}]
         IN CASE Cardinality(t.parties[g].members) > 1 -> t
              [] Cardinality(t.parties[g].members) = 1 -> DisbandParty(t, g)
              [] OTHER -> [t EXCEPT !.parties[g] = NoGroup]

DeclineInvitation(p) == /\ p \in online /\ InvitedBy(Finder, p) # {}
                        /\ Install(UninviteFromGroup(Finder, p))

(* Leaving, or being uninvited from a group without votes. *)
LeaveParty(p, inside) ==
    LET g == PartyOf(Finder, p)
    IN /\ g # NoParty
       /\ Install(LeaveGroup(Finder, g, p, "leave", inside))

(* A player who logs out leaves a party, one who loses his connection does not. *)
LogoutFinder(p, connected) ==
    LET s == UninviteFromGroup(Finder, p)
        g == PartyOf(s, p)
        t == IF g # NoParty /\ ~s.parties[g].lfg /\ connected
             THEN LeaveGroup(s, g, p, "default", FALSE) ELSE s
        OnLogout(u) == LET h == PartyOf(u, p)
                       IN IF h # NoParty /\ u.parties[h].lfg THEN u
                          ELSE LeaveAllLfgQueues(LeaveLfg(u, p), p, h)
    IN /\ p \in online
       /\ Install([OnLogout(t) EXCEPT !.online = @ \ {p}])

(* On a map other than the one of his dungeon, a player who is alone in a group leaves it. *)
ChangeMap(p) ==
    LET g == PartyOf(Finder, p)
    IN /\ p \in online /\ g # NoParty /\ parties[g].members = {p}
       /\ Install(DisbandParty(Finder, g))

LoginFinder(p) == p \notin online /\ Install([Finder EXCEPT !.online = @ \cup {p}])

Requests ==
    \/ \E p \in Finders, answer \in {"none", "fits", "clash"} :
          \/ \E valid \in BOOLEAN : JoinLfg(p, valid, answer)
          \/ ChooseRole(p, answer)
    \/ \E p, leader \in Finders, accept, inside \in BOOLEAN :
          \E i \in DOMAIN proposals : AnswerProposal(i, p, accept, leader, inside)
    \/ \E l, p \in Finders : InviteToParty(l, p)
    \/ \E p \in Finders, b \in BOOLEAN : LeaveParty(p, b) \/ LogoutFinder(p, b)
    \/ \E p \in Finders : \/ LeaveFinder(p) \/ AcceptInvitation(p)
                          \/ DeclineInvitation(p) \/ LoginFinder(p) \/ ChangeMap(p)

Updates ==
    \/ \E x \in Entries : FindGroups(x)
    \/ /\ UNCHANGED cutShort
       /\ \/ \E x \in Entries : QueuedTooLong(x)
          \/ \E X \in SUBSET Entries : Refresh(X)
          \/ \E i \in DOMAIN proposals : ProposalExpires(i)
          \/ \E g \in Parties : RoleCheckExpires(g)

(* The history of the groups that were queued again, as long as anything is left of them. *)
Proposed == UNION {P.entries : P \in Range(proposals)}
Remains  == DOMAIN data \cup (UNION compatible) \cup Proposed
Remember == requeued' = {g \in Parties \cap Remains' :
                            g \in requeued \/ g \in (newToQueue \cap Proposed)'}

DFNext == /\ \/ requests < MaxRequests /\ requests' = requests + 1 /\ Requests /\ UNCHANGED cutShort
             \/ UNCHANGED requests /\ Updates
          /\ Remember

DFSpec == DFInit /\ [][DFNext]_finderVars

-----------------------------------------------------------------------------
States == {"none", "rolecheck", "queued", "proposal", "dungeon"}

DFTypeOK ==
    /\ lfgState \in [Entries -> States] /\ lfgOld \in [Entries -> {"none", "dungeon"}]
    /\ online \subseteq Finders
    /\ cutShort \subseteq Entries /\ requeued \subseteq Parties
    /\ newToQueue \subseteq Entries /\ compatible \subseteq SUBSET Entries
    /\ DOMAIN data \subseteq Entries /\ \A x \in DOMAIN data : data[x] \subseteq Finders
    /\ DOMAIN roleChecks \subseteq Parties
    /\ \A P \in Range(proposals) : /\ P.entries \subseteq Entries
                                   /\ DOMAIN P.answer \subseteq Finders

(* Hazard (LFGQueue.cpp:150): once the queue has tried all that is new, no full combination *)
(* of queued entries that fits is left in it: nobody waits beside his match.  Left out are   *)
(*  - entries that a standing proposal still names, from before their players moved to       *)
(*    another party: they come back to the queue when it ends;                               *)
(*  - entries whose last search left something out (LFGQueue.cpp:240 and :357), until they   *)
(*    are searched in full;                                                                  *)
(*  - groups that were queued again while a proposal named them.  If it succeeds it takes    *)
(*    the data of the group, but not what is listed of it (LFGMgr.cpp:1708), and             *)
(*    combinations that are listed are not tried again.                                      *)
NoMissedMatch ==
    \A e \in SUBSET (DOMAIN data \ (newToQueue \cup Proposed \cup cutShort \cup requeued)) :
        e # {} /\ AllQueued(Finder, e) /\ Full(Finder, e) => ~Fits(Finder, e)

(* Hazard (LFGMgr.cpp:1720): whoever is shown a proposal is in one that stands, and so will *)
(* be told how it ends, also when his party changes meanwhile.                              *)
AskedHasProposal ==
    \A p \in Finders : lfgState[p] = "proposal" =>
        \E P \in Range(proposals) : p \in DOMAIN P.answer

=============================================================================
