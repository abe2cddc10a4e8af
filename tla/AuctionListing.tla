--------------------------- MODULE AuctionListing ---------------------------
(***************************************************************************)
(* Searches of the auction house, answered by a thread of their own.  The  *)
(* packet handler (run by the world thread or by a map worker) queues an   *)
(* event with a timer in a temporary list; the listing thread moves it to  *)
(* its list and executes it.  The auctions change only while the world     *)
(* thread holds the listing mutex, which it announces beforehand so that a *)
(* long listing can give up and be tried again.                            *)
(***************************************************************************)
EXTENDS Naturals, Sequences, FiniteSets, SequencesExt

CONSTANTS Players,
          Delay,            \* 2000 ms between two searches of a player, in ticks
          MaxClock,         \* bound: ticks of game time that are told apart
          MaxSearches       \* bound: searches of one player

ASSUME ListingAssumption == Delay \in Nat /\ MaxClock \in Nat /\ MaxSearches \in Nat

VARIABLES now,              \* GameTime::GetGameTimeMS()
          last,             \* _lastAuctionListItemsMSTime of each player's session
          there,            \* players in the world, near an auctioneer
          temp, events,     \* GetTempList() and GetList()
          diff, allowed,    \* auctionListingDiff and auctionListingAllowed
          world,            \* the world thread: outside, waiting for, or in the locked section
          listing,          \* the listing thread: idle, past its checks, executing
          elapsed,          \* its local diff
          due,              \* index of the event it executes
          auctions, seen,   \* contents of the auction house, now and as the listing began
          asked, answered, dropped      \* searches of each player so far

worldVars == <<now, there, auctions, world>>
countVars == <<asked, answered, dropped>>
vars == <<worldVars, last, temp, events, diff, allowed, listing, elapsed, due, seen, countVars>>

Event == [player : Players, timer : 0..Delay]

TypeOK == /\ now \in 0..MaxClock
          /\ last \in [Players -> 0..MaxClock + Delay]
          /\ there \subseteq Players
          /\ temp \in Seq(Event) /\ events \in Seq(Event)
          /\ diff \in 0..Delay /\ elapsed \in 0..Delay
          /\ allowed \in BOOLEAN
          /\ world \in {"outside", "waiting", "section"}
          /\ listing \in {"idle", "ready", "executing"}
          /\ due \in Nat
          /\ auctions \in {0, 1} /\ seen \in {0, 1}
          /\ \A f \in {asked, answered, dropped} : f \in [Players -> 0..MaxSearches]

Init == /\ now = 0
        /\ last = [p \in Players |-> 0]
        /\ there = Players
        /\ temp = <<>> /\ events = <<>>
        /\ diff = 0 /\ elapsed = 0
        /\ allowed = FALSE
        /\ world = "outside"
        /\ listing = "idle" /\ due = 0
        /\ auctions = 0 /\ seen = 0
        /\ asked = [p \in Players |-> 0]
        /\ answered = [p \in Players |-> 0]
        /\ dropped = [p \in Players |-> 0]

AtMost(n, bound) == IF n > bound THEN bound ELSE n

-----------------------------------------------------------------------------
(* The packet handler. *)

(* getMSTimeDiff: a `last` in the future is taken for an overflow of the clock. *)
SinceLast(p) == IF last[p] > now THEN Delay ELSE AtMost(now - last[p], Delay)

HandleAuctionListItems(p) ==
    LET timer == Delay - SinceLast(p) IN
    /\ world # "waiting"
    /\ p \in there
    /\ asked[p] < MaxSearches
    /\ last' = [last EXCEPT ![p] = now + timer]
    /\ temp' = Append(temp, [player |-> p, timer |-> timer])
    /\ asked' = [asked EXCEPT ![p] = @ + 1]
    /\ UNCHANGED <<worldVars, events, diff, allowed, listing, elapsed, due, seen, answered, dropped>>

-----------------------------------------------------------------------------
(* World::Update. *)

Announce ==
    /\ world = "outside"
    /\ world' = "waiting"
    /\ allowed' = FALSE
    /\ UNCHANGED <<now, there, auctions, last, temp, events, diff, listing, elapsed, due, seen, countVars>>

(* Mutant: the world thread announces itself but does not take the mutex. *)
EnterSection_Unlocked ==
    /\ world = "waiting"
    /\ world' = "section"
    /\ diff' = AtMost(diff + 1, Delay)
    /\ now' = AtMost(now + 1, MaxClock)
    /\ UNCHANGED <<there, auctions, last, temp, events, allowed, listing, elapsed, due, seen, countVars>>

(* The mutex is taken; time has passed since the last update. *)
EnterSection ==
    /\ world = "waiting" /\ listing # "executing"
    /\ world' = "section"
    /\ diff' = AtMost(diff + 1, Delay)
    /\ now' = AtMost(now + 1, MaxClock)
    /\ UNCHANGED <<there, auctions, last, temp, events, allowed, listing, elapsed, due, seen, countVars>>

(* Auctions are made, bid on, cancelled or expire. *)
ChangeAuctions ==
    /\ world = "section"
    /\ auctions' = 1 - auctions
    /\ UNCHANGED <<now, there, world, last, temp, events, diff, allowed, listing, elapsed, due,
                   seen, countVars>>

(* A player logs out, is teleported or walks away from the auctioneer. *)
WalkAway(p) ==
    /\ world # "waiting"
    /\ p \in there
    /\ there' = there \ {p}
    /\ UNCHANGED <<now, auctions, world, last, temp, events, diff, allowed, listing, elapsed, due,
                   seen, countVars>>

LeaveSection ==
    /\ world = "section"
    /\ world' = "outside"
    /\ allowed' = TRUE
    /\ UNCHANGED <<now, there, auctions, last, temp, events, diff, listing, elapsed, due, seen, countVars>>

-----------------------------------------------------------------------------
(* AuctionListRunnable::run. *)

(* Listing is allowed: take the time that has passed, and look whether there is work. *)
Look ==
    /\ listing = "idle" /\ allowed
    /\ diff' = 0
    /\ IF temp = <<>> /\ events = <<>>
       THEN UNCHANGED <<listing, elapsed>>
       ELSE listing' = "ready" /\ elapsed' = diff
    /\ UNCHANGED <<worldVars, last, temp, events, allowed, due, seen, countVars>>

(* Mutant: the temporary list is cleared before it is copied. *)
Merged_Cleared == events

Merged == events \o temp

(* The loop over `auto itr` counts down copies: the events keep their timers. *)
CountDown(list, time) == list

(* With the mutex: take in the new events, count down, find the first one due. *)
Lock ==
    LET list  == CountDown(Merged, elapsed)
        Due   == {i \in DOMAIN list : list[i].timer = 0} IN
    /\ listing = "ready" /\ world # "section"
    /\ events' = list
    /\ temp' = <<>>
    /\ IF Due = {} THEN listing' = "idle" /\ UNCHANGED <<due, seen>>
       ELSE /\ listing' = "executing"
            /\ due' = CHOOSE i \in Due : \A j \in Due : i <= j
            /\ seen' = auctions
    /\ elapsed' = 0
    /\ UNCHANGED <<worldVars, last, diff, allowed, countVars>>

(* The loop breaks and the mutex is released. *)
StopListing == listing' = "idle" /\ due' = 0 /\ seen' = 0

(* Mutant: an event whose player is away is kept, as one that was given up is. *)
Execute_KeepAway ==
    LET p == events[due].player IN
    /\ listing = "executing"
    /\ StopListing
    /\ IF p \in there
       THEN /\ answered' = [answered EXCEPT ![p] = @ + 1]
            /\ events' = RemoveAt(events, due)
       ELSE UNCHANGED <<answered, events>>
    /\ UNCHANGED <<worldVars, last, temp, diff, allowed, elapsed, asked, dropped>>

(* Execute() returns true: the search is answered, or its player is not there. *)
Execute ==
    LET p == events[due].player IN
    /\ listing = "executing"
    /\ StopListing
    /\ events' = RemoveAt(events, due)
    /\ IF p \in there
       THEN answered' = [answered EXCEPT ![p] = @ + 1] /\ UNCHANGED dropped
       ELSE dropped' = [dropped EXCEPT ![p] = @ + 1] /\ UNCHANGED answered
    /\ UNCHANGED <<worldVars, last, temp, diff, allowed, elapsed, asked>>

(* BuildListAuctionItems gives up because the world thread waits. *)
GiveUp ==
    /\ listing = "executing" /\ ~allowed
    /\ events[due].player \in there
    /\ StopListing
    /\ UNCHANGED <<worldVars, last, temp, events, diff, allowed, elapsed, countVars>>

Next == \/ \E p \in Players : HandleAuctionListItems(p) \/ WalkAway(p)
        \/ Announce \/ EnterSection \/ ChangeAuctions \/ LeaveSection
        \/ Look \/ Lock \/ Execute \/ GiveUp

(* The world thread keeps updating.  The listing thread polls every millisecond, so it
   meets an allowed moment and a free mutex again and again, and a listing that gave up
   is tried again until one has the time it needs. *)
Fairness == /\ WF_vars(Announce) /\ WF_vars(EnterSection) /\ WF_vars(LeaveSection)
            /\ SF_vars(Look) /\ SF_vars(Lock) /\ SF_vars(Execute)

Spec == Init /\ [][Next]_vars /\ Fairness

-----------------------------------------------------------------------------
Listed(q, p) == {k \in DOMAIN q : q[k].player = p}

Pending(p) == Cardinality(Listed(temp, p)) + Cardinality(Listed(events, p))

(* Every search is answered, dropped with its player away, or still listed, and only
   once, whatever is given up and tried again between the two lists. *)
NoSearchLost == \A p \in Players : asked[p] = answered[p] + dropped[p] + Pending(p)

(* A reply shows the auction house at one moment: the auctions do not change under
   the listing thread's iteration. *)
ReplyConsistent == listing = "executing" => seen = auctions

(* A search that is due is answered or dropped, whoever is ahead of it. *)
DueSearchAnswered ==
    LET DueOf(p) == \E k \in DOMAIN (temp \o events) : (temp \o events)[k] = [player |-> p, timer |-> 0]
    IN \A p \in Players : DueOf(p) ~> ~DueOf(p)

(* Every search is answered or dropped after its delay. *)
SearchAnswered == \A p \in Players : Pending(p) > 0 ~> Pending(p) = 0
=============================================================================
