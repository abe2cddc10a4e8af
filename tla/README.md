# A verification development of WarheadCore

WarheadCore is a World of Warcraft server: a login server (`authserver`), a realm server
(`worldserver`) and their databases.  This directory models the concurrent and stateful
core of the realm server in TLA+, checks it with TLC on small instances and proves its most
important invariants with TLAPS.  Paths below are relative to `src/src/`.

## 1. Inventory

### Threads and what they share

| Thread | Code | Shares |
|---|---|---|
| world thread | `WorldRunnable::run` (`server/worldserver/Main.cpp`) calls `World::Update` | everything below |
| network threads | `WorldSocket`, `WorldSocketMgr` (ACE reactors) | `World::addSessQueue`, the packet queues, `m_Socket` of a session |
| map workers (`MapUpdate.Threads`, 1 as shipped) | `MapUpdater::WorkerThread` | `_queue`, `pending_requests`, the maps |
| auction listing thread | `AuctionListRunnable::run` | the two event lists, the auctions |
| database workers (`WorkerThreads`, 1 as shipped) | `DatabaseWorker::svc` | the operation queue, futures of queries |
| freeze detector, consoles, SOAP | `server/worldserver` | the loop counter, the CLI command queue |

### Components

| Component | State | Operations | What is hard | What makes it correct |
|---|---|---|---|---|
| Map update scheduler | request queue, `pending_requests`, cancellation token, worker threads | schedule, wait, finish, deactivate | workers schedule work for each other; condition variables; shutdown twice | a frame ends, and when it has ended no worker touches a map |
| Map manager | `i_maps`, `m_InstancedMaps`, `mapUpdateStep` | frame, create and destroy instances, unload | instances are destroyed inside the parallel part | no map is updated twice at once or after its deletion |
| World sessions | `m_sessions`, `m_offlineSessions`, `addSessQueue`, the session objects, `online` columns | add, reject, replace, park, reclaim, reap, kick, login, shutdown | two connections of one account at any time; queries answered late; 60 s grace | one owner of a character; no dangling pointer; nothing forgotten at shutdown |
| Login queue | `m_QueuedPlayer`, `m_disconnects` | join, rejoin, leave | sessions are counted before the caller erases its own | no idle slot, nobody overtaken |
| Auction search thread | temporary and main list of events, timers, announcement flag, mutex | search, merge, execute, give up | listings that are interrupted and tried again | no search lost, a reply shows one moment |
| Auction house | `AuctionsMap`, `mAitems`, table `auctionhouse` | sell, bid, buy out, cancel, expire, load | memory ahead of the database; deleted owners and bidders; crash | no gold or item doubled or lost; consistent after a restart |
| Mail | `m_mail`, tables `mail`, `mail_items` | send, load, take item, take money | receivers who are loading, away or deleted | what is in memory is or will be in the database |
| Database layer | operation queue, connections | commit, query, execute, close | order, loss of the queue, deadlock retries | transactions are atomic and in order |
| Groups and loot rolls | members, rolls with a timer | invite, roll, leave | players who leave while a roll is open, votes that are repeated | a blocked item has a roll that can end, and goes to somebody who asked for it |
| Trade | two `TradeData` | offer, accept, cancel | acceptance of an offer that has changed; items and gold that are used while on the table | both sides accepted what is exchanged |
| Battleground queue | queues by type, selection pools, invitations, counts of each battleground | join, invite, accept, time out, enter, leave, end | invitations that expire, are refused or end in a failed arrival while a battleground fills | invited counts match the invitations, no team is overfilled, an ended battleground is deleted |
| Dungeon finder | states of players and groups, role checks, queue data, list of combinations, proposals | join, choose a role, match, answer, time out | parties that form, shrink or disband under a role check or proposal; cached combinations | nobody waits beside his match; who is asked hears how it ends |
| Guild bank | tabs, gold, daily limits | deposit, withdraw, swap | many members, one store | limits respected, items whole |
| Instance saves | binds of players and groups | bind, reset | resets while players are inside | players and saves refer to each other |
| Saving system | tickets, current and maximal value, skip list | take, give back, advance, reset | an unsorted list of which only the head is looked at; players between two maps | a ticket that is drawn is reached; a due save stays due |
| Event processors | multimap of events by time | add, abort, execute | changes during execution | each event runs or aborts once |

All other components (sockets, login server, consoles, chat, calendar, spells, entities, AI,
scripts, tools...) are listed in `PROJECT.json` with the reason why they are not modelled.
The hazards of the code are listed there too, each at its line, with the properties that
cover it or the reason why none does.

## 2. Modules

| Module | Models | Uses |
|---|---|---|
| `FrameBarrier` | what the map updater promises: a fork/join frame | |
| `MapUpdater` | `game/Maps/MapUpdater.cpp`, `common/Threading/PCQueue.h`, the frame of `MapManager`, `MapInstanced` | refines `FrameBarrier` |
| `LoginQueue` | admission policy on accounts and a queue | |
| `WorldSessions` | `World::AddSession_`, `UpdateSessions`, `WorldSession` life cycle, login | uses and refines `LoginQueue` |
| `AuctionListing` | `AuctionListRunnable`, `AsyncAuctionListing` | |
| `AuctionEconomy` | what the auction house promises of the tables | |
| `AuctionHouse` | auction and mail handlers, the database worker, crash and restart | refines `AuctionEconomy` |
| `SavingSystem` | `SavingSystemMgr` and the saves, logins, far teleports and logouts that use it | |
| `Trade` | `TradeHandler.cpp`, `TradeData`, and what players do with items and gold meanwhile | |
| `BattlegroundQueue` | `BattlegroundQueue`, the counters of `Battleground`, the handlers and timers of an invitation | |
| `GroupLoot` | the rolls of `Group` for the items of a corpse, with the members who vote, leave and travel | |
| `DungeonFinder` | `LFGMgr`, `LFGQueue`, the hooks of `LFGScripts` in `Group` and `Player` | |
| `ServicesMC` | the services that share no state, one at a time | `LoginQueue`, `AuctionEconomy` and the five above |

`XMC.tla` gives the constants of `X` their values (`ServicesMC` those of seven modules), `X*.cfg` are TLC's configurations and
`X_proofs.tla` holds theorems and proofs (`Services_proofs` those of `SavingSystem`, `Trade`,
`GroupLoot` and `DungeonFinder`, each a part of its own).  Definitions named `Name_Variant` before `Name`
are deliberately wrong variants of `Name`: with one in its place the property listed with it
under `mutants` in `PROJECT.json` fails, which shows that the property can see that mistake.

**MapUpdater.**  A critical section is one step and so is an access outside of one; waiting
on a condition variable is an explicit state (`asleep`, `blocked`, `drainBlocked`), with
spurious wake-ups for workers.  `main` is the world thread's place in `MapManager::Update`
and in the shutdown.  A worker in `MapInstanced::Update` visits its instances one by one,
schedules each or destroys it.  Full and empty time slices follow `mapUpdateStep`.
What a map does in its update is left out; only who may touch it matters.

**LoginQueue / WorldSessions.**  `session` holds the fields of each `WorldSession`; a session
that is deleted can be used again for a new connection.  `at`, `todo` and `cur` are the
world thread inside `UpdateSessions`, one session at a time, so that sockets close, other
connections authenticate and queries become ready between its steps.  A character is
`absent`, in the `world`, or `away` (between maps or on a taxi, where a lost connection
deletes the session at once).

**AuctionListing.**  Time is `now`, in ticks of `Delay`; `Lock` merges the two lists and
counts down timers as the loop of `Main.cpp` does, on copies.  A listing that runs while the
world thread waits may give up.  What a search selects is not modelled.

**AuctionEconomy / AuctionHouse.**  The tables of the character database are functions on
their keys.  A handler changes memory and appends transactions to `queue`; a transaction is
a record of the rows that it writes and deletes; `Worker` executes the oldest one (`Execute`).
The queries of a login go through the same queue as requests that write nothing
(`LoginQueries`) and are answered into `read`.  `After` is the database after each prefix of the
queue, a recursive function, and `Future` the last of them: what the tables will be.  A crash forgets
memory, queue and results; `Shutdown`, logouts and `Close` do the same in order; `Boot` loads
the auctions and the characters.  An item of a deleted owner and an auction whose item is
gone are treated as the loading code does.

**SavingSystem.**  A player draws a ticket when he enters the realm and after each save, an early
or an important save gives the old one back, `UpdateSaving` moves the counter on and pops the
skip list as the loop of `SavingSystemMgr::Update` does.  `presence` tells the world from a far
teleport (the map update that saves does not run) and one with a delayed save scheduled.

**Trade.** A `TradeData` is spread over functions on the traders: `partner`, the slots, gold, spell
and acceptance; `Agree` is the first acceptance, `Settled` the second one, with every refusal of
`HandleAcceptTradeOpcode`, and `Exchange` what it moves: `MoveItems` hands over the items of each
slot together, but for slots where one turns out not to fit (`stuck`), whose items go back to their
owners or, if they fit nowhere any more, are left with nobody (`lost`), as `moveItems` does; the
gold is paid all the same.  Between offers the players spend gold and use, lose or bind items.
`agreed` is no variable of the code: it remembers that nothing on the table has changed since a
player's last acceptance, and the properties compare `accepted` with it.

**BattlegroundQueue.**  A group in the queue is a record with its players, side, type and
invitation; `FillPlayersToBG`, `CheckPremadeMatch` and `CheckNormalMatch` choose groups into
selection pools as the code does, with the three settings of `InvitationType`.  Invited counts,
queue slots of a player and the timers are counted by themselves, as in the code, so that the
properties can compare them.

**GroupLoot.**  One group and the loot of one corpse.  A vote may be cast again as long as the roll
is open (the code counts it again), and the dice are a choice among those who can be found.

**DungeonFinder.** Handlers call each other through hooks (a party that forms takes its players out
of queues, a proposal that succeeds takes players out of parties), so the operators pass the state
on as one record `s`, and an action installs the last one.  Roles, dungeons and ignores are in
`Unfit`, the sets of players that cannot be together; `answer` says whether a role check of a whole
party fits.  `FindGroups` takes one new entry, any of them, and tries the combinations in any order.
The code limits such a search by counts of what it has found for each set of roles: after `MinFound`
finds (10 in the code) common sets of roles are turned down, and after no fewer than `AllFound` (4
finds of each of 13 sets, 52) it ends.  Roles are no part of the state, so `LeftOut` lets a search
that has found that many leave out any combination that this can concern: those that are not full at
first, all of them at last.  `cutShort` and `requeued` are no variables of the code: they remember
the entries whose last search left something out, and the groups that were queued again while a
proposal named them.  The proposal and its announcement in the same `World::Update` are one step: no
handler of players runs in between, all of them being `PROCESS_THREADUNSAFE`.

## 3. Runs

| Run | Instance | States | Question |
|---|---|---|---|
| `map_updater` | 2 workers, 2 base maps updated in different steps, 2 instances of one of them | 11 592 | Is a frame a barrier, does it end, do workers stop? |
| `map_updater_exit` | the same | | finding `NormalExit` |
| `world_sessions` | 2 accounts, 3 connections, 2 characters of one account, limit 1 | 185 129 | Are sessions and characters owned, resolved and saved? |
| `world_sessions_queue` | 3 accounts, 4 connections, no characters, tolerance on | 2 725 166 | Is the policy kept with two waiting? |
| `world_sessions_online` | as `world_sessions`, with tolerance | | finding `AccountMarkedOnline` |
| `world_sessions_characters` | as `world_sessions`, with tolerance | | finding `OneCharacterPerAccount` |
| `auction_listing` | 2 players with 2 searches each | 174 984 | Are searches kept, consistent and answered when due? |
| `auction_listing_answer` | 1 player | | finding `SearchAnswered` |
| `auction_house` | 3 characters of 2 accounts, 1 item, at most 3 requests before a handler | 859 223 | Does the database go through states of the economy only, and is memory what it will become? |
| `auction_house_shutdown` | the same with 2 requests | | finding `ShutdownStores` |
| `services` | one service at a time: login queue of 5 accounts with limit 2; economy of 3 characters, 2 items, 3 prices; 2 players with 3 tickets; 2 traders with 2 items; 3 players, 1 battleground of at most 2 a side; 3 members and 1 item; dungeon finder with 3 players, 2 parties of at most 3 and 7 requests | 345 030 | Is the queue fair and no slot idle? Are the tables consistent, due saves kept, exchanges what both accepted, counts of battlegrounds right, rolls able to end, matches found? |
| `services_live` | the saving system as above, 3 players and 1 battleground, and 2 traders, one with a bound item that is shown for a spell | 77 762 | Is every ticket reached, every ended battleground deleted, no team overfilled when there is one seat per side, and every acceptance for what is on the table? |

### Bounds

* Two workers suffice for each of the races of the updater: one that finishes while another
  schedules or sleeps.  Two instances let one be destroyed while the other is queued.
* Two connections of one account are what `AddSession_` handles at a time; the third session
  competes for the only slot.  `OfflineTicks = 0`: an offline session lives for one update in
  which it can be reclaimed, and is reaped at its end; the 60 seconds are counted in updates.
* `MaxClock`, `MaxSearches` and `Delay = 1` tell apart a search that is due, one that is
  delayed, and one whose predecessor lies in the future (the clock-overflow case).
* `MaxQueue = 3` lets three transactions or login queries wait when a handler begins, so that
  an expiry that destroys an item can be split by a crash, and a login can be answered between
  two transactions of another player.  Gold starts at 1, 3 and 2, so that each price is
  affordable to some and not to others; the two characters of one account can never be in the
  world together, but bid on auctions of each other in turn.
* One item in `AuctionHouse`: auctions of different items meet only in the gold of a character
  and in the single transaction of an expiry; `services` has two.
* `services` gives the economy two items.  Its other instances: a queue of three behind a limit of
  two lets one be overtaken, leave or return; three tickets let one be given back out of order
  while a higher one is reached; two items and gold of 0 or 1 let each side of a trade offer,
  spend and run out of room; three players of two sides, alone and in a group, let a
  battleground be overfilled by one; three members let the dice choose after one has left.
* The two items of the trade in `services` are bound to nobody, so that both can lie in the same slot
  on either side and be handed over, go back or be lost; an item that is
  bound, and shown for a spell of the other (`ShownItems`), is in `services_live`.
* The dungeon finder has dungeons for three and three players: a match takes all of them, as three
  entries, as a party and one more, or as a party by itself, so that combinations of two entries are
  listed, taken off with one of their entries, and found again by the third.  `MinFound = 1` and
  `AllFound = 2` let a search reach both limits.  `Unfit` is empty, since nobody is left to
  replace one who does not fit; it is general in the proofs.  Seven requests of players (the
  updates of the server are not counted) reach each action, a proposal that fails and is followed
  by another, and a dungeon group that is joined, left and continued.
* `services` and `services_live` do not check for deadlock: tickets, votes and requests are
  bounded, and when every character is deleted nothing more happens.  All other runs do.

### Fairness and why the code justifies it

* `MapUpdater`: each thread that can run is scheduled (weak fairness of the world thread's
  steps and of each worker's).  Creating an instance and stopping the server are not fair.
* `WorldSessions`: the world loop and the database worker go on (`WF`).  `SF` of `EndAdd`
  says that the loop over `addSessQueue` ends at some time although network threads add to it;
  `LockedQueue::next` with the delays of `SessionAddDelay` makes endless refilling
  impossible in practice.  Nothing is assumed of clients.
* `AuctionListing`: the world thread goes on (`WF`); the listing thread polls each
  millisecond, so it meets a permitted moment and a free mutex again and again, and a listing
  that gave up gets the time it needs at last (`SF`).
* `SavingSystem` (`SVFair`): `World::Update` calls the saving system, maps update their players,
  and a far teleport arrives.  Nothing is assumed of logins, logouts and early saves.
* `BattlegroundQueue` (`BGFair`): the timer of an invitation fires (an event of the queue), a
  teleport ends somewhere, and an ended battleground is closed by its update.  `ServicesMC` states
  both again for the service that runs, since the others stand still.
* All others: no fairness, only safety is claimed.

### What the properties say

`PendingMatches`, `MainExclusive`, `NoConcurrentUpdate`, `NoDeadMap`, `NoNullCall`,
`FrameCompletes`, `WorkersJoined` and `ImplementsFrame` together say that the updater is a
barrier.  `NoDanglingSession`, `OneOwner`, `WaitingIsQueued`, `OfflineAlone`, `ShutdownSaves`,
`OfflineResolved`, `LoginResolved` and `ImplementsLoginQueue` say that sessions, characters and
queue agree.  `NoSearchLost`, `ReplyConsistent` and `DueSearchAnswered` are the auction search's.
`ItemOnce`, `ItemFound` and `BidsStand` are of the tables; `WorldAhead` relates memory, queue and
database; `FeesOnly` bounds what an operation may cost; `ImplementsEconomy` says that no crash
leaves half an operation.  `WaitsOnce`, `NoIdleSlot` and `AdmittedInOrder` are the login queue's.

`DueStays`: a player whose save is due stays due until it is saved; no reset or clamp of the
counters puts it off.  `TicketReached`: the counter gets past every ticket that is drawn.
`TradeSound`: trades come in pairs, an acceptance is for what is on the table now, nobody holds an
item bound to somebody else.  `ExchangeHonoured`: items and gold change hands only as both agreed,
of two items in the same slot both are handed over or none, and the gold one pays the other gets.
It does not say that everything on the table is handed over, which the code does not guarantee
(section 6).  `InvitedMatches`: the invited count of a side is the number of players who are
invited, travelling or inside; `SlotsMatch`: a player's queue slot and the queue agree;
`NoOverfill`: no side ever has more players invited or inside than seats; `EndedIsDeleted`: an ended
battleground goes.  `BlockedHasRoll`: as long as the group exists, a blocked item has a roll that is
open and a timer that will end it; `RollFair`: who gets an item asked for it, and no greedy member
before a needy one who could be found.  `NoMissedMatch`: when the dungeon queue has tried what is
new, no full combination of queued entries that fits is left, but for three exceptions that it
names: entries whose last search left something out at its limits, entries of a standing proposal,
and groups that were queued again under one (see section 5).  `AskedHasProposal`: a player who is
being asked is in a proposal that stands.  Each has a comment at its definition.

## 4. Findings

Each is a run that TLC must find violated; the sentences of the code that are contradicted
are quoted in `PROJECT.json`.

* `NormalExit`: `MapUpdater::deactivate` runs at `UnloadAll` and again from the static
  destructor, which joins threads that have been joined: `std::terminate` after a normal stop.
* `AccountMarkedOnline`: a session that is deleted when a newer one of its account exists
  marks the account offline.
* `OneCharacterPerAccount`: a login that kicks the offline session of another character
  can complete in the same update, before that session is reaped.
* `SearchAnswered`: the listing thread counts down copies of the events, so a search with a
  delay is never answered.
* `ShutdownStores`: `DatabaseWorkerPool::Close` discards the transactions still queued, the
  last saves of the players among them.

## 5. Proofs

All proofs are checked by TLAPS to the last leaf, for every value of the constants under the
named assumptions of the modules.

* `MapUpdater_proofs` (`TypeCorrect`, `PendingCorrect`, `Exclusion`, `NullSafe`, `NotReentered`,
  `NoneInUseDestroyed`, `RefinesFrame`).
  `PendingMatches` alone is not inductive: that a step of the world thread outside a frame keeps
  it needs `IdleOutsideFrame`, that a worker's step keeps it needs `RequestInHand` (which places
  of a worker hold a request), and a null request is harmless only since the token is set before
  the queue is cancelled (`TokenFirst`).  `IInv` is their conjunction; `BusyFinite` and
  `NothingPending` turn the count into the absence of work.  That no map is updated by two workers
  or destroyed under one needs `MapsInv` as well: what the world thread has still to schedule is
  not in flight (`ScheduledOnce`), nor what a worker has still to visit (`VisitedOnce`), and when an
  instance is in flight its map will not be visited again in this frame (`ParentFirst`).
  `RefinesFrame` is the safety part of `ImplementsFrame`.
* `LoginQueue_proofs` (`QueueTyped`, `QueueOnce`, `SlotsFilled`, `AssertionHolds`,
  `ServedInOrder`).  Lemmas on `RemoveNth`, `Without` and sequences without repetition lead to
  `RemoveQueuedPlayerProperties`; `IInv` is `LQTypeOK /\ WaitsOnce /\ NoIdleSlot`.  A queue without
  repetition is no longer than the set of its members, which makes `Active` a natural number.
  `ServedInOrder` is the action property `AdmittedInOrder`: who was ahead of one who is admitted
  is admitted with him, has left, or went to the end by connecting anew.
* `WorldSessions_proofs` (`TypeCorrect`, `NothingDangles`, `CharactersOwned`, `NobodyStuck`,
  `OfflineIsAlone`, `ShutdownComplete`, `RefinesLoginQueue`), for finitely many accounts and any
  `PlayerLimit`.  `IInv` has ten parts beside the types: a session is in one place only
  (`Filed`), an unused one is blank, those still to be added are new (`Newcomers`), who is connected
  to what (`Connected`), the queue of waiting sessions agrees with the abstract one (`Queue`), the
  place of the world thread (`Thread`), characters and their owners (`Owned`, `Loading`), and what
  is known of a session that has been replaced or kicked (`Superseded`, `Kicked`).  `Queue` is what
  makes each step a step or a stutter of `LoginQueue`.
* `AuctionListing_proofs` (`TypeCorrect`, `EverySearchKept`, `RepliesConsistent`).  `IInv` is `TypeOK /\ NoSearchLost
  /\ Steady`: `Steady` says that while a listing is executed the world thread is outside its
  section and the auctions are those it began with.  The rest are lemmas on counting a player's
  events in the two lists (`CountConcat`, `CountRemoveAt`), proved with the least counterexample.
* `AuctionHouse_proofs` (`Inductive`, `MemoryAhead`, `NoItemTwice`, `RefinesEconomy`, `NothingLost`,
  `PaysFeesOnly`), for finitely many characters and items.
  `WorldAhead` compares memory with what the tables will be, which no step can keep unless
  something is known of the way there.  `IInv` therefore says that each prefix of the queue leaves
  a database in which no item has two owners (`EverSound`), that memory is what the whole queue
  leaves (`AheadOf`), and that the rows a login has read or will read stay true while it is
  being loaded (`LoginsKept`), which holds because the transactions behind its queries spare
  them (`Spares`).  `UpTo`, `AfterConcat` and `AfterTail` are the facts about the recursion on the
  queue: a handler appends to it, the worker takes its head.  Their induction is a set of numbers
  and its least element (`Least`), since the library's theorems take a predicate.
  That the house implements the economy (`RefinesEconomy`) needs one thing more: a transaction says
  what it writes and not what it was written for, and the database it meets is not the one its
  handler saw.  `Lawful(d, t)` says of which operation of the economy, possible in `d`, `t` holds the
  rows; `EverLawful` says it of every request that waits and the database it will meet.  Each
  handler commits what is lawful in the future it has in memory (`SellLawful` to `ExpireLawful`),
  what waits keeps its place (`CommitLawful`), and the worker executes an operation of the economy
  (`LawfulImplements`, one lemma for each operation).  `Typed` gives the tables the types of
  `AuctionEconomy`, without which the arithmetic of a payment means nothing, and `GoldKept` says what
  is left of `AheadOf` once the server stops: kicked players are saved with the gold they are
  stored with.  An expiry ends several auctions at once: `Removed` shows that what nobody can
  receive is gone by the time its last transaction is executed.  `LInv` is the conjunction of these,
  of `IInv` and of the invariant of `AuctionEconomy_proofs` (`FInv`); `NothingLost` and `PaysFeesOnly`
  are what that one says of the database and of its steps.  The constants of both modules are under the same assumptions: prices are
  natural numbers, no bid starts at 0, the house's share is at most the whole.
* `AuctionEconomy_proofs` (`EconomyItemOnce`, `EconomyItemFound`, `EconomyBidsStand`,
  `EconomyFeesOnly`), for finitely many characters and items.  `ItemFound` is
  inductive only with `ItemOnce`, and `BidsStand` needs the types of the rows of auctions.
  `EconomyFeesOnly` balances the sums of three tables: purses, auctions with their deposits
  (`Pots`), letters (`Mail`).  A sum is a fold, whose order the library leaves open: that it
  is a natural number, that any element may be taken out first (`SumTake`) and that it is the
  sum of its parts (`SumParts`) rests on `Growing`, induction on a finite set, which is proved
  with the least cardinality of a counterexample.  Each operation then has a lemma that says what
  it moves from which table to which (`SellHonest` to `SettleHonest`).  Auctions that end together send one bag
  of letters (`Profits`), in which equal letters are counted: `ProfitsWorth` says that it is worth
  the sum of what each sale brings.  The share of the house (`CutBound`) is at most
  the price and grows with it.
* `Services_proofs`, the trade (`TradesSound`, `ExchangesHonoured`).  `TradeInv` is `TRTypeOK /\ TradeSound`: that an
  exchange honours what was agreed needs that every acceptance is for what is on the table, that
  the tables of the partners belong together, and the types of both.  `MoveItemsDoes` says where an
  item can be after an exchange, whichever slots are stuck.  `WatchKeeps` follows the
  acceptance through each way of changing an offer, `OnlyExchange` says that no other step moves
  items or gold between players.
* `Services_proofs`, the loot (`RollsNeverStuck`, `RollsAreFair`).  An item stays blocked when its roll is
  counted with a total above zero and nobody to draw.  `LootInv` therefore says of each roll (`Runs`)
  that its totals cover the votes that are in it and that it lacks a vote, or that nobody wants the
  item: when the last voter leaves (`TakenOffRuns`), nothing is left to count.  It also says that
  nothing is blocked while there is no loot, which a group that forms later needs.
  `OutcomesSettle` is the fact about `CountTheRoll`, `CountStep` serves votes, departures and the
  end of the minute.  `RollsAreFair` is the action property `RollFair`: the total that remains is
  positive exactly when somebody who voted so can be found (`RemainingTakers`), and `RollingKept`
  says that nobody takes an item before its roll ends.

* `Services_proofs`, the saving system (`SavingTypesHold`, `DueStaysHolds`).  The counter
  is moved by the loop of `UpdateSaving`, which the model writes as a recursive function, and by the
  skip list; `DueStays` is an action property, so that the theorem
  follows each action from the types alone, with the counter's monotony as the fact about the loop.
* `Services_proofs`, the dungeon finder (`AskedHasProposalHolds`, `NoMissedMatchHolds`), for finitely
  many players and parties.  A handler reaches others through hooks, so that one action runs through several
  states of the record that the operators pass on, not all of which satisfy the property:
  a proposal that ends lets its players go one after the other.  `AskedWell` is `FinderOK`, the types
  of groups, queue data, role checks and proposals, with `Asked`, the property.  Operators that
  ask nobody and remove no proposal are `Quiet` (or `Calm`, when they may let players go), and
  such steps compose; `ErasedKeeps`, `RemoveProposalDoes`, `MakeNewGroupDoes` and `MatchDoes`
  say of the others what they do to the players of the proposal.  The loops over the players of a
  group are recursions on the set that is left; `Walks` is their induction on its size.

  `NoMissedMatchHolds` is `DFSpec => []NoMissedMatch`, without a condition on the behaviour: nobody waits beside
  his match, but for the exceptions that the property names.  They are what the code does.  A search
  leaves combinations out at its limits, so that they are neither matched nor listed for the
  next entry to extend (`cutShort`).  And a dungeon group that queues again while a proposal names
  it can be missed when that proposal succeeds, in a game of eight players and parties of four
  which TLC replays in fifty steps: a dungeon group `g` is in a proposal; a member who
  joined it while he was in another one is put back to "queued" when that fails, and takes the group
  out of the queue when he leaves it; `g` queues again and is listed alone; the old proposal
  succeeds, which drops the data of `g` (`LFGMgr.cpp:1708`) and leaves it in the list; `g` grows to full
  size, queues a third time, and is not tried, because `FindNewGroups` takes an entry that
  is listed for one that has been tried.  Such groups are in `requeued` until nothing of them is left in
  the queue, the list or a proposal.

  The invariant is `QueueOK`, beside `AskedWell`: `Searched` says that whatever fits among entries that
  are neither new nor named, searched in full and not queued again is in the list and not full; `Listing`, that no
  combination in the list is full and each entry of one is listed alone, since `FindGroups` takes
  that as the sign that an entry has been tried; `Resting`, that a group out of the queue
  has neither data nor combinations, so that it cannot come back with other players to the
  combinations of the old ones; `Stored` and `Apart` are about data and proposals.  Entries are
  compared by `View`, in which a player who waits alone is himself also when his data is gone: a
  combination means the same before and after (`ViewSame`).  Steps that queue nothing are `Fades`: data and
  groups only go, and what goes leaves its combinations; they compose, and keep `QueueOK`
  (`FadesKeeps`).  What is left is an entry that joins (`EntersQueue`), one that comes back
  (`RemoveProposalQueue`), a match (`MatchQueue`) and an entry that is tried without one (`TriedQueue`),
  whose search changes `cutShort`; `NextQueue` then says that what `requeued` forgets is not in the queue.
  The last rests on two facts about combinations: a part of one that fits, fits (`PartsFit`), and
  nobody fits beside an entry that is full alone (`FullAlone`).
* `BattlegroundQueue_proofs` (`BattlegroundInvariant`, `SlotsMatchHolds`, `InvitedMatchesHolds`,
  `NoOverfillHolds`), for finitely many players, types and battlegrounds.  Counts and queue slots are
  kept apart from the invitations in the code, and the same player is found through a group
  of the queue, his slot, a travel or a seat.  `BGInv` is `SlotsMatch` with `Sound`: the types,
  a group's side is that of its players (`Sided`), nobody is in two groups (`Unique`), the counts
  (`Counted`, which is `InvitedMatches`), an instance that does not exist has invited nobody (`Vacant`)
  and no other one more players than it has seats (`Seated`, which is `NoOverfill`).  In the middle of `UpdateQueue` the
  groups chosen for a pool are still uninvited, so `During` says what holds between two
  invitations, and `Choice` what `FillPlayersToBG` may have put into a pool: whole groups of
  the right side that wait and fit the seats.  `UpTo` and `Recursion` are the facts about the
  recursive functions that stand for its loops.

Only model-checked is liveness (`FrameCompletes`, `WorkersJoined`, `OfflineResolved`, `LoginResolved`, `DueSearchAnswered`,
  `TicketReached`, `EndedIsDeleted`, the fair part of `ImplementsFrame`): not within the prover's reach.

## 6. What the models assume and leave out

* `MapUpdate.Threads` is at least 1 (the shipped value); without workers maps are updated in
  the world thread and there is nothing to check.  The world thread itself handles the sessions
  of players; packets that map workers handle do not create instances.
* `WorldSessions`: characters are created, deleted and renamed elsewhere; idle time-outs and
  packet contents are left out.  Player limit changes at run time are not modelled.
* `AuctionHouse`: one asynchronous worker as in `worldserver.conf.dist`; transactions do not
  fail; expiry times are nondeterministic; only whole stacks are sold; one house; gold stays
  below the limit of a character and percentages are exact (the code computes in `float`);
  a client neither deletes a character nor logs in twice while one is being loaded.
* `SavingSystem`: after a login that fails or a character that is created the ticket is given back
  as the code does.  Tickets beyond `MaxTicket` are not drawn.
* `Trade`: range, faction and the choice of a partner are left open; two traders on maps of
  different workers, whose packets would be handled at once, are left out.  `CanStoreItems` counts the room
  for all items together but tests the limits on similar items one by one, so that two items of
  which a player may have one pass it, and the second is refused by `moveItems`.  Such limits, stacks and bags are not
  modelled: which slots are stuck when an exchange happens, and which of their items are lost, is a free
  choice.  The gold is paid and the trade is reported complete also then.
* `BattlegroundQueue`: no arenas, ratings, random battlegrounds or game masters.  A group that joins
  while its leader waits in the same queue meets the `ASSERT` of `AddGroup`: the model stops
  there (`aborted`), as the program does.
* `GroupLoot`: no master loot, quest items and subgroups.  `Disband` clears the rolls and leaves the
  items blocked, which `BlockedHasRoll` does not forbid.  `RollId` has no lock; groups whose
  members are on maps of different workers are left out.
* `DungeonFinder`: one faction; no votes to kick, raid browser, rewards, teleports or end of a
  dungeon; which combinations a search leaves out once it has found enough is a free choice, since roles are
  not modelled (its early end asks for finds of sets of a single player, which no combination has, so
  that the code may never get there); an
  invitation is not accepted after its leader got into another group, nor is a member of a
  party invited twice at a time.  A party that forms while one of its players is in a standing
  proposal deletes his queue data (`LeaveAllLfgQueues`), so that when the proposal fails he is shown
  as queued without being in the queue, against the comment at `LFGMgr.cpp:1813`; the model does
  the same, and the properties speak of entries with data.
* Data that no property tells apart (names, texts, positions, statistics) is left out.

## 7. Plan

The number of runs is kept at a dozen so that the whole development is checked in minutes;
new modules merge or replace runs.

1. Model: stacks that are sold in part, mail between players with cash on delivery, return and
   expiry; several database workers, failing transactions and deadlock retries
   (`AuctionHouse`, or a module `DatabasePool` with a promise of its own).
2. Model: the guild bank, instance saves and their resets, event processors, votes to kick in the
   dungeon finder, arenas in the battleground queue.
3. Model: the roles in `DungeonFinder`, so that a search at its limits leaves out no more than
   the code does, and the limits on similar items in `Trade`.
