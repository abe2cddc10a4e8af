----------------------------- MODULE MapUpdater -----------------------------
(***************************************************************************)
(* MapManager::Update and MapUpdater: the world thread schedules one       *)
(* request per base map (and one for LFG) on a ProducerConsumerQueue,      *)
(* worker threads execute them, a worker updating an instanceable base map *)
(* schedules its instances or destroys them, and the world thread waits    *)
(* for pending_requests to fall to zero before it touches any map.  The    *)
(* shutdown path (UnloadAll, deactivate, the static destructor) included.  *)
(*                                                                         *)
(* Granularity: a critical section of _lock or of the queue's _queueLock   *)
(* is one step, a condition variable is an explicit wait set, and every    *)
(* access outside a lock (the cancellation token) is a step of its own.    *)
(***************************************************************************)
EXTENDS Naturals, Sequences, FiniteSets

CONSTANTS Workers,      \* the threads of _workerThreads
          BaseMaps,     \* i_maps, fixed while the server runs
          Instances,    \* the InstancedMaps objects that may come and go
          Parent,       \* the MapInstanced that holds an instance
          UpdateStep,   \* the mapUpdateStep in which a base map is `full`
          Lfg,          \* the LFG request, which touches no map
          NoRequest     \* the nullptr WorkerThread starts from

ASSUME WorkersAssumption == /\ Workers # {}        \* MapUpdate.Threads > 0
                            /\ IsFiniteSet(Workers)
ASSUME MapsAssumption ==
    /\ IsFiniteSet(BaseMaps) /\ IsFiniteSet(Instances)
    /\ BaseMaps \cap Instances = {}
    /\ Parent \in [Instances -> BaseMaps]
    /\ UpdateStep \in [BaseMaps -> 0..2]
    /\ Lfg \notin BaseMaps \cup Instances
    /\ NoRequest \notin BaseMaps \cup Instances \cup {Lfg}

VARIABLES queue,            \* _queue._queue: requests, oldest first
          queueShutdown,    \* _queue._shutdown
          pending_requests,
          token,            \* _cancelationToken
          live,             \* instances that exist (m_InstancedMaps)
          mapUpdateStep,
          main,             \* where the world thread is
          toSchedule,       \* base maps its loop has not scheduled yet
          joinable,         \* the std::thread objects not joined yet
          pc,               \* where each worker is
          request,          \* its local `request`
          children          \* instances its MapInstanced::Update has still to visit

mainVars == <<mapUpdateStep, main, toSchedule, joinable>>
workerVars == <<pc, request, children>>
vars == <<queue, queueShutdown, pending_requests, token, live, mainVars, workerVars>>

Request == BaseMaps \cup Instances \cup {Lfg}

MainState == {"world", "schedule", "wait", "blocked", "delayed", "unload",
              "deactivate", "drain", "drainBlocked", "cancel", "join", "exit", "aborted"}
WorkerState == {"pop", "asleep", "popped", "call", "exited", "crashed"}

(* The places in which the world thread, and nobody else, may use map state. *)
Exclusive == {"world", "delayed", "unload"}

TypeOK == /\ queue \in Seq(Request)
          /\ queueShutdown \in BOOLEAN
          /\ pending_requests \in Nat
          /\ token \in BOOLEAN
          /\ live \subseteq Instances
          /\ mapUpdateStep \in 0..3
          /\ main \in MainState
          /\ toSchedule \subseteq BaseMaps
          /\ joinable \subseteq Workers
          /\ pc \in [Workers -> WorkerState]
          /\ request \in [Workers -> Request \cup {NoRequest}]
          /\ children \in [Workers -> SUBSET Instances]

(* Requests handed out by the queue whose update_finished is still to come. *)
Busy == {w \in Workers : request[w] # NoRequest}

InstancesOf(b) == {i \in live : Parent[i] = b}

(* `full` of MapManager::Update: the base map gets a non-zero time slice. *)
Full(b) == UpdateStep[b] = mapUpdateStep

Init == /\ queue = <<>>
        /\ queueShutdown = FALSE
        /\ pending_requests = 0
        /\ token = FALSE                \* zeroed: MapManager is a static object
        /\ live = {}
        /\ mapUpdateStep = 0
        /\ main = "world"
        /\ toSchedule = {}
        /\ joinable = Workers
        /\ pc = [w \in Workers |-> "pop"]
        /\ request = [w \in Workers |-> NoRequest]
        /\ children = [w \in Workers |-> {}]

-----------------------------------------------------------------------------
(* Effects shared by several actions. *)

(* Mutant of NotifyOne: a push that notifies nobody. *)
NotifyOne_Lost(others) == pc' = others

(* `others` is pc with the scheduling worker's own move; notify_one wakes one
   sleeping worker if there is one. *)
NotifyOne(others) ==
    LET sleeping == {w \in Workers : others[w] = "asleep"} IN
    IF sleeping = {} THEN pc' = others
    ELSE \E w \in sleeping : pc' = [others EXCEPT ![w] = "pop"]

(* Mutant of schedule_update: the request is pushed but not counted. *)
schedule_update_Uncounted(m) == /\ queue' = Append(queue, m)
                                /\ NotifyOne(pc)
                                /\ UNCHANGED pending_requests

(* schedule_update and schedule_lfg_update: count, push, notify under _lock. *)
schedule_update(m) == /\ pending_requests' = pending_requests + 1
                      /\ queue' = Append(queue, m)
                      /\ NotifyOne(pc)

(* Mutant of WaitPending: waits for an empty queue, not for finished requests. *)
WaitPending_Queue(next, asleep) == main' = IF queue # <<>> THEN asleep ELSE next

(* wait(): falls through to `next`, or sleeps on _condition in `asleep`. *)
WaitPending(next, asleep) == main' = IF pending_requests > 0 THEN asleep ELSE next

(* Mutant of WakeMain: `if` for `while` around _condition.wait. *)
WakeMain_Once == main' = CASE main = "blocked" -> "delayed"
                           [] main = "drainBlocked" -> "cancel"
                           [] OTHER -> main

(* update_finished notifies _condition; only the world thread waits on it. *)
WakeMain == main' = CASE main = "blocked" -> "wait"
                      [] main = "drainBlocked" -> "drain"
                      [] OTHER -> main

-----------------------------------------------------------------------------
(* The world thread. *)

(* A session enters the world or crosses a portal: CreateMap for an instance. *)
CreateInstance(i) ==
    /\ main = "world"
    /\ i \notin live
    /\ live' = live \cup {i}
    /\ UNCHANGED <<queue, queueShutdown, pending_requests, token, mainVars, workerVars>>

(* MapManager::Update begins: the LFG request is first. *)
BeginFrame ==
    /\ main = "world"
    /\ schedule_update(Lfg)
    /\ main' = "schedule"
    /\ toSchedule' = BaseMaps
    /\ UNCHANGED <<queueShutdown, token, live, mapUpdateStep, joinable, request, children>>

ScheduleMap(b) ==
    /\ main = "schedule"
    /\ b \in toSchedule
    /\ schedule_update(b)
    /\ toSchedule' = toSchedule \ {b}
    /\ main' = IF toSchedule' = {} THEN "wait" ELSE "schedule"
    /\ UNCHANGED <<queueShutdown, token, live, mapUpdateStep, joinable, request, children>>

(* m_updater.wait() at the end of the scheduling loop. *)
Wait ==
    /\ main = "wait"
    /\ WaitPending("delayed", "blocked")
    /\ UNCHANGED <<queue, queueShutdown, pending_requests, token, live, mapUpdateStep,
                   toSchedule, joinable, workerVars>>

(* ProcessDelayedCorpseActions, the DelayedUpdate loop and the step's timers;
   `passed` stands for i_timer[3].Passed(). *)
Delayed ==
    /\ main = "delayed"
    /\ main' = "world"
    /\ LET next == IF mapUpdateStep < 3 THEN mapUpdateStep + 1 ELSE 3 IN
       \E passed \in BOOLEAN :
          mapUpdateStep' = IF next = 3 /\ passed THEN 0 ELSE next
    /\ UNCHANGED <<queue, queueShutdown, pending_requests, token, live,
                   toSchedule, joinable, workerVars>>

(* World::IsStopped() ends the loop of WorldRunnable::run. *)
StopWorld ==
    /\ main = "world"
    /\ main' = "unload"
    /\ UNCHANGED <<queue, queueShutdown, pending_requests, token, live, mapUpdateStep,
                   toSchedule, joinable, workerVars>>

(* MapManager::UnloadAll deletes every map before it stops the workers. *)
UnloadAll ==
    /\ main = "unload"
    /\ live' = {}
    /\ main' = "deactivate"
    /\ UNCHANGED <<queue, queueShutdown, pending_requests, token, mapUpdateStep,
                   toSchedule, joinable, workerVars>>

(* Mutant of SetToken: the queue is cancelled before the token is set. *)
SetToken_Late ==
    /\ main = "deactivate"
    /\ main' = "drain"
    /\ UNCHANGED <<queue, queueShutdown, pending_requests, token, live, mapUpdateStep,
                   toSchedule, joinable, workerVars>>

(* deactivate(), first statement. *)
SetToken ==
    /\ main = "deactivate"
    /\ token' = TRUE
    /\ main' = "drain"
    /\ UNCHANGED <<queue, queueShutdown, pending_requests, live, mapUpdateStep,
                   toSchedule, joinable, workerVars>>

(* deactivate(): wait(). *)
Drain ==
    /\ main = "drain"
    /\ WaitPending("cancel", "drainBlocked")
    /\ UNCHANGED <<queue, queueShutdown, pending_requests, token, live, mapUpdateStep,
                   toSchedule, joinable, workerVars>>

(* Mutant of Cancel: sets _shutdown without notify_all. *)
Cancel_Silent ==
    /\ main = "cancel"
    /\ queue' = <<>>
    /\ queueShutdown' = TRUE
    /\ main' = "join"
    /\ UNCHANGED <<pending_requests, token, live, mapUpdateStep, toSchedule, joinable,
                   workerVars>>

(* deactivate(): _queue.Cancel() empties the queue, and wakes every worker. *)
Cancel ==
    /\ main = "cancel"
    /\ queue' = <<>>
    /\ queueShutdown' = TRUE
    /\ pc' = [w \in Workers |-> IF pc[w] = "asleep" THEN "pop" ELSE pc[w]]
    /\ main' = "join"
    /\ UNCHANGED <<pending_requests, token, live, mapUpdateStep, toSchedule, joinable,
                   request, children>>

(* deactivate(): thread.join() of each element of _workerThreads, which blocks
   until that thread has returned. *)
Join(w) ==
    /\ main = "join"
    /\ w \in joinable
    /\ pc[w] = "exited"
    /\ joinable' = joinable \ {w}
    /\ main' = IF joinable' = {} THEN "exit" ELSE "join"
    /\ UNCHANGED <<queue, queueShutdown, pending_requests, token, live, mapUpdateStep,
                   toSchedule, workerVars>>

(* main() has returned: ~MapUpdater runs deactivate() once more. *)
Destruct ==
    /\ main = "exit"
    /\ main' = "deactivate"
    /\ UNCHANGED <<queue, queueShutdown, pending_requests, token, live, mapUpdateStep,
                   toSchedule, joinable, workerVars>>

(* join() of a std::thread that is not joinable throws, and the exception leaves
   a destructor: std::terminate. *)
JoinAgain ==
    /\ main = "join"
    /\ joinable = {}
    /\ main' = "aborted"
    /\ UNCHANGED <<queue, queueShutdown, pending_requests, token, live, mapUpdateStep,
                   toSchedule, joinable, workerVars>>

MainStep == \/ BeginFrame \/ (\E b \in BaseMaps : ScheduleMap(b)) \/ Wait \/ Delayed
            \/ UnloadAll \/ SetToken \/ Drain \/ Cancel \/ Destruct \/ JoinAgain
            \/ \E w \in Workers : Join(w)

-----------------------------------------------------------------------------
(* The workers. *)

(* WaitAndPop: sleep, take the oldest request, or return without one. *)
WaitAndPop(w) ==
    /\ pc[w] = "pop"
    /\ \/ /\ queue = <<>> /\ ~queueShutdown
          /\ pc' = [pc EXCEPT ![w] = "asleep"]
          /\ UNCHANGED <<queue, request>>
       \/ /\ queue # <<>> /\ ~queueShutdown
          /\ pc' = [pc EXCEPT ![w] = "popped"]
          /\ request' = [request EXCEPT ![w] = Head(queue)]
          /\ queue' = Tail(queue)
       \/ /\ queueShutdown
          /\ pc' = [pc EXCEPT ![w] = "popped"]
          /\ UNCHANGED <<queue, request>>
    /\ UNCHANGED <<queueShutdown, pending_requests, token, live, mainVars, children>>

(* A condition variable may wake its waiter without a notification. *)
SpuriousWakeup(w) ==
    /\ pc[w] = "asleep"
    /\ pc' = [pc EXCEPT ![w] = "pop"]
    /\ UNCHANGED <<queue, queueShutdown, pending_requests, token, live, mainVars,
                   request, children>>

(* The test of _cancelationToken: leave, or call through `request`. *)
CheckToken(w) ==
    /\ pc[w] = "popped"
    /\ pc' = [pc EXCEPT ![w] = IF token THEN "exited"
                               ELSE IF request[w] = NoRequest THEN "crashed" ELSE "call"]
    /\ children' = [children EXCEPT ![w] = IF ~token /\ request[w] \in BaseMaps
                                           THEN InstancesOf(request[w]) ELSE {}]
    /\ UNCHANGED <<queue, queueShutdown, pending_requests, token, live, mainVars, request>>

(* MapInstanced::Update schedules an instance that cannot be unloaded ... *)
ScheduleInstance(w, i) ==
    /\ pc[w] = "call"
    /\ i \in children[w]
    /\ children' = [children EXCEPT ![w] = @ \ {i}]
    /\ schedule_update(i)
    /\ UNCHANGED <<queueShutdown, token, live, mainVars, request>>

(* Mutant of DestroyInstance: the iterator stays on the erased element. *)
DestroyInstance_Stale(w, i) ==
    /\ pc[w] = "call"
    /\ i \in children[w] \cap live
    /\ Full(Parent[i])
    /\ live' = live \ {i}
    /\ UNCHANGED <<queue, queueShutdown, pending_requests, token, mainVars, workerVars>>

(* ... and destroys one whose unload timer runs out in this time slice, unless
   DestroyInstance finds players it cannot remove. *)
DestroyInstance(w, i) ==
    /\ pc[w] = "call"
    /\ i \in children[w]
    /\ Full(Parent[i])
    /\ children' = [children EXCEPT ![w] = @ \ {i}]
    /\ live' \in {live, live \ {i}}
    /\ UNCHANGED <<queue, queueShutdown, pending_requests, token, mainVars, pc, request>>

(* update_finished, the last statement of call(), and `delete request`. *)
update_finished(w) ==
    /\ pc[w] = "call"
    /\ children[w] = {}
    /\ pending_requests' = pending_requests - 1
    /\ WakeMain
    /\ pc' = [pc EXCEPT ![w] = "pop"]
    /\ request' = [request EXCEPT ![w] = NoRequest]
    /\ UNCHANGED <<queue, queueShutdown, token, live, mapUpdateStep, toSchedule, joinable,
                   children>>

WorkerStep(w) == \/ WaitAndPop(w)
                 \/ CheckToken(w)
                 \/ update_finished(w)
                 \/ \E i \in Instances : ScheduleInstance(w, i) \/ DestroyInstance(w, i)

(* The process is gone. *)
Terminated == main = "aborted" /\ UNCHANGED vars

Next == \/ MainStep
        \/ StopWorld
        \/ \E i \in Instances : CreateInstance(i)
        \/ \E w \in Workers : WorkerStep(w) \/ SpuriousWakeup(w)
        \/ Terminated

(* Every thread that can run is eventually scheduled. *)
Fairness == /\ WF_vars(MainStep)
            /\ \A w \in Workers : WF_vars(WorkerStep(w))

Spec == Init /\ [][Next]_vars /\ Fairness

-----------------------------------------------------------------------------
(* Every request counted in pending_requests is in the queue or in the hands of
   a worker that has still to call update_finished: the counter that ends a
   frame neither loses a request nor counts one twice. *)
PendingMatches == pending_requests = Len(queue) + Cardinality(Busy)

(* While the world thread creates, delays, unloads or deletes maps, no request is
   queued and no worker is inside one: the updater is a real barrier. *)
MainExclusive == main \in Exclusive => queue = <<>> /\ Busy = {}

(* No map is updated by two threads at once, and none is queued while it is being
   updated: Map::Update is not reentrant. *)
NoConcurrentUpdate ==
    /\ \A j, k \in DOMAIN queue : j # k => queue[j] # queue[k]
    /\ \A w \in Busy : \A k \in DOMAIN queue : queue[k] # request[w]
    /\ \A w, v \in Busy : w # v => request[w] # request[v]

(* No request refers to an instance that was destroyed, and no MapInstanced visits
   one: destroying instances inside a parallel frame deletes nothing in use. *)
NoDeadMap ==
    /\ \A k \in DOMAIN queue : queue[k] \in Instances => queue[k] \in live
    /\ \A w \in Workers : request[w] \in Instances => request[w] \in live
    /\ \A w \in Workers : children[w] \subseteq live

(* No worker calls through the null pointer that WaitAndPop leaves behind when the
   queue is cancelled. *)
NoNullCall == \A w \in Workers : pc[w] # "crashed"

(* The process does not abort: Main.cpp documents exit value 0 for a normal
   shutdown. *)
NormalExit == main # "aborted"

(* Every frame the world thread begins ends: no lost wakeup and no lost request. *)
FrameCompletes == main = "schedule" ~> main = "delayed"

(* Once the maps are unloaded every worker returns and is joined. *)
WorkersJoined == main = "deactivate" ~> joinable = {}

(* The threads implement the fork/join frame of FrameBarrier. *)
Frame == INSTANCE FrameBarrier WITH
    Roots <- BaseMaps \cup {Lfg},
    Children <- [b \in BaseMaps \cup {Lfg} |-> {i \in Instances : Parent[i] = b}],
    phase <- IF main \in {"world", "delayed"} THEN "exclusive"
             ELSE IF main \in {"schedule", "wait", "blocked"} THEN "frame" ELSE "stopped",
    left <- toSchedule,
    active <- {queue[k] : k \in DOMAIN queue} \cup {request[w] : w \in Busy}
ImplementsFrame == Frame!FBSpec
=============================================================================
