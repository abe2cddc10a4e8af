-------------------------- MODULE MapUpdater_proofs --------------------------
(***************************************************************************)
(* For any number of workers, base maps and instances: pending_requests    *)
(* counts the requests in flight, the world thread is alone outside a      *)
(* frame, no worker calls through a null request, no map is entered by two *)
(* workers at once or deleted while a request for it is open, and the      *)
(* detailed updater is a refinement of FrameBarrier.                       *)
(***************************************************************************)
EXTENDS MapUpdater, FiniteSetTheorems, SequenceTheorems, TLAPS

InFrame == main \in {"schedule", "wait", "blocked"}

(* A frame is the only place where requests are in flight. *)
IdleOutsideFrame == ~InFrame => pending_requests = 0

(* What a worker's program counter says of its local `request`. *)
RequestInHand == \A w \in Workers :
    /\ pc[w] \in {"pop", "asleep", "crashed"} => request[w] = NoRequest
    /\ pc[w] = "call" => request[w] # NoRequest
    /\ pc[w] = "popped" /\ request[w] = NoRequest => queueShutdown

(* deactivate() sets the token before it cancels the queue. *)
TokenFirst == /\ main \in {"drain", "drainBlocked", "cancel", "join", "exit", "aborted"} => token
              /\ queueShutdown => token

IInv == /\ TypeOK
        /\ PendingMatches
        /\ IdleOutsideFrame
        /\ RequestInHand
        /\ TokenFirst
        /\ NoNullCall

(* The set of workers with a request is finite, so it can be counted. *)
LEMMA BusyFinite == ASSUME TypeOK
                    PROVE  /\ IsFiniteSet(Busy)
                           /\ Cardinality(Busy) \in Nat
                           /\ Len(queue) \in Nat
  <1>1. IsFiniteSet(Busy)
    BY WorkersAssumption, FS_Subset DEF Busy
  <1>. QED  BY <1>1, FS_CardinalityType DEF TypeOK

(* A count of zero means an empty queue and idle workers. *)
LEMMA NothingPending == ASSUME TypeOK, PendingMatches, pending_requests = 0
                        PROVE  queue = <<>> /\ Busy = {}
  <1>1. Len(queue) = 0 /\ Cardinality(Busy) = 0
    BY BusyFinite DEF PendingMatches
  <1>2. queue = <<>>
    BY <1>1, EmptySeq DEF TypeOK
  <1>3. Busy = {}
    BY <1>1, BusyFinite, FS_EmptySet
  <1>. QED  BY <1>2, <1>3

LEMMA InitIInv == Init => IInv
  <1>. SUFFICES ASSUME Init PROVE IInv
    OBVIOUS
  <1>1. TypeOK
    <2>1. queue \in Seq(Request)
      BY EmptySeq DEF Init
    <2>2. /\ pc \in [Workers -> WorkerState]
          /\ request \in [Workers -> Request \cup {NoRequest}]
          /\ children \in [Workers -> SUBSET Instances]
      <3>1. pc \in [Workers -> WorkerState]
        BY DEF Init, WorkerState
      <3>2. request \in [Workers -> Request \cup {NoRequest}]
        BY DEF Init
      <3>3. children \in [Workers -> SUBSET Instances]
        <4>. DEFINE none == {}
        <4>1. none \in SUBSET Instances
          OBVIOUS
        <4>2. children = [w \in Workers |-> none]
          BY DEF Init
        <4>. HIDE DEF none
        <4>. QED  BY <4>1, <4>2
      <3>. QED  BY <3>1, <3>2, <3>3
    <2>3. /\ queueShutdown \in BOOLEAN /\ pending_requests \in Nat /\ token \in BOOLEAN
          /\ live \subseteq Instances /\ mapUpdateStep \in 0..3 /\ main \in MainState
          /\ toSchedule \subseteq BaseMaps /\ joinable \subseteq Workers
      <3>1. queueShutdown = FALSE /\ token = FALSE /\ pending_requests = 0
            /\ mapUpdateStep = 0 /\ main = "world"
        BY DEF Init
      <3>2. live = {} /\ toSchedule = {} /\ joinable = Workers
        BY DEF Init
      <3>3. queueShutdown \in BOOLEAN /\ token \in BOOLEAN
        BY <3>1
      <3>4. live \subseteq Instances /\ toSchedule \subseteq BaseMaps /\ joinable \subseteq Workers
        BY <3>2
      <3>. QED  BY <3>1, <3>3, <3>4 DEF MainState
    <2>. QED  BY <2>1, <2>2, <2>3 DEF TypeOK
  <1>2. Busy = {}
    BY DEF Init, Busy
  <1>3. PendingMatches
    BY <1>2, FS_EmptySet DEF Init, PendingMatches
  <1>. QED
    BY <1>1, <1>3 DEF IInv, Init, IdleOutsideFrame, InFrame, RequestInHand, TokenFirst, NoNullCall

-----------------------------------------------------------------------------
(* A worker that schedules an instance, and the world thread when it schedules a
   map, count and enqueue exactly one request and wake at most one worker. *)
LEMMA ScheduleCounts ==
  ASSUME TypeOK, PendingMatches, NEW m \in Request, schedule_update(m), request' = request
  PROVE  /\ queue' \in Seq(Request)
         /\ pending_requests' \in Nat
         /\ PendingMatches'
         /\ pc' \in [Workers -> WorkerState]
         /\ \A v \in Workers : pc'[v] = pc[v] \/ (pc[v] = "asleep" /\ pc'[v] = "pop")
  <1>1. /\ queue' \in Seq(Request)
        /\ Len(queue') = Len(queue) + 1
    BY AppendProperties DEF schedule_update, TypeOK
  <1>2. Busy' = Busy
    BY DEF Busy
  <1>3. pending_requests' = pending_requests + 1
    BY DEF schedule_update
  <1>4. PendingMatches' /\ pending_requests' \in Nat
    BY <1>1, <1>2, <1>3, BusyFinite DEF PendingMatches, TypeOK
  <1>5. /\ pc' \in [Workers -> WorkerState]
        /\ \A v \in Workers : pc'[v] = pc[v] \/ (pc[v] = "asleep" /\ pc'[v] = "pop")
    BY DEF schedule_update, NotifyOne, TypeOK, WorkerState
  <1>. QED  BY <1>1, <1>4, <1>5

(* A step that leaves the queue, the counter and the requests in hand alone
   leaves the count right. *)
LEMMA CountUnchanged ==
  ASSUME PendingMatches, UNCHANGED <<queue, pending_requests, request>>
  PROVE  PendingMatches'
  BY DEF PendingMatches, Busy

(* A worker inside a request keeps the counter positive, so the frame is open. *)
LEMMA CallInFrame ==
  ASSUME IInv, NEW w \in Workers, request[w] # NoRequest
  PROVE  pending_requests > 0 /\ InFrame
  <1>1. Busy # {}
    BY DEF Busy
  <1>2. pending_requests # 0
    BY <1>1, NothingPending DEF IInv
  <1>. QED  BY <1>2 DEF IInv, TypeOK, IdleOutsideFrame

-----------------------------------------------------------------------------
(* The steps of the world thread. *)
LEMMA MainStepIInv == ASSUME IInv, MainStep PROVE IInv'
  <1>. USE DEF IInv
  <1>1. CASE BeginFrame
    <2>1. /\ queue' \in Seq(Request) /\ pending_requests' \in Nat /\ PendingMatches'
          /\ pc' \in [Workers -> WorkerState]
          /\ \A v \in Workers : pc'[v] = pc[v] \/ (pc[v] = "asleep" /\ pc'[v] = "pop")
      BY <1>1, ScheduleCounts DEF BeginFrame, Request
    <2>2. TypeOK'
      BY <1>1, <2>1 DEF BeginFrame, TypeOK, MainState
    <2>3. RequestInHand' /\ NoNullCall'
      BY <1>1, <2>1 DEF BeginFrame, RequestInHand, NoNullCall
    <2>4. IdleOutsideFrame' /\ TokenFirst'
      BY <1>1 DEF BeginFrame, IdleOutsideFrame, InFrame, TokenFirst
    <2>. QED  BY <2>1, <2>2, <2>3, <2>4
  <1>2. ASSUME NEW b \in BaseMaps, ScheduleMap(b) PROVE IInv'
    <2>1. /\ queue' \in Seq(Request) /\ pending_requests' \in Nat /\ PendingMatches'
          /\ pc' \in [Workers -> WorkerState]
          /\ \A v \in Workers : pc'[v] = pc[v] \/ (pc[v] = "asleep" /\ pc'[v] = "pop")
      BY <1>2, ScheduleCounts DEF ScheduleMap, Request
    <2>2. TypeOK'
      BY <1>2, <2>1 DEF ScheduleMap, TypeOK, MainState
    <2>3. RequestInHand' /\ NoNullCall'
      BY <1>2, <2>1 DEF ScheduleMap, RequestInHand, NoNullCall
    <2>4. IdleOutsideFrame' /\ TokenFirst'
      BY <1>2 DEF ScheduleMap, IdleOutsideFrame, InFrame, TokenFirst
    <2>. QED  BY <2>1, <2>2, <2>3, <2>4
  <1>3. CASE Cancel
    <2>1. queue = <<>> /\ pending_requests = 0
      BY <1>3, NothingPending DEF Cancel, IdleOutsideFrame, InFrame
    <2>2. UNCHANGED <<queue, pending_requests, request>>
      BY <1>3, <2>1 DEF Cancel
    <2>3. TypeOK'
      BY <1>3, <2>2 DEF Cancel, TypeOK, MainState, WorkerState
    <2>4. RequestInHand' /\ NoNullCall' /\ IdleOutsideFrame' /\ TokenFirst'
      BY <1>3, <2>1, <2>2 DEF Cancel, TypeOK, RequestInHand, NoNullCall, IdleOutsideFrame,
                             InFrame, TokenFirst
    <2>. QED  BY <2>2, <2>3, <2>4, CountUnchanged
  <1>4. CASE Wait \/ Delayed \/ UnloadAll \/ SetToken \/ Drain \/ Destruct \/ JoinAgain
             \/ \E w \in Workers : Join(w)
    <2>1. UNCHANGED <<queue, queueShutdown, pending_requests, request, pc, children>>
      BY <1>4 DEF Wait, Delayed, UnloadAll, SetToken, Drain, Destruct, JoinAgain, Join, workerVars
    <2>2. TypeOK'
      <3>1. /\ main' \in MainState /\ live' \subseteq Instances
            /\ token' \in BOOLEAN /\ joinable' \subseteq Workers
        BY <1>4 DEF Wait, Delayed, UnloadAll, SetToken, Drain, Destruct, JoinAgain, Join,
                    WaitPending, TypeOK, MainState
      <3>2. mapUpdateStep' \in 0..3 /\ toSchedule' \subseteq BaseMaps
        BY <1>4 DEF Wait, Delayed, UnloadAll, SetToken, Drain, Destruct, JoinAgain, Join, TypeOK
      <3>. QED  BY <2>1, <3>1, <3>2 DEF TypeOK
    <2>3. IdleOutsideFrame'
      BY <1>4, <2>1 DEF Wait, Delayed, UnloadAll, SetToken, Drain, Destruct, JoinAgain, Join,
                        WaitPending, TypeOK, IdleOutsideFrame, InFrame
    <2>4. TokenFirst'
      BY <1>4, <2>1 DEF Wait, Delayed, UnloadAll, SetToken, Drain, Destruct, JoinAgain, Join,
                        WaitPending, TokenFirst
    <2>5. RequestInHand' /\ NoNullCall'
      BY <2>1 DEF RequestInHand, NoNullCall
    <2>. QED  BY <2>1, <2>2, <2>3, <2>4, <2>5, CountUnchanged
  <1>. QED  BY <1>1, <1>2, <1>3, <1>4 DEF MainStep

-----------------------------------------------------------------------------
(* The steps of a worker. *)
LEMMA WorkerStepIInv == ASSUME IInv, NEW w \in Workers, WorkerStep(w) PROVE IInv'
  <1>. USE DEF IInv
  <1>1. CASE WaitAndPop(w)
    <2>1. CASE queue # <<>> /\ ~queueShutdown
      <3>1. /\ request' = [request EXCEPT ![w] = Head(queue)]
            /\ queue' = Tail(queue)
            /\ pc' = [pc EXCEPT ![w] = "popped"]
            /\ UNCHANGED <<queueShutdown, pending_requests, token, live, mainVars, children>>
        BY <1>1, <2>1 DEF WaitAndPop
      <3>2. /\ Head(queue) \in Request
            /\ queue' \in Seq(Request)
            /\ Len(queue') = Len(queue) - 1
        BY <2>1, <3>1, HeadTailProperties DEF TypeOK
      <3>3. Head(queue) # NoRequest
        BY <3>2, MapsAssumption DEF Request
      <3>4. w \notin Busy
        BY <1>1 DEF WaitAndPop, RequestInHand, Busy
      <3>5. Busy' = Busy \cup {w}
        BY <3>1, <3>3 DEF Busy, TypeOK
      <3>6. Cardinality(Busy') = Cardinality(Busy) + 1
        BY <3>4, <3>5, BusyFinite, FS_AddElement
      <3>7. PendingMatches'
        BY <3>1, <3>2, <3>6, BusyFinite DEF PendingMatches
      <3>8. TypeOK'
        <4>1. pc' \in [Workers -> WorkerState] /\ request' \in [Workers -> Request \cup {NoRequest}]
          BY <3>1, <3>2 DEF TypeOK, WorkerState
        <4>. QED  BY <3>1, <3>2, <4>1 DEF TypeOK, mainVars
      <3>9. RequestInHand' /\ NoNullCall'
        BY <3>1, <3>3 DEF RequestInHand, NoNullCall, TypeOK
      <3>. QED
        BY <3>1, <3>7, <3>8, <3>9 DEF mainVars, IdleOutsideFrame, InFrame, TokenFirst
    <2>2. CASE queueShutdown \/ queue = <<>>
      <3>1. /\ \/ pc' = [pc EXCEPT ![w] = "asleep"]
               \/ pc' = [pc EXCEPT ![w] = "popped"] /\ queueShutdown
            /\ pc[w] = "pop"
            /\ UNCHANGED <<queue, request, queueShutdown, pending_requests, token, live,
                           mainVars, children>>
        BY <1>1, <2>2 DEF WaitAndPop
      <3>2. TypeOK'
        BY <3>1 DEF TypeOK, WorkerState, mainVars
      <3>3. RequestInHand' /\ NoNullCall'
        BY <3>1 DEF RequestInHand, NoNullCall, TypeOK
      <3>. QED
        BY <3>1, <3>2, <3>3, CountUnchanged DEF mainVars, IdleOutsideFrame, InFrame, TokenFirst
    <2>. QED  BY <2>1, <2>2
  <1>2. CASE CheckToken(w)
    <2>1. UNCHANGED <<queue, queueShutdown, pending_requests, token, live, mainVars, request>>
      BY <1>2 DEF CheckToken
    <2>2. /\ pc[w] = "popped"
          /\ \/ token /\ pc' = [pc EXCEPT ![w] = "exited"]
             \/ request[w] # NoRequest /\ pc' = [pc EXCEPT ![w] = "call"]
      BY <1>2 DEF CheckToken, RequestInHand, TokenFirst
    <2>3. TypeOK'
      <3>1. pc' \in [Workers -> WorkerState]
        BY <2>2 DEF TypeOK, WorkerState
      <3>2. children' \in [Workers -> SUBSET Instances]
        BY <1>2 DEF CheckToken, TypeOK, InstancesOf
      <3>. QED  BY <2>1, <3>1, <3>2 DEF TypeOK, mainVars
    <2>4. RequestInHand' /\ NoNullCall'
      BY <2>1, <2>2 DEF RequestInHand, NoNullCall, TypeOK
    <2>. QED
      BY <2>1, <2>3, <2>4, CountUnchanged DEF mainVars, IdleOutsideFrame, InFrame, TokenFirst
  <1>3. CASE update_finished(w)
    <2>1. request[w] # NoRequest
      BY <1>3 DEF update_finished, RequestInHand
    <2>2. pending_requests > 0 /\ InFrame
      BY <2>1, CallInFrame
    <2>3. w \in Busy /\ Busy' = Busy \ {w}
      BY <1>3, <2>1 DEF update_finished, Busy, TypeOK
    <2>4. Cardinality(Busy') = Cardinality(Busy) - 1
      BY <2>3, BusyFinite, FS_RemoveElement
    <2>5. PendingMatches'
      BY <1>3, <2>4, BusyFinite DEF update_finished, PendingMatches
    <2>6. pending_requests' \in Nat
      BY <1>3, <2>2 DEF update_finished, TypeOK
    <2>7. main' \in {"schedule", "wait"}
      BY <1>3, <2>2 DEF update_finished, WakeMain, InFrame
    <2>8. TypeOK'
      BY <1>3, <2>6, <2>7 DEF update_finished, TypeOK, MainState, WorkerState
    <2>9. RequestInHand' /\ NoNullCall'
      BY <1>3 DEF update_finished, RequestInHand, NoNullCall, TypeOK
    <2>. QED
      BY <1>3, <2>5, <2>7, <2>8, <2>9 DEF update_finished, IdleOutsideFrame, InFrame, TokenFirst
  <1>4. ASSUME NEW i \in Instances, ScheduleInstance(w, i) PROVE IInv'
    <2>1. request[w] # NoRequest
      BY <1>4 DEF ScheduleInstance, RequestInHand
    <2>2. InFrame
      BY <2>1, CallInFrame
    <2>3. /\ queue' \in Seq(Request) /\ pending_requests' \in Nat /\ PendingMatches'
          /\ pc' \in [Workers -> WorkerState]
          /\ \A v \in Workers : pc'[v] = pc[v] \/ (pc[v] = "asleep" /\ pc'[v] = "pop")
      BY <1>4, ScheduleCounts DEF ScheduleInstance, Request
    <2>4. TypeOK'
      BY <1>4, <2>3 DEF ScheduleInstance, TypeOK, mainVars
    <2>5. RequestInHand' /\ NoNullCall'
      BY <1>4, <2>3 DEF ScheduleInstance, RequestInHand, NoNullCall
    <2>. QED
      BY <1>4, <2>2, <2>3, <2>4, <2>5
         DEF ScheduleInstance, mainVars, IdleOutsideFrame, InFrame, TokenFirst
  <1>5. ASSUME NEW i \in Instances, DestroyInstance(w, i) PROVE IInv'
    <2>1. UNCHANGED <<queue, queueShutdown, pending_requests, token, mainVars, pc, request>>
      BY <1>5 DEF DestroyInstance
    <2>2. TypeOK'
      BY <1>5 DEF DestroyInstance, TypeOK, mainVars
    <2>. QED
      BY <2>1, <2>2, CountUnchanged
         DEF mainVars, IdleOutsideFrame, InFrame, RequestInHand, TokenFirst, NoNullCall
  <1>. QED  BY <1>1, <1>2, <1>3, <1>4, <1>5 DEF WorkerStep

(* The remaining steps: the stop flag, a new instance, a spurious wakeup. *)
LEMMA OtherStepIInv ==
  ASSUME IInv,
         \/ StopWorld
         \/ \E i \in Instances : CreateInstance(i)
         \/ \E w \in Workers : SpuriousWakeup(w)
         \/ Terminated
         \/ UNCHANGED vars
  PROVE  IInv'
  <1>. USE DEF IInv
  <1>1. CASE StopWorld
    BY <1>1, CountUnchanged DEF StopWorld, TypeOK, MainState, workerVars, IdleOutsideFrame,
                                InFrame, RequestInHand, TokenFirst, NoNullCall
  <1>2. ASSUME NEW i \in Instances, CreateInstance(i) PROVE IInv'
    BY <1>2, CountUnchanged DEF CreateInstance, TypeOK, mainVars, workerVars, IdleOutsideFrame,
                                InFrame, RequestInHand, TokenFirst, NoNullCall
  <1>3. ASSUME NEW w \in Workers, SpuriousWakeup(w) PROVE IInv'
    BY <1>3, CountUnchanged DEF SpuriousWakeup, TypeOK, WorkerState, mainVars, IdleOutsideFrame,
                                InFrame, RequestInHand, TokenFirst, NoNullCall
  <1>4. CASE Terminated \/ UNCHANGED vars
    BY <1>4, CountUnchanged DEF Terminated, vars, TypeOK, mainVars, workerVars, IdleOutsideFrame,
                                InFrame, RequestInHand, TokenFirst, NoNullCall
  <1>. QED  BY <1>1, <1>2, <1>3, <1>4

-----------------------------------------------------------------------------
(* The strengthened invariant holds in every behaviour of the updater, whatever
   the number of threads and maps. *)
THEOREM Invariance == Spec => []IInv
  <1>1. IInv /\ [Next]_vars => IInv'
    BY MainStepIInv, WorkerStepIInv, OtherStepIInv DEF Next
  <1>. QED  BY InitIInv, <1>1, PTL DEF Spec

(* Type correctness: in particular pending_requests, an unsigned size_t, never
   falls below zero. *)
THEOREM TypeCorrect == Spec => []TypeOK
  BY Invariance, PTL DEF IInv

(* pending_requests counts exactly the requests queued or in a worker's hands. *)
THEOREM PendingCorrect == Spec => []PendingMatches
  BY Invariance, PTL DEF IInv

(* The wait of MapManager::Update is a barrier: outside a frame the world thread
   shares no map with a worker. *)
THEOREM Exclusion == Spec => []MainExclusive
  <1>1. IInv => MainExclusive
    BY NothingPending DEF IInv, MainExclusive, Exclusive, IdleOutsideFrame, InFrame
  <1>. QED  BY Invariance, <1>1, PTL

(* Cancelling the queue never makes a worker call through a null request. *)
THEOREM NullSafe == Spec => []NoNullCall
  BY Invariance, PTL DEF IInv

-----------------------------------------------------------------------------
(* No map is updated twice, and none is used after it was destroyed. *)

Queued == {queue[k] : k \in DOMAIN queue}
InFlight == Queued \cup {request[w] : w \in Busy}

(* What the world thread has still to schedule is not in flight. *)
ScheduledOnce == /\ \A b \in toSchedule : b \notin InFlight
                 /\ main # "schedule" => toSchedule = {}

(* The instances a worker has still to visit exist, belong to the map it updates, and were
   not scheduled in this frame. *)
VisitedOnce == \A w \in Workers : \A i \in children[w] :
    pc[w] = "call" /\ request[w] = Parent[i] /\ i \in live /\ i \notin InFlight

(* An instance in flight exists, and its map has been visited: no worker will look for its
   instances again in this frame. *)
ParentFirst == \A i \in Instances : i \in InFlight =>
    /\ i \in live
    /\ Parent[i] \notin toSchedule /\ Parent[i] \notin Queued
    /\ \A w \in Workers : pc[w] = "popped" => request[w] # Parent[i]

MapsInv == NoConcurrentUpdate /\ ScheduledOnce /\ VisitedOnce /\ ParentFirst

(* What follows from IInv of the one who has a request in hand. *)
LEMMA InHandInFlight == ASSUME NEW w \in Workers, request[w] # NoRequest
                        PROVE  w \in Busy /\ request[w] \in InFlight
  BY DEF Busy, InFlight

LEMMA InFlightUnchanged == ASSUME UNCHANGED <<queue, request>>
                           PROVE  /\ Queued' = Queued /\ InFlight' = InFlight
                                  /\ NoConcurrentUpdate <=> NoConcurrentUpdate'
  BY DEF Queued, InFlight, Busy, NoConcurrentUpdate

(* While the world thread is alone, nothing is in flight and nobody visits a map. *)
LEMMA QuietWhenIdle == ASSUME IInv, MapsInv, ~InFrame
                       PROVE  /\ InFlight = {}
                              /\ \A w \in Workers : children[w] = {}
  <1>1. queue = <<>> /\ Busy = {}
    BY NothingPending DEF IInv, IdleOutsideFrame
  <1>2. Queued = {}
    BY <1>1 DEF Queued
  <1>3. InFlight = {}
    BY <1>1, <1>2 DEF InFlight
  <1>4. ASSUME NEW w \in Workers PROVE children[w] = {}
    <2>1. request[w] = NoRequest
      BY <1>1 DEF Busy
    <2>2. pc[w] # "call"
      BY <2>1 DEF IInv, RequestInHand
    <2>. QED  BY <2>2 DEF MapsInv, VisitedOnce
  <1>. QED  BY <1>3, <1>4

(* schedule_update adds to what is in flight a request that was not. *)
LEMMA ScheduleFlight ==
  ASSUME TypeOK, NoConcurrentUpdate, NEW m \in Request, m \notin InFlight,
         schedule_update(m), request' = request
  PROVE  /\ NoConcurrentUpdate'
         /\ Queued' = Queued \cup {m} /\ InFlight' = InFlight \cup {m}
  <1>1. /\ queue' = Append(queue, m) /\ queue \in Seq(Request)
        /\ queue' \in Seq(Request) /\ Len(queue') = Len(queue) + 1 /\ Len(queue) \in Nat
        /\ DOMAIN queue = 1..Len(queue) /\ DOMAIN queue' = 1..Len(queue) + 1
        /\ \A k \in 1..Len(queue) : queue'[k] = queue[k]
        /\ queue'[Len(queue) + 1] = m
    BY AppendProperties, LenProperties DEF schedule_update, TypeOK
  <1>2. Queued' = Queued \cup {m}
    BY <1>1 DEF Queued
  <1>3. Busy' = Busy
    BY DEF Busy
  <1>4. \A k \in DOMAIN queue : queue[k] # m
    BY DEF InFlight, Queued
  <1>5. \A v \in Busy : request[v] # m
    BY DEF InFlight
  <1>6. \A j, k \in DOMAIN queue' : j # k => queue'[j] # queue'[k]
    <2>. SUFFICES ASSUME NEW j \in 1..Len(queue) + 1, NEW k \in 1..Len(queue) + 1, j # k
                  PROVE  queue'[j] # queue'[k]
      BY <1>1
    <2>1. CASE j \in 1..Len(queue) /\ k \in 1..Len(queue)
      BY <1>1, <2>1 DEF NoConcurrentUpdate
    <2>2. CASE j = Len(queue) + 1 /\ k \in 1..Len(queue)
      BY <1>1, <1>4, <2>2
    <2>3. CASE k = Len(queue) + 1 /\ j \in 1..Len(queue)
      BY <1>1, <1>4, <2>3
    <2>. QED  BY <1>1, <2>1, <2>2, <2>3
  <1>7. \A v \in Busy' : \A k \in DOMAIN queue' : queue'[k] # request'[v]
    <2>. SUFFICES ASSUME NEW v \in Busy, NEW k \in 1..Len(queue) + 1
                  PROVE  queue'[k] # request[v]
      BY <1>1, <1>3
    <2>1. CASE k \in 1..Len(queue)
      BY <1>1, <2>1 DEF NoConcurrentUpdate
    <2>2. CASE k = Len(queue) + 1
      BY <1>1, <1>5, <2>2
    <2>. QED  BY <1>1, <2>1, <2>2
  <1>8. \A v, u \in Busy' : v # u => request'[v] # request'[u]
    BY <1>3 DEF NoConcurrentUpdate
  <1>. QED  BY <1>2, <1>3, <1>6, <1>7, <1>8 DEF NoConcurrentUpdate, InFlight

(* A worker that pops a request takes it out of the queue and has it in hand. *)
LEMMA PopFlight ==
  ASSUME IInv, NoConcurrentUpdate, NEW w \in Workers, pc[w] = "pop", queue # <<>>,
         queue' = Tail(queue), request' = [request EXCEPT ![w] = Head(queue)]
  PROVE  /\ NoConcurrentUpdate'
         /\ InFlight' = InFlight
         /\ Queued' \subseteq Queued
         /\ Head(queue) \in Queued /\ Head(queue) \in Request
         /\ Head(queue) \notin Queued'
  <1>1. /\ queue \in Seq(Request) /\ Head(queue) = queue[1] /\ Head(queue) \in Request
        /\ queue' \in Seq(Request) /\ Len(queue) \in Nat /\ Len(queue') = Len(queue) - 1
        /\ DOMAIN queue = 1..Len(queue) /\ DOMAIN queue' = 1..Len(queue) - 1
        /\ \A k \in 1..Len(queue) - 1 : queue'[k] = queue[k + 1]
        /\ Len(queue) >= 1
    BY HeadTailProperties, LenProperties, EmptySeq DEF IInv, TypeOK
  <1>2. request[w] = NoRequest /\ Head(queue) # NoRequest
    BY <1>1, MapsAssumption DEF IInv, RequestInHand, Request
  <1>3. /\ Busy' = Busy \cup {w} /\ w \notin Busy
        /\ request'[w] = queue[1]
        /\ \A v \in Busy : request'[v] = request[v]
    BY <1>1, <1>2 DEF IInv, TypeOK, Busy
  <1>4. /\ \A k \in 1..Len(queue) - 1 : queue'[k] \in Queued /\ queue'[k] # queue[1]
        /\ queue[1] \in Queued
        /\ \A k \in 1..Len(queue) : k = 1 \/ queue[k] = queue'[k - 1]
    <2>1. ASSUME NEW k \in 1..Len(queue) - 1 PROVE queue'[k] \in Queued /\ queue'[k] # queue[1]
      <3>1. k + 1 \in 1..Len(queue) /\ 1 \in 1..Len(queue) /\ k + 1 # 1
        BY <1>1
      <3>2. queue[k + 1] # queue[1]
        BY <1>1, <3>1 DEF NoConcurrentUpdate
      <3>3. queue[k + 1] \in Queued
        BY <1>1, <3>1 DEF Queued
      <3>. QED  BY <1>1, <3>2, <3>3
    <2>2. queue[1] \in Queued
      BY <1>1 DEF Queued
    <2>3. ASSUME NEW k \in 1..Len(queue), k # 1 PROVE queue[k] = queue'[k - 1]
      <3>1. k - 1 \in 1..Len(queue) - 1 /\ (k - 1) + 1 = k
        BY <1>1, <2>3
      <3>2. queue'[k - 1] = queue[(k - 1) + 1]
        BY <1>1, <3>1
      <3>. QED  BY <3>1, <3>2
    <2>. QED  BY <2>1, <2>2, <2>3
  <1>5. Queued' \subseteq Queued /\ queue[1] \notin Queued'
    BY <1>1, <1>4 DEF Queued
  <1>6. Queued = Queued' \cup {queue[1]}
    <2>1. ASSUME NEW k \in 1..Len(queue), k # 1 PROVE queue[k] \in Queued'
      <3>1. k - 1 \in 1..Len(queue) - 1
        BY <1>1, <2>1
      <3>2. queue'[k - 1] \in Queued'
        BY <1>1, <3>1 DEF Queued
      <3>. QED  BY <1>4, <2>1, <3>2
    <2>2. \A k \in DOMAIN queue : queue[k] \in Queued' \cup {queue[1]}
      BY <1>1, <2>1
    <2>3. Queued \subseteq Queued' \cup {queue[1]}
      BY <2>2 DEF Queued
    <2>. QED  BY <1>4, <1>5, <2>3
  <1>7. InFlight' = InFlight
    <2>1. {request'[v] : v \in Busy'} = {request[v] : v \in Busy} \cup {queue[1]}
      BY <1>3
    <2>. QED  BY <1>6, <2>1 DEF InFlight
  <1>8. \A j, k \in DOMAIN queue' : j # k => queue'[j] # queue'[k]
    <2>. SUFFICES ASSUME NEW j \in 1..Len(queue) - 1, NEW k \in 1..Len(queue) - 1, j # k
                  PROVE  queue'[j] # queue'[k]
      BY <1>1
    <2>1. j + 1 \in DOMAIN queue /\ k + 1 \in DOMAIN queue /\ j + 1 # k + 1
      BY <1>1
    <2>2. queue[j + 1] # queue[k + 1]
      BY <2>1 DEF NoConcurrentUpdate
    <2>. QED  BY <1>1, <2>2
  <1>9. \A v \in Busy' : \A k \in DOMAIN queue' : queue'[k] # request'[v]
    <2>. SUFFICES ASSUME NEW v \in Busy \cup {w}, NEW k \in 1..Len(queue) - 1
                  PROVE  queue'[k] # request'[v]
      BY <1>1, <1>3
    <2>1. CASE v = w
      BY <1>3, <1>4, <2>1
    <2>2. CASE v \in Busy
      <3>1. k + 1 \in DOMAIN queue
        BY <1>1
      <3>2. queue[k + 1] # request[v]
        BY <2>2, <3>1 DEF NoConcurrentUpdate
      <3>. QED  BY <1>1, <1>3, <2>2, <3>2
    <2>. QED  BY <2>1, <2>2
  <1>10. \A v, u \in Busy' : v # u => request'[v] # request'[u]
    <2>1. \A v \in Busy : request[v] # queue[1]
      BY <1>1 DEF NoConcurrentUpdate
    <2>. QED  BY <1>3, <2>1 DEF NoConcurrentUpdate
  <1>. QED  BY <1>1, <1>4, <1>5, <1>7, <1>8, <1>9, <1>10 DEF NoConcurrentUpdate

(* A worker that is done takes its request, and no other, out of what is in flight. *)
LEMMA FinishFlight ==
  ASSUME TypeOK, NoConcurrentUpdate, NEW w \in Busy, queue' = queue,
         request' = [request EXCEPT ![w] = NoRequest]
  PROVE  /\ NoConcurrentUpdate'
         /\ Queued' = Queued
         /\ InFlight' = InFlight \ {request[w]}
  <1>1. w \in Workers /\ request[w] # NoRequest
    BY DEF Busy
  <1>2. /\ Busy' = Busy \ {w}
        /\ \A v \in Busy' : request'[v] = request[v] /\ request[v] # request[w]
    BY <1>1 DEF TypeOK, Busy, NoConcurrentUpdate
  <1>3. Queued' = Queued /\ request[w] \notin Queued
    BY DEF Queued, NoConcurrentUpdate
  <1>4. {request'[v] : v \in Busy'} = {request[v] : v \in Busy} \ {request[w]}
    BY <1>2
  <1>. QED  BY <1>2, <1>3, <1>4 DEF InFlight, NoConcurrentUpdate

LEMMA InitMapsInv == Init => MapsInv
  <1>. SUFFICES ASSUME Init PROVE MapsInv
    OBVIOUS
  <1>1. Busy = {} /\ Queued = {}
    BY DEF Init, Busy, Queued
  <1>2. InFlight = {}
    BY <1>1 DEF InFlight
  <1>3. NoConcurrentUpdate
    BY <1>1 DEF Init, NoConcurrentUpdate
  <1>. QED
    BY <1>2, <1>3 DEF Init, MapsInv, ScheduledOnce, VisitedOnce, ParentFirst

(* The steps of the world thread. *)
LEMMA MainStepMaps == ASSUME IInv, MapsInv, MainStep PROVE MapsInv'
  <1>. USE DEF MapsInv
  <1>1. CASE BeginFrame
    <2>1. InFlight = {} /\ \A w \in Workers : children[w] = {}
      BY <1>1, QuietWhenIdle DEF BeginFrame, InFrame
    <2>2. /\ NoConcurrentUpdate' /\ InFlight' = {Lfg}
      BY <1>1, <2>1, ScheduleFlight DEF BeginFrame, IInv, Request
    <2>3. Lfg \notin BaseMaps \cup Instances
      BY MapsAssumption
    <2>4. ScheduledOnce'
      BY <1>1, <2>2, <2>3 DEF BeginFrame, ScheduledOnce
    <2>5. VisitedOnce' /\ ParentFirst'
      BY <1>1, <2>1, <2>2, <2>3 DEF BeginFrame, VisitedOnce, ParentFirst
    <2>. QED  BY <2>2, <2>4, <2>5
  <1>2. ASSUME NEW b \in BaseMaps, ScheduleMap(b) PROVE MapsInv'
    <2>1. b \notin InFlight
      BY <1>2 DEF ScheduleMap, ScheduledOnce
    <2>2. /\ NoConcurrentUpdate'
          /\ Queued' = Queued \cup {b} /\ InFlight' = InFlight \cup {b}
      BY <1>2, <2>1, ScheduleFlight DEF ScheduleMap, IInv, Request
    <2>3. \A v \in Workers : pc'[v] = pc[v] \/ (pc[v] = "asleep" /\ pc'[v] = "pop")
      BY <1>2, ScheduleCounts DEF ScheduleMap, IInv, Request
    <2>4. /\ toSchedule' = toSchedule \ {b} /\ b \in toSchedule /\ main = "schedule"
          /\ main' # "schedule" => toSchedule' = {}
          /\ UNCHANGED <<live, request, children>>
          /\ b \notin Instances
      BY <1>2, MapsAssumption DEF ScheduleMap
    <2>5. ScheduledOnce'
      BY <2>2, <2>4 DEF ScheduledOnce
    <2>6. VisitedOnce'
      <3>. SUFFICES ASSUME NEW v \in Workers, NEW i \in children[v]
                    PROVE  /\ pc'[v] = "call" /\ request[v] = Parent[i]
                           /\ i \in live /\ i \notin InFlight \cup {b}
        BY <2>2, <2>4 DEF VisitedOnce
      <3>1. i \in Instances
        BY DEF IInv, TypeOK
      <3>2. pc[v] = "call" /\ request[v] = Parent[i] /\ i \in live /\ i \notin InFlight
        BY DEF VisitedOnce
      <3>. QED  BY <2>3, <2>4, <3>1, <3>2
    <2>7. ParentFirst'
      BY <2>2, <2>3, <2>4 DEF ParentFirst
    <2>. QED  BY <2>2, <2>5, <2>6, <2>7
  <1>3. CASE Cancel
    <2>1. queue = <<>>
      BY <1>3, NothingPending DEF Cancel, IInv, IdleOutsideFrame, InFrame
    <2>2. /\ UNCHANGED <<queue, request, live, toSchedule, children>>
          /\ toSchedule = {}
      BY <1>3, <2>1 DEF Cancel, ScheduledOnce
    <2>3. \A v \in Workers : pc'[v] = pc[v] \/ (pc[v] = "asleep" /\ pc'[v] = "pop")
      BY <1>3 DEF Cancel
    <2>4. ScheduledOnce' /\ VisitedOnce' /\ ParentFirst'
      BY <2>2, <2>3, InFlightUnchanged DEF ScheduledOnce, VisitedOnce, ParentFirst
    <2>. QED  BY <2>2, <2>4, InFlightUnchanged
  <1>4. CASE UnloadAll
    <2>1. InFlight = {} /\ \A w \in Workers : children[w] = {}
      BY <1>4, QuietWhenIdle DEF UnloadAll, InFrame
    <2>2. /\ UNCHANGED <<queue, request, toSchedule, children>>
          /\ toSchedule = {}
      BY <1>4 DEF UnloadAll, ScheduledOnce, workerVars
    <2>3. ScheduledOnce' /\ VisitedOnce' /\ ParentFirst'
      BY <2>1, <2>2, InFlightUnchanged DEF ScheduledOnce, VisitedOnce, ParentFirst
    <2>. QED  BY <2>2, <2>3, InFlightUnchanged
  <1>5. CASE Wait \/ Delayed \/ SetToken \/ Drain \/ Destruct \/ JoinAgain
             \/ \E w \in Workers : Join(w)
    <2>1. UNCHANGED <<queue, live, toSchedule, pc, request, children>>
      BY <1>5 DEF Wait, Delayed, SetToken, Drain, Destruct, JoinAgain, Join, workerVars
    <2>2. toSchedule = {}
      BY <1>5 DEF Wait, Delayed, SetToken, Drain, Destruct, JoinAgain, Join, ScheduledOnce
    <2>3. ScheduledOnce' /\ VisitedOnce' /\ ParentFirst'
      BY <2>1, <2>2, InFlightUnchanged DEF ScheduledOnce, VisitedOnce, ParentFirst
    <2>. QED  BY <2>1, <2>3, InFlightUnchanged
  <1>. QED  BY <1>1, <1>2, <1>3, <1>4, <1>5 DEF MainStep

(* The steps of a worker. *)
LEMMA WorkerStepMaps == ASSUME IInv, MapsInv, NEW w \in Workers, WorkerStep(w) PROVE MapsInv'
  <1>. USE DEF MapsInv
  <1>1. CASE WaitAndPop(w)
    <2>1. /\ pc[w] = "pop" /\ UNCHANGED <<live, main, toSchedule, children>>
          /\ \A v \in Workers : v # w => pc'[v] = pc[v]
      BY <1>1 DEF WaitAndPop, mainVars, IInv, TypeOK
    <2>2. children[w] = {}
      BY <2>1 DEF VisitedOnce
    <2>3. CASE UNCHANGED <<queue, request>> /\ pc'[w] \in {"asleep", "popped"}
      <3>1. request[w] \notin BaseMaps
        BY <2>1, MapsAssumption DEF IInv, RequestInHand
      <3>2. ScheduledOnce' /\ VisitedOnce'
        BY <2>1, <2>2, <2>3, InFlightUnchanged DEF ScheduledOnce, VisitedOnce
      <3>3. ParentFirst'
        BY <2>1, <2>3, <3>1, InFlightUnchanged, MapsAssumption DEF ParentFirst
      <3>. QED  BY <2>3, <3>2, <3>3, InFlightUnchanged
    <2>4. CASE /\ queue # <<>> /\ pc' = [pc EXCEPT ![w] = "popped"]
               /\ request' = [request EXCEPT ![w] = Head(queue)] /\ queue' = Tail(queue)
      <3>1. /\ NoConcurrentUpdate' /\ InFlight' = InFlight /\ Queued' \subseteq Queued
            /\ Head(queue) \in Queued
        BY <2>1, <2>4, PopFlight
      <3>2. /\ request'[w] = Head(queue)
            /\ \A v \in Workers : v # w => request'[v] = request[v]
        BY <2>4 DEF IInv, TypeOK
      <3>3. ScheduledOnce'
        BY <2>1, <3>1 DEF ScheduledOnce
      <3>4. VisitedOnce'
        BY <2>1, <2>2, <3>1, <3>2 DEF VisitedOnce
      <3>5. ParentFirst'
        BY <2>1, <3>1, <3>2 DEF ParentFirst
      <3>. QED  BY <3>1, <3>3, <3>4, <3>5
    <2>5. \/ UNCHANGED <<queue, request>> /\ pc'[w] \in {"asleep", "popped"}
          \/ /\ queue # <<>> /\ pc' = [pc EXCEPT ![w] = "popped"]
             /\ request' = [request EXCEPT ![w] = Head(queue)] /\ queue' = Tail(queue)
      BY <1>1 DEF WaitAndPop, IInv, TypeOK
    <2>. QED  BY <2>3, <2>4, <2>5
  <1>2. CASE CheckToken(w)
    <2>1. /\ pc[w] = "popped" /\ UNCHANGED <<queue, request, live, main, toSchedule>>
          /\ \A v \in Workers : v # w => pc'[v] = pc[v] /\ children'[v] = children[v]
          /\ pc'[w] # "popped"
          /\ \/ children'[w] = {}
             \/ /\ request[w] \in BaseMaps /\ pc'[w] = "call"
                /\ children'[w] = InstancesOf(request[w])
      BY <1>2, MapsAssumption DEF CheckToken, mainVars, IInv, TypeOK
    <2>2. VisitedOnce'
      <3>. SUFFICES ASSUME NEW v \in Workers, NEW i \in children'[v]
                    PROVE  /\ pc'[v] = "call" /\ request[v] = Parent[i]
                           /\ i \in live /\ i \notin InFlight
        BY <2>1, InFlightUnchanged DEF VisitedOnce
      <3>1. CASE v # w
        BY <2>1, <3>1 DEF VisitedOnce
      <3>2. CASE v = w
        <4>1. /\ pc'[w] = "call" /\ i \in live /\ Parent[i] = request[w] /\ i \in Instances
          BY <2>1, <3>2 DEF InstancesOf, IInv, TypeOK
        <4>2. i \notin InFlight
          BY <2>1, <4>1 DEF ParentFirst
        <4>. QED  BY <3>2, <4>1, <4>2
      <3>. QED  BY <3>1, <3>2
    <2>3. ScheduledOnce' /\ ParentFirst'
      BY <2>1, InFlightUnchanged DEF ScheduledOnce, ParentFirst
    <2>. QED  BY <2>1, <2>2, <2>3, InFlightUnchanged
  <1>3. CASE update_finished(w)
    <2>1. w \in Busy
      BY <1>3 DEF update_finished, IInv, RequestInHand, Busy
    <2>2. /\ NoConcurrentUpdate' /\ Queued' = Queued /\ InFlight' = InFlight \ {request[w]}
      BY <1>3, <2>1, FinishFlight DEF update_finished, IInv
    <2>3. /\ children[w] = {} /\ UNCHANGED <<live, toSchedule, children>>
          /\ main' = "schedule" <=> main = "schedule"
          /\ \A v \in Workers : v # w => pc'[v] = pc[v] /\ request'[v] = request[v]
          /\ pc'[w] = "pop"
      BY <1>3 DEF update_finished, WakeMain, IInv, TypeOK
    <2>4. ScheduledOnce' /\ VisitedOnce' /\ ParentFirst'
      BY <2>2, <2>3 DEF ScheduledOnce, VisitedOnce, ParentFirst
    <2>. QED  BY <2>2, <2>4
  <1>4. ASSUME NEW i \in Instances, ScheduleInstance(w, i) PROVE MapsInv'
    <2>1. /\ pc[w] = "call" /\ i \in children[w] /\ UNCHANGED <<live, main, toSchedule, request>>
          /\ children' = [children EXCEPT ![w] = @ \ {i}]
      BY <1>4 DEF ScheduleInstance, mainVars
    <2>2. request[w] = Parent[i] /\ i \in live /\ i \notin InFlight
      BY <2>1 DEF VisitedOnce
    <2>3. /\ NoConcurrentUpdate'
          /\ Queued' = Queued \cup {i} /\ InFlight' = InFlight \cup {i}
      BY <1>4, <2>2, ScheduleFlight DEF ScheduleInstance, IInv, Request
    <2>4. \A v \in Workers : pc'[v] = pc[v] \/ (pc[v] = "asleep" /\ pc'[v] = "pop")
      BY <1>4, ScheduleCounts DEF ScheduleInstance, IInv, Request
    <2>5. /\ i \notin BaseMaps /\ Parent[i] \in BaseMaps
      BY MapsAssumption
    <2>6. w \in Busy /\ Parent[i] \in InFlight
      BY <2>1, <2>2, InHandInFlight DEF IInv, RequestInHand
    <2>7. ScheduledOnce'
      BY <2>1, <2>3, <2>5 DEF ScheduledOnce, IInv, TypeOK
    <2>8. VisitedOnce'
      <3>. SUFFICES ASSUME NEW v \in Workers, NEW j \in children'[v]
                    PROVE  /\ pc'[v] = "call" /\ request[v] = Parent[j]
                           /\ j \in live /\ j \notin InFlight \cup {i}
        BY <2>1, <2>3 DEF VisitedOnce
      <3>1. j \in children[v] /\ (v = w => j # i)
        BY <2>1 DEF IInv, TypeOK
      <3>2. pc[v] = "call" /\ request[v] = Parent[j] /\ j \in live /\ j \notin InFlight
        BY <3>1 DEF VisitedOnce
      <3>3. ASSUME v # w PROVE j # i
        <4>1. v \in Busy
          BY <3>2 DEF IInv, RequestInHand, Busy
        <4>2. request[v] # request[w]
          BY <2>6, <3>3, <4>1 DEF NoConcurrentUpdate
        <4>. QED  BY <2>2, <3>2, <4>2
      <3>. QED  BY <2>4, <3>1, <3>2, <3>3
    <2>9. ParentFirst'
      <3>1. Parent[i] \notin toSchedule /\ Parent[i] \notin Queued'
        <4>1. Parent[i] \notin Queued
          BY <2>2, <2>6 DEF NoConcurrentUpdate, Queued
        <4>. QED  BY <2>3, <2>5, <2>6, <4>1 DEF ScheduledOnce
      <3>2. ASSUME NEW v \in Workers, pc'[v] = "popped" PROVE request[v] # Parent[i]
        <4>1. pc[v] = "popped" /\ v # w
          BY <2>1, <2>4, <3>2
        <4>2. CASE v \in Busy
          BY <2>2, <2>6, <4>1, <4>2 DEF NoConcurrentUpdate
        <4>3. CASE v \notin Busy
          BY <2>5, <4>3, MapsAssumption DEF Busy
        <4>. QED  BY <4>2, <4>3
      <3>3. ASSUME NEW j \in Instances, j \in InFlight
            PROVE  /\ j \in live /\ Parent[j] \notin toSchedule /\ Parent[j] \notin Queued'
                   /\ \A v \in Workers : pc'[v] = "popped" => request[v] # Parent[j]
        <4>1. Parent[j] # i
          BY <2>5, MapsAssumption
        <4>. QED  BY <2>3, <2>4, <3>3, <4>1 DEF ParentFirst
      <3>. QED  BY <2>1, <2>2, <2>3, <3>1, <3>2, <3>3 DEF ParentFirst
    <2>. QED  BY <2>3, <2>7, <2>8, <2>9
  <1>5. ASSUME NEW i \in Instances, DestroyInstance(w, i) PROVE MapsInv'
    <2>1. /\ i \in children[w] /\ UNCHANGED <<queue, request, main, toSchedule, pc>>
          /\ children' = [children EXCEPT ![w] = @ \ {i}]
          /\ live' \in {live, live \ {i}}
      BY <1>5 DEF DestroyInstance, mainVars
    <2>2. request[w] = Parent[i] /\ pc[w] = "call" /\ i \notin InFlight
      BY <2>1 DEF VisitedOnce
    <2>3. VisitedOnce'
      <3>. SUFFICES ASSUME NEW v \in Workers, NEW j \in children'[v]
                    PROVE  /\ pc[v] = "call" /\ request[v] = Parent[j]
                           /\ j \in live' /\ j \notin InFlight
        BY <2>1, InFlightUnchanged DEF VisitedOnce
      <3>1. j \in children[v] /\ (v = w => j # i)
        BY <2>1 DEF IInv, TypeOK
      <3>2. pc[v] = "call" /\ request[v] = Parent[j] /\ j \in live /\ j \notin InFlight
        BY <3>1 DEF VisitedOnce
      <3>3. ASSUME v # w PROVE j # i
        <4>1. v \in Busy /\ w \in Busy
          BY <2>2, <3>2 DEF IInv, RequestInHand, Busy
        <4>2. request[v] # request[w]
          BY <3>3, <4>1 DEF NoConcurrentUpdate
        <4>. QED  BY <2>2, <3>2, <4>2
      <3>. QED  BY <2>1, <3>1, <3>2, <3>3
    <2>4. ScheduledOnce' /\ ParentFirst'
      BY <2>1, <2>2, InFlightUnchanged DEF ScheduledOnce, ParentFirst
    <2>. QED  BY <2>1, <2>3, <2>4, InFlightUnchanged
  <1>. QED  BY <1>1, <1>2, <1>3, <1>4, <1>5 DEF WorkerStep

LEMMA OtherStepMaps ==
  ASSUME IInv, MapsInv,
         \/ StopWorld
         \/ \E i \in Instances : CreateInstance(i)
         \/ \E w \in Workers : SpuriousWakeup(w)
         \/ Terminated
         \/ UNCHANGED vars
  PROVE  MapsInv'
  <1>1. /\ UNCHANGED <<queue, request, toSchedule, children>>
        /\ live \subseteq live'
        /\ main' = main \/ toSchedule = {}
        /\ \A v \in Workers : pc'[v] = pc[v] \/ (pc[v] = "asleep" /\ pc'[v] = "pop")
    BY DEF StopWorld, CreateInstance, SpuriousWakeup, Terminated, vars, mainVars, workerVars,
           MapsInv, ScheduledOnce, IInv, TypeOK
  <1>. QED
    BY <1>1, InFlightUnchanged DEF MapsInv, ScheduledOnce, VisitedOnce, ParentFirst

LEMMA MapsInvariance == Spec => [](IInv /\ MapsInv)
  <1>1. IInv /\ MapsInv /\ [Next]_vars => MapsInv'
    BY MainStepMaps, WorkerStepMaps, OtherStepMaps DEF Next
  <1>. QED  BY Invariance, InitMapsInv, <1>1, PTL DEF Spec

(* Map::Update is not reentrant, and needs not be: for any number of workers, no map is updated
   by two of them, nor is one queued while it is being updated. *)
THEOREM NotReentered == Spec => []NoConcurrentUpdate
  BY MapsInvariance, PTL DEF MapsInv

(* MapInstanced::Update destroys instances while other workers update maps: none of those is
   queued, being updated or still to be visited. *)
THEOREM NoneInUseDestroyed == Spec => []NoDeadMap
  <1>1. IInv /\ MapsInv => NoDeadMap
    <2>. SUFFICES ASSUME IInv, MapsInv PROVE NoDeadMap
      OBVIOUS
    <2>1. \A k \in DOMAIN queue : queue[k] \in InFlight
      BY DEF InFlight, Queued
    <2>2. \A w \in Workers : request[w] \in Instances => request[w] \in InFlight
      BY InHandInFlight, MapsAssumption
    <2>. QED  BY <2>1, <2>2 DEF NoDeadMap, MapsInv, ParentFirst, VisitedOnce
  <1>. QED  BY MapsInvariance, <1>1, PTL
-----------------------------------------------------------------------------
(* The frame of FrameBarrier, step by step. *)

(* The updater's steps that the fork/join frame does not see. *)
LEMMA FrameStutter ==
  ASSUME UNCHANGED <<toSchedule, InFlight>>,
         \/ main' = main
         \/ main \in {"wait", "blocked"} /\ main' \in {"wait", "blocked"}
         \/ main \in {"world", "delayed"} /\ main' \in {"world", "delayed"}
         \/ main \in MainState \ (Exclusive \cup {"schedule", "wait", "blocked"})
            /\ main' \in MainState \ (Exclusive \cup {"schedule", "wait", "blocked"})
         \/ main = "unload" /\ main' = "deactivate"
  PROVE  UNCHANGED Frame!fbVars
  BY DEF Frame!fbVars, InFlight, Queued, MainState, Exclusive

LEMMA InitFrame == Init => Frame!FBInit
  <1>. SUFFICES ASSUME Init PROVE Frame!FBInit
    OBVIOUS
  <1>1. Busy = {} /\ Queued = {}
    BY DEF Init, Busy, Queued
  <1>. QED  BY <1>1 DEF Init, Frame!FBInit, Queued

LEMMA FrameMainStep == ASSUME IInv, MapsInv, MainStep
                       PROVE  [Frame!FBNext]_(Frame!fbVars)
  <1>1. CASE BeginFrame
    <2>1. InFlight = {}
      BY <1>1, QuietWhenIdle DEF BeginFrame, InFrame
    <2>2. InFlight' = {Lfg}
      BY <1>1, <2>1, ScheduleFlight DEF BeginFrame, IInv, MapsInv, Request
    <2>3. main = "world" /\ main' = "schedule" /\ toSchedule' = BaseMaps
      BY <1>1 DEF BeginFrame
    <2>4. toSchedule' = (BaseMaps \cup {Lfg}) \ {Lfg}
      BY <2>3, MapsAssumption
    <2>5. Frame!Open
      BY <2>2, <2>3, <2>4 DEF Frame!Open, InFlight, Queued
    <2>. QED  BY <2>5 DEF Frame!FBNext
  <1>2. ASSUME NEW b \in BaseMaps, ScheduleMap(b) PROVE [Frame!FBNext]_(Frame!fbVars)
    <2>1. b \notin InFlight
      BY <1>2 DEF ScheduleMap, MapsInv, ScheduledOnce
    <2>2. InFlight' = InFlight \cup {b}
      BY <1>2, <2>1, ScheduleFlight DEF ScheduleMap, IInv, MapsInv, Request
    <2>3. /\ main = "schedule" /\ main' \in {"schedule", "wait"}
          /\ b \in toSchedule /\ toSchedule' = toSchedule \ {b}
      BY <1>2 DEF ScheduleMap
    <2>4. Frame!Submit(b)
      BY <2>2, <2>3 DEF Frame!Submit, InFlight, Queued
    <2>. QED  BY <2>4 DEF Frame!FBNext
  <1>3. CASE Wait /\ pending_requests = 0
    <2>1. queue = <<>> /\ Busy = {}
      BY <1>3, NothingPending DEF IInv
    <2>2. InFlight = {}
      BY <2>1 DEF InFlight, Queued
    <2>3. /\ main = "wait" /\ main' = "delayed" /\ toSchedule = {}
          /\ UNCHANGED <<queue, request, toSchedule>>
      BY <1>3 DEF Wait, WaitPending, workerVars, MapsInv, ScheduledOnce
    <2>4. InFlight' = {}
      BY <2>2, <2>3, InFlightUnchanged
    <2>5. Frame!Close
      BY <2>2, <2>3, <2>4 DEF Frame!Close, InFlight, Queued
    <2>. QED  BY <2>5 DEF Frame!FBNext
  <1>4. CASE Cancel
    <2>1. queue = <<>>
      BY <1>4, NothingPending DEF Cancel, IInv, IdleOutsideFrame, InFrame
    <2>2. UNCHANGED <<queue, request, toSchedule>> /\ main = "cancel" /\ main' = "join"
      BY <1>4, <2>1 DEF Cancel
    <2>. QED  BY <2>2, InFlightUnchanged, FrameStutter DEF MainState, Exclusive
  <1>5. CASE (Wait /\ pending_requests # 0) \/ Delayed \/ UnloadAll \/ SetToken \/ Drain
             \/ Destruct \/ JoinAgain \/ \E w \in Workers : Join(w)
    <2>1. UNCHANGED <<queue, request, toSchedule>>
      BY <1>5 DEF Wait, Delayed, UnloadAll, SetToken, Drain, Destruct, JoinAgain, Join, workerVars
    <2>2. \/ main = "wait" /\ main' = "blocked"
          \/ main = "delayed" /\ main' = "world"
          \/ main = "unload" /\ main' = "deactivate"
          \/ /\ main \in {"deactivate", "drain", "join", "exit"}
             /\ main' \in {"drain", "drainBlocked", "cancel", "join", "exit",
                           "deactivate", "aborted"}
      BY <1>5 DEF Wait, Delayed, UnloadAll, SetToken, Drain, Destruct, JoinAgain, Join,
                  WaitPending, IInv, TypeOK
    <2>. QED  BY <2>1, <2>2, InFlightUnchanged, FrameStutter DEF MainState, Exclusive
  <1>. QED  BY <1>1, <1>2, <1>3, <1>4, <1>5 DEF MainStep

LEMMA FrameWorkerStep == ASSUME IInv, MapsInv, NEW w \in Workers, WorkerStep(w)
                         PROVE  [Frame!FBNext]_(Frame!fbVars)
  <1>1. CASE WaitAndPop(w)
    <2>1. pc[w] = "pop" /\ main' = main /\ toSchedule' = toSchedule
      BY <1>1 DEF WaitAndPop, mainVars
    <2>2. InFlight' = InFlight
      BY <1>1, PopFlight, InFlightUnchanged DEF WaitAndPop, MapsInv
    <2>. QED  BY <2>1, <2>2, FrameStutter
  <1>2. CASE CheckToken(w) \/ \E i \in Instances : DestroyInstance(w, i)
    <2>1. UNCHANGED <<queue, request, main, toSchedule>>
      BY <1>2 DEF CheckToken, DestroyInstance, mainVars
    <2>. QED  BY <2>1, InFlightUnchanged, FrameStutter
  <1>3. CASE update_finished(w)
    <2>1. w \in Busy /\ request[w] \in Request
      BY <1>3 DEF update_finished, IInv, RequestInHand, Busy, TypeOK
    <2>2. InFlight' = InFlight \ {request[w]} /\ request[w] \in InFlight
      BY <1>3, <2>1, FinishFlight, InHandInFlight DEF update_finished, IInv, MapsInv, Busy
    <2>3. /\ main \in {"schedule", "wait", "blocked"}
          /\ main' \in {"schedule", "wait", "blocked"}
          /\ toSchedule' = toSchedule
      BY <1>3, <2>1, CallInFrame DEF update_finished, WakeMain, InFrame, Busy
    <2>4. request[w] \in Frame!Units
      <3>. DEFINE Kids == [b \in BaseMaps \cup {Lfg} |-> {i \in Instances : Parent[i] = b}]
      <3>1. CASE request[w] \in BaseMaps \cup {Lfg}
        BY <3>1 DEF Frame!Units
      <3>2. CASE request[w] \in Instances
        <4>1. Parent[request[w]] \in BaseMaps
          BY <3>2, MapsAssumption
        <4>2. request[w] \in Kids[Parent[request[w]]]
          BY <3>2, <4>1
        <4>. QED  BY <4>1, <4>2 DEF Frame!Units
      <3>. QED  BY <2>1, <3>1, <3>2 DEF Request
    <2>5. PICK u \in Frame!Units : u = request[w]
      BY <2>4
    <2>6. Frame!Complete(u)
      BY <2>2, <2>3, <2>5 DEF Frame!Complete, InFlight, Queued
    <2>. QED  BY <2>6 DEF Frame!FBNext
  <1>4. ASSUME NEW i \in Instances, ScheduleInstance(w, i) PROVE [Frame!FBNext]_(Frame!fbVars)
    <2>1. /\ i \in children[w] /\ pc[w] = "call" /\ UNCHANGED <<main, toSchedule, request>>
      BY <1>4 DEF ScheduleInstance, mainVars
    <2>2. request[w] = Parent[i] /\ i \notin InFlight
      BY <2>1 DEF MapsInv, VisitedOnce
    <2>3. Parent[i] \in BaseMaps /\ request[w] # NoRequest
      BY <2>1, <2>2, MapsAssumption DEF IInv, RequestInHand
    <2>4. Parent[i] \in InFlight /\ main \in {"schedule", "wait", "blocked"}
      BY <2>2, <2>3, InHandInFlight, CallInFrame DEF InFrame
    <2>5. InFlight' = InFlight \cup {i}
      BY <1>4, <2>1, <2>2, ScheduleFlight DEF ScheduleInstance, IInv, MapsInv, Request
    <2>6. Frame!Fork(Parent[i], i)
      BY <2>1, <2>2, <2>3, <2>4, <2>5 DEF Frame!Fork, InFlight, Queued
    <2>7. \E r \in BaseMaps \cup {Lfg} : \E u \in {j \in Instances : Parent[j] = r} : Frame!Fork(r, u)
      BY <2>3, <2>6
    <2>. QED  BY <2>7 DEF Frame!FBNext
  <1>. QED  BY <1>1, <1>2, <1>3, <1>4 DEF WorkerStep

LEMMA FrameOtherStep ==
  ASSUME IInv, MapsInv,
         \/ StopWorld
         \/ \E i \in Instances : CreateInstance(i)
         \/ \E w \in Workers : SpuriousWakeup(w)
         \/ Terminated
         \/ UNCHANGED vars
  PROVE  [Frame!FBNext]_(Frame!fbVars)
  <1>1. UNCHANGED <<queue, request, toSchedule>>
    BY DEF StopWorld, CreateInstance, SpuriousWakeup, Terminated, vars, mainVars, workerVars
  <1>2. CASE StopWorld
    <2>1. main = "world" /\ main' = "unload"
      BY <1>2 DEF StopWorld
    <2>2. InFlight' = InFlight
      BY <1>1, InFlightUnchanged
    <2>3. Frame!Stop
      BY <1>1, <2>1, <2>2 DEF Frame!Stop, InFlight, Queued
    <2>. QED  BY <2>3 DEF Frame!FBNext
  <1>3. CASE ~StopWorld
    <2>1. main' = main
      BY <1>3 DEF CreateInstance, SpuriousWakeup, Terminated, vars, mainVars
    <2>. QED  BY <1>1, <2>1, InFlightUnchanged, FrameStutter
  <1>. QED  BY <1>2, <1>3

(* The worker pool is a fork/join frame: every step of the threads is a step of FrameBarrier
   or invisible to it, so outside a frame no unit of work is active, whatever the interleaving
   of the pops, the wakeups and the scheduling of instances. *)
THEOREM RefinesFrame == Spec => Frame!FBInit /\ [][Frame!FBNext]_(Frame!fbVars)
  <1>1. IInv /\ MapsInv /\ [Next]_vars => [Frame!FBNext]_(Frame!fbVars)
    BY FrameMainStep, FrameWorkerStep, FrameOtherStep DEF Next
  <1>. QED  BY MapsInvariance, InitFrame, <1>1, PTL DEF Spec
=============================================================================
