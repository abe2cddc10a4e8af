------------------------ MODULE WorldSessions_proofs ------------------------
(***************************************************************************)
(* For every set of accounts, sessions and characters and every player     *)
(* limit: no pointer to a deleted session survives, a character belongs to *)
(* one session, whoever waits is in the queue, a shutdown saves everybody, *)
(* and the admission of sessions implements LoginQueue.                    *)
(***************************************************************************)
EXTENDS WorldSessions, SequenceTheorems, FiniteSetTheorems, TLAPS

(* A session is filed under its own account, and once. *)
Filed == \A a \in Accounts :
    /\ m_sessions[a] # None => /\ SessionAccount[m_sessions[a]] = a
                               /\ m_sessions[a] # m_offlineSessions[a]
    /\ m_offlineSessions[a] # None => SessionAccount[m_offlineSessions[a]] = a

(* A session in neither container is unused or on its way from the network thread. *)
Blank == \A s \in Sessions \ Held :
    /\ session[s].player = None /\ session[s].loading = None
    /\ ~session[s].inQueue /\ ~session[s].kicked

Newcomers == /\ \A j, k \in DOMAIN addSessQueue : j # k => addSessQueue[j] # addSessQueue[k]
             /\ \A k \in DOMAIN addSessQueue : /\ addSessQueue[k] \notin Held
                                               /\ session[addSessQueue[k]].socket # "none"

(* A session of m_sessions has a socket, closed if the session was kicked. *)
Connected == \A a \in Accounts : m_sessions[a] # None =>
    /\ session[m_sessions[a]].socket # "none"
    /\ session[m_sessions[a]].kicked => session[m_sessions[a]].socket = "closed"

Queue == /\ \A k \in DOMAIN m_QueuedPlayer :
               /\ m_sessions[SessionAccount[m_QueuedPlayer[k]]] = m_QueuedPlayer[k]
               /\ session[m_QueuedPlayer[k]].inQueue
         /\ \A j, k \in DOMAIN m_QueuedPlayer : j # k => m_QueuedPlayer[j] # m_QueuedPlayer[k]
         /\ WaitingIsQueued

(* Where the world thread is: between two visits nothing is current, and what it has still
   to visit is connected and not current. *)
Thread ==
    /\ IF at \in {"packets", "callbacks", "finish"}
       THEN /\ cur # None /\ m_sessions[SessionAccount[cur]] = cur
            /\ SessionAccount[cur] \notin todo
       ELSE cur = None
    /\ at \in {"idle", "add", "offline", "halted"} => todo = {}
    /\ todo \subseteq Online
    /\ closing => stopped /\ at # "idle"
    /\ at = "halted" => closing

(* OneOwner without counting. *)
Owned == /\ \A s \in Sessions : session[s].player # None =>
               /\ charState[session[s].player] # "absent"
               /\ CharAccount[session[s].player] = SessionAccount[s]
         /\ \A s, t \in Sessions : session[s].player # None /\ s # t =>
               session[s].player # session[t].player
         /\ \A c \in Characters : charState[c] # "absent" => \E s \in Sessions : session[s].player = c

(* A session that loads a character is connected and has none yet, and the character is
   not the one its account left in the world. *)
Loading == \A s \in Sessions : session[s].loading # None =>
    /\ m_sessions[SessionAccount[s]] = s
    /\ session[s].player = None
    /\ CharAccount[session[s].loading] = SessionAccount[s]
    /\ m_offlineSessions[SessionAccount[s]] # None =>
          session[m_offlineSessions[SessionAccount[s]]].player # session[s].loading

(* A login that finds an offline session leaves it to be reaped in the same tick. *)
Superseded == \A a \in Accounts :
    LET s == m_sessions[a]
        off == m_offlineSessions[a] IN
    s # None /\ off # None /\ (session[s].player # None \/ session[s].loading # None) =>
       /\ at \notin {"idle", "add"} /\ a \notin todo
       /\ session[off].kicked \/ session[off].player = None

(* After KickAll the offline sessions are kicked, and a session that was visited was not,
   or it would be gone. *)
Kicked == /\ closing => \A a \in Accounts : m_offlineSessions[a] # None =>
                                               session[m_offlineSessions[a]].kicked
          /\ at \notin {"idle", "add"} =>
                \A a \in Accounts : m_sessions[a] \notin {None, cur} /\ a \notin todo =>
                                       ~session[m_sessions[a]].kicked
          /\ at = "halted" => \A a \in Accounts : m_offlineSessions[a] = None

IInv == /\ TypeOK /\ Filed /\ Blank /\ Newcomers /\ Connected /\ Queue /\ Thread
        /\ Owned /\ Loading /\ Superseded /\ Kicked

-----------------------------------------------------------------------------
(* What the steps do to the fields of a session. *)

LEMMA FreshType == Fresh \in SessionState
  BY SessionsAssumption DEF Fresh, SessionState

LEMMA SocketFields ==
  ASSUME NEW r \in SessionState, NEW v \in {"none", "open", "closed"}
  PROVE  [r EXCEPT !.socket = v] \in SessionState
  BY DEF SessionState

LEMMA ReadyFields ==
  ASSUME NEW r \in SessionState
  PROVE  [r EXCEPT !.ready = TRUE] \in SessionState
  BY DEF SessionState

LEMMA KickPlayerFields ==
  ASSUME NEW r \in SessionState
  PROVE  LET k == KickPlayer(r, TRUE) IN
         /\ k \in SessionState
         /\ k.kicked
         /\ k.socket \in {"none", "closed"} /\ (r.socket # "none" => k.socket # "none")
         /\ k.inQueue = r.inQueue /\ k.loading = r.loading /\ k.player = r.player
  BY DEF KickPlayer, SessionState

LEMMA FlagsFields ==
  ASSUME TypeOK, NEW q, NEW s \in Sessions
  PROVE  /\ Flags(q)[s] \in SessionState
         /\ Flags(q)[s].socket = session[s].socket
         /\ Flags(q)[s].kicked = session[s].kicked
         /\ Flags(q)[s].loading = session[s].loading
         /\ Flags(q)[s].player = session[s].player
         /\ Flags(q)[s].inQueue = IF Policy!IsQueued(m_QueuedPlayer, s)
                                  THEN Policy!IsQueued(q, s) ELSE session[s].inQueue
  <1>1. session[s] \in SessionState
    BY DEF TypeOK
  <1>2. Flags(q)[s] = IF Policy!IsQueued(m_QueuedPlayer, s)
                      THEN [session[s] EXCEPT !.inQueue = Policy!IsQueued(q, s)]
                      ELSE session[s]
    BY DEF Flags, Policy!IsQueued
  <1>3. Policy!IsQueued(q, s) \in BOOLEAN
    BY DEF Policy!IsQueued
  <1>. QED  BY <1>1, <1>2, <1>3 DEF SessionState

LEMMA OfflineFields ==
  ASSUME NEW r \in SessionState
  PROVE  /\ Offline(r) \in SessionState
         /\ Offline(r).player = r.player /\ Offline(r).kicked = r.kicked
         /\ Offline(r).loading = r.loading /\ Offline(r).inQueue = r.inQueue
  <1>1. 0 \in 0..OfflineTicks + 1
    BY SessionsAssumption
  <1>. QED  BY <1>1 DEF Offline, SessionState

(* ~WorldSession frees the sessions S and logs their players, and only those, out. *)
LEMMA DeleteEffect ==
  ASSUME TypeOK, NEW S \in SUBSET Sessions, NEW fields \in [Sessions -> SessionState],
         Delete(S, fields)
  PROVE  /\ session' \in [Sessions -> SessionState]
         /\ \A t \in S : session'[t] = Fresh
         /\ \A t \in Sessions \ S : session'[t] = fields[t]
         /\ charState' \in [Characters -> {"absent", "world", "away"}]
         /\ charOnline' \in [Characters -> BOOLEAN]
         /\ \A c \in Characters : charState'[c] = IF \E t \in S : session[t].player = c
                                                  THEN "absent" ELSE charState[c]
  <1>1. /\ session' \in [Sessions -> SessionState]
        /\ \A t \in S : session'[t] = Fresh
        /\ \A t \in Sessions \ S : session'[t] = fields[t]
    BY FreshType DEF Delete
  <1>2. \A c \in Characters : c \in PlayersOf(S) <=> \E t \in S : session[t].player = c
    BY SessionsAssumption DEF PlayersOf
  <1>. QED  BY <1>1, <1>2 DEF Delete, TypeOK

(* Deleting sessions leaves every other character with its owner. *)
LEMMA DeleteOwned ==
  ASSUME TypeOK, Owned, NEW S \in SUBSET Sessions, NEW fields \in [Sessions -> SessionState],
         Delete(S, fields), \A t \in Sessions \ S : fields[t].player = session[t].player
  PROVE  Owned'
  <1>1. /\ \A t \in Sessions : session[t].player \in Characters \cup {None}
        /\ None \notin Characters
    BY SessionsAssumption DEF TypeOK, SessionState
  <1>2. /\ \A t \in S : session'[t].player = None
        /\ \A t \in Sessions \ S : session'[t].player = session[t].player
        /\ \A c \in Characters : charState'[c] = IF \E t \in S : session[t].player = c
                                                 THEN "absent" ELSE charState[c]
    BY DeleteEffect, SMTT(30) DEF Fresh
  <1>. QED  BY <1>1, <1>2 DEF Owned

LEMMA InitIInv == Init => IInv
  <1>. SUFFICES ASSUME Init PROVE IInv
    OBVIOUS
  <1>1. session \in [Sessions -> SessionState]
    BY FreshType DEF Init
  <1>2. /\ addSessQueue \in Seq(Sessions) /\ m_QueuedPlayer \in Seq(Sessions)
        /\ DOMAIN addSessQueue = {} /\ DOMAIN m_QueuedPlayer = {}
    BY EmptySeq DEF Init
  <1>3. TypeOK
    BY <1>1, <1>2 DEF Init, TypeOK
  <1>4. /\ \A a \in Accounts : m_sessions[a] = None /\ m_offlineSessions[a] = None
        /\ \A s \in Sessions : session[s] = Fresh
        /\ \A c \in Characters : charState[c] = "absent"
        /\ at = "idle" /\ todo = {} /\ cur = None /\ ~stopped /\ ~closing
    BY DEF Init
  <1>5. Filed /\ Blank /\ Newcomers /\ Connected
    BY <1>2, <1>4 DEF Filed, Blank, Newcomers, Connected, Fresh
  <1>6. Queue
    BY <1>2, <1>4 DEF Queue, WaitingIsQueued, Listed
  <1>7. Thread /\ Owned /\ Loading /\ Superseded /\ Kicked
    BY <1>4 DEF Thread, Owned, Loading, Superseded, Kicked, Fresh
  <1>. QED  BY <1>3, <1>5, <1>6, <1>7 DEF IInv

-----------------------------------------------------------------------------
(* The queue. *)

Distinct(q) == \A j, k \in DOMAIN q : j # k => q[j] # q[k]

(* A queue r made from q keeps the order and the places of q apart. *)
PartOf(r, q) == /\ r \in Seq(Sessions)
                /\ Distinct(r)
                /\ \A k \in DOMAIN r : Policy!IsQueued(q, r[k])

LEMMA WithoutPart ==
  ASSUME NEW q \in Seq(Sessions), Distinct(q), NEW e
  PROVE  PartOf(Policy!Without(q, e), q) /\ ~Policy!IsQueued(Policy!Without(q, e), e)
  <1>1. Len(q) \in Nat /\ DOMAIN q = 1..Len(q) /\ q \in [1..Len(q) -> Sessions]
    BY LenProperties
  <1>2. CASE Policy!IsQueued(q, e)
    <2>. DEFINE n == Len(q) - 1
                i == CHOOSE i \in DOMAIN q : q[i] = e
                r == Policy!Without(q, e)
    <2>1. i \in 1..Len(q) /\ q[i] = e /\ n \in Nat /\ Len(q) = n + 1
      BY <1>1, <1>2 DEF Policy!IsQueued
    <2>2. r = [k \in 1..n |-> IF k < i THEN q[k] ELSE q[k + 1]]
      BY <1>2 DEF Policy!Without, Policy!RemoveNth, Policy!IsQueued
    <2>. HIDE DEF i, r
    <2>3. ASSUME NEW k \in 1..n
          PROVE  \E m \in 1..Len(q) : r[k] = q[m] /\ m # i /\ m = IF k < i THEN k ELSE k + 1
      <3>1. CASE k < i
        BY <1>1, <2>1, <2>2, <3>1
      <3>2. CASE ~(k < i)
        <4>1. k + 1 \in 1..Len(q) /\ k + 1 # i
          BY <1>1, <2>1, <3>2
        <4>. QED  BY <2>2, <3>2, <4>1
      <3>. QED  BY <3>1, <3>2
    <2>4. r \in [1..n -> Sessions]
      BY <1>1, <2>2, <2>3
    <2>5. r \in Seq(Sessions) /\ DOMAIN r = 1..n
      BY <2>1, <2>4, SeqDef
    <2>6. \A k \in 1..n : Policy!IsQueued(q, r[k])
      BY <1>1, <2>3 DEF Policy!IsQueued
    <2>7. \A k \in 1..n : r[k] # e
      BY <1>1, <2>1, <2>3 DEF Distinct
    <2>8. Distinct(r)
      <3>. SUFFICES ASSUME NEW j \in 1..n, NEW k \in 1..n, j # k PROVE r[j] # r[k]
        BY <2>5 DEF Distinct
      <3>1. PICK m \in 1..Len(q) : r[j] = q[m] /\ m = IF j < i THEN j ELSE j + 1
        BY <2>3
      <3>2. PICK p \in 1..Len(q) : r[k] = q[p] /\ p = IF k < i THEN k ELSE k + 1
        BY <2>3
      <3>3. m # p
        BY <1>1, <2>1, <3>1, <3>2
      <3>. QED  BY <1>1, <3>1, <3>2, <3>3 DEF Distinct
    <2>. QED  BY <2>5, <2>6, <2>7, <2>8 DEF PartOf, Policy!IsQueued, r
  <1>3. CASE ~Policy!IsQueued(q, e)
    <2>1. Policy!Without(q, e) = q
      BY <1>3 DEF Policy!Without, Policy!IsQueued
    <2>. QED  BY <1>3, <2>1 DEF PartOf, Policy!IsQueued
  <1>. QED  BY <1>2, <1>3

LEMMA TailPart ==
  ASSUME NEW q \in Seq(Sessions), Distinct(q), q # <<>>
  PROVE  PartOf(Tail(q), q)
  <1>1. /\ Len(q) \in Nat /\ DOMAIN q = 1..Len(q)
        /\ Tail(q) \in Seq(Sessions) /\ DOMAIN Tail(q) = 1..Len(q) - 1
        /\ \A k \in 1..Len(q) - 1 : Tail(q)[k] = q[k + 1]
    BY HeadTailProperties, LenProperties
  <1>2. \A k \in 1..Len(q) - 1 : k + 1 \in 1..Len(q)
    BY <1>1
  <1>. QED  BY <1>1, <1>2 DEF PartOf, Distinct, Policy!IsQueued

(* RemoveQueuedPlayer removes sessions, e among them, and moves none. *)
LEMMA QueueLeft ==
  ASSUME NEW q \in Seq(Sessions), Distinct(q), NEW e, NEW total,
         NEW left, left = Policy!RemoveQueuedPlayer(q, e, total)
  PROVE  PartOf(left, q) /\ ~Policy!IsQueued(left, e)
  <1>. DEFINE rest == Policy!Without(q, e)
  <1>1. PartOf(rest, q) /\ ~Policy!IsQueued(rest, e)
    BY WithoutPart
  <1>2. left = rest \/ (rest # <<>> /\ left = Tail(rest))
    BY DEF Policy!RemoveQueuedPlayer
  <1>3. CASE rest # <<>> /\ left = Tail(rest)
    <2>. HIDE DEF rest
    <2>1. PartOf(left, rest)
      BY <1>1, <1>3, TailPart DEF PartOf
    <2>. QED  BY <1>1, <2>1 DEF PartOf, Policy!IsQueued
  <1>. QED  BY <1>1, <1>2, <1>3

LEMMA QueueAppend ==
  ASSUME NEW q \in Seq(Sessions), Distinct(q), NEW s \in Sessions, ~Policy!IsQueued(q, s)
  PROVE  /\ Append(q, s) \in Seq(Sessions)
         /\ Distinct(Append(q, s))
         /\ \A t : Policy!IsQueued(Append(q, s), t) <=> Policy!IsQueued(q, t) \/ t = s
  <1>1. /\ Len(q) \in Nat /\ DOMAIN q = 1..Len(q)
        /\ Append(q, s) \in Seq(Sessions)
        /\ \A k \in 1..Len(q) : Append(q, s)[k] = q[k]
        /\ Append(q, s)[Len(q) + 1] = s
        /\ Len(Append(q, s)) = Len(q) + 1
    BY LenProperties, AppendProperties
  <1>2. DOMAIN Append(q, s) = 1..Len(q) + 1
    BY <1>1, LenProperties
  <1>3. \A k \in 1..Len(q) + 1 : k \in 1..Len(q) \/ k = Len(q) + 1
    BY <1>1
  <1>4. \A k \in 1..Len(q) : k \in 1..Len(q) + 1 /\ k # Len(q) + 1
    BY <1>1
  <1>. QED  BY <1>1, <1>2, <1>3, <1>4 DEF Distinct, Policy!IsQueued

-----------------------------------------------------------------------------
(* Steps that move no session. *)

LEMMA HeldAt ==
  ASSUME TypeOK, Filed, NEW s \in Sessions
  PROVE  s \in Held <=> \/ m_sessions[SessionAccount[s]] = s
                        \/ m_offlineSessions[SessionAccount[s]] = s
  <1>1. s # None /\ SessionAccount[s] \in Accounts
    BY SessionsAssumption
  <1>. QED  BY <1>1 DEF Held, Listed, Filed

(* Sockets that open or close, kicks and queries leave the sessions where they are and the
   characters with their owners. *)
LEMMA Touch ==
  ASSUME IInv, session' \in [Sessions -> SessionState], UNCHANGED <<addSessQueue, mapVars>>,
         \A s \in Sessions : /\ session'[s].player = session[s].player
                             /\ session'[s].loading = session[s].loading
                             /\ session'[s].inQueue = session[s].inQueue
                             /\ session[s].socket # "none" => session'[s].socket # "none",
         \A s \in Sessions : session'[s].kicked =>
            /\ session[s].kicked \/ s \in Held
            /\ \/ session[s].kicked /\ session'[s].socket = session[s].socket
               \/ session'[s].socket \in {"none", "closed"},
         \A c \in Characters : charState'[c] = "absent" <=> charState[c] = "absent"
  PROVE  /\ Held' = Held
         /\ Filed' /\ Blank' /\ Newcomers' /\ Connected' /\ Owned' /\ Loading'
  <1>. USE DEF IInv
  <1>1. Held' = Held /\ UNCHANGED <<m_sessions, m_offlineSessions>>
    BY DEF Held, Listed, mapVars
  <1>2. Filed'
    BY <1>1 DEF Filed
  <1>3. Blank'
    BY <1>1 DEF Blank
  <1>4. Newcomers'
    BY <1>1 DEF Newcomers, TypeOK
  <1>5. Connected'
    BY <1>1 DEF Connected, TypeOK
  <1>6. Owned'
    BY DEF Owned, TypeOK, SessionState
  <1>7. Loading'
    BY <1>1, SessionsAssumption DEF Loading, TypeOK
  <1>. QED  BY <1>1, <1>2, <1>3, <1>4, <1>5, <1>6, <1>7

(* ... and, outside a shutdown, those in the queue and those superseded. *)
LEMMA TouchRest ==
  ASSUME IInv, UNCHANGED <<addSessQueue, mapVars, m_QueuedPlayer, closing, worldVars>>,
         \A s \in Sessions : /\ session'[s].player = session[s].player
                             /\ session'[s].loading = session[s].loading
                             /\ session'[s].inQueue = session[s].inQueue
                             /\ session[s].kicked => session'[s].kicked
                             /\ at = "idle" \/ session'[s].kicked = session[s].kicked,
         stopped => stopped'
  PROVE  Queue' /\ Thread' /\ Superseded' /\ Kicked'
  <1>. USE DEF IInv, mapVars, worldVars
  <1>1. Queue'
    <2>1. \A k \in DOMAIN m_QueuedPlayer : m_QueuedPlayer[k] \in Sessions
      BY DEF TypeOK
    <2>2. \A s \in Listed(m_sessions) : s \in Sessions
      BY DEF TypeOK, Listed
    <2>3. WaitingIsQueued'
      BY <2>2 DEF Queue, WaitingIsQueued, Listed, Policy!IsQueued
    <2>. QED  BY <2>1, <2>3 DEF Queue
  <1>2. Thread'
    BY DEF Thread, Online
  <1>3. Superseded'
    BY DEF Superseded, TypeOK
  <1>4. Kicked'
    BY DEF Kicked, TypeOK
  <1>. QED  BY <1>1, <1>2, <1>3, <1>4

(* The network and database threads. *)
LEMMA NetworkStep ==
  ASSUME IInv,
         \/ StopNow
         \/ \E s \in Sessions : \/ Authenticate(s) \/ AddSession(s) \/ CloseSocket(s)
                                \/ QueryReady(s)
  PROVE  IInv'
  <1>1. ASSUME NEW s \in Sessions, Authenticate(s) PROVE IInv'
    <2>1. s \notin Held /\ session[s] = Fresh
      BY <1>1 DEF Authenticate, Unused
    <2>2. /\ session' = [session EXCEPT ![s].socket = "open"]
          /\ UNCHANGED <<addSessQueue, mapVars, m_QueuedPlayer, m_disconnects, charState,
                         charOnline, stopVars, worldVars>>
      BY <1>1 DEF Authenticate
    <2>3. session' \in [Sessions -> SessionState]
      BY <2>2, SocketFields, ReadyFields DEF IInv, TypeOK
    <2>4. \A t \in Sessions : /\ session'[t].player = session[t].player
                              /\ session'[t].loading = session[t].loading
                              /\ session'[t].inQueue = session[t].inQueue
                              /\ session'[t].kicked = session[t].kicked
                              /\ t # s => session'[t].socket = session[t].socket
      BY <2>2 DEF IInv, TypeOK, SessionState
    <2>5. ~session'[s].kicked /\ session'[s].socket = "open"
      BY <2>1, <2>2, <2>4 DEF IInv, TypeOK, SessionState, Fresh
    <2>6. Filed' /\ Blank' /\ Newcomers' /\ Connected' /\ Owned' /\ Loading'
      BY <2>2, <2>3, <2>4, <2>5, Touch
    <2>7. Queue' /\ Thread' /\ Superseded' /\ Kicked'
      BY <2>2, <2>4, TouchRest DEF stopVars
    <2>8. TypeOK'
      BY <1>1, <2>2, <2>3, SessionsAssumption
         DEF Authenticate, IInv, TypeOK, mapVars, stopVars, worldVars
    <2>. QED  BY <2>6, <2>7, <2>8 DEF IInv
  <1>2. ASSUME NEW s \in Sessions, AddSession(s) PROVE IInv'
    <2>1. /\ addSessQueue' = Append(addSessQueue, s)
          /\ s \notin Held /\ session[s].socket # "none" /\ ~Policy!IsQueued(addSessQueue, s)
          /\ UNCHANGED <<session, mapVars, m_QueuedPlayer, m_disconnects, charState, dbVars,
                         stopVars, worldVars>>
      BY <1>2 DEF AddSession
    <2>2. /\ addSessQueue' \in Seq(Sessions) /\ Distinct(addSessQueue')
          /\ \A t : Policy!IsQueued(addSessQueue', t) <=>
                       Policy!IsQueued(addSessQueue, t) \/ t = s
      BY <2>1, QueueAppend DEF IInv, TypeOK, Newcomers, Distinct
    <2>3. TypeOK'
      BY <2>1, <2>2 DEF IInv, TypeOK, mapVars, dbVars, stopVars, worldVars
    <2>4. Held' = Held
      BY <2>1 DEF Held, Listed, mapVars
    <2>5. Newcomers'
      BY <2>1, <2>2, <2>4 DEF IInv, Newcomers, Distinct, Policy!IsQueued
    <2>6. Filed' /\ Blank' /\ Connected' /\ Owned' /\ Loading' /\ Superseded' /\ Kicked'
      BY <2>1, <2>4 DEF IInv, Filed, Blank, Connected, Owned, Loading, Superseded, Kicked,
                        mapVars, stopVars, worldVars
    <2>7. Queue' /\ Thread'
      BY <2>1 DEF IInv, Queue, WaitingIsQueued, Listed, Policy!IsQueued, Thread, Online,
                  mapVars, stopVars, worldVars
    <2>. QED  BY <2>3, <2>5, <2>6, <2>7 DEF IInv
  <1>3. ASSUME NEW s \in Sessions, CloseSocket(s) PROVE IInv'
    <2>1. /\ session[s].socket = "open"
          /\ session' = [session EXCEPT ![s].socket = "closed"]
          /\ UNCHANGED <<addSessQueue, mapVars, m_QueuedPlayer, m_disconnects, charState,
                         dbVars, stopVars, worldVars>>
      BY <1>3 DEF CloseSocket
    <2>2. session' \in [Sessions -> SessionState]
      BY <2>1, SocketFields, ReadyFields DEF IInv, TypeOK
    <2>3. \A t \in Sessions : /\ session'[t].player = session[t].player
                              /\ session'[t].loading = session[t].loading
                              /\ session'[t].inQueue = session[t].inQueue
                              /\ session'[t].kicked = session[t].kicked
                              /\ session'[t].socket = IF t = s THEN "closed" ELSE session[t].socket
      BY <2>1 DEF IInv, TypeOK, SessionState
    <2>4. Filed' /\ Blank' /\ Newcomers' /\ Connected' /\ Owned' /\ Loading'
      BY <2>1, <2>2, <2>3, Touch
    <2>5. Queue' /\ Thread' /\ Superseded' /\ Kicked'
      BY <2>1, <2>3, TouchRest DEF stopVars
    <2>6. TypeOK'
      BY <2>1, <2>2 DEF IInv, TypeOK, mapVars, dbVars, stopVars, worldVars
    <2>. QED  BY <2>4, <2>5, <2>6 DEF IInv
  <1>4. ASSUME NEW s \in Sessions, QueryReady(s) PROVE IInv'
    <2>1. /\ session' = [session EXCEPT ![s].ready = TRUE]
          /\ UNCHANGED <<addSessQueue, mapVars, m_QueuedPlayer, m_disconnects, charState,
                         dbVars, stopVars, worldVars>>
      BY <1>4 DEF QueryReady
    <2>2. session' \in [Sessions -> SessionState]
      BY <2>1, SocketFields, ReadyFields DEF IInv, TypeOK
    <2>3. \A t \in Sessions : /\ session'[t].player = session[t].player
                              /\ session'[t].loading = session[t].loading
                              /\ session'[t].inQueue = session[t].inQueue
                              /\ session'[t].kicked = session[t].kicked
                              /\ session'[t].socket = session[t].socket
      BY <2>1 DEF IInv, TypeOK, SessionState
    <2>4. Filed' /\ Blank' /\ Newcomers' /\ Connected' /\ Owned' /\ Loading'
      BY <2>1, <2>2, <2>3, Touch
    <2>5. Queue' /\ Thread' /\ Superseded' /\ Kicked'
      BY <2>1, <2>3, TouchRest DEF stopVars
    <2>6. TypeOK'
      BY <2>1, <2>2 DEF IInv, TypeOK, mapVars, dbVars, stopVars, worldVars
    <2>. QED  BY <2>4, <2>5, <2>6 DEF IInv
  <1>5. CASE StopNow
    <2>1. /\ stopped' = TRUE
          /\ UNCHANGED <<session, addSessQueue, mapVars, m_QueuedPlayer, m_disconnects,
                         charState, dbVars, closing, worldVars>>
      BY <1>5 DEF StopNow
    <2>2. session' \in [Sessions -> SessionState]
      BY <2>1 DEF IInv, TypeOK
    <2>3. Filed' /\ Blank' /\ Newcomers' /\ Connected' /\ Owned' /\ Loading'
      BY <2>1, <2>2, Touch
    <2>4. Queue' /\ Thread' /\ Superseded' /\ Kicked'
      BY <2>1, TouchRest
    <2>5. TypeOK'
      BY <2>1 DEF IInv, TypeOK, mapVars, dbVars, worldVars
    <2>. QED  BY <2>3, <2>4, <2>5 DEF IInv
  <1>. QED  BY <1>1, <1>2, <1>3, <1>4, <1>5

(* The world thread between two updates, and at the start of one. *)
LEMMA IdleStep ==
  ASSUME IInv,
         \/ StartTick \/ KickAll
         \/ \E s \in Sessions : KickSession(s)
         \/ \E c \in Characters : Travel(c)
  PROVE  IInv'
  <1>1. ASSUME NEW s \in Sessions, KickSession(s) PROVE IInv'
    <2>1. /\ at = "idle" /\ ~closing /\ s \in Held
          /\ session' = [session EXCEPT ![s] = KickPlayer(session[s], TRUE)]
          /\ UNCHANGED <<addSessQueue, mapVars, m_QueuedPlayer, m_disconnects, charState,
                         dbVars, stopVars, worldVars>>
      BY <1>1 DEF KickSession
    <2>2. session[s] \in SessionState
      BY DEF IInv, TypeOK
    <2>3. /\ session' \in [Sessions -> SessionState]
          /\ \A t \in Sessions \ {s} : session'[t] = session[t]
          /\ session'[s] = KickPlayer(session[s], TRUE)
      BY <2>1, <2>2, KickPlayerFields DEF IInv, TypeOK
    <2>4. /\ session'[s].socket \in {"none", "closed"}
          /\ session[s].socket # "none" => session'[s].socket # "none"
      BY <2>2, <2>3, KickPlayerFields
    <2>5. \A t \in Sessions : /\ session'[t].player = session[t].player
                              /\ session'[t].loading = session[t].loading
                              /\ session'[t].inQueue = session[t].inQueue
                              /\ session[t].kicked => session'[t].kicked
      <3>. SUFFICES ASSUME NEW t \in Sessions
                    PROVE  /\ session'[t].player = session[t].player
                           /\ session'[t].loading = session[t].loading
                           /\ session'[t].inQueue = session[t].inQueue
                           /\ session[t].kicked => session'[t].kicked
        OBVIOUS
      <3>1. CASE t = s
        BY <2>2, <2>3, <3>1, KickPlayerFields
      <3>2. CASE t # s
        BY <2>3, <3>2
      <3>. QED  BY <3>1, <3>2
    <2>6. Filed' /\ Blank' /\ Newcomers' /\ Connected' /\ Owned' /\ Loading'
      BY <2>1, <2>3, <2>4, <2>5, Touch
    <2>7. Queue' /\ Thread' /\ Superseded' /\ Kicked'
      BY <2>1, <2>5, TouchRest DEF stopVars
    <2>9. TypeOK'
      BY <2>1, <2>3 DEF IInv, TypeOK, mapVars, dbVars, stopVars, worldVars
    <2>. QED  BY <2>6, <2>7, <2>9 DEF IInv
  <1>2. ASSUME NEW c \in Characters, Travel(c) PROVE IInv'
    <2>1. /\ charState[c] # "absent"
          /\ charState' = [charState EXCEPT ![c] = IF @ = "world" THEN "away" ELSE "world"]
          /\ UNCHANGED <<session, addSessQueue, mapVars, m_QueuedPlayer, m_disconnects,
                         dbVars, stopVars, worldVars>>
      BY <1>2 DEF Travel
    <2>2. session' \in [Sessions -> SessionState]
      BY <2>1 DEF IInv, TypeOK
    <2>3. /\ charState' \in [Characters -> {"absent", "world", "away"}]
          /\ \A d \in Characters : charState'[d] = "absent" <=> charState[d] = "absent"
      BY <2>1 DEF IInv, TypeOK
    <2>4. Filed' /\ Blank' /\ Newcomers' /\ Connected' /\ Owned' /\ Loading'
      BY <2>1, <2>2, <2>3, Touch
    <2>5. Queue' /\ Thread' /\ Superseded' /\ Kicked'
      BY <2>1, TouchRest DEF stopVars
    <2>6. TypeOK'
      BY <2>1, <2>3 DEF IInv, TypeOK, mapVars, dbVars, stopVars, worldVars
    <2>. QED  BY <2>4, <2>5, <2>6 DEF IInv
  <1>3. CASE StartTick
    <2>1. /\ at = "idle" /\ ~stopped /\ at' = "add"
          /\ UNCHANGED <<addSessQueue, mapVars, m_QueuedPlayer, m_disconnects, charState,
                         dbVars, stopVars, todo, cur>>
      BY <1>3 DEF StartTick
    <2>2. \A s \in Sessions : session'[s] =
             IF s \in Listed(m_offlineSessions) /\ session[s].age <= OfflineTicks
             THEN [session[s] EXCEPT !.age = @ + 1] ELSE session[s]
      BY <1>3 DEF StartTick
    <2>3. /\ \A s \in Sessions : session'[s] \in SessionState
          /\ \A s \in Sessions : /\ session'[s].player = session[s].player
                                 /\ session'[s].loading = session[s].loading
                                 /\ session'[s].inQueue = session[s].inQueue
                                 /\ session'[s].kicked = session[s].kicked
                                 /\ session'[s].socket = session[s].socket
      <3>. SUFFICES ASSUME NEW s \in Sessions, session'[s] = [session[s] EXCEPT !.age = @ + 1],
                           session[s].age <= OfflineTicks
                    PROVE  /\ session'[s] \in SessionState
                           /\ session'[s].player = session[s].player
                           /\ session'[s].loading = session[s].loading
                           /\ session'[s].inQueue = session[s].inQueue
                           /\ session'[s].kicked = session[s].kicked
                           /\ session'[s].socket = session[s].socket
        BY <2>2 DEF IInv, TypeOK
      <3>1. session[s] \in SessionState
        BY DEF IInv, TypeOK
      <3>2. session[s].age + 1 \in 0..OfflineTicks + 1
        BY <3>1, SessionsAssumption DEF SessionState
      <3>. QED  BY <3>1, <3>2 DEF SessionState
    <2>4. session' \in [Sessions -> SessionState]
      BY <1>3, <2>3 DEF StartTick
    <2>5. Filed' /\ Blank' /\ Newcomers' /\ Connected' /\ Owned' /\ Loading'
      BY <2>1, <2>3, <2>4, Touch
    <2>6. Queue'
      BY <2>1, <2>3 DEF IInv, Queue, WaitingIsQueued, Listed, TypeOK, Policy!IsQueued,
                        mapVars, stopVars
    <2>7. Thread' /\ Superseded' /\ Kicked'
      BY <2>1, <2>3 DEF IInv, Thread, Online, Superseded, Kicked, TypeOK, mapVars, stopVars
    <2>8. TypeOK'
      BY <2>1, <2>4 DEF IInv, TypeOK, mapVars, dbVars, stopVars
    <2>. QED  BY <2>5, <2>6, <2>7, <2>8 DEF IInv
  <1>4. CASE KickAll
    <2>1. /\ at = "idle" /\ stopped /\ ~closing /\ closing' = TRUE /\ at' = "add"
          /\ m_QueuedPlayer' = <<>>
          /\ UNCHANGED <<addSessQueue, mapVars, m_disconnects, charState, dbVars, stopped,
                         todo, cur>>
      BY <1>4 DEF KickAll
    <2>2. \A s \in Sessions : session'[s] = IF s \in Held THEN KickPlayer(session[s], TRUE)
                                            ELSE session[s]
      BY <1>4 DEF KickAll
    <2>3. \A s \in Sessions :
             /\ session'[s] \in SessionState
             /\ session'[s].player = session[s].player
             /\ session'[s].loading = session[s].loading
             /\ session'[s].inQueue = session[s].inQueue
             /\ session[s].socket # "none" => session'[s].socket # "none"
             /\ s \in Held => session'[s].kicked /\ session'[s].socket \in {"none", "closed"}
             /\ s \notin Held => session'[s] = session[s]
      <3>. SUFFICES ASSUME NEW s \in Sessions, s \in Held
                    PROVE  /\ session'[s] \in SessionState
                           /\ session'[s].player = session[s].player
                           /\ session'[s].loading = session[s].loading
                           /\ session'[s].inQueue = session[s].inQueue
                           /\ session[s].socket # "none" => session'[s].socket # "none"
                           /\ session'[s].kicked /\ session'[s].socket \in {"none", "closed"}
        BY <2>2 DEF IInv, TypeOK
      <3>1. session[s] \in SessionState /\ session'[s] = KickPlayer(session[s], TRUE)
        BY <2>2 DEF IInv, TypeOK
      <3>. QED  BY <3>1, KickPlayerFields
    <2>4. session' \in [Sessions -> SessionState]
      BY <1>4, <2>3 DEF KickAll
    <2>5. Filed' /\ Blank' /\ Newcomers' /\ Connected' /\ Owned' /\ Loading'
      BY <2>1, <2>3, <2>4, Touch
    <2>6. DOMAIN m_QueuedPlayer' = {} /\ m_QueuedPlayer' \in Seq(Sessions)
      BY <2>1, EmptySeq
    <2>7. Queue'
      BY <2>1, <2>6 DEF Queue, WaitingIsQueued
    <2>8. Thread' /\ Superseded' /\ Kicked'
      <3>1. \A a \in Accounts : m_offlineSessions[a] # None =>
               m_offlineSessions[a] \in Sessions /\ m_offlineSessions[a] \in Held
        BY DEF IInv, TypeOK, Held, Listed
      <3>2. Thread' /\ Superseded'
        BY <2>1, <2>3 DEF IInv, Thread, Online, Superseded, TypeOK, mapVars
      <3>. QED  BY <2>1, <2>3, <3>1, <3>2 DEF Kicked, mapVars
    <2>9. TypeOK'
      BY <2>1, <2>4, <2>6 DEF IInv, TypeOK, mapVars, dbVars
    <2>. QED  BY <2>5, <2>7, <2>8, <2>9 DEF IInv
  <1>. QED  BY <1>1, <1>2, <1>3, <1>4

(* The steps of UpdateSessions that only move the world thread. *)
LEMMA MoveStep ==
  ASSUME IInv, EndAdd \/ EndPackets \/ EndVisit \/ \E a \in Accounts : VisitSession(a)
  PROVE  IInv'
  <1>1. UNCHANGED <<session, addSessQueue, mapVars, m_QueuedPlayer, m_disconnects, charState,
                    dbVars, stopVars>>
    BY DEF EndAdd, EndPackets, EndVisit, VisitSession
  <1>2. Filed' /\ Blank' /\ Newcomers' /\ Connected' /\ Owned' /\ Loading'
    BY <1>1 DEF IInv, Filed, Blank, Newcomers, Connected, Owned, Loading, Held, Listed, mapVars
  <1>3. Queue'
    BY <1>1 DEF IInv, Queue, WaitingIsQueued, Listed, Policy!IsQueued, mapVars, stopVars
  <1>4. CASE EndAdd
    <2>1. at = "add" /\ at' = "visit" /\ todo' = Online /\ cur' = cur
      BY <1>4 DEF EndAdd
    <2>2. TypeOK'
      BY <1>1, <2>1 DEF IInv, TypeOK, Online, mapVars, dbVars, stopVars
    <2>3. Thread' /\ Superseded' /\ Kicked'
      BY <1>1, <2>1 DEF IInv, Thread, Superseded, Kicked, Online, mapVars, stopVars
    <2>. QED  BY <1>2, <1>3, <2>2, <2>3 DEF IInv
  <1>5. CASE EndPackets \/ EndVisit
    <2>1. /\ at \in {"packets", "visit"} /\ UNCHANGED <<todo, cur>>
          /\ at = "packets" => at' = "callbacks"
          /\ at = "visit" => at' = "offline" /\ todo = {}
      BY <1>5 DEF EndPackets, EndVisit
    <2>2. TypeOK'
      BY <1>1, <2>1 DEF IInv, TypeOK, mapVars, dbVars, stopVars
    <2>3. Thread' /\ Superseded' /\ Kicked'
      BY <1>1, <2>1 DEF IInv, Thread, Superseded, Kicked, Online, mapVars, stopVars
    <2>. QED  BY <1>2, <1>3, <2>2, <2>3 DEF IInv
  <1>6. ASSUME NEW a \in Accounts, VisitSession(a) PROVE IInv'
    <2>1. /\ at = "visit" /\ a \in todo /\ at' = "packets"
          /\ cur' = m_sessions[a] /\ todo' = todo \ {a}
      BY <1>6 DEF VisitSession
    <2>2. cur' \in Sessions /\ cur' # None /\ SessionAccount[cur'] = a /\ cur = None
      BY <2>1 DEF IInv, TypeOK, Thread, Online, Filed
    <2>3. TypeOK'
      BY <1>1, <2>1, <2>2 DEF IInv, TypeOK, mapVars, dbVars, stopVars
    <2>4. Thread' /\ Superseded'
      BY <1>1, <2>1, <2>2 DEF IInv, Thread, Superseded, Online, mapVars, stopVars
    <2>5. Kicked'
      BY <1>1, <2>1, <2>2 DEF IInv, Kicked, mapVars, stopVars
    <2>. QED  BY <1>2, <1>3, <2>3, <2>4, <2>5 DEF IInv
  <1>. QED  BY <1>4, <1>5, <1>6

-----------------------------------------------------------------------------
(* Steps that delete, park or place a session. *)

LEMMA QueueFacts ==
  ASSUME TypeOK, Queue
  PROVE  /\ m_QueuedPlayer \in Seq(Sessions) /\ Distinct(m_QueuedPlayer)
         /\ \A t : Policy!IsQueued(m_QueuedPlayer, t) =>
               /\ t \in Sessions /\ m_sessions[SessionAccount[t]] = t
               /\ session[t].inQueue
  BY DEF TypeOK, Queue, Distinct, Policy!IsQueued

(* The newcomer is deleted: it had nothing yet. *)
LEMMA RejectStep == ASSUME IInv, RejectSession PROVE IInv'
  <1>. DEFINE s == Head(addSessQueue)
  <1>1. /\ addSessQueue # <<>> /\ addSessQueue' = Tail(addSessQueue)
        /\ Delete({s}, session)
        /\ accountOnline' \in [Accounts -> BOOLEAN]
        /\ UNCHANGED <<mapVars, m_QueuedPlayer, m_disconnects, stopVars, worldVars>>
    BY DEF RejectSession, SetOfflineInDB, IInv, TypeOK
  <1>2. /\ Len(addSessQueue) \in Nat /\ DOMAIN addSessQueue = 1..Len(addSessQueue)
        /\ addSessQueue' \in Seq(Sessions) /\ DOMAIN addSessQueue' = 1..Len(addSessQueue) - 1
        /\ \A k \in 1..Len(addSessQueue) - 1 : addSessQueue'[k] = addSessQueue[k + 1]
        /\ s = addSessQueue[1] /\ s \in Sessions /\ 1 \in DOMAIN addSessQueue
    BY <1>1, HeadTailProperties, LenProperties, EmptySeq DEF IInv, TypeOK
  <1>3. s \notin Held
    BY <1>2 DEF IInv, Newcomers
  <1>4. /\ session[s].player = None /\ session[s].loading = None
        /\ ~session[s].inQueue /\ ~session[s].kicked
    BY <1>2, <1>3 DEF IInv, Blank
  <1>5. \A k \in DOMAIN addSessQueue' : /\ k + 1 \in DOMAIN addSessQueue
                                        /\ addSessQueue'[k] = addSessQueue[k + 1]
                                        /\ addSessQueue'[k] # s
    BY <1>2 DEF IInv, Newcomers
  <1>. HIDE DEF s
  <1>6. /\ session' \in [Sessions -> SessionState]
        /\ session'[s] = Fresh
        /\ \A t \in Sessions \ {s} : session'[t] = session[t]
        /\ charState' \in [Characters -> {"absent", "world", "away"}]
        /\ charOnline' \in [Characters -> BOOLEAN]
    <2>1. TypeOK /\ {s} \in SUBSET Sessions /\ session \in [Sessions -> SessionState]
      BY <1>2 DEF IInv, TypeOK
    <2>. QED  BY <1>1, <2>1, DeleteEffect
  <1>7. Owned'
    BY <1>1, <1>2, DeleteOwned DEF IInv, TypeOK
  <1>8. Held' = Held
    BY <1>1 DEF Held, Listed, mapVars
  <1>9. Filed' /\ Blank'
    BY <1>1, <1>6, <1>8 DEF IInv, Filed, Blank, Fresh, mapVars
  <1>10. Newcomers'
    <2>1. \A j, k \in DOMAIN addSessQueue' : j # k => addSessQueue'[j] # addSessQueue'[k]
      <3>. SUFFICES ASSUME NEW j \in DOMAIN addSessQueue', NEW k \in DOMAIN addSessQueue', j # k
                    PROVE  addSessQueue'[j] # addSessQueue'[k]
        OBVIOUS
      <3>1. j + 1 # k + 1
        BY <1>2
      <3>. QED  BY <1>5, <3>1 DEF IInv, Newcomers
    <2>2. \A k \in DOMAIN addSessQueue' : /\ addSessQueue'[k] \notin Held
                                          /\ session'[addSessQueue'[k]].socket # "none"
      BY <1>5, <1>6 DEF IInv, Newcomers, TypeOK
    <2>. QED  BY <1>8, <2>1, <2>2 DEF Newcomers
  <1>11. \A t \in Held : t \in Sessions /\ session'[t] = session[t]
    BY <1>3, <1>6 DEF IInv, TypeOK, Held, Listed
  <1>12. \A a \in Accounts : /\ m_sessions[a] # None => m_sessions[a] \in Held
                             /\ m_offlineSessions[a] # None => m_offlineSessions[a] \in Held
    BY DEF Held, Listed
  <1>13. Connected' /\ Superseded' /\ Kicked' /\ Thread'
    BY <1>1, <1>11, <1>12 DEF IInv, Connected, Superseded, Kicked, Thread, Online, mapVars,
                              stopVars, worldVars
  <1>14. Loading'
    <2>. SUFFICES ASSUME NEW t \in Sessions, session'[t].loading # None
                  PROVE  /\ m_sessions[SessionAccount[t]] = t
                         /\ session'[t].player = None
                         /\ CharAccount[session'[t].loading] = SessionAccount[t]
                         /\ m_offlineSessions[SessionAccount[t]] # None =>
                               session'[m_offlineSessions[SessionAccount[t]]].player
                                  # session'[t].loading
      BY <1>1 DEF Loading, mapVars
    <2>1. t # s /\ session'[t] = session[t] /\ SessionAccount[t] \in Accounts
      BY <1>6, SessionsAssumption DEF Fresh
    <2>. QED  BY <1>11, <1>12, <2>1 DEF IInv, Loading
  <1>15. Queue'
    <2>1. \A k \in DOMAIN m_QueuedPlayer : m_QueuedPlayer[k] \in Held
      BY <1>12, SessionsAssumption DEF IInv, Queue, TypeOK
    <2>2. WaitingIsQueued'
      BY <1>1, <1>11 DEF IInv, Queue, WaitingIsQueued, Listed, Held, Policy!IsQueued,
                         mapVars, stopVars
    <2>. QED  BY <1>1, <1>11, <2>1, <2>2 DEF IInv, Queue, mapVars
  <1>16. TypeOK'
    BY <1>1, <1>2, <1>6 DEF IInv, TypeOK, mapVars, stopVars, worldVars
  <1>. QED
    BY <1>7, <1>9, <1>10, <1>13, <1>14, <1>15, <1>16 DEF IInv

(* While a session is visited, only it and the offline session of its account change. *)
LEMMA VisitTouch ==
  ASSUME IInv, at \in {"packets", "callbacks", "finish"},
         UNCHANGED <<addSessQueue, mapVars, m_QueuedPlayer, m_disconnects, stopVars, todo>>,
         session' \in [Sessions -> SessionState],
         NEW off, off = m_offlineSessions[SessionAccount[cur]],
         \A t \in Sessions \ {cur, off} : session'[t] = session[t],
         \A t \in {cur, off} \ {None} :
            /\ session'[t].inQueue = session[t].inQueue
            /\ session[t].socket # "none" => session'[t].socket # "none",
         session'[cur].kicked => session'[cur].socket = "closed"
  PROVE  /\ cur \in Sessions /\ cur # off /\ SessionAccount[cur] \in Accounts
         /\ Held' = Held
         /\ Filed' /\ Blank' /\ Newcomers' /\ Connected' /\ Queue'
  <1>. USE DEF IInv
  <1>1. /\ cur \in Sessions /\ cur # off /\ SessionAccount[cur] \in Accounts
        /\ m_sessions[SessionAccount[cur]] = cur /\ cur # None
    BY SessionsAssumption DEF Thread, TypeOK, Filed
  <1>2. /\ off # None => off \in Sessions /\ off \in Held /\ SessionAccount[off] = SessionAccount[cur]
        /\ cur \in Held
    BY <1>1 DEF TypeOK, Held, Listed, Filed
  <1>3. Held' = Held /\ UNCHANGED <<m_sessions, m_offlineSessions, closing>>
    BY DEF Held, Listed, mapVars, stopVars
  <1>4. Filed'
    BY <1>3 DEF Filed
  <1>5. Blank'
    <2>1. Sessions \ Held \subseteq Sessions \ {cur, off}
      BY <1>2, SessionsAssumption
    <2>. QED  BY <1>3, <2>1 DEF Blank
  <1>6. Newcomers'
    <2>1. \A k \in DOMAIN addSessQueue : addSessQueue[k] \in Sessions \ {cur, off}
      BY <1>1, <1>2, SessionsAssumption DEF Newcomers, TypeOK
    <2>. QED  BY <1>3, <2>1 DEF Newcomers
  <1>7. Connected'
    <2>. SUFFICES ASSUME NEW a \in Accounts, m_sessions[a] # None
                  PROVE  /\ session'[m_sessions[a]].socket # "none"
                         /\ session'[m_sessions[a]].kicked =>
                               session'[m_sessions[a]].socket = "closed"
      BY <1>3 DEF Connected
    <2>1. CASE m_sessions[a] = cur
      BY <1>1, <2>1 DEF Connected
    <2>2. CASE m_sessions[a] # cur
      <3>1. m_sessions[a] \in Sessions /\ m_sessions[a] # off
        BY <1>1, <1>2, <2>2 DEF TypeOK, Filed
      <3>. QED  BY <2>2, <3>1 DEF Connected
    <2>. QED  BY <2>1, <2>2
  <1>8. Queue'
    <2>1. \A t \in Sessions : session'[t].inQueue = session[t].inQueue
      BY <1>1, <1>2, SessionsAssumption
    <2>2. \A k \in DOMAIN m_QueuedPlayer : m_QueuedPlayer[k] \in Sessions
      BY DEF TypeOK
    <2>3. \A t \in Listed(m_sessions) : t \in Sessions
      BY DEF TypeOK, Listed
    <2>4. WaitingIsQueued'
      BY <1>3, <2>1, <2>3 DEF Queue, WaitingIsQueued, Listed, Policy!IsQueued
    <2>. QED  BY <1>3, <2>1, <2>2, <2>4 DEF Queue
  <1>. QED  BY <1>1, <1>3, <1>4, <1>5, <1>6, <1>7, <1>8

(* A login opcode: refused, started, or the character is taken over from the offline session. *)
LEMMA LoginStep ==
  ASSUME IInv, NEW c \in Characters, HandlePlayerLoginOpcode(c)
  PROVE  IInv'
  <1>. DEFINE a   == SessionAccount[cur]
              off == m_offlineSessions[a]
  <1>1. /\ at = "packets" /\ session[cur].socket = "open" /\ ~session[cur].inQueue
        /\ CharAccount[c] = a
        /\ UNCHANGED <<addSessQueue, mapVars, m_QueuedPlayer, m_disconnects, dbVars, stopVars,
                       worldVars>>
    BY DEF HandlePlayerLoginOpcode
  <1>2. /\ cur \in Sessions /\ a \in Accounts /\ m_sessions[a] = cur /\ a \notin todo
        /\ cur # off /\ off \in Sessions \cup {None} /\ cur # None /\ None \notin Sessions
        /\ off # None => SessionAccount[off] = a
        /\ session[cur] \in SessionState
        /\ off # None => session[off] \in SessionState
        /\ c # None
    BY <1>1, SessionsAssumption DEF IInv, TypeOK, Thread, Filed
  <1>3. ~session[cur].kicked
    BY <1>1, <1>2 DEF IInv, Connected
  <1>4. \/ /\ session' = [session EXCEPT ![cur] = KickPlayer(session[cur], TRUE)]
           /\ charState' = charState
        \/ /\ session[cur].loading = None /\ session[cur].player = None
           /\ \/ /\ off = None
                 /\ session' = [session EXCEPT ![cur].loading = c, ![cur].ready = FALSE]
                 /\ charState' = charState
              \/ /\ off # None /\ session[off].player # c
                 /\ session' = [[session EXCEPT ![off] = KickPlayer(session[off], TRUE)]
                                   EXCEPT ![cur].loading = c, ![cur].ready = FALSE]
                 /\ charState' = charState
              \/ /\ off # None /\ session[off].player = c /\ ~session[off].kicked
                 /\ charState' = [charState EXCEPT ![c] = "world"]
                 /\ session' = [session EXCEPT ![off].player = None, ![cur].player = c]
    BY <1>2 DEF HandlePlayerLoginOpcode
  <1>. HIDE DEF off, a
  <1>5. CASE /\ session' = [session EXCEPT ![cur] = KickPlayer(session[cur], TRUE)]
             /\ charState' = charState
    <2>1. /\ session' \in [Sessions -> SessionState]
          /\ session'[cur] = KickPlayer(session[cur], TRUE)
          /\ \A t \in Sessions \ {cur} : session'[t] = session[t]
      BY <1>2, <1>5, KickPlayerFields DEF IInv, TypeOK
    <2>2. /\ session'[cur].kicked /\ session'[cur].socket = "closed"
          /\ session'[cur].inQueue = session[cur].inQueue
          /\ session'[cur].loading = session[cur].loading
          /\ session'[cur].player = session[cur].player
      BY <1>1, <1>2, <2>1, KickPlayerFields, ZenonT(30)
    <2>3. Filed' /\ Blank' /\ Newcomers' /\ Connected' /\ Queue'
      <3>1. \A t \in {cur, off} \ {None} :
               /\ session'[t].inQueue = session[t].inQueue
               /\ session[t].socket # "none" => session'[t].socket # "none"
        BY <1>2, <2>1, <2>2
      <3>. QED  BY <1>1, <1>2, <2>1, <2>2, <3>1, VisitTouch, ZenonT(30) DEF worldVars, a, off
    <2>4. \A t \in Sessions : /\ session'[t].player = session[t].player
                              /\ session'[t].loading = session[t].loading
                              /\ t # cur => session'[t].kicked = session[t].kicked
      BY <2>1, <2>2
    <2>5. Owned'
      <3>1. charState' = charState
        BY <1>5
      <3>. QED  BY <2>4, <3>1 DEF IInv, Owned
    <2>6. Loading'
      <3>1. \A t \in Sessions :
               m_offlineSessions[SessionAccount[t]] \in Sessions \cup {None}
        BY SessionsAssumption DEF IInv, TypeOK
      <3>. QED  BY <1>1, <2>4, <3>1 DEF IInv, Loading, mapVars
    <2>7. Thread' /\ Superseded'
      <3>1. Thread'
        BY <1>1 DEF IInv, Thread, Online, mapVars, stopVars, worldVars
      <3>2. Superseded'
        BY <1>1, <1>2, <2>4, SMTT(30) DEF IInv, Superseded, TypeOK, Filed, mapVars, stopVars, worldVars
      <3>. QED  BY <3>1, <3>2
    <2>8. Kicked'
      BY <1>1, <1>2, <2>4, SMTT(30) DEF IInv, Kicked, TypeOK, Filed, mapVars, stopVars, worldVars
    <2>9. TypeOK'
      BY <1>1, <1>5, <2>1 DEF IInv, TypeOK, mapVars, dbVars, stopVars, worldVars
    <2>. QED  BY <2>3, <2>5, <2>6, <2>7, <2>8, <2>9 DEF IInv
  <1>6. CASE /\ session[cur].loading = None /\ session[cur].player = None
             /\ \/ /\ off = None
                   /\ session' = [session EXCEPT ![cur].loading = c, ![cur].ready = FALSE]
                \/ /\ off # None /\ session[off].player # c
                   /\ session' = [[session EXCEPT ![off] = KickPlayer(session[off], TRUE)]
                                     EXCEPT ![cur].loading = c, ![cur].ready = FALSE]
             /\ charState' = charState
    <2>1. /\ session' \in [Sessions -> SessionState]
          /\ session'[cur].kicked = session[cur].kicked
          /\ session'[cur].socket = session[cur].socket
          /\ session'[cur].inQueue = session[cur].inQueue
          /\ session'[cur].player = None /\ session'[cur].loading = c
          /\ off # None => session'[off] = KickPlayer(session[off], TRUE)
          /\ \A t \in Sessions \ {cur, off} : session'[t] = session[t]
      <3>1. CASE off = None
        <4>1. /\ session'[cur] = [session[cur] EXCEPT !.loading = c, !.ready = FALSE]
              /\ session' = [session EXCEPT ![cur] = session'[cur]]
          BY <1>2, <1>6, <3>1 DEF IInv, TypeOK
        <4>2. /\ session'[cur] \in SessionState
              /\ session'[cur].kicked = session[cur].kicked
              /\ session'[cur].socket = session[cur].socket
              /\ session'[cur].inQueue = session[cur].inQueue
              /\ session'[cur].player = session[cur].player /\ session'[cur].loading = c
          BY <1>2, <4>1 DEF SessionState
        <4>. QED  BY <1>2, <1>6, <3>1, <4>1, <4>2 DEF IInv, TypeOK
      <3>2. CASE off # None
        <4>. DEFINE kept == [session EXCEPT ![off] = KickPlayer(session[off], TRUE)]
        <4>1. /\ kept \in [Sessions -> SessionState]
              /\ kept[off] = KickPlayer(session[off], TRUE)
              /\ \A t \in Sessions \ {off} : kept[t] = session[t]
          BY <1>2, <3>2, KickPlayerFields DEF IInv, TypeOK
        <4>2. session' = [kept EXCEPT ![cur].loading = c, ![cur].ready = FALSE]
          BY <1>6, <3>2
        <4>. HIDE DEF kept
        <4>3. /\ session'[cur] = [session[cur] EXCEPT !.loading = c, !.ready = FALSE]
              /\ session' = [kept EXCEPT ![cur] = session'[cur]]
          BY <1>2, <4>1, <4>2
        <4>4. /\ session'[cur] \in SessionState
              /\ session'[cur].kicked = session[cur].kicked
              /\ session'[cur].socket = session[cur].socket
              /\ session'[cur].inQueue = session[cur].inQueue
              /\ session'[cur].player = session[cur].player /\ session'[cur].loading = c
          BY <1>2, <4>3 DEF SessionState
        <4>. QED  BY <1>2, <1>6, <4>1, <4>3, <4>4
      <3>. QED  BY <3>1, <3>2
    <2>2. off # None => /\ session'[off].kicked
                        /\ session[off].socket # "none" => session'[off].socket # "none"
                        /\ session'[off].inQueue = session[off].inQueue
                        /\ session'[off].loading = session[off].loading
                        /\ session'[off].player = session[off].player /\ session[off].player # c
      <3>. SUFFICES ASSUME off # None PROVE KickPlayer(session[off], TRUE) = session'[off]
                                            /\ session[off] \in SessionState
                                            /\ session[off].player # c
        BY KickPlayerFields
      <3>. QED  BY <1>2, <1>6, <2>1
    <2>3. Filed' /\ Blank' /\ Newcomers' /\ Connected' /\ Queue'
      BY <1>1, <1>2, <1>3, <2>1, <2>2, VisitTouch DEF worldVars, a, off
    <2>4. \A t \in Sessions : /\ session'[t].player = session[t].player
                              /\ t # cur => session'[t].loading = session[t].loading
                              /\ t # off => session'[t].kicked = session[t].kicked
      BY <1>2, <1>6, <2>1, <2>2
    <2>5. Owned'
      BY <1>6, <2>4 DEF IInv, Owned
    <2>6. Loading'
      <3>. SUFFICES ASSUME NEW t \in Sessions, session'[t].loading # None
                    PROVE  /\ m_sessions[SessionAccount[t]] = t
                           /\ session[t].player = None
                           /\ CharAccount[session'[t].loading] = SessionAccount[t]
                           /\ m_offlineSessions[SessionAccount[t]] # None =>
                                 session[m_offlineSessions[SessionAccount[t]]].player
                                    # session'[t].loading
        BY <1>1, <2>4, SessionsAssumption DEF Loading, mapVars, IInv, TypeOK
      <3>1. CASE t = cur
        BY <1>1, <1>2, <1>6, <2>1, <2>2, <3>1 DEF a, off
      <3>2. CASE t # cur
        BY <2>4, <3>2 DEF IInv, Loading
      <3>. QED  BY <3>1, <3>2
    <2>7. Superseded'
      <3>. SUFFICES ASSUME NEW b \in Accounts, m_sessions[b] # None, m_offlineSessions[b] # None,
                           \/ session'[m_sessions[b]].player # None
                           \/ session'[m_sessions[b]].loading # None
                    PROVE  /\ at \notin {"idle", "add"} /\ b \notin todo
                           /\ \/ session'[m_offlineSessions[b]].kicked
                              \/ session'[m_offlineSessions[b]].player = None
        BY <1>1 DEF Superseded, mapVars, worldVars
      <3>1. CASE b = a
        BY <1>1, <1>2, <2>2, <3>1 DEF off
      <3>2. CASE b # a
        <4>1. m_sessions[b] # cur /\ m_offlineSessions[b] # off
          BY <1>2, <3>2 DEF IInv, Filed
        <4>. QED  BY <2>4, <4>1 DEF IInv, Superseded, TypeOK
      <3>. QED  BY <3>1, <3>2
    <2>8. Thread'
      BY <1>1 DEF IInv, Thread, Online, mapVars, stopVars, worldVars
    <2>9. Kicked'
      <3>1. \A b \in Accounts : m_sessions[b] # off \/ m_sessions[b] = None
        BY <1>2 DEF IInv, Filed
      <3>. QED  BY <1>1, <1>2, <2>2, <2>4, <3>1, SMTT(30) DEF IInv, Kicked, TypeOK, mapVars, stopVars, worldVars
    <2>10. TypeOK'
      BY <1>1, <1>6, <2>1 DEF IInv, TypeOK, mapVars, dbVars, stopVars, worldVars
    <2>. QED  BY <2>3, <2>5, <2>6, <2>7, <2>8, <2>9, <2>10 DEF IInv
  <1>7. CASE /\ session[cur].loading = None /\ session[cur].player = None
             /\ off # None /\ session[off].player = c /\ ~session[off].kicked
             /\ charState' = [charState EXCEPT ![c] = "world"]
             /\ session' = [session EXCEPT ![off].player = None, ![cur].player = c]
    <2>1. /\ session' \in [Sessions -> SessionState]
          /\ \A t \in Sessions \ {cur, off} : session'[t] = session[t]
          /\ session'[cur].player = c /\ session'[off].player = None
          /\ \A t \in {cur, off} : /\ session'[t].kicked = session[t].kicked
                                   /\ session'[t].socket = session[t].socket
                                   /\ session'[t].inQueue = session[t].inQueue
                                   /\ session'[t].loading = session[t].loading
      BY <1>2, <1>7, ZenonT(30) DEF IInv, TypeOK, SessionState
    <2>2. Filed' /\ Blank' /\ Newcomers' /\ Connected' /\ Queue'
      BY <1>1, <1>2, <1>3, <2>1, VisitTouch DEF worldVars, a, off
    <2>3. /\ charState' \in [Characters -> {"absent", "world", "away"}]
          /\ charState'[c] = "world"
          /\ \A d \in Characters \ {c} : charState'[d] = charState[d]
      BY <1>7 DEF IInv, TypeOK
    <2>4. Owned'
      <3>1. /\ \A t \in Sessions \ {cur, off} : session[t].player # c
            /\ \A t \in Sessions : session[t].player \in Characters \cup {None}
        BY <1>2, <1>7 DEF IInv, Owned, TypeOK, SessionState
      <3>2. \A t \in Sessions : session'[t].player # None =>
               /\ charState'[session'[t].player] # "absent"
               /\ CharAccount[session'[t].player] = SessionAccount[t]
        BY <1>1, <1>2, <2>1, <2>3, <3>1 DEF IInv, Owned, a
      <3>3. \A t, u \in Sessions : session'[t].player # None /\ t # u =>
               session'[t].player # session'[u].player
        BY <1>2, <2>1, <3>1 DEF IInv, Owned
      <3>4. \A d \in Characters : charState'[d] # "absent" =>
               \E t \in Sessions : session'[t].player = d
        <4>. SUFFICES ASSUME NEW d \in Characters, charState'[d] # "absent", d # c
                      PROVE  \E t \in Sessions : session'[t].player = d
          BY <1>2, <2>1
        <4>1. PICK t \in Sessions : session[t].player = d
          BY <2>3 DEF IInv, Owned
        <4>2. t \notin {cur, off}
          BY <1>2, <1>7, <4>1, SessionsAssumption
        <4>. QED  BY <2>1, <4>1, <4>2
      <3>. QED  BY <3>2, <3>3, <3>4 DEF Owned
    <2>5. Loading'
      <3>. SUFFICES ASSUME NEW t \in Sessions, session'[t].loading # None
                    PROVE  /\ m_sessions[SessionAccount[t]] = t
                           /\ session'[t].player = None
                           /\ CharAccount[session'[t].loading] = SessionAccount[t]
                           /\ m_offlineSessions[SessionAccount[t]] # None =>
                                 session'[m_offlineSessions[SessionAccount[t]]].player
                                    # session'[t].loading
        BY <1>1 DEF Loading, mapVars
      <3>1. session'[t].loading = session[t].loading /\ t # cur
        BY <1>7, <2>1
      <3>2. /\ m_sessions[SessionAccount[t]] = t /\ SessionAccount[t] \in Accounts
            /\ session[t].player = None /\ CharAccount[session[t].loading] = SessionAccount[t]
        BY <3>1, SessionsAssumption DEF IInv, Loading
      <3>3. t # off
        BY <1>2, <3>1, <3>2
      <3>4. SessionAccount[t] # a
        BY <1>2, <3>1, <3>2
      <3>5. ASSUME m_offlineSessions[SessionAccount[t]] # None
            PROVE  /\ m_offlineSessions[SessionAccount[t]] \in Sessions \ {cur, off}
                   /\ session[m_offlineSessions[SessionAccount[t]]].player # session[t].loading
        BY <1>2, <3>1, <3>2, <3>4, <3>5 DEF IInv, TypeOK, Filed, Loading
      <3>. QED  BY <2>1, <3>1, <3>2, <3>3, <3>5
    <2>6. Superseded'
      <3>. SUFFICES ASSUME NEW b \in Accounts, m_sessions[b] # None, m_offlineSessions[b] # None,
                           \/ session'[m_sessions[b]].player # None
                           \/ session'[m_sessions[b]].loading # None
                    PROVE  /\ at \notin {"idle", "add"} /\ b \notin todo
                           /\ \/ session'[m_offlineSessions[b]].kicked
                              \/ session'[m_offlineSessions[b]].player = None
        BY <1>1 DEF Superseded, mapVars, worldVars
      <3>1. CASE b = a
        BY <1>1, <1>2, <2>1, <3>1 DEF off
      <3>2. CASE b # a
        <4>1. /\ m_sessions[b] \in Sessions \ {cur, off}
              /\ m_offlineSessions[b] \in Sessions \ {cur, off}
          BY <1>2, <3>2 DEF IInv, TypeOK, Filed
        <4>. QED  BY <2>1, <4>1 DEF IInv, Superseded
      <3>. QED  BY <3>1, <3>2
    <2>7. \A t \in Sessions : session'[t].kicked = session[t].kicked
      BY <2>1
    <2>8. Thread' /\ Kicked'
      BY <1>1, <2>7 DEF IInv, Thread, Kicked, TypeOK, Online, mapVars, stopVars, worldVars
    <2>9. TypeOK'
      BY <1>1, <2>1, <2>3 DEF IInv, TypeOK, mapVars, dbVars, stopVars, worldVars
    <2>. QED  BY <2>2, <2>4, <2>5, <2>6, <2>8, <2>9 DEF IInv
  <1>. QED  BY <1>4, <1>5, <1>6, <1>7

(* What VisitTouch asks of a step that changes no session but the current one. *)
LEMMA VisitOne ==
  ASSUME IInv, at \in {"packets", "callbacks", "finish"},
         UNCHANGED <<addSessQueue, mapVars, m_QueuedPlayer, m_disconnects, stopVars, todo>>,
         session' \in [Sessions -> SessionState],
         \A t \in Sessions \ {cur} : session'[t] = session[t],
         session'[cur].inQueue = session[cur].inQueue,
         session[cur].socket # "none" => session'[cur].socket # "none",
         session'[cur].kicked => session'[cur].socket = "closed",
         session'[cur].loading \in {session[cur].loading, None}
  PROVE  /\ cur \in Sessions /\ cur # None /\ SessionAccount[cur] \in Accounts
         /\ m_sessions[SessionAccount[cur]] = cur
         /\ Filed' /\ Blank' /\ Newcomers' /\ Connected' /\ Queue'
         /\ (session'[cur].loading # None => session'[cur].player = session[cur].player) => Loading'
         /\ (session'[cur].player # None \/ session'[cur].loading # None =>
               session[cur].player # None \/ session[cur].loading # None) /\ at' # "add" /\ at' # "idle"
            => Superseded'
  <1>. DEFINE off == m_offlineSessions[SessionAccount[cur]]
  <1>1. /\ cur \in Sessions /\ cur # None /\ SessionAccount[cur] \in Accounts
        /\ m_sessions[SessionAccount[cur]] = cur
        /\ off \in Sessions \cup {None} /\ off # cur /\ None \notin Sessions
    BY SessionsAssumption DEF IInv, TypeOK, Thread, Filed
  <1>2. /\ \A t \in Sessions \ {cur, off} : session'[t] = session[t]
        /\ \A t \in {cur, off} \ {None} :
              /\ session'[t].inQueue = session[t].inQueue
              /\ session[t].socket # "none" => session'[t].socket # "none"
    BY <1>1
  <1>3. Filed' /\ Blank' /\ Newcomers' /\ Connected' /\ Queue'
    BY <1>2, VisitTouch
  <1>4. \A b \in Accounts : m_offlineSessions[b] # None =>
           /\ m_offlineSessions[b] \in Sessions \ {cur}
           /\ session'[m_offlineSessions[b]] = session[m_offlineSessions[b]]
    BY <1>1 DEF IInv, TypeOK, Filed
  <1>5. ASSUME session'[cur].loading # None => session'[cur].player = session[cur].player
        PROVE  Loading'
    <2>. SUFFICES ASSUME NEW t \in Sessions, session'[t].loading # None
                  PROVE  /\ m_sessions[SessionAccount[t]] = t
                         /\ session'[t].player = None
                         /\ CharAccount[session'[t].loading] = SessionAccount[t]
                         /\ m_offlineSessions[SessionAccount[t]] # None =>
                               session'[m_offlineSessions[SessionAccount[t]]].player
                                  # session'[t].loading
      BY DEF Loading, mapVars
    <2>1. session'[t].loading = session[t].loading /\ session'[t].player = session[t].player
      BY <1>1, <1>5
    <2>2. SessionAccount[t] \in Accounts
      BY SessionsAssumption
    <2>. QED  BY <1>4, <2>1, <2>2 DEF IInv, Loading
  <1>6. ASSUME \/ session'[cur].player = None /\ session'[cur].loading = None
               \/ session[cur].player # None \/ session[cur].loading # None,
               at' # "add" /\ at' # "idle"
        PROVE  Superseded'
    <2>. SUFFICES ASSUME NEW b \in Accounts, m_sessions[b] # None, m_offlineSessions[b] # None,
                         \/ session'[m_sessions[b]].player # None
                         \/ session'[m_sessions[b]].loading # None
                  PROVE  /\ at' \notin {"idle", "add"} /\ b \notin todo
                         /\ \/ session'[m_offlineSessions[b]].kicked
                            \/ session'[m_offlineSessions[b]].player = None
      BY DEF Superseded, mapVars
    <2>1. m_sessions[b] \in Sessions
      BY DEF IInv, TypeOK
    <2>2. session[m_sessions[b]].player # None \/ session[m_sessions[b]].loading # None
      BY <1>6, <2>1
    <2>. QED  BY <1>4, <1>6, <2>2 DEF IInv, Superseded
  <1>. QED  BY <1>1, <1>3, <1>5, <1>6

LEMMA CallbackStep == ASSUME IInv, ProcessQueryCallbacks PROVE IInv'
  <1>. DEFINE c == session[cur].loading
  <1>1. /\ at = "callbacks" /\ at' = "finish"
        /\ UNCHANGED <<addSessQueue, mapVars, m_QueuedPlayer, m_disconnects, stopVars, todo, cur>>
        /\ \/ /\ c # None /\ session[cur].socket = "open"
              /\ session' = [session EXCEPT ![cur] = FinishLogin(session[cur], c)]
              /\ \E place \in {"world", "away"} : charState' = [charState EXCEPT ![c] = place]
              /\ charOnline' = [charOnline EXCEPT ![c] = TRUE]
              /\ accountOnline' = [accountOnline EXCEPT ![SessionAccount[cur]] = TRUE]
           \/ /\ session' = [session EXCEPT ![cur] =
                                [KickPlayer(session[cur], TRUE)
                                    EXCEPT !.loading = None, !.ready = FALSE]]
              /\ session[cur].socket = "open"
              /\ UNCHANGED <<charState, dbVars>>
           \/ UNCHANGED <<session, charState, dbVars>>
    BY DEF ProcessQueryCallbacks
  <1>2. /\ cur \in Sessions /\ cur # None /\ SessionAccount[cur] \in Accounts
        /\ m_sessions[SessionAccount[cur]] = cur /\ cur \in Held
        /\ session \in [Sessions -> SessionState] /\ session[cur] \in SessionState
        /\ None \notin Sessions /\ None \notin Characters
    BY <1>1, SessionsAssumption DEF IInv, TypeOK, Thread, Filed, Held, Listed
  <1>3. session[cur].socket = "open" => ~session[cur].kicked
    BY <1>2 DEF IInv, Connected
  <1>4. Thread'
    BY <1>1 DEF IInv, Thread, Online, mapVars, stopVars
  <1>5. CASE /\ c # None /\ session[cur].socket = "open"
             /\ session' = [session EXCEPT ![cur] = FinishLogin(session[cur], c)]
             /\ \E place \in {"world", "away"} : charState' = [charState EXCEPT ![c] = place]
             /\ charOnline' = [charOnline EXCEPT ![c] = TRUE]
             /\ accountOnline' = [accountOnline EXCEPT ![SessionAccount[cur]] = TRUE]
    <2>1. /\ c \in Characters /\ session[cur].player = None
          /\ CharAccount[c] = SessionAccount[cur]
      BY <1>2, <1>5 DEF IInv, Loading, SessionState
    <2>2. /\ FinishLogin(session[cur], c) \in SessionState
          /\ FinishLogin(session[cur], c).player = c
          /\ FinishLogin(session[cur], c).loading = None
          /\ FinishLogin(session[cur], c).kicked = session[cur].kicked
          /\ FinishLogin(session[cur], c).socket = session[cur].socket
          /\ FinishLogin(session[cur], c).inQueue = session[cur].inQueue
      BY <1>2, <2>1 DEF FinishLogin, SessionState
    <2>3. /\ session' \in [Sessions -> SessionState]
          /\ session'[cur] = FinishLogin(session[cur], c)
          /\ \A t \in Sessions \ {cur} : session'[t] = session[t]
      BY <1>2, <1>5, <2>2
    <2>4. /\ charState' \in [Characters -> {"absent", "world", "away"}]
          /\ charState'[c] # "absent"
          /\ \A d \in Characters \ {c} : charState'[d] = charState[d]
      BY <1>5, <2>1 DEF IInv, TypeOK
    <2>. HIDE DEF c
    <2>5. Filed' /\ Blank' /\ Newcomers' /\ Connected' /\ Queue' /\ Loading' /\ Superseded'
      <3>1. session[cur].loading # None
        BY <1>5 DEF c
      <3>. QED  BY <1>1, <1>3, <1>5, <2>2, <2>3, <3>1, VisitOne
    <2>6. \A t \in Sessions \ {cur} : session[t].player # c
      <3>. SUFFICES ASSUME NEW t \in Sessions \ {cur}, session[t].player = c PROVE FALSE
        OBVIOUS
      <3>1. SessionAccount[t] = SessionAccount[cur] /\ t \in Held
        BY <1>2, <2>1 DEF IInv, Owned, Blank
      <3>2. m_offlineSessions[SessionAccount[cur]] = t
        BY <1>2, <3>1, HeldAt DEF IInv
      <3>. QED  BY <1>2, <1>5, <3>2 DEF IInv, Loading, c
    <2>7. Owned'
      <3>1. \A t \in Sessions : session'[t].player # None =>
               /\ charState'[session'[t].player] # "absent"
               /\ CharAccount[session'[t].player] = SessionAccount[t]
        <4>1. \A t \in Sessions : session[t].player \in Characters \cup {None}
          BY <1>2 DEF SessionState
        <4>. QED  BY <1>2, <2>1, <2>2, <2>3, <2>4, <2>6, <4>1 DEF IInv, Owned
      <3>2. \A t, u \in Sessions : session'[t].player # None /\ t # u =>
               session'[t].player # session'[u].player
        BY <1>2, <2>2, <2>3, <2>6 DEF IInv, Owned
      <3>3. \A d \in Characters : charState'[d] # "absent" =>
               \E t \in Sessions : session'[t].player = d
        <4>. SUFFICES ASSUME NEW d \in Characters, charState'[d] # "absent", d # c
                      PROVE  \E t \in Sessions : session'[t].player = d
          BY <1>2, <2>2, <2>3
        <4>1. PICK t \in Sessions : session[t].player = d
          BY <2>4 DEF IInv, Owned
        <4>2. t # cur
          BY <1>2, <2>1, <4>1
        <4>. QED  BY <2>3, <4>1, <4>2
      <3>. QED  BY <3>1, <3>2, <3>3 DEF Owned
    <2>8. Kicked'
      <3>1. \A t \in Sessions : session'[t].kicked = session[t].kicked
        BY <2>2, <2>3
      <3>. QED  BY <1>1, <3>1 DEF IInv, Kicked, TypeOK, mapVars, stopVars
    <2>9. TypeOK'
      <3>1. /\ charOnline' \in [Characters -> BOOLEAN] /\ accountOnline' \in [Accounts -> BOOLEAN]
        BY <1>5 DEF IInv, TypeOK
      <3>. QED  BY <1>1, <2>3, <2>4, <3>1 DEF IInv, TypeOK, mapVars, stopVars
    <2>. QED  BY <1>4, <2>5, <2>7, <2>8, <2>9 DEF IInv
  <1>6. CASE /\ session' = [session EXCEPT ![cur] =
                               [KickPlayer(session[cur], TRUE)
                                   EXCEPT !.loading = None, !.ready = FALSE]]
             /\ session[cur].socket = "open"
             /\ UNCHANGED <<charState, dbVars>>
    <2>. DEFINE r == [KickPlayer(session[cur], TRUE) EXCEPT !.loading = None, !.ready = FALSE]
    <2>1. /\ r \in SessionState /\ r.loading = None
          /\ r.player = session[cur].player /\ r.inQueue = session[cur].inQueue
          /\ r.socket = "closed" /\ r.kicked
      <3>. DEFINE k == KickPlayer(session[cur], TRUE)
      <3>1. /\ k \in SessionState /\ k.kicked /\ k.inQueue = session[cur].inQueue
            /\ k.player = session[cur].player /\ k.socket = "closed"
        BY <1>2, <1>6, KickPlayerFields
      <3>. HIDE DEF k
      <3>2. r = [k EXCEPT !.loading = None, !.ready = FALSE]
        BY DEF k
      <3>. HIDE DEF r
      <3>. QED  BY <3>1, <3>2 DEF SessionState
    <2>2. /\ session' \in [Sessions -> SessionState]
          /\ session'[cur] = r
          /\ \A t \in Sessions \ {cur} : session'[t] = session[t]
      <3>1. session' = [session EXCEPT ![cur] = r]
        BY <1>6
      <3>. HIDE DEF r
      <3>. QED  BY <1>2, <2>1, <3>1
    <2>. HIDE DEF r
    <2>3. Filed' /\ Blank' /\ Newcomers' /\ Connected' /\ Queue' /\ Loading' /\ Superseded'
      BY <1>1, <2>1, <2>2, VisitOne
    <2>4. \A t \in Sessions : session'[t].player = session[t].player
      BY <2>1, <2>2
    <2>5. Owned'
      <3>1. charState' = charState
        BY <1>6
      <3>. QED  BY <2>4, <3>1 DEF IInv, Owned
    <2>6. Kicked'
      <3>1. \A a \in Accounts : m_offlineSessions[a] # None =>
               session'[m_offlineSessions[a]] = session[m_offlineSessions[a]]
        BY <1>2, <2>2 DEF IInv, TypeOK, Filed
      <3>. QED  BY <1>1, <2>2, <3>1 DEF IInv, Kicked, TypeOK, mapVars, stopVars
    <2>7. TypeOK'
      BY <1>1, <1>6, <2>2 DEF IInv, TypeOK, mapVars, dbVars, stopVars
    <2>. QED  BY <1>4, <2>3, <2>5, <2>6, <2>7 DEF IInv
  <1>7. CASE UNCHANGED <<session, charState, dbVars>>
    <2>1. session'[cur].kicked => session'[cur].socket = "closed"
      BY <1>2, <1>7 DEF IInv, Connected
    <2>2. Filed' /\ Blank' /\ Newcomers' /\ Connected' /\ Queue' /\ Loading' /\ Superseded'
      BY <1>1, <1>2, <1>7, <2>1, VisitOne
    <2>3. Owned' /\ Kicked'
      BY <1>1, <1>7 DEF IInv, Owned, Kicked, mapVars, stopVars
    <2>4. TypeOK'
      BY <1>1, <1>7 DEF IInv, TypeOK, mapVars, dbVars, stopVars
    <2>. QED  BY <1>4, <2>2, <2>3, <2>4 DEF IInv
  <1>. QED  BY <1>1, <1>5, <1>6, <1>7

LEMMA KeepStep == ASSUME IInv, KeepSession PROVE IInv'
  <1>. DEFINE c == session[cur].player
  <1>1. /\ at = "finish" /\ session[cur].socket = "open" /\ at' = "visit" /\ cur' = None
        /\ UNCHANGED <<addSessQueue, mapVars, m_QueuedPlayer, m_disconnects, accountOnline,
                       stopVars, todo>>
        /\ \/ UNCHANGED <<session, charState, charOnline>>
           \/ /\ c # None /\ session[cur].loading = None
              /\ session' = [session EXCEPT ![cur].player = None]
              /\ charState' = [charState EXCEPT ![c] = "absent"]
              /\ charOnline' = [d \in Characters |->
                                  charOnline[d] /\ CharAccount[d] # CharAccount[c]]
    BY DEF KeepSession
  <1>2. /\ cur \in Sessions /\ cur # None /\ SessionAccount[cur] \in Accounts
        /\ m_sessions[SessionAccount[cur]] = cur /\ SessionAccount[cur] \notin todo
        /\ session \in [Sessions -> SessionState] /\ session[cur] \in SessionState
        /\ None \notin Characters
    BY <1>1, SessionsAssumption DEF IInv, TypeOK, Thread, Filed
  <1>3. ~session[cur].kicked
    BY <1>1, <1>2 DEF IInv, Connected
  <1>4. Thread'
    BY <1>1, <1>2 DEF IInv, Thread, Online, mapVars, stopVars
  <1>5. /\ session' \in [Sessions -> SessionState]
        /\ \A t \in Sessions \ {cur} : session'[t] = session[t]
        /\ session'[cur].player \in {None, c}
        /\ session'[cur].loading = session[cur].loading
        /\ session'[cur].player # session[cur].player => session[cur].loading = None
        /\ session'[cur].kicked = session[cur].kicked
        /\ session'[cur].socket = session[cur].socket
        /\ session'[cur].inQueue = session[cur].inQueue
    BY <1>1, <1>2 DEF SessionState
  <1>6. Filed' /\ Blank' /\ Newcomers' /\ Connected' /\ Queue' /\ Loading' /\ Superseded'
    BY <1>1, <1>2, <1>3, <1>5, VisitOne
  <1>7. Kicked'
    <2>1. \A t \in Sessions : session'[t].kicked = session[t].kicked
      BY <1>5
    <2>2. \A a \in Accounts : m_offlineSessions[a] # None =>
             session'[m_offlineSessions[a]].kicked = session[m_offlineSessions[a]].kicked
      BY <2>1 DEF IInv, TypeOK
    <2>3. \A a \in Accounts : m_sessions[a] # None /\ a \notin todo => ~session'[m_sessions[a]].kicked
      BY <1>1, <1>3, <2>1 DEF IInv, Kicked, TypeOK
    <2>. QED  BY <1>1, <2>2, <2>3 DEF IInv, Kicked, mapVars, stopVars
  <1>8. Owned' /\ charState' \in [Characters -> {"absent", "world", "away"}]
        /\ charOnline' \in [Characters -> BOOLEAN]
    <2>1. CASE UNCHANGED <<session, charState, charOnline>>
      BY <2>1 DEF IInv, Owned, TypeOK
    <2>2. CASE /\ c # None
               /\ session' = [session EXCEPT ![cur].player = None]
               /\ charState' = [charState EXCEPT ![c] = "absent"]
               /\ charOnline' = [d \in Characters |->
                                  charOnline[d] /\ CharAccount[d] # CharAccount[c]]
      <3>1. c \in Characters /\ session'[cur].player = None
        BY <1>2, <2>2 DEF SessionState
      <3>2. /\ charState' \in [Characters -> {"absent", "world", "away"}]
            /\ charState'[c] = "absent"
            /\ \A d \in Characters \ {c} : charState'[d] = charState[d]
            /\ charOnline' \in [Characters -> BOOLEAN]
        BY <2>2, <3>1 DEF IInv, TypeOK
      <3>3. \A t \in Sessions \ {cur} : session[t].player # c
        BY <1>2, <2>2 DEF IInv, Owned
      <3>4. \A t \in Sessions : session[t].player \in Characters \cup {None}
        BY <1>2 DEF SessionState
      <3>. HIDE DEF c
      <3>5. \A d \in Characters : charState'[d] # "absent" =>
               \E t \in Sessions : session'[t].player = d
        <4>. SUFFICES ASSUME NEW d \in Characters, d # c, charState[d] # "absent"
                      PROVE  \E t \in Sessions : session'[t].player = d
          BY <3>2
        <4>1. PICK t \in Sessions : session[t].player = d
          BY DEF IInv, Owned
        <4>2. t # cur
          BY <4>1 DEF c
        <4>. QED  BY <1>5, <4>1, <4>2
      <3>. QED  BY <1>5, <3>1, <3>2, <3>3, <3>4, <3>5 DEF IInv, Owned
    <2>. QED  BY <1>1, <2>1, <2>2
  <1>9. TypeOK'
    BY <1>1, <1>5, <1>8 DEF IInv, TypeOK, mapVars, stopVars
  <1>. QED  BY <1>4, <1>6, <1>7, <1>8, <1>9 DEF IInv

(* The queue after RemoveQueuedPlayer took e out. *)
LEMMA QueueWithoutFacts ==
  ASSUME TypeOK, Queue, NEW e, NEW q, q = QueueWithout(e)
  PROVE  /\ q \in Seq(Sessions) /\ Distinct(q)
         /\ \A t : Policy!IsQueued(q, t) => Policy!IsQueued(m_QueuedPlayer, t) /\ t # e
  <1>1. m_QueuedPlayer \in Seq(Sessions) /\ Distinct(m_QueuedPlayer)
    BY QueueFacts
  <1>2. PartOf(q, m_QueuedPlayer) /\ ~Policy!IsQueued(q, e)
    BY <1>1, QueueLeft DEF QueueWithout
  <1>. QED  BY <1>2 DEF PartOf, Policy!IsQueued

(* The flags follow the queue. *)
LEMMA QueueKept ==
  ASSUME TypeOK, Queue, NEW e, m_QueuedPlayer' = QueueWithout(e),
         \A t \in Sessions : m_sessions[SessionAccount[t]] = t /\ t # e =>
                                m_sessions'[SessionAccount[t]] = t,
         \A t \in Listed(m_sessions') :
            /\ t \in Sessions /\ t \in Listed(m_sessions) /\ t # e
            /\ session'[t].inQueue = Flags(QueueWithout(e))[t].inQueue,
         \A t \in Sessions : m_sessions'[SessionAccount[t]] = t => t \in Listed(m_sessions'),
         closing' = closing
  PROVE  Queue'
  <1>. DEFINE q == QueueWithout(e)
  <1>1. /\ q \in Seq(Sessions) /\ Distinct(q)
        /\ \A t : Policy!IsQueued(q, t) => Policy!IsQueued(m_QueuedPlayer, t) /\ t # e
    BY QueueWithoutFacts
  <1>. HIDE DEF q
  <1>2. m_QueuedPlayer' = q
    BY DEF q
  <1>3. \A t \in Listed(m_sessions') :
           session'[t].inQueue = IF Policy!IsQueued(m_QueuedPlayer, t)
                                 THEN Policy!IsQueued(q, t) ELSE session[t].inQueue
    BY FlagsFields DEF q
  <1>4. \A k \in DOMAIN q :
           /\ q[k] \in Sessions /\ Policy!IsQueued(q, q[k])
           /\ m_sessions'[SessionAccount[q[k]]] = q[k] /\ q[k] \in Listed(m_sessions')
    BY <1>1, QueueFacts DEF Policy!IsQueued
  <1>5. \A k \in DOMAIN q : session'[q[k]].inQueue
    BY <1>1, <1>3, <1>4
  <1>6. WaitingIsQueued'
    <2>. SUFFICES ASSUME NEW t \in Listed(m_sessions'), session'[t].inQueue, ~closing
                  PROVE  Policy!IsQueued(q, t)
      BY <1>2 DEF WaitingIsQueued, Listed, Policy!IsQueued
    <2>. QED  BY <1>3 DEF Queue, WaitingIsQueued
  <1>. QED  BY <1>1, <1>2, <1>4, <1>5, <1>6 DEF Queue, Distinct

(* Without the socket the visited session is deleted. *)
LEMMA RemoveStep == ASSUME IInv, RemoveSession PROVE IInv'
  <1>. DEFINE a == SessionAccount[cur]
              q == QueueWithout(cur)
  <1>1. /\ at = "finish" /\ session[cur].socket = "closed" /\ at' = "visit" /\ cur' = None
        /\ m_QueuedPlayer' = q /\ m_disconnects' = Remember(cur)
        /\ m_sessions' = [m_sessions EXCEPT ![a] = None]
        /\ Delete({cur}, Flags(q))
        /\ accountOnline' \in [Accounts -> BOOLEAN]
        /\ UNCHANGED <<addSessQueue, m_offlineSessions, stopVars, todo>>
    BY DEF RemoveSession, SetOfflineInDB, IInv, TypeOK
  <1>2. /\ cur \in Sessions /\ cur # None /\ a \in Accounts /\ m_sessions[a] = cur
        /\ a \notin todo /\ None \notin Sessions
    BY <1>1, SessionsAssumption DEF IInv, TypeOK, Thread, Filed
  <1>3. /\ m_sessions'[a] = None
        /\ \A b \in Accounts \ {a} : m_sessions'[b] = m_sessions[b] /\ m_sessions[b] # cur
        /\ m_sessions' \in [Accounts -> Sessions \cup {None}]
        /\ \A b \in Accounts : m_offlineSessions[b] # cur
    BY <1>1, <1>2 DEF IInv, TypeOK, Filed
  <1>4. /\ {cur} \in SUBSET Sessions /\ Flags(q) \in [Sessions -> SessionState]
        /\ \A t \in Sessions : Flags(q)[t].player = session[t].player
    <2>1. \A t \in Sessions : Flags(q)[t] \in SessionState /\ Flags(q)[t].player = session[t].player
      BY FlagsFields DEF IInv
    <2>2. Flags(q) = [t \in Sessions |-> Flags(q)[t]]
      BY DEF Flags
    <2>. QED  BY <1>2, <2>1, <2>2
  <1>5. /\ session' \in [Sessions -> SessionState]
        /\ session'[cur] = Fresh
        /\ \A t \in Sessions \ {cur} : session'[t] = Flags(q)[t]
        /\ charState' \in [Characters -> {"absent", "world", "away"}]
        /\ charOnline' \in [Characters -> BOOLEAN]
    BY <1>1, <1>4, DeleteEffect, ZenonT(30) DEF IInv
  <1>6. Owned'
    BY <1>1, <1>4, DeleteOwned DEF IInv
  <1>7. /\ \A t \in Sessions \ {cur} : /\ session'[t].socket = session[t].socket
                                       /\ session'[t].kicked = session[t].kicked
                                       /\ session'[t].loading = session[t].loading
                                       /\ session'[t].player = session[t].player
        /\ \A t \in Sessions \ {cur} : ~Policy!IsQueued(m_QueuedPlayer, t) =>
                                          session'[t].inQueue = session[t].inQueue
    BY <1>5, FlagsFields DEF IInv
  <1>8. \A t \in Sessions : t \in Held' <=> t \in Held /\ t # cur
    BY <1>1, <1>2, <1>3, SessionsAssumption DEF IInv, Held, Listed, Filed
  <1>9. Filed'
    BY <1>1, <1>3 DEF IInv, Filed
  <1>10. Blank'
    <2>. SUFFICES ASSUME NEW t \in Sessions, t \notin Held'
                  PROVE  /\ session'[t].player = None /\ session'[t].loading = None
                         /\ ~session'[t].inQueue /\ ~session'[t].kicked
      BY DEF Blank
    <2>1. CASE t = cur
      BY <1>5, <2>1 DEF Fresh
    <2>2. CASE t # cur
      <3>1. t \notin Held /\ ~Policy!IsQueued(m_QueuedPlayer, t)
        BY <1>8, <2>2, QueueFacts, HeldAt DEF IInv
      <3>. QED  BY <1>7, <2>2, <3>1 DEF IInv, Blank
    <2>. QED  BY <2>1, <2>2
  <1>11. Newcomers'
    <2>1. cur \in Held
      BY <1>2, HeldAt DEF IInv
    <2>2. \A k \in DOMAIN addSessQueue : addSessQueue[k] \in Sessions /\ addSessQueue[k] # cur
      BY <2>1 DEF IInv, TypeOK, Newcomers
    <2>. QED  BY <1>1, <1>7, <1>8, <2>2 DEF IInv, Newcomers
  <1>16. \A b \in Accounts : /\ m_offlineSessions[b] # None => m_offlineSessions[b] \in Sessions \ {cur}
                             /\ m_sessions'[b] # None => /\ m_sessions[b] \in Sessions \ {cur}
                                                         /\ m_sessions'[b] = m_sessions[b]
    BY <1>2, <1>3 DEF IInv, TypeOK
  <1>12. Connected'
    BY <1>7, <1>16 DEF IInv, Connected
  <1>13. Queue'
    <2>1. \A t \in Sessions : m_sessions[SessionAccount[t]] = t /\ t # cur =>
                                 m_sessions'[SessionAccount[t]] = t
      BY <1>2, <1>3, SessionsAssumption
    <2>2. \A t \in Listed(m_sessions') :
             /\ t \in Sessions /\ t \in Listed(m_sessions) /\ t # cur
             /\ session'[t].inQueue = Flags(QueueWithout(cur))[t].inQueue
      BY <1>2, <1>3, <1>5 DEF Listed
    <2>3. \A t \in Sessions : m_sessions'[SessionAccount[t]] = t => t \in Listed(m_sessions')
      BY <1>2, SessionsAssumption DEF Listed
    <2>. QED  BY <1>1, <2>1, <2>2, <2>3, QueueKept DEF IInv, stopVars
  <1>14. Thread'
    BY <1>1, <1>2, <1>3 DEF IInv, Thread, Online, stopVars
  <1>15. Loading'
    <2>. SUFFICES ASSUME NEW t \in Sessions, session'[t].loading # None
                  PROVE  /\ m_sessions'[SessionAccount[t]] = t
                         /\ session'[t].player = None
                         /\ CharAccount[session'[t].loading] = SessionAccount[t]
                         /\ m_offlineSessions[SessionAccount[t]] # None =>
                               session'[m_offlineSessions[SessionAccount[t]]].player
                                  # session'[t].loading
      BY <1>1 DEF Loading
    <2>1. t # cur
      BY <1>5 DEF Fresh
    <2>2. session'[t].loading = session[t].loading /\ session'[t].player = session[t].player
      BY <1>7, <2>1
    <2>3. m_sessions[SessionAccount[t]] = t /\ SessionAccount[t] \in Accounts
      BY <2>2, SessionsAssumption DEF IInv, Loading
    <2>4. m_sessions'[SessionAccount[t]] = t
      BY <1>2, <1>3, <2>1, <2>3
    <2>5. m_offlineSessions[SessionAccount[t]] # None =>
             session'[m_offlineSessions[SessionAccount[t]]].player
                = session[m_offlineSessions[SessionAccount[t]]].player
      BY <1>3, <1>7, <2>3 DEF IInv, TypeOK
    <2>. QED  BY <2>2, <2>4, <2>5 DEF IInv, Loading
  <1>17. Superseded'
    <2>. SUFFICES ASSUME NEW b \in Accounts, m_sessions'[b] # None, m_offlineSessions[b] # None,
                         \/ session'[m_sessions'[b]].player # None
                         \/ session'[m_sessions'[b]].loading # None
                  PROVE  /\ b \notin todo
                         /\ \/ session'[m_offlineSessions[b]].kicked
                            \/ session'[m_offlineSessions[b]].player = None
      BY <1>1 DEF Superseded
    <2>. QED  BY <1>7, <1>16 DEF IInv, Superseded
  <1>18. Kicked'
    BY <1>1, <1>2, <1>3, <1>7, <1>16 DEF IInv, Kicked, stopVars
  <1>19. TypeOK'
    <2>1. m_disconnects' \subseteq Accounts
      BY <1>1, <1>2 DEF IInv, TypeOK, Remember
    <2>2. m_QueuedPlayer' \in Seq(Sessions)
      BY <1>1, QueueWithoutFacts DEF IInv
    <2>. QED  BY <1>1, <1>3, <1>5, <2>1, <2>2 DEF IInv, TypeOK, stopVars
  <1>. QED
    BY <1>6, <1>9, <1>10, <1>11, <1>12, <1>13, <1>14, <1>15, <1>17, <1>18, <1>19 DEF IInv

(* The visited session goes offline, and the one it replaces is deleted. *)
LEMMA ParkStep == ASSUME IInv, NEW a \in Accounts, ParkSession(a) PROVE IInv'
  <1>. DEFINE s == m_sessions[a]
              off == m_offlineSessions[a]
              q == QueueWithout(s)
              f == [Flags(q) EXCEPT ![s] = Offline(Flags(q)[s])]
              D == {off} \ {None}
  <1>1. /\ at = "visit" /\ a \in todo /\ todo' = todo \ {a} /\ UNCHANGED <<at, cur>>
        /\ ~session[s].kicked /\ session[s].player # None /\ ~stopped
        /\ m_QueuedPlayer' = q /\ m_disconnects' = Remember(s)
        /\ m_sessions' = [m_sessions EXCEPT ![a] = None]
        /\ m_offlineSessions' = [m_offlineSessions EXCEPT ![a] = s]
        /\ Delete(D, f)
        /\ UNCHANGED <<addSessQueue, accountOnline, stopVars>>
    BY DEF ParkSession, HandleSocketClosed
  <1>2. /\ s \in Sessions /\ s # None /\ None \notin Sessions /\ SessionAccount[s] = a
        /\ off \in Sessions \cup {None} /\ off # s /\ (off # None => SessionAccount[off] = a)
        /\ D \in SUBSET Sessions /\ s \notin D
        /\ ~closing /\ cur = None
    BY <1>1, SessionsAssumption DEF IInv, TypeOK, Thread, Online, Filed
  <1>3. session[s].loading = None
    BY <1>1, <1>2 DEF IInv, Loading
  <1>4. /\ m_sessions'[a] = None /\ m_offlineSessions'[a] = s
        /\ \A b \in Accounts \ {a} : /\ m_sessions'[b] = m_sessions[b]
                                     /\ m_offlineSessions'[b] = m_offlineSessions[b]
                                     /\ m_sessions[b] \in (Sessions \ {s, off}) \cup {None}
                                     /\ m_offlineSessions[b] \in (Sessions \ {s, off}) \cup {None}
        /\ m_sessions' \in [Accounts -> Sessions \cup {None}]
        /\ m_offlineSessions' \in [Accounts -> Sessions \cup {None}]
    BY <1>1, <1>2 DEF IInv, TypeOK, Filed
  <1>5. /\ f \in [Sessions -> SessionState]
        /\ f[s].player = session[s].player /\ f[s].kicked = session[s].kicked
        /\ f[s].loading = session[s].loading /\ f[s].inQueue = Flags(q)[s].inQueue
        /\ \A t \in Sessions \ {s} : f[t] = Flags(q)[t]
    <2>1. /\ Flags(q) \in [Sessions -> SessionState]
          /\ Flags(q)[s].player = session[s].player /\ Flags(q)[s].kicked = session[s].kicked
          /\ Flags(q)[s].loading = session[s].loading
      <3>1. Flags(q) = [t \in Sessions |-> Flags(q)[t]]
        BY DEF Flags
      <3>. QED  BY <1>2, <3>1, FlagsFields DEF IInv
    <2>2. Flags(q)[s] \in SessionState
      BY <1>2, <2>1
    <2>3. /\ Offline(Flags(q)[s]) \in SessionState
          /\ Offline(Flags(q)[s]).player = Flags(q)[s].player
          /\ Offline(Flags(q)[s]).kicked = Flags(q)[s].kicked
          /\ Offline(Flags(q)[s]).loading = Flags(q)[s].loading
          /\ Offline(Flags(q)[s]).inQueue = Flags(q)[s].inQueue
      BY <2>2, OfflineFields
    <2>. QED  BY <1>2, <2>1, <2>3
  <1>. HIDE DEF f
  <1>6. /\ session' \in [Sessions -> SessionState]
        /\ \A t \in D : session'[t] = Fresh
        /\ \A t \in Sessions \ D : session'[t] = f[t]
        /\ charState' \in [Characters -> {"absent", "world", "away"}]
        /\ charOnline' \in [Characters -> BOOLEAN]
    BY <1>1, <1>2, <1>5, DeleteEffect, ZenonT(30) DEF IInv
  <1>7. /\ \A t \in Sessions \ {s, off} : /\ session'[t].socket = session[t].socket
                                          /\ session'[t].kicked = session[t].kicked
                                          /\ session'[t].loading = session[t].loading
                                          /\ session'[t].player = session[t].player
        /\ \A t \in Sessions \ {s, off} : ~Policy!IsQueued(m_QueuedPlayer, t) =>
                                          session'[t].inQueue = session[t].inQueue
        /\ ~session'[s].kicked /\ session'[s].loading = None
        /\ session'[s].player = session[s].player
    BY <1>1, <1>2, <1>3, <1>5, <1>6, FlagsFields DEF IInv
  <1>8. Owned'
    <2>1. \A t \in Sessions \ D : f[t].player = session[t].player
      BY <1>5, FlagsFields DEF IInv
    <2>. QED  BY <1>1, <1>2, <1>5, <2>1, DeleteOwned DEF IInv
  <1>9. /\ \A t \in Sessions : t \in Held' <=> t \in Held /\ t # off
        /\ s \in Held
    <2>1. \A t \in Sessions : t \in Held <=> \/ m_sessions[SessionAccount[t]] = t
                                             \/ m_offlineSessions[SessionAccount[t]] = t
      BY HeldAt DEF IInv
    <2>2. \A t \in Sessions : t \in Held' <=>
             \E b \in Accounts : m_sessions'[b] = t \/ m_offlineSessions'[b] = t
      BY <1>2 DEF Held, Listed
    <2>3. \A t \in Sessions : SessionAccount[t] \in Accounts
      BY SessionsAssumption
    <2>4. \A t \in Sessions, b \in Accounts : m_sessions'[b] = t \/ m_offlineSessions'[b] = t =>
             b = SessionAccount[t] /\ t # off
      BY <1>2, <1>4 DEF IInv, Filed
    <2>5. \A t \in Sessions : SessionAccount[t] = a =>
             (t \in Held' <=> t = s) /\ (t \in Held <=> t = s \/ t = off)
      BY <1>2, <1>4, <2>1, <2>2, <2>4
    <2>6. \A t \in Sessions : SessionAccount[t] # a => (t \in Held' <=> t \in Held) /\ t # off
      BY <1>2, <1>4, <2>1, <2>2, <2>3, <2>4
    <2>. QED  BY <1>2, <2>5, <2>6
  <1>10. Filed'
    BY <1>2, <1>4 DEF IInv, Filed
  <1>11. Blank'
    <2>. SUFFICES ASSUME NEW t \in Sessions, t \notin Held'
                  PROVE  /\ session'[t].player = None /\ session'[t].loading = None
                         /\ ~session'[t].inQueue /\ ~session'[t].kicked
      BY DEF Blank
    <2>1. CASE t = off
      BY <1>2, <1>6, <2>1 DEF Fresh
    <2>2. CASE t # off
      <3>1. t \notin Held /\ t # s /\ ~Policy!IsQueued(m_QueuedPlayer, t)
        BY <1>9, <2>2, QueueFacts, HeldAt DEF IInv
      <3>. QED  BY <1>7, <2>2, <3>1 DEF IInv, Blank
    <2>. QED  BY <2>1, <2>2
  <1>12. Newcomers'
    <2>1. off # None => off \in Held
      BY <1>2, HeldAt DEF IInv
    <2>2. \A k \in DOMAIN addSessQueue : addSessQueue[k] \in Sessions \ {s, off}
      BY <1>2, <1>9, <2>1 DEF IInv, TypeOK, Newcomers
    <2>. QED  BY <1>1, <1>7, <1>9, <2>2 DEF IInv, Newcomers
  <1>13. Connected'
    BY <1>4, <1>7 DEF IInv, Connected
  <1>14. Queue'
    <2>1. \A t \in Sessions : m_sessions[SessionAccount[t]] = t /\ t # s =>
                                 m_sessions'[SessionAccount[t]] = t
      BY <1>4, SessionsAssumption
    <2>2. \A t \in Listed(m_sessions') :
             /\ t \in Sessions /\ t \in Listed(m_sessions) /\ t # s
             /\ session'[t].inQueue = Flags(QueueWithout(s))[t].inQueue
      BY <1>2, <1>4, <1>5, <1>6 DEF Listed
    <2>3. \A t \in Sessions : m_sessions'[SessionAccount[t]] = t => t \in Listed(m_sessions')
      BY <1>2, SessionsAssumption DEF Listed
    <2>. QED  BY <1>1, <2>1, <2>2, <2>3, QueueKept DEF IInv, stopVars
  <1>15. Thread'
    BY <1>1, <1>2, <1>4 DEF IInv, Thread, Online, stopVars
  <1>16. Loading'
    <2>. SUFFICES ASSUME NEW t \in Sessions, session'[t].loading # None
                  PROVE  /\ m_sessions'[SessionAccount[t]] = t
                         /\ session'[t].player = None
                         /\ CharAccount[session'[t].loading] = SessionAccount[t]
                         /\ m_offlineSessions'[SessionAccount[t]] # None =>
                               session'[m_offlineSessions'[SessionAccount[t]]].player
                                  # session'[t].loading
      BY DEF Loading
    <2>1. t # s /\ t # off
      BY <1>2, <1>6, <1>7 DEF Fresh
    <2>2. /\ session'[t].loading = session[t].loading /\ session'[t].player = session[t].player
          /\ SessionAccount[t] \in Accounts
      BY <1>7, <2>1, SessionsAssumption
    <2>3. m_sessions[SessionAccount[t]] = t /\ SessionAccount[t] # a
      BY <2>1, <2>2 DEF IInv, Loading
    <2>. QED  BY <1>4, <1>7, <2>2, <2>3 DEF IInv, Loading
  <1>17. Superseded'
    BY <1>1, <1>4, <1>7 DEF IInv, Superseded
  <1>18. Kicked'
    BY <1>1, <1>2, <1>4, <1>7 DEF IInv, Kicked, stopVars
  <1>19. TypeOK'
    <2>1. m_disconnects' \subseteq Accounts
      BY <1>1, <1>2 DEF IInv, TypeOK, Remember
    <2>2. m_QueuedPlayer' \in Seq(Sessions)
      BY <1>1, QueueWithoutFacts DEF IInv
    <2>. QED  BY <1>1, <1>4, <1>6, <2>1, <2>2 DEF IInv, TypeOK, stopVars
  <1>. QED
    BY <1>8, <1>10, <1>11, <1>12, <1>13, <1>14, <1>15, <1>16, <1>17, <1>18, <1>19 DEF IInv

(* A new session takes the place of the old one of its account, if there is one. *)
LEMMA AddStep == ASSUME IInv, AddSession_ PROVE IInv'
  <1>. DEFINE s == Head(addSessQueue)
              a == SessionAccount[s]
              old == m_sessions[a]
              off == m_offlineSessions[a]
              left == IF old = None THEN m_QueuedPlayer ELSE QueueWithout(old)
              flagged == IF old = None THEN session ELSE Flags(left)
              known == IF old = None THEN m_disconnects ELSE Remember(old)
              parks == /\ ~session[old].kicked /\ session[old].player # None
                       /\ charState[session[old].player] = "world" /\ ~stopped
  <1>1. /\ at = "add" /\ addSessQueue # <<>> /\ addSessQueue' = Tail(addSessQueue)
        /\ old # None => session[old].loading = None
        /\ m_sessions' = [m_sessions EXCEPT ![a] = s]
        /\ UNCHANGED <<accountOnline, stopVars, worldVars>>
    BY DEF AddSession_
  <1>2. \E w \in BOOLEAN :
          /\ m_disconnects' \subseteq known
          /\ m_QueuedPlayer' = IF w THEN Append(left, s) ELSE left
          /\ \/ /\ old = None /\ session' = [flagged EXCEPT ![s].inQueue = w]
                /\ UNCHANGED <<m_offlineSessions, charState, charOnline>>
             \/ /\ old # None /\ parks
                /\ m_offlineSessions' = [m_offlineSessions EXCEPT ![a] = old]
                /\ Delete({off} \ {None},
                          [[flagged EXCEPT ![s].inQueue = w] EXCEPT ![old] = Offline(@)])
             \/ /\ old # None
                /\ Delete({old}, [flagged EXCEPT ![s].inQueue = w])
                /\ UNCHANGED m_offlineSessions
    <2>. DEFINE full == Policy!RealmFull(Cardinality(Online \cup {a}) - 1) /\ a \notin Privileged
                waits(e) == full /\ ~(full /\ Tolerance /\ a \in known \ e)
                placed(e) == [flagged EXCEPT ![s].inQueue = waits(e)]
    <2>1. PICK e \in SUBSET known :
             /\ m_disconnects' = IF full /\ Tolerance THEN known \ e ELSE known
             /\ m_QueuedPlayer' = IF waits(e) THEN Append(left, s) ELSE left
             /\ IF old = None THEN /\ session' = placed(e)
                                   /\ UNCHANGED <<m_offlineSessions, charState, charOnline>>
                ELSE IF parks
                THEN /\ m_offlineSessions' = [m_offlineSessions EXCEPT ![a] = old]
                     /\ Delete({off} \ {None}, [placed(e) EXCEPT ![old] = Offline(@)])
                ELSE /\ Delete({old}, placed(e))
                     /\ UNCHANGED m_offlineSessions
      BY DEF AddSession_
    <2>2. waits(e) \in BOOLEAN
      OBVIOUS
    <2>3. m_disconnects' \subseteq known
      BY <2>1
    <2>. WITNESS waits(e) \in BOOLEAN
    <2>. HIDE DEF waits, known, full, parks, left, flagged
    <2>. QED  BY <2>1, <2>3
  <1>3. PICK w \in BOOLEAN :
          /\ m_disconnects' \subseteq known
          /\ m_QueuedPlayer' = IF w THEN Append(left, s) ELSE left
          /\ \/ /\ old = None /\ session' = [flagged EXCEPT ![s].inQueue = w]
                /\ UNCHANGED <<m_offlineSessions, charState, charOnline>>
             \/ /\ old # None /\ parks
                /\ m_offlineSessions' = [m_offlineSessions EXCEPT ![a] = old]
                /\ Delete({off} \ {None},
                          [[flagged EXCEPT ![s].inQueue = w] EXCEPT ![old] = Offline(@)])
             \/ /\ old # None
                /\ Delete({old}, [flagged EXCEPT ![s].inQueue = w])
                /\ UNCHANGED m_offlineSessions
    BY <1>2
  <1>4. /\ Len(addSessQueue) \in Nat /\ DOMAIN addSessQueue = 1..Len(addSessQueue)
        /\ addSessQueue' \in Seq(Sessions) /\ DOMAIN addSessQueue' = 1..Len(addSessQueue) - 1
        /\ \A k \in 1..Len(addSessQueue) - 1 : addSessQueue'[k] = addSessQueue[k + 1]
        /\ s = addSessQueue[1] /\ s \in Sessions /\ 1 \in DOMAIN addSessQueue
    BY <1>1, HeadTailProperties, LenProperties, EmptySeq DEF IInv, TypeOK
  <1>5. s \notin Held /\ session[s].socket # "none"
    BY <1>4 DEF IInv, Newcomers
  <1>6. /\ session[s].player = None /\ session[s].loading = None
        /\ ~session[s].inQueue /\ ~session[s].kicked
    BY <1>4, <1>5 DEF IInv, Blank
  <1>7. /\ \A k \in DOMAIN addSessQueue' : /\ k + 1 \in DOMAIN addSessQueue
                                           /\ addSessQueue'[k] = addSessQueue[k + 1]
                                           /\ addSessQueue'[k] # s
        /\ \A j, k \in DOMAIN addSessQueue' : j # k => addSessQueue'[j] # addSessQueue'[k]
    <2>1. \A k \in DOMAIN addSessQueue' : /\ k + 1 \in DOMAIN addSessQueue /\ k + 1 # 1
                                          /\ addSessQueue'[k] = addSessQueue[k + 1]
      BY <1>4
    <2>2. \A j, k \in DOMAIN addSessQueue' : j # k => j + 1 # k + 1
      BY <1>4
    <2>. QED  BY <1>4, <2>1, <2>2 DEF IInv, Newcomers
  <1>. HIDE DEF s
  <1>8. /\ a \in Accounts /\ None \notin Sessions /\ s # None
        /\ old \in Sessions \cup {None} /\ off \in Sessions \cup {None}
        /\ old # s /\ off # s /\ (old # None => old # off)
        /\ old # None => SessionAccount[old] = a /\ old \in Held
        /\ off # None => SessionAccount[off] = a /\ off \in Held
        /\ session \in [Sessions -> SessionState]
    <2>1. a \in Accounts /\ None \notin Sessions
      BY <1>4, SessionsAssumption
    <2>. QED  BY <1>4, <1>5, <2>1 DEF IInv, TypeOK, Filed, Held, Listed
  <1>9. \A b \in Accounts \ {a} :
           /\ m_sessions[b] \in (Sessions \ {s, old, off}) \cup {None}
           /\ m_offlineSessions[b] \in (Sessions \ {s, old, off}) \cup {None}
           /\ m_sessions'[b] = m_sessions[b]
    <2>1. \A b \in Accounts : m_sessions[b] # s /\ m_offlineSessions[b] # s
      BY <1>4, <1>5, <1>8 DEF Held, Listed
    <2>. QED  BY <1>1, <1>8, <2>1 DEF IInv, TypeOK, Filed
  <1>. HIDE DEF a
  <1>10. /\ left \in Seq(Sessions) /\ Distinct(left)
         /\ \A t : Policy!IsQueued(left, t) => Policy!IsQueued(m_QueuedPlayer, t) /\ t # old
    <2>1. CASE old = None
      BY <1>8, <2>1, QueueFacts DEF IInv
    <2>2. CASE old # None
      BY <2>2, QueueWithoutFacts DEF IInv
    <2>. QED  BY <2>1, <2>2
  <1>11. /\ flagged \in [Sessions -> SessionState]
         /\ \A t \in Sessions :
               /\ flagged[t].socket = session[t].socket /\ flagged[t].kicked = session[t].kicked
               /\ flagged[t].loading = session[t].loading /\ flagged[t].player = session[t].player
               /\ flagged[t].inQueue = IF Policy!IsQueued(m_QueuedPlayer, t)
                                       THEN Policy!IsQueued(left, t) ELSE session[t].inQueue
    <2>1. CASE old = None
      <3>1. \A t \in Sessions : Policy!IsQueued(m_QueuedPlayer, t) => session[t].inQueue = TRUE
        <4>1. \A t \in Sessions : session[t].inQueue \in BOOLEAN
          BY <1>8 DEF SessionState
        <4>. QED  BY <4>1, QueueFacts DEF IInv
      <3>2. flagged = session /\ left = m_QueuedPlayer
        BY <2>1
      <3>. HIDE DEF flagged, left
      <3>3. \A t \in Sessions : Policy!IsQueued(m_QueuedPlayer, t) => Policy!IsQueued(left, t) = TRUE
        BY <3>2 DEF Policy!IsQueued
      <3>. QED  BY <1>8, <3>1, <3>2, <3>3
    <2>2. CASE old # None
      <3>1. flagged = Flags(left)
        BY <2>2
      <3>. HIDE DEF flagged, left
      <3>2. Flags(left) = [t \in Sessions |-> Flags(left)[t]]
        BY DEF Flags
      <3>. QED  BY <3>1, <3>2, FlagsFields DEF IInv
    <2>. QED  BY <2>1, <2>2
  <1>. DEFINE placed == [flagged EXCEPT ![s].inQueue = w]
  <1>12. /\ placed \in [Sessions -> SessionState]
         /\ \A t \in Sessions \ {s} : placed[t] = flagged[t]
         /\ placed[s].player = None /\ placed[s].loading = None /\ ~placed[s].kicked
         /\ placed[s].inQueue = w /\ placed[s].socket # "none"
         /\ \A t \in Sessions : placed[t].player = session[t].player
    <2>. HIDE DEF flagged
    <2>1. flagged[s] \in SessionState
      BY <1>4, <1>11
    <2>2. /\ placed[s] = [flagged[s] EXCEPT !.inQueue = w]
          /\ placed = [flagged EXCEPT ![s] = placed[s]]
          /\ \A t \in Sessions \ {s} : placed[t] = flagged[t]
      BY <1>4, <1>11
    <2>3. /\ placed[s] \in SessionState /\ placed[s].inQueue = w
          /\ placed[s].player = flagged[s].player /\ placed[s].loading = flagged[s].loading
          /\ placed[s].kicked = flagged[s].kicked /\ placed[s].socket = flagged[s].socket
      BY <2>1, <2>2 DEF SessionState
    <2>. HIDE DEF placed
    <2>4. /\ flagged[s].player = None /\ flagged[s].loading = None /\ ~flagged[s].kicked
          /\ flagged[s].socket # "none"
          /\ \A t \in Sessions : flagged[t].player = session[t].player
      BY <1>4, <1>5, <1>6, <1>11
    <2>5. placed \in [Sessions -> SessionState]
      BY <1>4, <1>11, <2>2, <2>3
    <2>. QED  BY <1>4, <2>2, <2>3, <2>4, <2>5, ZenonT(30)
  <1>. DEFINE D == IF old = None THEN {} ELSE IF m_offlineSessions'[a] = old THEN {off} \ {None}
                                         ELSE {old}
  <1>13. /\ D \in SUBSET (Sessions \ {s}) /\ \A t \in D : t \in Held
         /\ session' \in [Sessions -> SessionState]
         /\ \A t \in D : session'[t] = Fresh
         /\ \A t \in Sessions \ D : t # old => session'[t] = placed[t]
         /\ old # None /\ old \notin D =>
               /\ session'[old].player = session[old].player
               /\ session'[old].kicked = session[old].kicked
               /\ session'[old].loading = None
               /\ ~session'[old].kicked /\ ~stopped
         /\ m_offlineSessions' \in [Accounts -> Sessions \cup {None}]
         /\ \A b \in Accounts \ {a} : m_offlineSessions'[b] = m_offlineSessions[b]
         /\ m_offlineSessions'[a] = IF old = None \/ old \in D THEN off ELSE old
         /\ charState' \in [Characters -> {"absent", "world", "away"}]
         /\ charOnline' \in [Characters -> BOOLEAN]
         /\ Owned'
    <2>. HIDE DEF placed
    <2>1. CASE /\ old = None /\ session' = placed
               /\ UNCHANGED <<m_offlineSessions, charState, charOnline>>
      <3>1. Owned'
        BY <1>12, <2>1 DEF IInv, Owned
      <3>. QED  BY <1>8, <1>12, <2>1, <3>1 DEF IInv, TypeOK
    <2>2. CASE /\ old # None /\ parks
               /\ m_offlineSessions' = [m_offlineSessions EXCEPT ![a] = old]
               /\ Delete({off} \ {None}, [placed EXCEPT ![old] = Offline(@)])
      <3>. DEFINE S == {off} \ {None}
                  f == [placed EXCEPT ![old] = Offline(placed[old])]
      <3>1. /\ m_offlineSessions'[a] = old
            /\ \A b \in Accounts \ {a} : m_offlineSessions'[b] = m_offlineSessions[b]
            /\ m_offlineSessions' \in [Accounts -> Sessions \cup {None}]
        BY <1>8, <2>2 DEF IInv, TypeOK
      <3>2. D = S /\ S \in SUBSET Sessions /\ old \notin S /\ s \notin S
            /\ \A t \in S : t \in Held
        BY <1>8, <2>2, <3>1
      <3>3. /\ placed[old] \in SessionState /\ placed[old] = flagged[old]
        BY <1>8, <1>12, <2>2
      <3>4. /\ f \in [Sessions -> SessionState]
            /\ f[old].player = session[old].player /\ f[old].kicked = session[old].kicked
            /\ f[old].loading = session[old].loading
            /\ \A t \in Sessions \ {old} : f[t] = placed[t]
        <4>. HIDE DEF flagged
        <4>1. f[old] = Offline(placed[old])
          BY <1>8, <1>12, <2>2
        <4>2. f \in [Sessions -> SessionState]
          BY <1>12, <3>3, OfflineFields
        <4>. QED  BY <1>8, <1>11, <1>12, <2>2, <3>3, <4>1, <4>2, OfflineFields
      <3>5. Delete(S, f)
        BY <2>2
      <3>. HIDE DEF f, D, S, parks
      <3>6. /\ session' \in [Sessions -> SessionState]
            /\ \A t \in S : session'[t] = Fresh
            /\ \A t \in Sessions \ S : session'[t] = f[t]
            /\ charState' \in [Characters -> {"absent", "world", "away"}]
            /\ charOnline' \in [Characters -> BOOLEAN]
        <4>1. TypeOK /\ f \in [Sessions -> SessionState] /\ S \in SUBSET Sessions
          BY <3>2, <3>4 DEF IInv
        <4>. QED  BY ONLY <3>5, <4>1, DeleteEffect, SMTT(30)
      <3>7. Owned'
        <4>1. \A t \in Sessions \ S : f[t].player = session[t].player
          BY <1>12, <3>4
        <4>. QED  BY <3>2, <3>4, <3>5, <4>1, DeleteOwned DEF IInv
      <3>8. ~session[old].kicked /\ ~stopped /\ session[old].loading = None
        BY <1>1, <2>2 DEF parks
      <3>. QED  BY <1>8, <2>2, <3>1, <3>2, <3>4, <3>6, <3>7, <3>8
    <2>3. CASE /\ old # None
               /\ Delete({old}, placed)
               /\ UNCHANGED m_offlineSessions
      <3>1. D = {old} /\ {old} \in SUBSET Sessions
        BY <1>8, <2>3
      <3>2. /\ session' \in [Sessions -> SessionState]
            /\ \A t \in {old} : session'[t] = Fresh
            /\ \A t \in Sessions \ {old} : session'[t] = placed[t]
            /\ charState' \in [Characters -> {"absent", "world", "away"}]
            /\ charOnline' \in [Characters -> BOOLEAN]
        BY <1>12, <2>3, <3>1, DeleteEffect, ZenonT(30) DEF IInv
      <3>3. Owned'
        BY <1>12, <2>3, <3>1, DeleteOwned DEF IInv
      <3>. HIDE DEF D
      <3>. QED  BY <1>8, <2>3, <3>1, <3>2, <3>3 DEF IInv, TypeOK
    <2>. QED  BY <1>3, <2>1, <2>2, <2>3 DEF placed
  <1>14. \A t \in Sessions \ {s, old} : t \notin D =>
            /\ session'[t].socket = session[t].socket
            /\ session'[t].kicked = session[t].kicked
            /\ session'[t].loading = session[t].loading
            /\ session'[t].player = session[t].player
            /\ session'[t].inQueue = IF Policy!IsQueued(m_QueuedPlayer, t)
                                     THEN Policy!IsQueued(left, t) ELSE session[t].inQueue
    <2>. HIDE DEF placed, flagged, left, D
    <2>. QED  BY <1>11, <1>12, <1>13
  <1>15. /\ session'[s].player = None /\ session'[s].loading = None /\ ~session'[s].kicked
         /\ session'[s].inQueue = w /\ session'[s].socket # "none"
         /\ m_sessions'[a] = s /\ m_sessions' \in [Accounts -> Sessions \cup {None}]
    <2>. HIDE DEF placed, D
    <2>. QED  BY <1>1, <1>4, <1>8, <1>12, <1>13 DEF IInv, TypeOK
  <1>16. D \subseteq {old, off} \ {None} /\ (old # None /\ old \notin D => D = {off} \ {None})
         /\ (old = None => D = {}) /\ (old \in D => D = {old})
    BY <1>8
  <1>. HIDE DEF placed, flagged, parks, known, D, left, old, off
  <1>17. /\ m_QueuedPlayer' \in Seq(Sessions) /\ Distinct(m_QueuedPlayer')
         /\ \A t : Policy!IsQueued(m_QueuedPlayer', t) <=>
                      Policy!IsQueued(left, t) \/ (t = s /\ w)
         /\ ~Policy!IsQueued(left, s) /\ ~Policy!IsQueued(m_QueuedPlayer, s)
    <2>1. ~Policy!IsQueued(m_QueuedPlayer, s)
      BY <1>4, <1>5, QueueFacts, HeldAt DEF IInv
    <2>2. ~Policy!IsQueued(left, s)
      BY <1>10, <2>1
    <2>3. CASE w
      <3>1. m_QueuedPlayer' = Append(left, s)
        BY <1>3, <2>3
      <3>. QED  BY <1>4, <1>10, <2>1, <2>2, <2>3, <3>1, QueueAppend
    <2>4. CASE ~w
      <3>1. m_QueuedPlayer' = left
        BY <1>3, <2>4
      <3>. QED  BY <1>10, <2>1, <2>2, <2>4, <3>1
    <2>. QED  BY <2>3, <2>4
  <1>18. \A t \in Sessions : t \in Held' <=> (t \in Held \/ t = s) /\ t \notin D
    <2>1. \A t \in Sessions : t \in Held <=> \/ m_sessions[SessionAccount[t]] = t
                                             \/ m_offlineSessions[SessionAccount[t]] = t
      BY HeldAt DEF IInv
    <2>2. \A t \in Sessions : t \in Held' <=>
             \E b \in Accounts : m_sessions'[b] = t \/ m_offlineSessions'[b] = t
      BY <1>8 DEF Held, Listed
    <2>3. \A t \in Sessions : SessionAccount[t] \in Accounts
      BY SessionsAssumption
    <2>4. \A t \in Sessions, b \in Accounts : m_sessions'[b] = t \/ m_offlineSessions'[b] = t =>
             b = SessionAccount[t]
      BY <1>4, <1>8, <1>9, <1>13, <1>15 DEF IInv, Filed, a
    <2>5. \A t \in Sessions : SessionAccount[t] = a =>
             /\ t \in Held' <=> t = s \/ (t = IF old = None \/ old \in D THEN off ELSE old)
             /\ t \in Held <=> t = old \/ t = off
      BY <1>8, <1>13, <1>15, <2>1, <2>2, <2>4 DEF old, off
    <2>6. \A t \in Sessions : SessionAccount[t] # a => (t \in Held' <=> t \in Held)
      BY <1>9, <1>13, <2>1, <2>2, <2>3, <2>4
    <2>7. \A t \in Sessions : SessionAccount[t] # a => t \notin D /\ t # s
      BY <1>8, <1>16 DEF a
    <2>. QED  BY <1>8, <1>13, <1>16, <2>5, <2>6, <2>7
  <1>19. Filed'
    BY <1>4, <1>8, <1>9, <1>13, <1>15 DEF IInv, Filed, a
  <1>20. Blank'
    <2>. SUFFICES ASSUME NEW t \in Sessions, t \notin Held'
                  PROVE  /\ session'[t].player = None /\ session'[t].loading = None
                         /\ ~session'[t].inQueue /\ ~session'[t].kicked
      BY DEF Blank
    <2>1. CASE t \in D
      BY <1>13, <2>1 DEF Fresh
    <2>2. CASE t \notin D
      <3>1. t \notin Held /\ t # s /\ t # old /\ ~Policy!IsQueued(m_QueuedPlayer, t)
        BY <1>8, <1>18, <2>2, QueueFacts, HeldAt DEF IInv
      <3>. QED  BY <1>14, <2>2, <3>1 DEF IInv, Blank
    <2>. QED  BY <2>1, <2>2
  <1>21. Newcomers'
    <2>1. \A k \in DOMAIN addSessQueue' :
             /\ addSessQueue'[k] \in Sessions /\ addSessQueue'[k] \notin Held
             /\ session[addSessQueue'[k]].socket # "none"
      BY <1>7 DEF IInv, TypeOK, Newcomers
    <2>2. \A k \in DOMAIN addSessQueue' : addSessQueue'[k] \notin {s, old} /\ addSessQueue'[k] \notin D
      BY <1>7, <1>8, <1>13, <2>1
    <2>. QED  BY <1>7, <1>14, <1>18, <2>1, <2>2 DEF Newcomers
  <1>22. Connected'
    <2>1. \A b \in Accounts \ {a} : m_sessions[b] # None =>
             session'[m_sessions[b]].socket = session[m_sessions[b]].socket
             /\ session'[m_sessions[b]].kicked = session[m_sessions[b]].kicked
      BY <1>9, <1>14, <1>16
    <2>. QED  BY <1>9, <1>15, <2>1 DEF IInv, Connected
  <1>23. Queue'
    <2>1. \A t \in Sessions : Policy!IsQueued(left, t) => /\ m_sessions'[SessionAccount[t]] = t
                                                          /\ session'[t].inQueue
      <3>. SUFFICES ASSUME NEW t \in Sessions, Policy!IsQueued(left, t)
                    PROVE  m_sessions'[SessionAccount[t]] = t /\ session'[t].inQueue
        OBVIOUS
      <3>1. /\ Policy!IsQueued(m_QueuedPlayer, t) /\ t # old /\ t # s
            /\ m_sessions[SessionAccount[t]] = t /\ SessionAccount[t] \in Accounts
        BY <1>10, <1>17, QueueFacts, SessionsAssumption DEF IInv
      <3>2. SessionAccount[t] # a
        BY <3>1 DEF old
      <3>3. t \notin D
        BY <1>8, <1>9, <1>16, <3>1, <3>2
      <3>. QED  BY <1>9, <1>14, <3>1, <3>2, <3>3
    <2>2. \A k \in DOMAIN m_QueuedPlayer' :
             /\ m_QueuedPlayer'[k] \in Sessions
             /\ Policy!IsQueued(m_QueuedPlayer', m_QueuedPlayer'[k])
      BY <1>17 DEF Policy!IsQueued
    <2>3. \A k \in DOMAIN m_QueuedPlayer' :
             /\ m_sessions'[SessionAccount[m_QueuedPlayer'[k]]] = m_QueuedPlayer'[k]
             /\ session'[m_QueuedPlayer'[k]].inQueue
      BY <1>15, <1>17, <2>1, <2>2 DEF a
    <2>4. WaitingIsQueued'
      <3>. SUFFICES ASSUME NEW b \in Accounts, m_sessions'[b] # None,
                           session'[m_sessions'[b]].inQueue, ~closing
                    PROVE  Policy!IsQueued(m_QueuedPlayer', m_sessions'[b])
        BY <1>1 DEF WaitingIsQueued, Listed, Policy!IsQueued, stopVars
      <3>1. CASE b = a
        BY <1>15, <1>17, <3>1
      <3>2. CASE b # a
        <4>1. m_sessions'[b] = m_sessions[b] /\ m_sessions[b] \in Sessions \ {s, old}
              /\ m_sessions[b] \notin D
          BY <1>9, <1>16, <3>2
        <4>2. session[m_sessions[b]].inQueue => Policy!IsQueued(m_QueuedPlayer, m_sessions[b])
          BY <4>1 DEF IInv, Queue, WaitingIsQueued, Listed
        <4>. QED  BY <1>14, <1>17, <4>1, <4>2
      <3>. QED  BY <3>1, <3>2
    <2>. QED  BY <1>17, <2>3, <2>4 DEF Queue, Distinct
  <1>24. Thread'
    BY <1>1 DEF IInv, Thread, Online, stopVars, worldVars
  <1>25. Loading'
    <2>. SUFFICES ASSUME NEW t \in Sessions, session'[t].loading # None
                  PROVE  /\ m_sessions'[SessionAccount[t]] = t
                         /\ session'[t].player = None
                         /\ CharAccount[session'[t].loading] = SessionAccount[t]
                         /\ m_offlineSessions'[SessionAccount[t]] # None =>
                               session'[m_offlineSessions'[SessionAccount[t]]].player
                                  # session'[t].loading
      BY DEF Loading
    <2>1. t # s /\ t # old /\ t \notin D
      BY <1>8, <1>13, <1>15 DEF Fresh
    <2>2. /\ session'[t].loading = session[t].loading /\ session'[t].player = session[t].player
          /\ SessionAccount[t] \in Accounts
      BY <1>14, <2>1, SessionsAssumption
    <2>3. m_sessions[SessionAccount[t]] = t /\ SessionAccount[t] # a
      BY <2>1, <2>2 DEF IInv, Loading, old
    <2>4. ASSUME m_offlineSessions[SessionAccount[t]] # None
          PROVE  session'[m_offlineSessions[SessionAccount[t]]].player
                    = session[m_offlineSessions[SessionAccount[t]]].player
      BY <1>9, <1>14, <1>16, <2>2, <2>3, <2>4
    <2>. QED  BY <1>9, <1>13, <2>2, <2>3, <2>4 DEF IInv, Loading
  <1>26. Superseded'
    <2>. SUFFICES ASSUME NEW b \in Accounts, m_sessions'[b] # None, m_offlineSessions'[b] # None,
                         \/ session'[m_sessions'[b]].player # None
                         \/ session'[m_sessions'[b]].loading # None
                  PROVE  FALSE
      BY DEF Superseded
    <2>1. b # a
      BY <1>15
    <2>2. m_sessions[b] \in Sessions \ {s, old} /\ m_sessions[b] \notin D
          /\ m_sessions'[b] = m_sessions[b] /\ m_offlineSessions[b] # None
      BY <1>9, <1>13, <1>16, <2>1
    <2>. QED  BY <1>1, <1>14, <2>2 DEF IInv, Superseded
  <1>27. Kicked'
    <2>1. ASSUME closing, NEW b \in Accounts, m_offlineSessions'[b] # None
          PROVE  session'[m_offlineSessions'[b]].kicked
      <3>1. old = None \/ old \in D
        BY <1>13, <2>1 DEF IInv, Thread
      <3>2. m_offlineSessions'[b] = m_offlineSessions[b]
        BY <1>13, <3>1 DEF off
      <3>3. m_offlineSessions[b] \in Sessions \ {s, old} /\ m_offlineSessions[b] \notin D
        BY <1>8, <1>9, <1>16, <2>1, <3>1, <3>2 DEF off
      <3>. QED  BY <1>14, <2>1, <3>2, <3>3 DEF IInv, Kicked
    <2>. QED  BY <1>1, <2>1 DEF Kicked, stopVars, worldVars
  <1>28. TypeOK'
    <2>1. m_disconnects' \subseteq Accounts
      BY <1>3, <1>8 DEF IInv, TypeOK, Remember, known, old
    <2>. QED  BY <1>1, <1>4, <1>13, <1>15, <1>17, <2>1 DEF IInv, TypeOK, stopVars, worldVars
  <1>. QED
    BY <1>13, <1>19, <1>20, <1>21, <1>22, <1>23, <1>24, <1>25, <1>26, <1>27, <1>28 DEF IInv

(* The offline sessions that are gone are deleted. *)
LEMMA ReapStep == ASSUME IInv, ReapOffline PROVE IInv'
  <1>. DEFINE gone == {a \in Accounts : m_offlineSessions[a] # None /\ Gone(m_offlineSessions[a])}
              D == {m_offlineSessions[a] : a \in gone}
  <1>1. /\ at = "offline" /\ at' = IF closing THEN "halted" ELSE "idle"
        /\ m_offlineSessions' = [a \in Accounts |-> IF a \in gone THEN None ELSE m_offlineSessions[a]]
        /\ Delete(D, session)
        /\ accountOnline' \in [Accounts -> BOOLEAN]
        /\ UNCHANGED <<addSessQueue, m_sessions, m_QueuedPlayer, m_disconnects, stopVars, todo, cur>>
    BY DEF ReapOffline, SetOfflineInDB, IInv, TypeOK
  <1>2. /\ D \in SUBSET Sessions /\ None \notin Sessions
        /\ session \in [Sessions -> SessionState] /\ todo = {} /\ cur = None
    BY <1>1, SessionsAssumption DEF IInv, TypeOK, Thread
  <1>3. /\ session' \in [Sessions -> SessionState]
        /\ \A t \in D : session'[t] = Fresh
        /\ \A t \in Sessions \ D : session'[t] = session[t]
        /\ charState' \in [Characters -> {"absent", "world", "away"}]
        /\ charOnline' \in [Characters -> BOOLEAN]
    BY <1>1, <1>2, DeleteEffect, ZenonT(30) DEF IInv
  <1>4. Owned'
    BY <1>1, <1>2, DeleteOwned DEF IInv
  <1>5. \A a \in Accounts : m_offlineSessions[a] # None /\ Gone(m_offlineSessions[a]) <=> a \in gone
    OBVIOUS
  <1>6. \A t \in D : \E a \in gone : t = m_offlineSessions[a]
    OBVIOUS
  <1>. HIDE DEF D
  <1>7. \A a \in Accounts :
           /\ m_sessions[a] \notin D
           /\ a \notin gone => m_offlineSessions[a] \notin D /\ m_offlineSessions'[a] = m_offlineSessions[a]
           /\ a \in gone => m_offlineSessions[a] \in D /\ m_offlineSessions'[a] = None
    <2>1. \A t \in D : t \in Sessions /\ m_offlineSessions[SessionAccount[t]] = t /\ SessionAccount[t] \in gone
      BY <1>2, <1>6 DEF IInv, Filed
    <2>2. \A a \in gone : m_offlineSessions[a] \in D
      BY DEF D
    <2>. QED  BY <1>1, <1>2, <2>1, <2>2 DEF IInv, Filed
  <1>. HIDE DEF gone
  <1>8. m_offlineSessions' \in [Accounts -> Sessions \cup {None}]
    BY <1>1 DEF IInv, TypeOK
  <1>9. \A t \in Sessions : t \in Held' <=> t \in Held /\ t \notin D
    BY <1>1, <1>2, <1>7 DEF Held, Listed
  <1>10. Filed'
    BY <1>1, <1>7 DEF IInv, Filed
  <1>11. Blank'
    BY <1>3, <1>9 DEF IInv, Blank, Fresh
  <1>12. Newcomers'
    <2>1. \A t \in D : t \in Held
      BY <1>2, <1>6 DEF Held, Listed, gone
    <2>2. \A k \in DOMAIN addSessQueue : addSessQueue[k] \in Sessions \ D
      BY <2>1 DEF IInv, TypeOK, Newcomers
    <2>. QED  BY <1>1, <1>3, <1>9, <2>2 DEF IInv, Newcomers
  <1>13. \A a \in Accounts : m_sessions[a] # None =>
            m_sessions[a] \in Sessions /\ session'[m_sessions[a]] = session[m_sessions[a]]
    BY <1>3, <1>7 DEF IInv, TypeOK
  <1>14. \A a \in Accounts : m_offlineSessions'[a] # None =>
            /\ m_offlineSessions'[a] = m_offlineSessions[a] /\ ~Gone(m_offlineSessions[a])
            /\ m_offlineSessions[a] \in Sessions
            /\ session'[m_offlineSessions[a]] = session[m_offlineSessions[a]]
    BY <1>3, <1>5, <1>7 DEF IInv, TypeOK
  <1>15. Connected'
    BY <1>1, <1>13 DEF IInv, Connected
  <1>16. Queue'
    <2>1. \A k \in DOMAIN m_QueuedPlayer :
             session'[m_QueuedPlayer[k]] = session[m_QueuedPlayer[k]]
      <3>1. \A k \in DOMAIN m_QueuedPlayer :
               /\ m_QueuedPlayer[k] \in Sessions
               /\ m_sessions[SessionAccount[m_QueuedPlayer[k]]] = m_QueuedPlayer[k]
        BY DEF IInv, TypeOK, Queue
      <3>2. \A k \in DOMAIN m_QueuedPlayer : SessionAccount[m_QueuedPlayer[k]] \in Accounts
        BY <3>1, SessionsAssumption
      <3>. QED  BY <1>2, <1>13, <3>1, <3>2
    <2>2. WaitingIsQueued'
      BY <1>1, <1>13 DEF IInv, Queue, WaitingIsQueued, Listed, Policy!IsQueued, stopVars
    <2>. QED  BY <1>1, <2>1, <2>2 DEF IInv, Queue
  <1>17. Thread'
    BY <1>1, <1>2 DEF IInv, Thread, Online, stopVars
  <1>18. Loading'
    <2>. SUFFICES ASSUME NEW t \in Sessions, session'[t].loading # None
                  PROVE  /\ m_sessions[SessionAccount[t]] = t
                         /\ session'[t].player = None
                         /\ CharAccount[session'[t].loading] = SessionAccount[t]
                         /\ m_offlineSessions'[SessionAccount[t]] # None =>
                               session'[m_offlineSessions'[SessionAccount[t]]].player
                                  # session'[t].loading
      BY <1>1 DEF Loading
    <2>1. t \notin D /\ session'[t] = session[t] /\ SessionAccount[t] \in Accounts
      BY <1>3, SessionsAssumption DEF Fresh
    <2>. QED  BY <1>14, <2>1 DEF IInv, Loading
  <1>19. Superseded'
    BY <1>1, <1>13, <1>14 DEF IInv, Superseded, Gone
  <1>20. Kicked'
    BY <1>1, <1>2, <1>13, <1>14 DEF IInv, Kicked, Gone, stopVars
  <1>21. TypeOK'
    BY <1>1, <1>3, <1>8 DEF IInv, TypeOK, stopVars
  <1>. QED
    BY <1>4, <1>10, <1>11, <1>12, <1>15, <1>16, <1>17, <1>18, <1>19, <1>20, <1>21 DEF IInv

-----------------------------------------------------------------------------
(* The invariant. *)

LEMMA StepIInv == IInv /\ [Next]_vars => IInv'
  <1>. SUFFICES ASSUME IInv, [Next]_vars PROVE IInv'
    OBVIOUS
  <1>1. CASE Next
    <2>1. CASE StopNow \/ \E s \in Sessions : \/ Authenticate(s) \/ AddSession(s)
                                              \/ CloseSocket(s) \/ QueryReady(s)
      BY <2>1, NetworkStep
    <2>2. CASE \/ StartTick \/ KickAll
               \/ \E s \in Sessions : KickSession(s)
               \/ \E c \in Characters : Travel(c)
      BY <2>2, IdleStep
    <2>3. CASE EndAdd \/ EndPackets \/ EndVisit \/ \E a \in Accounts : VisitSession(a)
      BY <2>3, MoveStep
    <2>4. CASE RejectSession
      BY <2>4, RejectStep
    <2>5. CASE AddSession_
      BY <2>5, AddStep
    <2>6. CASE \E a \in Accounts : ParkSession(a)
      BY <2>6, ParkStep
    <2>7. CASE \E c \in Characters : HandlePlayerLoginOpcode(c)
      BY <2>7, LoginStep
    <2>8. CASE ProcessQueryCallbacks
      BY <2>8, CallbackStep
    <2>9. CASE KeepSession
      BY <2>9, KeepStep
    <2>10. CASE RemoveSession
      BY <2>10, RemoveStep
    <2>11. CASE ReapOffline
      BY <2>11, ReapStep
    <2>12. CASE Halted
      <3>1. UNCHANGED vars
        BY <2>12 DEF Halted
      <3>. QED  BY <3>1 DEF vars, dbVars, worldVars, stopVars, mapVars, IInv, TypeOK, Filed,
                           Blank, Newcomers, Connected, Queue, WaitingIsQueued, Thread, Owned,
                           Loading, Superseded, Kicked, Held, Listed, Online, Policy!IsQueued
    <2>. QED
      BY <1>1, <2>1, <2>2, <2>3, <2>4, <2>5, <2>6, <2>7, <2>8, <2>9, <2>10, <2>11, <2>12
         DEF Next, Tick
  <1>2. CASE UNCHANGED vars
    BY <1>2 DEF vars, dbVars, worldVars, stopVars, mapVars, IInv, TypeOK, Filed,
                Blank, Newcomers, Connected, Queue, WaitingIsQueued, Thread, Owned,
                Loading, Superseded, Kicked, Held, Listed, Online, Policy!IsQueued
  <1>. QED  BY <1>1, <1>2

THEOREM Inductive == Spec => []IInv
  BY InitIInv, StepIInv, PTL DEF Spec

(* Every variable keeps its type: the containers hold sessions, and an age never passes
   the bound. *)
THEOREM TypeCorrect == Spec => []TypeOK
  <1>1. IInv => TypeOK
    BY DEF IInv
  <1>. QED  BY <1>1, Inductive, PTL

(* No container, and not the world thread, points to a deleted session: whatever replaces,
   parks, removes or reaps a session takes it out of the queue and the maps in the same step. *)
THEOREM NothingDangles == Spec => []NoDanglingSession
  <1>1. IInv => NoDanglingSession
    <2>. SUFFICES ASSUME IInv PROVE NoDanglingSession
      OBVIOUS
    <2>1. cur # None => cur \in Listed(m_sessions)
      BY SessionsAssumption DEF IInv, TypeOK, Thread, Listed
    <2>. QED  BY <2>1 DEF IInv, Queue, Filed, Newcomers, NoDanglingSession
  <1>. QED  BY <1>1, Inductive, PTL

(* A Player object is in exactly one session, held and of the character's own account, or
   the character is not loaded: logins, reclaims, logouts and deletes neither share nor
   forget one. *)
THEOREM CharactersOwned == Spec => []OneOwner
  <1>1. IInv => OneOwner
    <2>. SUFFICES ASSUME IInv, NEW c \in Characters
                  PROVE  LET owners == {s \in Sessions : session[s].player = c} IN
                         /\ Cardinality(owners) = (IF charState[c] = "absent" THEN 0 ELSE 1)
                         /\ \A s \in owners : s \in Held /\ SessionAccount[s] = CharAccount[c]
      BY DEF OneOwner
    <2>. DEFINE owners == {s \in Sessions : session[s].player = c}
    <2>1. c # None
      BY SessionsAssumption
    <2>2. \A s \in owners : s \in Held /\ SessionAccount[s] = CharAccount[c]
      BY <2>1 DEF IInv, Owned, Blank
    <2>3. CASE charState[c] = "absent"
      <3>1. owners = {}
        BY <2>1, <2>3 DEF IInv, Owned
      <3>. QED  BY <2>2, <2>3, <3>1, FS_EmptySet
    <2>4. CASE charState[c] # "absent"
      <3>1. PICK s \in Sessions : session[s].player = c
        BY <2>4 DEF IInv, Owned
      <3>2. owners = {s}
        BY <2>1, <3>1 DEF IInv, Owned
      <3>. QED  BY <2>2, <2>4, <3>2, FS_Singleton
    <2>. QED  BY <2>3, <2>4
  <1>. QED  BY <1>1, Inductive, PTL

(* Until the server closes, a session that is told to wait has its place in m_QueuedPlayer. *)
THEOREM NobodyStuck == Spec => []WaitingIsQueued
  <1>1. IInv => WaitingIsQueued
    BY DEF IInv, Queue
  <1>. QED  BY <1>1, Inductive, PTL

(* An account's session can only be parked when its offline session is not in its way: the
   one a login superseded is deleted in the same update. *)
THEOREM OfflineIsAlone == Spec => []OfflineAlone
  <1>1. IInv => OfflineAlone
    BY DEF IInv, Superseded, Thread, OfflineAlone
  <1>. QED  BY <1>1, Inductive, PTL

(* A halted server has no offline session, and every session it kicked has logged out. *)
THEOREM ShutdownComplete == Spec => []ShutdownSaves
  <1>1. IInv => ShutdownSaves
    <2>. SUFFICES ASSUME IInv, at = "halted"
                  PROVE  /\ \A a \in Accounts : m_offlineSessions[a] = None
                         /\ \A s \in Sessions : session[s].kicked => session[s].player = None
      BY DEF ShutdownSaves
    <2>1. \A a \in Accounts : m_offlineSessions[a] = None
      BY DEF IInv, Kicked
    <2>2. \A a \in Accounts : m_sessions[a] # None => ~session[m_sessions[a]].kicked
      BY DEF IInv, Kicked, Thread
    <2>3. \A s \in Sessions : s \in Held => m_sessions[SessionAccount[s]] = s /\ SessionAccount[s] \in Accounts
                                            /\ s # None
      BY <2>1, HeldAt, SessionsAssumption DEF IInv
    <2>4. \A s \in Sessions : session[s].kicked => s \notin Held
      BY <2>2, <2>3
    <2>. QED  BY <2>1, <2>4 DEF IInv, Blank
  <1>. QED  BY <1>1, Inductive, PTL

-----------------------------------------------------------------------------
(* The admission policy of LoginQueue, on the accounts of the sessions. *)

AccountsOf(q) == [k \in DOMAIN q |-> SessionAccount[q[k]]]

(* No account is in q twice, and e is the only one that may be there for its own. *)
OnePerAccount(q, e) ==
    /\ \A j, k \in DOMAIN q : SessionAccount[q[j]] = SessionAccount[q[k]] => j = k
    /\ \A k \in DOMAIN q : SessionAccount[q[k]] = SessionAccount[e] => q[k] = e

LEMMA AccountsOfSeq ==
  ASSUME NEW q \in Seq(Sessions)
  PROVE  /\ AccountsOf(q) \in Seq(Accounts)
         /\ Len(AccountsOf(q)) = Len(q)
         /\ DOMAIN AccountsOf(q) = DOMAIN q
         /\ q = <<>> <=> AccountsOf(q) = <<>>
  <1>1. /\ Len(q) \in Nat /\ DOMAIN q = 1..Len(q)
        /\ \A k \in DOMAIN q : q[k] \in Sessions
    BY LenProperties
  <1>2. AccountsOf(q) \in [1..Len(q) -> Accounts]
    BY <1>1, SessionsAssumption DEF AccountsOf
  <1>3. AccountsOf(q) \in Seq(Accounts)
    BY <1>1, <1>2, SeqDef
  <1>4. Len(AccountsOf(q)) = Len(q)
    BY <1>1, <1>2, <1>3, LenProperties
  <1>5. q = <<>> <=> Len(q) = 0
    BY EmptySeq
  <1>6. AccountsOf(q) = <<>> <=> Len(AccountsOf(q)) = 0
    BY <1>3, EmptySeq
  <1>. QED  BY <1>1, <1>2, <1>3, <1>4, <1>5, <1>6

LEMMA AccountsOfTail ==
  ASSUME NEW q \in Seq(Sessions), q # <<>>
  PROVE  AccountsOf(Tail(q)) = Tail(AccountsOf(q))
  <1>1. /\ Len(q) \in Nat /\ DOMAIN q = 1..Len(q)
        /\ Tail(q) \in Seq(Sessions) /\ DOMAIN Tail(q) = 1..Len(q) - 1
        /\ Len(Tail(q)) = Len(q) - 1
        /\ \A k \in 1..Len(q) - 1 : Tail(q)[k] = q[k + 1]
    BY HeadTailProperties, LenProperties
  <1>2. /\ AccountsOf(q) \in Seq(Accounts) /\ AccountsOf(q) # <<>>
        /\ Len(AccountsOf(q)) = Len(q)
    BY AccountsOfSeq
  <1>3. /\ Tail(AccountsOf(q)) \in Seq(Accounts)
        /\ Len(Tail(AccountsOf(q))) = Len(q) - 1
        /\ \A k \in 1..Len(q) - 1 : Tail(AccountsOf(q))[k] = AccountsOf(q)[k + 1]
    BY <1>2, HeadTailProperties
  <1>4. \A k \in 1..Len(q) - 1 : AccountsOf(q)[k + 1] = SessionAccount[q[k + 1]]
    <2>1. \A k \in 1..Len(q) - 1 : k + 1 \in 1..Len(q)
      BY <1>1
    <2>. QED  BY <1>1, <2>1 DEF AccountsOf
  <1>5. \A k \in 1..Len(q) - 1 : AccountsOf(Tail(q))[k] = Tail(AccountsOf(q))[k]
    BY <1>1, <1>3, <1>4 DEF AccountsOf
  <1>6. /\ AccountsOf(Tail(q)) \in Seq(Accounts)
        /\ Len(AccountsOf(Tail(q))) = Len(q) - 1
    BY <1>1, AccountsOfSeq
  <1>. QED  BY <1>3, <1>5, <1>6, SeqEqual

LEMMA AccountsOfAppend ==
  ASSUME NEW q \in Seq(Sessions), NEW s \in Sessions
  PROVE  AccountsOf(Append(q, s)) = Append(AccountsOf(q), SessionAccount[s])
  <1>1. /\ Len(q) \in Nat /\ DOMAIN q = 1..Len(q)
        /\ Append(q, s) \in Seq(Sessions) /\ Len(Append(q, s)) = Len(q) + 1
        /\ \A k \in 1..Len(q) : Append(q, s)[k] = q[k]
        /\ Append(q, s)[Len(q) + 1] = s
        /\ SessionAccount[s] \in Accounts
    BY LenProperties, AppendProperties, SessionsAssumption
  <1>2. AccountsOf(q) \in Seq(Accounts) /\ Len(AccountsOf(q)) = Len(q)
    BY AccountsOfSeq
  <1>. DEFINE r == Append(AccountsOf(q), SessionAccount[s])
  <1>3. /\ r \in Seq(Accounts) /\ Len(r) = Len(q) + 1
        /\ \A k \in 1..Len(q) : r[k] = AccountsOf(q)[k]
        /\ r[Len(q) + 1] = SessionAccount[s]
    BY <1>1, <1>2, AppendProperties
  <1>4. DOMAIN Append(q, s) = 1..Len(q) + 1
    BY <1>1, LenProperties
  <1>. HIDE DEF r
  <1>5. \A k \in 1..Len(q) + 1 : AccountsOf(Append(q, s))[k] = r[k]
    <2>1. \A k \in 1..Len(q) + 1 : k \in 1..Len(q) \/ k = Len(q) + 1
      BY <1>1
    <2>. QED  BY <1>1, <1>3, <1>4, <2>1 DEF AccountsOf
  <1>6. /\ AccountsOf(Append(q, s)) \in Seq(Accounts)
        /\ Len(AccountsOf(Append(q, s))) = Len(q) + 1
    BY <1>1, AccountsOfSeq
  <1>7. AccountsOf(Append(q, s)) = r
    BY <1>3, <1>5, <1>6, SeqEqual
  <1>. QED  BY <1>7 DEF r

LEMMA AccountsOfWithout ==
  ASSUME NEW q \in Seq(Sessions), NEW e \in Sessions, OnePerAccount(q, e)
  PROVE  /\ AccountsOf(Policy!Without(q, e)) = Policy!Without(AccountsOf(q), SessionAccount[e])
         /\ Policy!IsQueued(q, e) <=> Policy!IsQueued(AccountsOf(q), SessionAccount[e])
         /\ Policy!Without(q, e) \in Seq(Sessions)
  <1>. DEFINE m == AccountsOf(q)
              b == SessionAccount[e]
  <1>1. /\ Len(q) \in Nat /\ DOMAIN q = 1..Len(q) /\ DOMAIN m = 1..Len(q) /\ Len(m) = Len(q)
        /\ \A k \in 1..Len(q) : m[k] = SessionAccount[q[k]] /\ q[k] \in Sessions
    BY LenProperties, AccountsOfSeq DEF AccountsOf
  <1>. HIDE DEF m
  <1>2. Policy!IsQueued(q, e) <=> Policy!IsQueued(m, b)
    BY <1>1 DEF OnePerAccount, Policy!IsQueued
  <1>3. CASE ~Policy!IsQueued(q, e)
    <2>1. Policy!Without(q, e) = q /\ Policy!Without(m, b) = m
      BY <1>2, <1>3 DEF Policy!Without, Policy!IsQueued
    <2>. QED  BY <1>2, <2>1 DEF m
  <1>4. CASE Policy!IsQueued(q, e)
    <2>. DEFINE i == CHOOSE i \in DOMAIN q : q[i] = e
                j == CHOOSE j \in DOMAIN m : m[j] = b
                n == Len(q) - 1
                r == Policy!Without(q, e)
                x == Policy!Without(m, b)
    <2>1. i \in 1..Len(q) /\ q[i] = e /\ j \in 1..Len(q) /\ m[j] = b
      BY <1>1, <1>2, <1>4 DEF Policy!IsQueued
    <2>2. r = [k \in 1..n |-> IF k < i THEN q[k] ELSE q[k + 1]]
      BY <1>4 DEF Policy!Without, Policy!RemoveNth, Policy!IsQueued
    <2>3. x = [k \in 1..n |-> IF k < j THEN m[k] ELSE m[k + 1]]
      BY <1>1, <1>2, <1>4 DEF Policy!Without, Policy!RemoveNth, Policy!IsQueued
    <2>. HIDE DEF i, j, r, x
    <2>4. i = j
      BY <1>1, <2>1 DEF OnePerAccount
    <2>5. n \in Nat /\ \A k \in 1..n : k \in 1..Len(q) /\ k + 1 \in 1..Len(q)
      BY <1>1, <2>1
    <2>6. \A k \in 1..n : r[k] \in Sessions /\ SessionAccount[r[k]] = x[k]
      <3>. SUFFICES ASSUME NEW k \in 1..n PROVE r[k] \in Sessions /\ SessionAccount[r[k]] = x[k]
        OBVIOUS
      <3>1. CASE k < i
        BY <1>1, <2>2, <2>3, <2>4, <2>5, <3>1
      <3>2. CASE ~(k < i)
        BY <1>1, <2>2, <2>3, <2>4, <2>5, <3>2
      <3>. QED  BY <3>1, <3>2
    <2>7. r \in [1..n -> Sessions] /\ DOMAIN r = 1..n
      BY <2>2, <2>6
    <2>8. r \in Seq(Sessions)
      BY <2>5, <2>7, SeqDef
    <2>9. AccountsOf(r) = x
      <3>1. AccountsOf(r) = [k \in 1..n |-> SessionAccount[r[k]]]
        BY <2>7 DEF AccountsOf
      <3>2. x = [k \in 1..n |-> x[k]]
        BY <2>3
      <3>. QED  BY <2>6, <3>1, <3>2
    <2>. QED  BY <1>2, <2>8, <2>9 DEF m, r, x
  <1>. QED  BY <1>3, <1>4

(* RemoveQueuedPlayer does to the accounts what it does to their sessions. *)
LEMMA AccountsOfRemoved ==
  ASSUME NEW q \in Seq(Sessions), NEW e \in Sessions, OnePerAccount(q, e), NEW total
  PROVE  /\ AccountsOf(Policy!RemoveQueuedPlayer(q, e, total))
               = Policy!RemoveQueuedPlayer(AccountsOf(q), SessionAccount[e], total)
         /\ Policy!RemoveQueuedPlayer(q, e, total) \in Seq(Sessions)
  <1>. DEFINE m == AccountsOf(q)
              b == SessionAccount[e]
              rest == Policy!Without(q, e)
              playing == IF Policy!IsQueued(q, e) THEN total - Len(q) ELSE (total - Len(q)) - 1
              admits == PlayerLimit = 0 \/ playing < PlayerLimit
  <1>1. /\ AccountsOf(rest) = Policy!Without(m, b) /\ rest \in Seq(Sessions)
        /\ Policy!IsQueued(q, e) <=> Policy!IsQueued(m, b)
        /\ Len(m) = Len(q)
    BY AccountsOfWithout, AccountsOfSeq
  <1>2. rest = <<>> <=> AccountsOf(rest) = <<>>
    BY <1>1, AccountsOfSeq
  <1>3. Policy!RemoveQueuedPlayer(q, e, total) = IF admits /\ rest # <<>> THEN Tail(rest) ELSE rest
    BY DEF Policy!RemoveQueuedPlayer
  <1>4. Policy!RemoveQueuedPlayer(m, b, total)
           = IF admits /\ AccountsOf(rest) # <<>> THEN Tail(AccountsOf(rest)) ELSE AccountsOf(rest)
    BY <1>1 DEF Policy!RemoveQueuedPlayer
  <1>. HIDE DEF rest, m, b, admits
  <1>5. rest # <<>> => AccountsOf(Tail(rest)) = Tail(AccountsOf(rest)) /\ Tail(rest) \in Seq(Sessions)
    BY <1>1, AccountsOfTail, HeadTailProperties
  <1>6. AccountsOf(Policy!RemoveQueuedPlayer(q, e, total)) = Policy!RemoveQueuedPlayer(m, b, total)
    BY <1>1, <1>2, <1>3, <1>4, <1>5
  <1>. QED  BY <1>1, <1>3, <1>5, <1>6 DEF m, b

LEMMA QueueOnePerAccount ==
  ASSUME TypeOK, Queue, NEW e \in Sessions, m_sessions[SessionAccount[e]] = e
  PROVE  OnePerAccount(m_QueuedPlayer, e)
  BY DEF TypeOK, Queue, OnePerAccount

(* The session of account a gives up its place or its slot. *)
LEMMA QueueGivenUp ==
  ASSUME TypeOK, Queue, NEW e \in Sessions, m_sessions[SessionAccount[e]] = e
  PROVE  /\ AccountsOf(QueueWithout(e))
               = Policy!RemoveQueuedPlayer(AccountsOf(m_QueuedPlayer), SessionAccount[e],
                                           Cardinality(Online))
         /\ QueueWithout(e) \in Seq(Sessions)
  <1>1. OnePerAccount(m_QueuedPlayer, e) /\ m_QueuedPlayer \in Seq(Sessions)
    BY QueueOnePerAccount DEF TypeOK
  <1>. QED  BY <1>1, AccountsOfRemoved DEF QueueWithout

LEMMA OnlineFinite == IsFiniteSet(Online) /\ Cardinality(Online) \in Nat
  <1>1. Online \in SUBSET Accounts
    BY DEF Online
  <1>2. IsFiniteSet(Online)
    BY <1>1, SessionsAssumption, FS_Subset
  <1>. QED  BY <1>2, FS_CardinalityType

(* The instance has its own copy of the standard operator. *)
LEMMA PolicyCardinality ==
  ASSUME NEW S
  PROVE  Policy!Cardinality(S) = Cardinality(S)
  BY DEF Policy!Cardinality, Cardinality

LEMMA AddAdmits ==
  ASSUME IInv, AddSession_
  PROVE  \E a \in Accounts : Policy!Join(a) \/ Policy!Rejoin(a)
  <1>. DEFINE s == Head(addSessQueue)
              a == SessionAccount[s]
              old == m_sessions[a]
              left == IF old = None THEN m_QueuedPlayer ELSE QueueWithout(old)
              joins == Policy!RealmFull(Cardinality(Online \cup {a}) - 1)
  <1>1. /\ addSessQueue # <<>>
        /\ m_sessions' = [m_sessions EXCEPT ![a] = s]
        /\ \/ joins /\ m_QueuedPlayer' = Append(left, s)
           \/ m_QueuedPlayer' = left
    <2>. DEFINE full == joins /\ a \notin Privileged
                known == IF old = None THEN m_disconnects ELSE Remember(old)
                waits(e) == full /\ ~(full /\ Tolerance /\ a \in known \ e)
    <2>1. addSessQueue # <<>> /\ m_sessions' = [m_sessions EXCEPT ![a] = s]
      BY DEF AddSession_
    <2>2. PICK e \in SUBSET known :
             m_QueuedPlayer' = IF waits(e) THEN Append(left, s) ELSE left
      BY DEF AddSession_
    <2>3. waits(e) => joins
      OBVIOUS
    <2>. HIDE DEF waits, joins, left
    <2>. QED  BY <2>1, <2>2, <2>3
  <1>2. s \in Sessions
    BY <1>1, HeadTailProperties DEF IInv, TypeOK
  <1>. HIDE DEF s
  <1>3. a \in Accounts /\ None \notin Sessions /\ s # None
    BY <1>2, SessionsAssumption
  <1>4. /\ a \in Online <=> old # None
        /\ Online' = Online \cup {a}
        /\ old # None => old \in Sessions /\ SessionAccount[old] = a
    BY <1>1, <1>2, <1>3 DEF Online, IInv, TypeOK, Filed
  <1>. HIDE DEF a, joins
  <1>5. CASE old = None
    <2>1. Cardinality(Online \cup {a}) = Cardinality(Online) + 1
      BY <1>4, <1>5, OnlineFinite, FS_AddElement
    <2>2. Cardinality(Online \cup {a}) - 1 = Cardinality(Online)
      BY <2>1, OnlineFinite
    <2>3. \/ Policy!RealmFull(Cardinality(Online)) /\ m_QueuedPlayer' = Append(m_QueuedPlayer, s)
          \/ m_QueuedPlayer' = m_QueuedPlayer
      BY <1>1, <1>5, <2>2 DEF joins
    <2>4. AccountsOf(Append(m_QueuedPlayer, s)) = Append(AccountsOf(m_QueuedPlayer), a)
      BY <1>2, AccountsOfAppend DEF IInv, TypeOK, a
    <2>5. \/ /\ Policy!RealmFull(Cardinality(Online))
             /\ AccountsOf(m_QueuedPlayer') = Append(AccountsOf(m_QueuedPlayer), a)
          \/ AccountsOf(m_QueuedPlayer') = AccountsOf(m_QueuedPlayer)
      BY <2>3, <2>4
    <2>6. a \in Accounts \ Online /\ Online' = Online \cup {a}
      BY <1>3, <1>4, <1>5
    <2>7. PICK b \in Accounts : b = a
      BY <1>3
    <2>8. Policy!Join(b)
      BY <2>5, <2>6, <2>7, PolicyCardinality DEF Policy!Join, Online, AccountsOf
    <2>. QED  BY <2>8
  <1>6. CASE old # None
    <2>1. /\ a \in Online /\ Online' = Online /\ Online \cup {a} = Online
          /\ old \in Sessions /\ SessionAccount[old] = a /\ m_sessions[SessionAccount[old]] = old
      BY <1>4, <1>6
    <2>2. \/ Policy!RealmFull(Cardinality(Online) - 1) /\ m_QueuedPlayer' = Append(QueueWithout(old), s)
          \/ m_QueuedPlayer' = QueueWithout(old)
      BY <1>1, <1>6, <2>1 DEF joins
    <2>. DEFINE r == Policy!RemoveQueuedPlayer(AccountsOf(m_QueuedPlayer), a, Cardinality(Online))
    <2>3. AccountsOf(QueueWithout(old)) = r /\ QueueWithout(old) \in Seq(Sessions)
      BY <2>1, QueueGivenUp DEF IInv
    <2>4. AccountsOf(Append(QueueWithout(old), s)) = Append(r, a)
      BY <1>2, <2>3, AccountsOfAppend DEF a
    <2>5. \/ Policy!RealmFull(Cardinality(Online) - 1) /\ AccountsOf(m_QueuedPlayer') = Append(r, a)
          \/ AccountsOf(m_QueuedPlayer') = r
      BY <2>2, <2>3, <2>4
    <2>6. PICK b \in Accounts : b = a
      BY <1>3
    <2>7. Policy!Rejoin(b)
      BY <2>1, <2>5, <2>6, PolicyCardinality DEF Policy!Rejoin, Online, AccountsOf
    <2>. QED  BY <2>7
  <1>. QED  BY <1>5, <1>6

LEMMA LeaveAdmits ==
  ASSUME IInv, NEW a \in Accounts, m_sessions[a] # None,
         m_sessions' = [m_sessions EXCEPT ![a] = None],
         m_QueuedPlayer' = QueueWithout(m_sessions[a])
  PROVE  Policy!Leave(a)
  <1>1. a \in Online /\ Online' = Online \ {a}
    BY DEF Online, IInv, TypeOK
  <1>2. m_sessions[a] \in Sessions /\ SessionAccount[m_sessions[a]] = a
    BY DEF IInv, TypeOK, Filed
  <1>3. AccountsOf(m_QueuedPlayer')
           = Policy!RemoveQueuedPlayer(AccountsOf(m_QueuedPlayer), a, Cardinality(Online))
    BY <1>2, QueueGivenUp DEF IInv
  <1>. QED  BY <1>1, <1>3, PolicyCardinality DEF Policy!Leave, Online, AccountsOf

LEMMA InitAdmits == Init => Policy!LQInit
  <1>. SUFFICES ASSUME Init PROVE Policy!LQInit
    OBVIOUS
  <1>1. Online = {}
    BY DEF Init, Online
  <1>2. AccountsOf(m_QueuedPlayer) = <<>>
    <2>1. m_QueuedPlayer = <<>> /\ m_QueuedPlayer \in Seq(Sessions)
      BY EmptySeq DEF Init
    <2>. QED  BY <2>1, AccountsOfSeq
  <1>. QED  BY <1>1, <1>2 DEF Policy!LQInit, Online, AccountsOf

LEMMA StepAdmits ==
  ASSUME IInv, [Next]_vars
  PROVE  [Policy!LQNext]_(Policy!lqVars)
  <1>1. ASSUME m_sessions' = m_sessions, m_QueuedPlayer' = m_QueuedPlayer
        PROVE  UNCHANGED Policy!lqVars
    BY <1>1 DEF Policy!lqVars
  <1>2. CASE \/ StopNow
             \/ \E s \in Sessions : Authenticate(s) \/ AddSession(s) \/ CloseSocket(s) \/ QueryReady(s)
    <2>1. m_sessions' = m_sessions /\ m_QueuedPlayer' = m_QueuedPlayer
      BY <1>2 DEF StopNow, Authenticate, AddSession, CloseSocket, QueryReady, mapVars
    <2>. QED  BY <1>1, <2>1
  <1>3. CASE \/ StartTick
             \/ \E s \in Sessions : KickSession(s)
             \/ \E c \in Characters : Travel(c)
    <2>1. m_sessions' = m_sessions /\ m_QueuedPlayer' = m_QueuedPlayer
      BY <1>3 DEF StartTick, KickSession, Travel, mapVars
    <2>. QED  BY <1>1, <2>1
  <1>4. CASE KickAll
    <2>1. m_sessions' = m_sessions /\ m_QueuedPlayer' = <<>>
      BY <1>4 DEF KickAll, mapVars
    <2>2. AccountsOf(m_QueuedPlayer') = <<>>
      <3>1. <<>> \in Seq(Sessions)
        BY EmptySeq
      <3>. QED  BY <2>1, <3>1, AccountsOfSeq
    <2>3. Policy!DropQueue
      BY <2>1, <2>2 DEF Policy!DropQueue, AccountsOf
    <2>. QED  BY <2>3 DEF Policy!LQNext
  <1>5. CASE \/ EndAdd \/ EndPackets \/ EndVisit \/ RejectSession
             \/ \E a \in Accounts : VisitSession(a)
    <2>1. m_sessions' = m_sessions /\ m_QueuedPlayer' = m_QueuedPlayer
      BY <1>5 DEF EndAdd, EndPackets, EndVisit, RejectSession, VisitSession, mapVars
    <2>. QED  BY <1>1, <2>1
  <1>6. CASE \/ ProcessQueryCallbacks \/ KeepSession \/ ReapOffline
             \/ \E c \in Characters : HandlePlayerLoginOpcode(c)
    <2>1. m_sessions' = m_sessions /\ m_QueuedPlayer' = m_QueuedPlayer
      BY <1>6 DEF ProcessQueryCallbacks, KeepSession, ReapOffline, HandlePlayerLoginOpcode, mapVars
    <2>. QED  BY <1>1, <2>1
  <1>7. CASE AddSession_
    BY <1>7, AddAdmits DEF Policy!LQNext
  <1>8. ASSUME NEW a \in Accounts, ParkSession(a)
        PROVE  Policy!LQNext
    <2>1. /\ m_sessions' = [m_sessions EXCEPT ![a] = None]
          /\ m_QueuedPlayer' = QueueWithout(m_sessions[a]) /\ a \in todo
      BY <1>8 DEF ParkSession
    <2>2. m_sessions[a] # None
      BY <2>1 DEF IInv, Thread, Online
    <2>3. Policy!Leave(a)
      BY <2>1, <2>2, LeaveAdmits
    <2>. QED  BY <2>3 DEF Policy!LQNext
  <1>9. CASE RemoveSession
    <2>1. /\ m_sessions' = [m_sessions EXCEPT ![SessionAccount[cur]] = None]
          /\ m_QueuedPlayer' = QueueWithout(cur) /\ at = "finish"
      BY <1>9 DEF RemoveSession
    <2>2. /\ SessionAccount[cur] \in Accounts /\ cur # None
          /\ m_sessions[SessionAccount[cur]] = cur
      BY <2>1, SessionsAssumption DEF IInv, TypeOK, Thread
    <2>3. PICK a \in Accounts : a = SessionAccount[cur]
      BY <2>2
    <2>4. Policy!Leave(a)
      BY <2>1, <2>2, <2>3, LeaveAdmits
    <2>. QED  BY <2>4 DEF Policy!LQNext
  <1>10. CASE Halted \/ UNCHANGED vars
    <2>1. m_sessions' = m_sessions /\ m_QueuedPlayer' = m_QueuedPlayer
      BY <1>10 DEF Halted, vars, mapVars
    <2>. QED  BY <1>1, <2>1
  <1>. QED
    BY <1>2, <1>3, <1>4, <1>5, <1>6, <1>7, <1>8, <1>9, <1>10 DEF Next, Tick

(* The sessions are admitted as LoginQueue says: every step of the three threads is a join,
   a rejoin, a leave, the clearing of the queue, or none of the queue's business. *)
THEOREM RefinesLoginQueue == Spec => ImplementsLoginQueue
  BY Inductive, InitAdmits, StepAdmits, PTL DEF Spec, ImplementsLoginQueue, Policy!LQSpec
=============================================================================
