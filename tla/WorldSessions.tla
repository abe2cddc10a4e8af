--------------------------- MODULE WorldSessions ---------------------------
(***************************************************************************)
(* The life of a WorldSession: authenticated by a network thread, added to *)
(* m_sessions by the world thread (and perhaps made to wait in             *)
(* m_QueuedPlayer), logged onto a character through an asynchronous query, *)
(* moved to m_offlineSessions when its connection breaks while the         *)
(* character is in the world, reclaimed or reaped, and deleted.            *)
(*                                                                         *)
(* The world thread runs World::UpdateSessions session by session; between *)
(* two of its steps network threads close sockets and authenticate, and a  *)
(* database thread finishes login queries.                                 *)
(***************************************************************************)
EXTENDS Naturals, Sequences, FiniteSets

CONSTANTS Accounts, Sessions, Characters,
          SessionAccount,   \* GetAccountId() of a session
          CharAccount,      \* the account that owns a character
          Privileged,       \* accounts above SEC_PLAYER, or with CanSkipQueue()
          PlayerLimit,      \* GetPlayerAmountLimit()
          Tolerance,        \* DisconnectToleranceInterval # 0
          LoginAfterDC,     \* EnableLoginAfterDC
          OfflineTicks,     \* bound: world updates in the 60 seconds of an offline session
          None

ASSUME SessionsAssumption ==
    /\ \A s \in Sessions : SessionAccount[s] \in Accounts
    /\ \A c \in Characters : CharAccount[c] \in Accounts
    /\ Privileged \subseteq Accounts
    /\ Tolerance \in BOOLEAN /\ LoginAfterDC \in BOOLEAN
    /\ OfflineTicks \in Nat /\ PlayerLimit \in Nat
    /\ IsFiniteSet(Accounts)
    /\ None \notin Accounts \cup Sessions \cup Characters

VARIABLES session,              \* the fields of each WorldSession object
          addSessQueue,         \* sessions handed over by network threads
          m_sessions, m_offlineSessions,    \* account -> session or None
          m_QueuedPlayer,
          m_disconnects,        \* accounts with a remembered disconnection
          charState,            \* where the Player object of a character is
          charOnline, accountOnline,        \* the `online` columns of the databases
          stopped,              \* m_stopEvent
          closing,              \* WorldRunnable::run has left its loop
          at, todo, cur         \* the world thread inside UpdateSessions

dbVars == <<charOnline, accountOnline>>
worldVars == <<at, todo, cur>>
stopVars == <<stopped, closing>>
mapVars == <<m_sessions, m_offlineSessions>>
vars == <<session, addSessQueue, mapVars, m_QueuedPlayer, m_disconnects, charState, dbVars,
          stopVars, worldVars>>

(* The policy shared with LoginQueue, here on sessions. *)
Policy == INSTANCE LoginQueue WITH
    members <- {a \in Accounts : m_sessions[a] # None},
    waiting <- [k \in DOMAIN m_QueuedPlayer |-> SessionAccount[m_QueuedPlayer[k]]]

(* socket "none": m_Socket is null; loading: the character of _charLoginCallback. *)
SessionState == [socket : {"none", "open", "closed"}, kicked : BOOLEAN, inQueue : BOOLEAN,
                 loading : Characters \cup {None}, ready : BOOLEAN,
                 player : Characters \cup {None}, age : 0..OfflineTicks + 1]

Fresh == [socket |-> "none", kicked |-> FALSE, inQueue |-> FALSE, loading |-> None,
          ready |-> FALSE, player |-> None, age |-> 0]

TypeOK == /\ session \in [Sessions -> SessionState]
          /\ addSessQueue \in Seq(Sessions)
          /\ m_sessions \in [Accounts -> Sessions \cup {None}]
          /\ m_offlineSessions \in [Accounts -> Sessions \cup {None}]
          /\ m_QueuedPlayer \in Seq(Sessions)
          /\ m_disconnects \subseteq Accounts
          /\ charState \in [Characters -> {"absent", "world", "away"}]
          /\ charOnline \in [Characters -> BOOLEAN]
          /\ accountOnline \in [Accounts -> BOOLEAN]
          /\ stopped \in BOOLEAN /\ closing \in BOOLEAN
          /\ at \in {"idle", "add", "visit", "packets", "callbacks", "finish", "offline", "halted"}
          /\ todo \subseteq Accounts
          /\ cur \in Sessions \cup {None}

Init == /\ session = [s \in Sessions |-> Fresh]
        /\ addSessQueue = <<>>
        /\ m_sessions = [a \in Accounts |-> None]
        /\ m_offlineSessions = [a \in Accounts |-> None]
        /\ m_QueuedPlayer = <<>>
        /\ m_disconnects = {}
        /\ charState = [c \in Characters |-> "absent"]
        /\ charOnline = [c \in Characters |-> FALSE]
        /\ accountOnline = [a \in Accounts |-> FALSE]
        /\ stopped = FALSE /\ closing = FALSE
        /\ at = "idle" /\ todo = {} /\ cur = None

-----------------------------------------------------------------------------
(* Helpers. *)

Listed(f) == {f[a] : a \in Accounts} \ {None}
Online == {a \in Accounts : m_sessions[a] # None}
Held == Listed(m_sessions) \cup Listed(m_offlineSessions)
Unused == {s \in Sessions \ Held : session[s] = Fresh}
PlayersOf(S) == {session[s].player : s \in S} \ {None}

(* KickPlayer: close the socket if there is one, perhaps mark the session. *)
KickPlayer(r, setKicked) == [r EXCEPT !.socket = IF @ = "open" THEN "closed" ELSE @,
                                      !.kicked = @ \/ setKicked]

(* Mutant: ~WorldSession does not log the player out. *)
Delete_NoLogout(S, fields) ==
    /\ session' = [s \in Sessions |-> IF s \in S THEN Fresh ELSE fields[s]]
    /\ UNCHANGED <<charState, charOnline>>

(* `delete` of the sessions S: ~WorldSession logs their players out (LogoutPlayer
   marks all characters of the account offline) and frees the objects.  `fields`
   is the session function the surviving sessions get. *)
Delete(S, fields) ==
    LET out == PlayersOf(S) IN
    /\ session' = [s \in Sessions |-> IF s \in S THEN Fresh ELSE fields[s]]
    /\ charState' = [c \in Characters |-> IF c \in out THEN "absent" ELSE charState[c]]
    /\ charOnline' = [c \in Characters |->
                        charOnline[c] /\ CharAccount[c] \notin {CharAccount[d] : d \in out}]

(* The part of ~WorldSession that ShouldSetOfflineInDB controls. *)
SetOfflineInDB(A) == accountOnline' = [a \in Accounts |-> accountOnline[a] /\ a \notin A]

(* Mutant: m_sessions.erase comes before RemoveQueuedPlayer. *)
QueueWithout_Erased(s) == Policy!RemoveQueuedPlayer(m_QueuedPlayer, s, Cardinality(Online) - 1)

(* RemoveQueuedPlayer(s): the queue without s, after its first waiter was let in. *)
QueueWithout(s) == Policy!RemoveQueuedPlayer(m_QueuedPlayer, s, Cardinality(Online))

(* Mutant: SetInQueue(false) is forgotten. *)
Flags_Stale(q) == session

(* The m_inQueue flags when the queue becomes q. *)
Flags(q) == [s \in Sessions |->
                IF s \in {m_QueuedPlayer[k] : k \in DOMAIN m_QueuedPlayer}
                THEN [session[s] EXCEPT !.inQueue = Policy!IsQueued(q, s)]
                ELSE session[s]]

(* An active session that goes is remembered for the tolerance interval. *)
Remember(s) == IF ~Policy!IsQueued(m_QueuedPlayer, s) /\ Tolerance
               THEN m_disconnects \cup {SessionAccount[s]} ELSE m_disconnects

(* HandleSocketClosed: the connection broke while the character is in the world. *)
HandleSocketClosed(s) == /\ session[s].socket = "closed"
                         /\ ~session[s].kicked
                         /\ session[s].player # None
                         /\ charState[session[s].player] = "world"
                         /\ ~stopped

(* Mutant: m_playerLoading stays set after a login. *)
FinishLogin_Loading(r, c) == [r EXCEPT !.ready = FALSE, !.player = c]

(* The character c of a ready query is in the session r. *)
FinishLogin(r, c) == [r EXCEPT !.loading = None, !.ready = FALSE, !.player = c]

Offline(r) == [r EXCEPT !.socket = "none", !.age = 0]

-----------------------------------------------------------------------------
(* Network and database threads. *)

(* HandleAuthSession constructs the session, which marks the account online ... *)
Authenticate(s) ==
    /\ s \in Unused
    /\ session' = [session EXCEPT ![s].socket = "open"]
    /\ accountOnline' = [accountOnline EXCEPT ![SessionAccount[s]] = TRUE]
    /\ UNCHANGED <<addSessQueue, mapVars, m_QueuedPlayer, m_disconnects, charState, charOnline,
                   stopVars, worldVars>>

(* ... sleeps SessionAddDelay, and hands it to the world thread. *)
AddSession(s) ==
    /\ session[s].socket # "none"
    /\ s \notin Held
    /\ ~Policy!IsQueued(addSessQueue, s)
    /\ addSessQueue' = Append(addSessQueue, s)
    /\ UNCHANGED <<session, mapVars, m_QueuedPlayer, m_disconnects, charState, dbVars,
                   stopVars, worldVars>>

CloseSocket(s) ==
    /\ session[s].socket = "open"
    /\ session' = [session EXCEPT ![s].socket = "closed"]
    /\ UNCHANGED <<addSessQueue, mapVars, m_QueuedPlayer, m_disconnects, charState, dbVars,
                   stopVars, worldVars>>

(* A database worker finishes the LoginQueryHolder. *)
QueryReady(s) ==
    /\ session[s].loading # None
    /\ ~session[s].ready
    /\ session' = [session EXCEPT ![s].ready = TRUE]
    /\ UNCHANGED <<addSessQueue, mapVars, m_QueuedPlayer, m_disconnects, charState, dbVars,
                   stopVars, worldVars>>

(* The signal handler calls World::StopNow. *)
StopNow ==
    /\ ~stopped
    /\ stopped' = TRUE
    /\ UNCHANGED <<session, addSessQueue, mapVars, m_QueuedPlayer, m_disconnects, charState,
                   dbVars, closing, worldVars>>

-----------------------------------------------------------------------------
(* The world thread outside UpdateSessions. *)

(* A .kick command, or any other KickPlayer with setKicked. *)
KickSession(s) ==
    /\ at = "idle" /\ ~closing
    /\ s \in Held
    /\ ~session[s].kicked
    /\ session' = [session EXCEPT ![s] = KickPlayer(@, TRUE)]
    /\ UNCHANGED <<addSessQueue, mapVars, m_QueuedPlayer, m_disconnects, charState, dbVars,
                   stopVars, worldVars>>

(* A character leaves or enters a map, or boards or leaves a taxi. *)
Travel(c) ==
    /\ at = "idle" /\ ~closing
    /\ charState[c] # "absent"
    /\ charState' = [charState EXCEPT ![c] = IF @ = "world" THEN "away" ELSE "world"]
    /\ UNCHANGED <<session, addSessQueue, mapVars, m_QueuedPlayer, m_disconnects, dbVars,
                   stopVars, worldVars>>

(* World::Update reaches UpdateSessions; the game time has advanced. *)
StartTick ==
    /\ at = "idle" /\ ~stopped
    /\ at' = "add"
    /\ session' = [s \in Sessions |->
                     IF s \in Listed(m_offlineSessions) /\ session[s].age <= OfflineTicks
                     THEN [session[s] EXCEPT !.age = @ + 1] ELSE session[s]]
    /\ UNCHANGED <<addSessQueue, mapVars, m_QueuedPlayer, m_disconnects, charState, dbVars,
                   stopVars, todo, cur>>

(* Mutant: the offline sessions are not kicked. *)
KickAll_Active ==
    /\ at = "idle" /\ stopped /\ ~closing
    /\ closing' = TRUE
    /\ at' = "add"
    /\ m_QueuedPlayer' = <<>>
    /\ session' = [s \in Sessions |->
                     IF s \in Listed(m_sessions)
                     THEN KickPlayer(session[s], TRUE) ELSE session[s]]
    /\ UNCHANGED <<addSessQueue, mapVars, m_disconnects, charState, dbVars, stopped, todo, cur>>

(* WorldRunnable::run after its loop: KickAll, then UpdateSessions(1). *)
KickAll ==
    /\ at = "idle" /\ stopped /\ ~closing
    /\ closing' = TRUE
    /\ at' = "add"
    /\ m_QueuedPlayer' = <<>>
    /\ session' = [s \in Sessions |->
                     IF s \in Held
                     THEN KickPlayer(session[s], TRUE) ELSE session[s]]
    /\ UNCHANGED <<addSessQueue, mapVars, m_disconnects, charState, dbVars, stopped, todo, cur>>

-----------------------------------------------------------------------------
(* UpdateSessions: AddSession_ for every new session. *)

(* AddSession_, first half: a session of the same account that is loading a
   character cannot be kicked, and the newcomer is deleted instead. *)
RejectSession ==
    LET s   == Head(addSessQueue)
        old == m_sessions[SessionAccount[s]] IN
    /\ at = "add" /\ addSessQueue # <<>>
    /\ old # None /\ session[old].loading # None
    /\ addSessQueue' = Tail(addSessQueue)
    /\ Delete({s}, session)
    /\ SetOfflineInDB({SessionAccount[s]})
    /\ UNCHANGED <<mapVars, m_QueuedPlayer, m_disconnects, stopVars, worldVars>>

(* AddSession_, second half.  The old session of the account, its socket closed by
   KickSession, goes offline (replacing an offline session) or is deleted; the new
   one joins the queue if the realm is full.  `expired` are the disconnections that
   HasRecentlyDisconnected finds too old. *)
AddSession_ ==
    LET s       == Head(addSessQueue)
        a       == SessionAccount[s]
        old     == m_sessions[a]
        off     == m_offlineSessions[a]
        parks   == /\ ~session[old].kicked /\ session[old].player # None
                   /\ charState[session[old].player] = "world" /\ ~stopped
        left    == IF old = None THEN m_QueuedPlayer ELSE QueueWithout(old)
        flagged == IF old = None THEN session ELSE Flags(left)
        known   == IF old = None THEN m_disconnects ELSE Remember(old)
        full    == Policy!RealmFull(Cardinality(Online \cup {a}) - 1) /\ a \notin Privileged
    IN
    /\ at = "add" /\ addSessQueue # <<>>
    /\ old # None => session[old].loading = None
    /\ addSessQueue' = Tail(addSessQueue)
    /\ m_sessions' = [m_sessions EXCEPT ![a] = s]
    /\ \E expired \in SUBSET known :
         LET recent == full /\ Tolerance /\ a \in known \ expired
             waits  == full /\ ~recent
             placed == [flagged EXCEPT ![s].inQueue = waits]
         IN /\ m_disconnects' = IF full /\ Tolerance THEN known \ expired ELSE known
            /\ m_QueuedPlayer' = IF waits THEN Append(left, s) ELSE left
            /\ IF old = None THEN /\ session' = placed
                                  /\ UNCHANGED <<m_offlineSessions, charState, charOnline>>
               ELSE IF parks
               THEN /\ m_offlineSessions' = [m_offlineSessions EXCEPT ![a] = old]
                    /\ Delete({off} \ {None}, [placed EXCEPT ![old] = Offline(@)])
               ELSE /\ Delete({old}, placed)
                    /\ UNCHANGED m_offlineSessions
    /\ UNCHANGED <<accountOnline, stopVars, worldVars>>

EndAdd ==
    /\ at = "add" /\ addSessQueue = <<>>
    /\ at' = "visit"
    /\ todo' = Online
    /\ UNCHANGED <<session, addSessQueue, mapVars, m_QueuedPlayer, m_disconnects, charState,
                   dbVars, stopVars, cur>>

-----------------------------------------------------------------------------
(* UpdateSessions: every session of m_sessions in turn. *)

(* The socket is closed and the character in the world: the session is parked. *)
ParkSession(a) ==
    LET s == m_sessions[a]
        q == QueueWithout(s) IN
    /\ at = "visit" /\ a \in todo
    /\ HandleSocketClosed(s)
    /\ todo' = todo \ {a}
    /\ m_QueuedPlayer' = q
    /\ m_disconnects' = Remember(s)
    /\ m_sessions' = [m_sessions EXCEPT ![a] = None]
    /\ m_offlineSessions' = [m_offlineSessions EXCEPT ![a] = s]
    /\ Delete({m_offlineSessions[a]} \ {None}, [Flags(q) EXCEPT ![s] = Offline(@)])
    /\ UNCHANGED <<addSessQueue, accountOnline, stopVars, at, cur>>

(* Otherwise WorldSession::Update runs for it. *)
VisitSession(a) ==
    /\ at = "visit" /\ a \in todo
    /\ ~HandleSocketClosed(m_sessions[a])
    /\ at' = "packets"
    /\ cur' = m_sessions[a]
    /\ todo' = todo \ {a}
    /\ UNCHANGED <<session, addSessQueue, mapVars, m_QueuedPlayer, m_disconnects, charState,
                   dbVars, stopVars>>

(* CMSG_PLAYER_LOGIN for character c, in the packet loop of Update. *)
HandlePlayerLoginOpcode(c) ==
    LET s   == cur
        a   == SessionAccount[s]
        off == m_offlineSessions[a]
        old == session[off].player
        StartLoading(f) == [f EXCEPT ![s].loading = c, ![s].ready = FALSE]
    IN
    /\ at = "packets"
    /\ session[s].socket = "open" /\ ~session[s].inQueue
    /\ CharAccount[c] = a
    /\ \/ /\ session[s].loading # None \/ session[s].player # None
          /\ session' = [session EXCEPT ![s] = KickPlayer(@, TRUE)]
          /\ UNCHANGED charState
       \/ /\ session[s].loading = None /\ session[s].player = None
          /\ \/ /\ off = None                           \* the usual login
                /\ session' = StartLoading(session)
                /\ UNCHANGED charState
             \/ /\ off # None /\ old # None /\ ~session[off].kicked
                /\ old # c                              \* another character is in the world
                /\ session' = StartLoading([session EXCEPT ![off] = KickPlayer(@, TRUE)])
                /\ UNCHANGED charState
             \/ /\ off # None /\ old = c /\ ~session[off].kicked
                /\ LoginAfterDC                         \* reclaim it, if it can be landed
                /\ charState' = [charState EXCEPT ![c] = "world"]
                /\ session' = [session EXCEPT ![off].player = None, ![s].player = c]
    /\ UNCHANGED <<addSessQueue, mapVars, m_QueuedPlayer, m_disconnects, dbVars, stopVars, worldVars>>

EndPackets ==
    /\ at = "packets"
    /\ at' = "callbacks"
    /\ UNCHANGED <<session, addSessQueue, mapVars, m_QueuedPlayer, m_disconnects, charState,
                   dbVars, stopVars, todo, cur>>

(* ProcessQueryCallbacks: HandlePlayerLoginFromDB, or a character that cannot load.
   Nothing happens while the query is not ready or when the socket has closed. *)
ProcessQueryCallbacks ==
    LET c == session[cur].loading IN
    /\ at = "callbacks"
    /\ at' = "finish"
    /\ IF session[cur].socket = "open" /\ c # None /\ session[cur].ready
       THEN \/ /\ session' = [session EXCEPT ![cur] = FinishLogin(@, c)]
               /\ \E place \in {"world", "away"} : charState' = [charState EXCEPT ![c] = place]
               /\ charOnline' = [charOnline EXCEPT ![c] = TRUE]
               /\ accountOnline' = [accountOnline EXCEPT ![SessionAccount[cur]] = TRUE]
            \/ /\ session' = [session EXCEPT ![cur] =
                                [KickPlayer(@, TRUE) EXCEPT !.loading = None, !.ready = FALSE]]
               /\ UNCHANGED <<charState, dbVars>>
       ELSE UNCHANGED <<session, charState, dbVars>>
    /\ UNCHANGED <<addSessQueue, mapVars, m_QueuedPlayer, m_disconnects, stopVars, todo, cur>>

(* The end of Update for a session that stays: perhaps ShouldLogOut. *)
KeepSession ==
    LET c == session[cur].player IN
    /\ at = "finish"
    /\ session[cur].socket = "open"
    /\ at' = "visit" /\ cur' = None
    /\ \/ UNCHANGED <<session, charState, charOnline>>
       \/ /\ c # None /\ session[cur].loading = None
          /\ session' = [session EXCEPT ![cur].player = None]
          /\ charState' = [charState EXCEPT ![c] = "absent"]
          /\ charOnline' = [d \in Characters |-> charOnline[d] /\ CharAccount[d] # CharAccount[c]]
    /\ UNCHANGED <<addSessQueue, mapVars, m_QueuedPlayer, m_disconnects, accountOnline, stopVars, todo>>

(* Mutant: the session is deleted but stays in the queue. *)
RemoveSession_Queued ==
    LET a == SessionAccount[cur] IN
    /\ at = "finish"
    /\ session[cur].socket = "closed"
    /\ at' = "visit" /\ cur' = None
    /\ m_disconnects' = Remember(cur)
    /\ m_sessions' = [m_sessions EXCEPT ![a] = None]
    /\ Delete({cur}, session)
    /\ IF m_offlineSessions[a] = None THEN SetOfflineInDB({a}) ELSE UNCHANGED accountOnline
    /\ UNCHANGED <<addSessQueue, m_QueuedPlayer, m_offlineSessions, stopVars, todo>>

(* The end of Update for a closed socket: UpdateSessions deletes the session. *)
RemoveSession ==
    LET a == SessionAccount[cur]
        q == QueueWithout(cur) IN
    /\ at = "finish"
    /\ session[cur].socket = "closed"
    /\ at' = "visit" /\ cur' = None
    /\ m_QueuedPlayer' = q
    /\ m_disconnects' = Remember(cur)
    /\ m_sessions' = [m_sessions EXCEPT ![a] = None]
    /\ Delete({cur}, Flags(q))
    /\ IF m_offlineSessions[a] = None THEN SetOfflineInDB({a}) ELSE UNCHANGED accountOnline
    /\ UNCHANGED <<addSessQueue, m_offlineSessions, stopVars, todo>>

EndVisit ==
    /\ at = "visit" /\ todo = {}
    /\ at' = "offline"
    /\ UNCHANGED <<session, addSessQueue, mapVars, m_QueuedPlayer, m_disconnects, charState,
                   dbVars, stopVars, todo, cur>>

(* Mutants: only the player, or not the kick, is looked at. *)
Gone_NoTimeout(s) == session[s].player = None \/ session[s].kicked
Gone_NoKick(s) == session[s].player = None \/ session[s].age > OfflineTicks

(* An offline session has lost its player, was kicked, or has been offline for 60 s. *)
Gone(s) == \/ session[s].player = None
           \/ session[s].age > OfflineTicks
           \/ session[s].kicked

(* The last loop of UpdateSessions deletes the offline sessions that are gone. *)
ReapOffline ==
    LET gone == {a \in Accounts : m_offlineSessions[a] # None /\ Gone(m_offlineSessions[a])} IN
    /\ at = "offline"
    /\ at' = IF closing THEN "halted" ELSE "idle"
    /\ m_offlineSessions' = [a \in Accounts |-> IF a \in gone THEN None ELSE m_offlineSessions[a]]
    /\ Delete({m_offlineSessions[a] : a \in gone}, session)
    /\ SetOfflineInDB({a \in gone : m_sessions[a] = None})
    /\ UNCHANGED <<addSessQueue, m_sessions, m_QueuedPlayer, m_disconnects, stopVars, todo, cur>>

Tick == \/ StartTick \/ KickAll \/ RejectSession \/ AddSession_ \/ EndAdd
        \/ (\E a \in Accounts : ParkSession(a) \/ VisitSession(a))
        \/ EndPackets \/ ProcessQueryCallbacks \/ KeepSession \/ RemoveSession
        \/ EndVisit \/ ReapOffline

Halted == at = "halted" /\ UNCHANGED vars

Next == \/ Tick
        \/ \E s \in Sessions : \/ Authenticate(s) \/ AddSession(s) \/ CloseSocket(s)
                               \/ QueryReady(s) \/ KickSession(s)
        \/ \E c \in Characters : HandlePlayerLoginOpcode(c) \/ Travel(c)
        \/ StopNow
        \/ Halted

(* The world thread and the database workers keep running, and the world thread, which
   adds sessions while there are any, is at some time done with the newcomers. *)
Fairness == /\ WF_vars(Tick)
            /\ SF_vars(EndAdd)
            /\ \A s \in Sessions : WF_vars(QueryReady(s))

Spec == Init /\ [][Next]_vars /\ Fairness

-----------------------------------------------------------------------------
(* No pointer to a deleted session survives: the queue holds sessions of m_sessions,
   and no session is in two of the containers. *)
NoDanglingSession ==
    /\ \A k \in DOMAIN m_QueuedPlayer :
          LET s == m_QueuedPlayer[k] IN /\ m_sessions[SessionAccount[s]] = s
                                        /\ session[s].inQueue
    /\ \A j, k \in DOMAIN m_QueuedPlayer : j # k => m_QueuedPlayer[j] # m_QueuedPlayer[k]
    /\ \A a \in Accounts : m_sessions[a] # None => m_sessions[a] # m_offlineSessions[a]
    /\ \A k \in DOMAIN addSessQueue : addSessQueue[k] \notin Held
    /\ cur # None => cur \in Listed(m_sessions)

(* A character in the world belongs to exactly one session of its own account, and a
   session without a socket to be in m_sessions never keeps one: no Player object is
   shared, duplicated or forgotten when sessions are replaced, parked and reclaimed. *)
OneOwner ==
    /\ \A c \in Characters : LET owners == {s \in Sessions : session[s].player = c} IN
          /\ Cardinality(owners) = (IF charState[c] = "absent" THEN 0 ELSE 1)
          /\ \A s \in owners : s \in Held /\ SessionAccount[s] = CharAccount[c]

(* A session that may send packets as authenticated is not made to wait, and one that
   waits is in the queue until the server closes: nobody is stuck with m_inQueue set. *)
WaitingIsQueued ==
    \A s \in Listed(m_sessions) :
        session[s].inQueue /\ ~closing => Policy!IsQueued(m_QueuedPlayer, s)

(* "There should be no offline session if current one is logged onto a character"
   (AddSession_, UpdateSessions): the offline session a login kicked or emptied is gone
   before its account's session can be parked in its place. *)
OfflineAlone ==
    \A a \in Accounts :
        /\ at \in {"idle", "add"} \/ (at = "visit" /\ a \in todo)
        /\ m_offlineSessions[a] # None
        => m_sessions[a] = None \/ session[m_sessions[a]].player = None

(* Once the server has halted, every session that KickAll kicked has logged out its
   character, the offline ones included: nobody's progress is lost at shutdown. *)
ShutdownSaves == at = "halted" => /\ \A a \in Accounts : m_offlineSessions[a] = None
                                  /\ \A s \in Sessions : session[s].kicked =>
                                                            session[s].player = None

(* A character left behind by a broken connection is reclaimed or logged out. *)
OfflineResolved ==
    \A s \in Sessions : s \in Listed(m_offlineSessions) ~> s \notin Listed(m_offlineSessions)

(* A login query is answered or dropped, so that an account is not locked out by
   RejectSession for good. *)
LoginResolved ==
    \A s \in Sessions : session[s].loading # None ~> session[s].loading = None \/ at = "halted"

(* The admission of sessions implements the policy of LoginQueue. *)
ImplementsLoginQueue == Policy!LQSpec

(* Between two updates an account with a session is marked online in the database. *)
AccountMarkedOnline == at = "idle" => \A a \in Online : accountOnline[a]

(* An account has one character in the world at any given time. *)
OneCharacterPerAccount ==
    \A c, d \in Characters : c # d /\ charState[c] # "absent" /\ charState[d] # "absent"
                                => CharAccount[c] # CharAccount[d]
=============================================================================
