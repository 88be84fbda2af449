------------------------------ MODULE Sessions ------------------------------
(***************************************************************************)
(* The life of a session (UserTask): accepted and timed by an I/O thread,  *)
(* logged in and commanded by the main thread, flagged to quit by either,  *)
(* recycled by its timer and deleted by the main thread.  Two maps lead to *)
(* it: m_userIdMap (doCmd) and m_userMap (the game threads' sendMessage).  *)
(* SetQuit writes two fields that different threads use, so its two stores *)
(* are steps of their own.                                                 *)
(*                                                                         *)
(* A connection may log in again, under the same name or another, and may  *)
(* enter a room before it has logged in: nothing in the handlers refuses   *)
(* it.  One room stands for all: online is isConnected of the seat a user  *)
(* has in it.  A seat entered without a name is nobody's and left out.     *)
(***************************************************************************)
EXTENDS Naturals

CONSTANTS
  SessionIds,  \* the sessions that are ever accepted
  Users,
  NoName,      \* m_username before the first log-in
  None         \* no session

ASSUME NoNameAssumption == NoName \notin Users
ASSUME NoneAssumption == None \notin SessionIds

VARIABLES
  state,      \* m_state
  quitFlag,   \* m_bQuit of the session's socket
  timer,      \* the check timer is running
  name,       \* m_username; m_bAuthen is that there is one
  table,      \* m_tableId is that of the room
  userIdMap,  \* the sessions doCmd visits
  userMap,    \* the session of each user name
  online,     \* isConnected of each user's seat
  kicking,    \* AddUser is between the two stores of oldSession->SetQuit()
  revived,    \* ghost: SetQuit undid the state of a session that was to be recycled
  givenUp     \* ghost: the names each session had before it logged in under another

ghosts == <<revived, givenUp>>
vars == <<state, quitFlag, timer, name, table, userIdMap, userMap, online, kicking, revived, givenUp>>

\* "new" is TaskState_init, before the connection is accepted
States == {"new", "ok", "quit", "recycle", "deleted"}
Idle   == [session |-> None, old |-> None]

TypeOK ==
  /\ state \in [SessionIds -> States]
  /\ quitFlag \in [SessionIds -> BOOLEAN]
  /\ timer \in [SessionIds -> BOOLEAN]
  /\ name \in [SessionIds -> Users \cup {NoName}]
  /\ table \in [SessionIds -> BOOLEAN]
  /\ userIdMap \subseteq SessionIds
  /\ userMap \in [Users -> SessionIds \cup {None}]
  /\ online \in [Users -> BOOLEAN]
  /\ kicking \in [session : SessionIds \cup {None}, old : SessionIds \cup {None}]
  /\ revived \subseteq SessionIds
  /\ givenUp \in [SessionIds -> SUBSET Users]

Init ==
  /\ state = [s \in SessionIds |-> "new"]
  /\ quitFlag = [s \in SessionIds |-> FALSE]
  /\ timer = [s \in SessionIds |-> FALSE]
  /\ name = [s \in SessionIds |-> NoName]
  /\ table = [s \in SessionIds |-> FALSE]
  /\ userIdMap = {}
  /\ userMap = [u \in Users |-> None]
  /\ online = [u \in Users |-> FALSE]
  /\ kicking = Idle
  /\ revived = {}
  /\ givenUp = [s \in SessionIds |-> {}]
-----------------------------------------------------------------------------
(* The I/O threads *)

\* handle_accept, Start: the timer runs and doCmd knows the session
Start(s) ==
  /\ state[s] = "new"
  /\ state' = [state EXCEPT ![s] = "ok"]
  /\ timer' = [timer EXCEPT ![s] = TRUE]
  /\ userIdMap' = userIdMap \cup {s}
  /\ UNCHANGED <<quitFlag, name, table, userMap, online, kicking, ghosts>>

\* HandleRead or HandleWrite with an error
ConnectionLost(s) ==
  /\ timer[s] /\ ~quitFlag[s]
  /\ quitFlag' = [quitFlag EXCEPT ![s] = TRUE]
  /\ UNCHANGED <<state, timer, name, table, userIdMap, userMap, online, kicking, ghosts>>

\* zSocket2::Check, OnCheck: no heartbeat for too long, SetQuit
HeartbeatMissed(s) ==
  /\ timer[s] /\ ~quitFlag[s]
  /\ quitFlag' = [quitFlag EXCEPT ![s] = TRUE]
  /\ state' = [state EXCEPT ![s] = "quit"]
  /\ UNCHANGED <<timer, name, table, userIdMap, userMap, online, kicking, ghosts>>

\* mutant: the socket is closed and the timer stops, but nobody tells the task
QuitCheck_NoOnQuit(s) ==
  /\ timer[s] /\ quitFlag[s]
  /\ timer' = [timer EXCEPT ![s] = FALSE]
  /\ UNCHANGED <<state, quitFlag, name, table, userIdMap, userMap, online, kicking, ghosts>>

\* zSocket2::Check with the quit flag: Close, OnQuit, and the timer is not set again
QuitCheck(s) ==
  /\ timer[s] /\ quitFlag[s]
  /\ timer' = [timer EXCEPT ![s] = FALSE]
  /\ state' = [state EXCEPT ![s] = "recycle"]
  /\ UNCHANGED <<quitFlag, name, table, userIdMap, userMap, online, kicking, ghosts>>
-----------------------------------------------------------------------------
(* The main thread *)

MainIsFree == kicking = Idle

\* handleLogIn, AddUser: the first store of SetQuit on the session the name has.
\* A log-in that fails on a connection that had logged in adds the old name again.
LogIn(s, u) ==
  LET old == userMap[u] IN
  /\ MainIsFree
  /\ s \in userIdMap
  /\ name' = [name EXCEPT ![s] = u]
  /\ givenUp' = [givenUp EXCEPT ![s] = @ \cup ({name[s]} \ {u, NoName})]
  /\ IF old = None
     THEN /\ userMap' = [userMap EXCEPT ![u] = s]
          /\ UNCHANGED <<quitFlag, kicking>>
     ELSE /\ quitFlag' = [quitFlag EXCEPT ![old] = TRUE]
          /\ kicking' = [session |-> s, old |-> old]
          /\ userMap' = userMap
  /\ UNCHANGED <<state, timer, table, userIdMap, online, revived>>

\* AddUser: the second store, then the map leads to the new session.  What is
\* stored in a session that was deleted is lost, when it does no worse.
Kick ==
  LET old == kicking.old IN
  /\ ~MainIsFree
  /\ state' = IF state[old] = "deleted" THEN state ELSE [state EXCEPT ![old] = "quit"]
  /\ revived' = IF state[old] = "recycle" THEN revived \cup {old} ELSE revived
  /\ userMap' = [userMap EXCEPT ![name[kicking.session]] = kicking.session]
  /\ kicking' = Idle
  /\ UNCHANGED <<quitFlag, timer, name, table, userIdMap, online, givenUp>>

\* isConnected of the seat under the session's name becomes b
Connected(s, b) ==
  online' = IF name[s] = NoName THEN online ELSE [online EXCEPT ![name[s]] = b]

\* mutant: entering is taken for this session, but the room is not remembered
EnterRoom_NoTable(s) ==
  /\ MainIsFree
  /\ s \in userIdMap
  /\ Connected(s, TRUE)
  /\ UNCHANGED <<state, quitFlag, timer, name, table, userIdMap, userMap, kicking, ghosts>>

\* handleEnterRoom.  Commands put before the connection was lost are still run.
EnterRoom(s) ==
  /\ MainIsFree
  /\ s \in userIdMap
  /\ table' = [table EXCEPT ![s] = TRUE]
  /\ Connected(s, TRUE)
  /\ UNCHANGED <<state, quitFlag, timer, name, userIdMap, userMap, kicking, ghosts>>

\* handleEnterRoom for another room: this one is left under the present name
EnterAnother(s) ==
  /\ MainIsFree
  /\ s \in userIdMap /\ table[s]
  /\ table' = [table EXCEPT ![s] = FALSE]
  /\ Connected(s, FALSE)
  /\ UNCHANGED <<state, quitFlag, timer, name, userIdMap, userMap, kicking, ghosts>>

\* handleLeaveRoom: onUserLeave by name; m_tableId stays
LeaveRoom(s) ==
  /\ MainIsFree
  /\ s \in userIdMap /\ table[s]
  /\ Connected(s, FALSE)
  /\ UNCHANGED <<state, quitFlag, timer, name, table, userIdMap, userMap, kicking, ghosts>>

\* mutant: the destructor does not take the session out of the user map
Recycle_StaysInMap(s) ==
  /\ MainIsFree
  /\ state[s] = "recycle"
  /\ state' = [state EXCEPT ![s] = "deleted"]
  /\ userIdMap' = userIdMap \ {s}
  /\ IF table[s] THEN Connected(s, FALSE) ELSE online' = online
  /\ UNCHANGED <<quitFlag, timer, name, table, userMap, kicking, ghosts>>

\* zTCPServer::Check deletes the task: ~UserTask removes whatever session its
\* present name has in the user map, and reports that this user has left the room
Recycle(s) ==
  /\ MainIsFree
  /\ state[s] = "recycle"
  /\ state' = [state EXCEPT ![s] = "deleted"]
  /\ userIdMap' = userIdMap \ {s}
  /\ userMap' = [u \in Users |-> IF u = name[s] THEN None ELSE userMap[u]]
  /\ IF table[s] THEN Connected(s, FALSE) ELSE online' = online
  /\ UNCHANGED <<quitFlag, timer, name, table, kicking, ghosts>>

Next ==
  \/ Kick
  \/ \E s \in SessionIds :
       \/ Start(s) \/ ConnectionLost(s) \/ HeartbeatMissed(s) \/ QuitCheck(s)
       \/ EnterRoom(s) \/ EnterAnother(s) \/ LeaveRoom(s) \/ Recycle(s)
       \/ \E u \in Users : LogIn(s, u)

Spec == Init /\ [][Next]_vars

\* Timers fire, and the main loop comes round to Check.
FairSpec ==
  Spec /\ WF_vars(Kick) /\ \A s \in SessionIds : WF_vars(QuitCheck(s)) /\ SF_vars(Recycle(s))
-----------------------------------------------------------------------------
(* Properties *)

\* The maps lead to a deleted session only under a name that this very session
\* had given up: RemoveUser takes out the last name a session had, whoever logged
\* in under it.  The game threads send through the one map, doCmd walks the other,
\* and neither looks at the state.
MapsLeadToLiveSessions ==
  /\ \A u \in Users : LET s == userMap[u] IN
       s # None => state[s] \in {"ok", "quit", "recycle"} \/ u \in givenUp[s]
  /\ \A s \in userIdMap : state[s] \notin {"new", "deleted"}

\* A session is deleted only when its timer has stopped, which would call it.
NoTimerOfDeleted == \A s \in SessionIds : state[s] = "deleted" => ~timer[s]

\* A seat counts as connected only while a session under its user's name knows
\* the room, unless one gave the name up: otherwise nobody is left to report that
\* the user went.
OnlineHasSession ==
  \A u \in Users : online[u] =>
    \/ \E s \in SessionIds : name[s] = u /\ table[s] /\ state[s] # "deleted"
    \/ \E s \in SessionIds : u \in givenUp[s]

\* A session whose connection is lost, or that is kicked, is deleted in the end,
\* unless SetQuit on the session its timer had already given up revives it.
LostSessionsGo ==
  \A s \in SessionIds : quitFlag[s] ~> state[s] = "deleted" \/ s \in revived

\* "kick the old user": the new session of a user stays the one messages go to.
KickSparesTheNew ==
  \A s \in SessionIds :
    (name[s] # NoName /\ ~quitFlag[s] /\ kicking.session # s) => userMap[name[s]] = s
=============================================================================
