--------------------------- MODULE Sessions_proof ---------------------------
(***************************************************************************)
(* Proofs about Sessions, for every set of sessions and of users.  The     *)
(* maps hold raw pointers; what keeps them from dangling is that a session *)
(* is in m_userIdMap exactly while it lives, that ~UserTask finds a        *)
(* session in the user map under the last name it had, and that the main   *)
(* thread deletes nothing while it is between the two stores of a kick.    *)
(* What the user map has under an earlier name of a session dangles.       *)
(***************************************************************************)
EXTENDS Sessions, TLAPS

Live(s) == state[s] \in {"ok", "quit", "recycle"}

\* m_userIdMap is the set of the sessions that live
MapOfIds == \A s \in SessionIds : s \in userIdMap <=> Live(s)

\* a session has a name, or its timer runs, only once it was accepted; a
\* session waits to be deleted only when its timer has stopped
Timers == \A s \in SessionIds :
  /\ state[s] = "new" => name[s] = NoName
  /\ timer[s] => state[s] \in {"ok", "quit"}

\* what the user map holds was accepted, and it is live and found under its own
\* name, or else under one that it has given up
MapOfUsers == \A u \in Users :
  userMap[u] # None => /\ state[userMap[u]] # "new"
                       /\ \/ Live(userMap[u]) /\ name[userMap[u]] = u
                          \/ u \in givenUp[userMap[u]]

\* a kick in progress: the new session has logged in and the map still leads to
\* the old one
KickInProgress ==
  kicking = Idle \/ /\ kicking.session \in SessionIds
                    /\ Live(kicking.session)
                    /\ name[kicking.session] \in Users
                    /\ kicking.old \in SessionIds
                    /\ userMap[name[kicking.session]] = kicking.old

IInv ==
  /\ TypeOK
  /\ MapOfIds
  /\ Timers
  /\ MapOfUsers
  /\ KickInProgress
  /\ OnlineHasSession
-----------------------------------------------------------------------------
LEMMA InitInv == Init => IInv
  BY NoNameAssumption, NoneAssumption
  DEF Init, IInv, TypeOK, MapOfIds, Timers, MapOfUsers, KickInProgress, OnlineHasSession,
      Live, States, Idle, NoNameAssumption, NoneAssumption

\* Every step of a session's I/O thread and of the main thread preserves the invariant.
LEMMA NextInv == IInv /\ [Next]_vars => IInv'
<1> SUFFICES ASSUME IInv, [Next]_vars PROVE IInv'
  OBVIOUS
<1> USE NoNameAssumption, NoneAssumption
    DEF NoNameAssumption, NoneAssumption, IInv, States, Live
<1>1. ASSUME NEW s \in SessionIds, Start(s) PROVE IInv'
  <2>1. TypeOK'
    BY <1>1 DEF Start, ghosts, TypeOK
  <2>2. MapOfIds' /\ Timers'
    BY <1>1 DEF Start, ghosts, TypeOK, MapOfIds, Timers
  <2>3. MapOfUsers'
    BY <1>1 DEF Start, ghosts, TypeOK, MapOfUsers
  <2>4. KickInProgress'
    BY <1>1 DEF Start, ghosts, TypeOK, KickInProgress, Idle
  <2>5. OnlineHasSession'
    BY <1>1 DEF Start, ghosts, TypeOK, OnlineHasSession
  <2> QED BY <2>1, <2>2, <2>3, <2>4, <2>5
<1>2. ASSUME NEW s \in SessionIds, ConnectionLost(s) PROVE IInv'
  <2>1. TypeOK'
    BY <1>2 DEF ConnectionLost, ghosts, TypeOK
  <2>2. MapOfIds' /\ Timers' /\ MapOfUsers'
    BY <1>2 DEF ConnectionLost, ghosts, MapOfIds, Timers, MapOfUsers
  <2>3. KickInProgress' /\ OnlineHasSession'
    BY <1>2 DEF ConnectionLost, ghosts, KickInProgress, OnlineHasSession
  <2> QED BY <2>1, <2>2, <2>3
<1>3. ASSUME NEW s \in SessionIds, HeartbeatMissed(s) PROVE IInv'
  <2>1. TypeOK'
    BY <1>3 DEF HeartbeatMissed, ghosts, TypeOK
  <2>2. MapOfIds' /\ Timers'
    BY <1>3 DEF HeartbeatMissed, ghosts, TypeOK, MapOfIds, Timers
  <2>3. MapOfUsers'
    BY <1>3 DEF HeartbeatMissed, ghosts, TypeOK, MapOfUsers
  <2>4. KickInProgress'
    BY <1>3 DEF HeartbeatMissed, ghosts, TypeOK, KickInProgress, Idle
  <2>5. OnlineHasSession'
    BY <1>3 DEF HeartbeatMissed, ghosts, TypeOK, OnlineHasSession
  <2> QED BY <2>1, <2>2, <2>3, <2>4, <2>5
<1>4. ASSUME NEW s \in SessionIds, QuitCheck(s) PROVE IInv'
  <2>1. TypeOK'
    BY <1>4 DEF QuitCheck, ghosts, TypeOK
  <2>2. MapOfIds' /\ Timers'
    BY <1>4 DEF QuitCheck, ghosts, TypeOK, MapOfIds, Timers
  <2>3. MapOfUsers'
    BY <1>4 DEF QuitCheck, ghosts, TypeOK, MapOfUsers, Timers
  <2>4. KickInProgress'
    BY <1>4 DEF QuitCheck, ghosts, TypeOK, KickInProgress, Idle
  <2>5. OnlineHasSession'
    BY <1>4 DEF QuitCheck, ghosts, TypeOK, OnlineHasSession
  <2> QED BY <2>1, <2>2, <2>3, <2>4, <2>5
<1>5. ASSUME NEW s \in SessionIds, NEW u \in Users, LogIn(s, u) PROVE IInv'
  <2>1. Live(s) /\ kicking = Idle
    BY <1>5 DEF LogIn, MapOfIds, MainIsFree
  <2>2. TypeOK'
    <3>1. name' \in [SessionIds -> Users \cup {NoName}] /\ givenUp' \in [SessionIds -> SUBSET Users]
      BY <1>5 DEF LogIn, TypeOK
    <3>2. CASE userMap[u] = None
      BY <1>5, <3>1, <3>2 DEF LogIn, TypeOK
    <3>3. CASE userMap[u] # None
      <4>1. userMap[u] \in SessionIds
        BY <3>3 DEF TypeOK
      <4>2. kicking' = [session |-> s, old |-> userMap[u]]
        BY <1>5, <3>3 DEF LogIn
      <4>3. kicking' \in [session : SessionIds \cup {None}, old : SessionIds \cup {None}]
        BY <4>1, <4>2
      <4>4. quitFlag' \in [SessionIds -> BOOLEAN] /\ userMap' = userMap
        BY <1>5, <3>3, <4>1 DEF LogIn, TypeOK
      <4> QED BY <1>5, <3>1, <4>3, <4>4 DEF LogIn, TypeOK
    <3> QED BY <3>2, <3>3
  <2>3. MapOfIds' /\ Timers'
    BY <1>5, <2>1 DEF LogIn, TypeOK, MapOfIds, Timers
  <2>4. ASSUME NEW t \in SessionIds, NEW v \in Users, name[t] = v
        PROVE  name'[t] = v \/ v \in givenUp'[t]
    BY <1>5, <2>4 DEF LogIn, TypeOK
  <2>5. ASSUME NEW t \in SessionIds PROVE givenUp[t] \subseteq givenUp'[t]
    BY <1>5 DEF LogIn, TypeOK
  <2>6. MapOfUsers'
    <3>1. SUFFICES ASSUME NEW v \in Users, userMap'[v] # None
                   PROVE  /\ state[userMap'[v]] # "new"
                          /\ \/ Live(userMap'[v]) /\ name'[userMap'[v]] = v
                             \/ v \in givenUp'[userMap'[v]]
      BY <1>5 DEF LogIn, MapOfUsers
    <3>2. CASE userMap'[v] = userMap[v]
      <4>1. userMap[v] \in SessionIds
        BY <3>1, <3>2 DEF TypeOK
      <4> QED BY <2>4, <2>5, <3>1, <3>2, <4>1 DEF MapOfUsers
    <3>3. CASE userMap'[v] # userMap[v]
      <4>1. v = u /\ userMap'[v] = s
        BY <1>5, <3>3 DEF LogIn, TypeOK
      <4>2. name'[s] = u
        BY <1>5 DEF LogIn, TypeOK
      <4> QED BY <2>1, <4>1, <4>2
    <3> QED BY <3>2, <3>3
  <2>7. KickInProgress'
    <3>1. CASE userMap[u] = None
      BY <1>5, <2>1, <3>1 DEF LogIn, KickInProgress, Idle
    <3>2. CASE userMap[u] # None
      <4>1. userMap[u] \in SessionIds
        BY <3>2 DEF TypeOK
      <4>2. /\ kicking'.session = s /\ kicking'.old = userMap[u]
            /\ name'[s] = u /\ userMap' = userMap /\ state' = state
        BY <1>5, <3>2 DEF LogIn, TypeOK
      <4> QED BY <2>1, <4>1, <4>2 DEF KickInProgress
    <3> QED BY <3>1, <3>2
  <2>8. OnlineHasSession'
    <3>1. SUFFICES ASSUME NEW v \in Users, online[v]
                   PROVE  \/ \E t \in SessionIds : name'[t] = v /\ table[t] /\ state[t] # "deleted"
                          \/ \E t \in SessionIds : v \in givenUp'[t]
      BY <1>5 DEF LogIn, OnlineHasSession
    <3> QED BY <2>4, <2>5, <3>1 DEF OnlineHasSession
  <2> QED BY <2>2, <2>3, <2>6, <2>7, <2>8
<1>6. CASE Kick
  <2>1. /\ kicking.session \in SessionIds /\ kicking.old \in SessionIds
        /\ Live(kicking.session)
        /\ name[kicking.session] \in Users
        /\ userMap[name[kicking.session]] = kicking.old
    BY <1>6 DEF Kick, MainIsFree, KickInProgress
  <2>2. state[kicking.old] # "new"
    BY <2>1 DEF MapOfUsers
  <2>3. TypeOK'
    BY <1>6, <2>1 DEF Kick, TypeOK, Idle
  <2>4. \A t \in SessionIds :
          /\ Live(t)' = Live(t)
          /\ (state'[t] = "new") = (state[t] = "new")
          /\ (state'[t] = "deleted") = (state[t] = "deleted")
    BY <1>6, <2>1, <2>2 DEF Kick, TypeOK
  <2>5. MapOfIds'
    BY <1>6, <2>4 DEF Kick, MapOfIds
  <2>6. Timers'
    BY <1>6, <2>1, <2>4 DEF Kick, TypeOK, Timers
  <2>7. MapOfUsers'
    <3>1. SUFFICES ASSUME NEW v \in Users, userMap'[v] # None
                   PROVE  /\ state'[userMap'[v]] # "new"
                          /\ \/ state'[userMap'[v]] \in {"ok", "quit", "recycle"} /\ name[userMap'[v]] = v
                             \/ v \in givenUp[userMap'[v]]
      BY <1>6 DEF Kick, MapOfUsers
    <3>2. CASE v = name[kicking.session]
      <4>1. userMap'[v] = kicking.session
        BY <1>6, <3>2 DEF Kick, TypeOK
      <4> QED BY <2>1, <2>4, <3>2, <4>1
    <3>3. CASE v # name[kicking.session]
      <4>1. userMap'[v] = userMap[v] /\ userMap[v] \in SessionIds
        BY <1>6, <3>1, <3>3 DEF Kick, TypeOK
      <4> QED BY <2>4, <3>1, <4>1 DEF MapOfUsers
    <3> QED BY <3>2, <3>3
  <2>8. KickInProgress'
    BY <1>6 DEF Kick, KickInProgress, Idle
  <2>9. OnlineHasSession'
    BY <1>6, <2>4 DEF Kick, OnlineHasSession
  <2> QED BY <2>3, <2>5, <2>6, <2>7, <2>8, <2>9
<1>7. ASSUME NEW s \in SessionIds, EnterRoom(s) PROVE IInv'
  <2>1. TypeOK'
    BY <1>7 DEF EnterRoom, Connected, ghosts, TypeOK
  <2>2. MapOfIds' /\ Timers' /\ MapOfUsers' /\ KickInProgress'
    BY <1>7 DEF EnterRoom, ghosts, MapOfIds, Timers, MapOfUsers, KickInProgress
  <2>3. state[s] # "deleted"
    BY <1>7 DEF EnterRoom, MapOfIds
  <2>4. OnlineHasSession'
    BY <1>7, <2>3 DEF EnterRoom, Connected, ghosts, TypeOK, OnlineHasSession
  <2> QED BY <2>1, <2>2, <2>4
<1>8. ASSUME NEW s \in SessionIds, EnterAnother(s) PROVE IInv'
  <2>1. TypeOK'
    BY <1>8 DEF EnterAnother, Connected, ghosts, TypeOK
  <2>2. MapOfIds' /\ Timers' /\ MapOfUsers' /\ KickInProgress'
    BY <1>8 DEF EnterAnother, ghosts, MapOfIds, Timers, MapOfUsers, KickInProgress
  <2>3. OnlineHasSession'
    <3>1. SUFFICES ASSUME NEW v \in Users, online'[v]
                   PROVE  \/ \E t \in SessionIds : name[t] = v /\ table'[t] /\ state[t] # "deleted"
                          \/ \E t \in SessionIds : v \in givenUp[t]
      BY <1>8 DEF EnterAnother, ghosts, OnlineHasSession
    <3>2. name[s] # v /\ online[v]
      BY <1>8, <3>1 DEF EnterAnother, Connected, TypeOK
    <3>3. ASSUME NEW t \in SessionIds, name[t] = v PROVE table'[t] = table[t]
      BY <1>8, <3>2, <3>3 DEF EnterAnother, TypeOK
    <3> QED BY <3>2, <3>3 DEF OnlineHasSession
  <2> QED BY <2>1, <2>2, <2>3
<1>9. ASSUME NEW s \in SessionIds, LeaveRoom(s) PROVE IInv'
  <2>1. TypeOK'
    BY <1>9 DEF LeaveRoom, Connected, ghosts, TypeOK
  <2>2. MapOfIds' /\ Timers' /\ MapOfUsers' /\ KickInProgress'
    BY <1>9 DEF LeaveRoom, ghosts, MapOfIds, Timers, MapOfUsers, KickInProgress
  <2>3. OnlineHasSession'
    BY <1>9 DEF LeaveRoom, Connected, ghosts, TypeOK, OnlineHasSession
  <2> QED BY <2>1, <2>2, <2>3
<1>10. ASSUME NEW s \in SessionIds, Recycle(s) PROVE IInv'
  <2>1. TypeOK'
    BY <1>10 DEF Recycle, Connected, ghosts, TypeOK
  <2>2. MapOfIds' /\ Timers'
    BY <1>10 DEF Recycle, TypeOK, MapOfIds, Timers
  <2>3. MapOfUsers'
    <3>1. SUFFICES ASSUME NEW v \in Users, userMap'[v] # None
                   PROVE  /\ state'[userMap'[v]] # "new"
                          /\ \/ state'[userMap'[v]] \in {"ok", "quit", "recycle"} /\ name[userMap'[v]] = v
                             \/ v \in givenUp[userMap'[v]]
      BY <1>10 DEF Recycle, ghosts, MapOfUsers
    <3>2. userMap'[v] = userMap[v] /\ v # name[s] /\ userMap[v] \in SessionIds
      BY <1>10, <3>1 DEF Recycle, TypeOK
    <3>3. CASE userMap[v] = s
      BY <1>10, <3>1, <3>2, <3>3 DEF Recycle, TypeOK, MapOfUsers
    <3>4. CASE userMap[v] # s
      <4>1. state'[userMap[v]] = state[userMap[v]]
        BY <1>10, <3>2, <3>4 DEF Recycle, TypeOK
      <4> QED BY <3>1, <3>2, <4>1 DEF MapOfUsers
    <3> QED BY <3>3, <3>4
  <2>4. KickInProgress'
    BY <1>10 DEF Recycle, MainIsFree, KickInProgress
  <2>5. OnlineHasSession'
    <3>1. SUFFICES ASSUME NEW v \in Users, online'[v]
                   PROVE  \/ \E t \in SessionIds : name[t] = v /\ table[t] /\ state'[t] # "deleted"
                          \/ \E t \in SessionIds : v \in givenUp[t]
      BY <1>10 DEF Recycle, ghosts, OnlineHasSession
    <3>2. online[v] /\ ~(table[s] /\ name[s] = v)
      BY <1>10, <3>1 DEF Recycle, Connected, TypeOK
    <3>3. ASSUME NEW t \in SessionIds, t # s PROVE state'[t] = state[t]
      BY <1>10, <3>3 DEF Recycle, TypeOK
    <3> QED BY <3>2, <3>3 DEF OnlineHasSession
  <2> QED BY <2>1, <2>2, <2>3, <2>4, <2>5
<1>11. CASE UNCHANGED vars
  BY <1>11 DEF vars, TypeOK, MapOfIds, Timers, MapOfUsers, KickInProgress, OnlineHasSession
<1> QED BY <1>1, <1>2, <1>3, <1>4, <1>5, <1>6, <1>7, <1>8, <1>9, <1>10, <1>11 DEF Next

LEMMA Invariance == Spec => []IInv
  BY InitInv, NextInv, PTL DEF Spec
-----------------------------------------------------------------------------
\* The fields keep their types; a kick always has both its sessions or none.
THEOREM TypeCorrect == Spec => []TypeOK
<1>1. IInv => TypeOK
  BY DEF IInv
<1> QED BY <1>1, Invariance, PTL

\* However often connections log in, and under whatever names, the user map leads
\* to a deleted session only under a name this session had given up, and doCmd's
\* map never does, although ~UserTask removes by name and a second session of the
\* name may be about to take its place.
THEOREM NoDanglingSession == Spec => []MapsLeadToLiveSessions
<1>1. IInv => MapsLeadToLiveSessions
  BY NoneAssumption DEF NoneAssumption, IInv, TypeOK, MapOfIds, MapOfUsers, Live, MapsLeadToLiveSessions
<1> QED BY <1>1, Invariance, PTL

\* zTCPServer::Check never deletes a session whose check timer still runs and
\* would call it.
THEOREM TimerStopsFirst == Spec => []NoTimerOfDeleted
<1>1. IInv => NoTimerOfDeleted
  BY DEF IInv, Timers, NoTimerOfDeleted
<1> QED BY <1>1, Invariance, PTL

\* A connected seat has a session under its user's name that will report the
\* user's leaving, unless a session has given that name up for another.
THEOREM SeatHasReporter == Spec => []OnlineHasSession
<1>1. IInv => OnlineHasSession
  BY DEF IInv
<1> QED BY <1>1, Invariance, PTL
=============================================================================
