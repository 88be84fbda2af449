-------------------------------- MODULE Room --------------------------------
(***************************************************************************)
(* Rooms and their seats, from createGame to the end of the room.  The     *)
(* main thread runs the commands of the sessions and deletes dead rooms;   *)
(* each room has a game thread that reads the same seats without a lock.   *)
(* A command is one step, but for handleCreateRoom: the thread of the new  *)
(* room runs before its creator has entered.  Users are logged in; a       *)
(* session has gone when ~UserTask has run.  The teams players choose in   *)
(* the lobby are left out, the stack of states is in GameRun.              *)
(***************************************************************************)
EXTENDS Integers, FiniteSetsExt

CONSTANTS
  SessionIds,  \* the connections
  Users,
  LogIns,      \* the ways in which the sessions may be logged in
  MaxPlayers,  \* m_maxPlayers of each room
  MaxRoom,     \* bound: how many rooms are ever created
  NoUser       \* the empty user name of a free seat

ASSUME LogInsAssumption == LogIns \subseteq [SessionIds -> Users]
ASSUME NoUserAssumption == NoUser \notin Users
ASSUME MaxRoomAssumption == MaxRoom \in Nat
ASSUME MaxPlayersAssumption ==
  MaxPlayers \in [0 .. MaxRoom - 1 -> 1 .. 8]   \* MAXPLAYER

VARIABLES
  life,       \* of each room: absent from the map, or open, dead, deleted
  seatUser, connected, ready,  \* m_playerContexts of each room
  guests,     \* m_guestList
  playing,
  gpc,        \* where the game thread of each room is
  name,       \* m_username of each session
  table,      \* m_tableId of each session
  seat,       \* m_playerId of each session
  gone,       \* the sessions that were deleted
  creating    \* the session that has created a room but not yet entered it

seats    == <<seatUser, connected, ready, guests>>
sessions == <<name, table, seat, gone>>
vars == <<life, seatUser, connected, ready, guests, playing, gpc, name, table, seat, gone, creating>>

Rooms   == 0 .. MaxRoom - 1
Seats(r) == 0 .. MaxPlayers[r] - 1
NoTable == -1
NoSeat  == -1
GUEST   == 9
Nobody  == [session |-> {}, room |-> NoTable]

TypeOK ==
  /\ life \in [Rooms -> {"none", "open", "dead", "deleted"}]
  /\ DOMAIN seatUser = Rooms /\ DOMAIN connected = Rooms /\ DOMAIN ready = Rooms
  /\ \A r \in Rooms :
       /\ seatUser[r] \in [Seats(r) -> Users \cup {NoUser}]
       /\ connected[r] \in [Seats(r) -> BOOLEAN]
       /\ ready[r] \in [Seats(r) -> BOOLEAN]
  /\ guests \in [Rooms -> SUBSET Users]
  /\ playing \in [Rooms -> BOOLEAN]
  /\ gpc \in [Rooms -> {"none", "count", "lobby", "arrange", "end"}]
  /\ name \in [SessionIds -> Users]
  /\ table \in [SessionIds -> Rooms \cup {NoTable}]
  /\ seat \in [SessionIds -> Int]
  /\ \A s \in SessionIds : seat[s] \notin {NoSeat, GUEST} => seat[s] \in Seats(table[s])
  /\ gone \subseteq SessionIds
  /\ creating \in [session : SUBSET SessionIds, room : Rooms \cup {NoTable}]

Init ==
  /\ life = [r \in Rooms |-> "none"]
  /\ seatUser = [r \in Rooms |-> [i \in Seats(r) |-> NoUser]]
  /\ connected = [r \in Rooms |-> [i \in Seats(r) |-> FALSE]]
  /\ ready = [r \in Rooms |-> [i \in Seats(r) |-> FALSE]]
  /\ guests = [r \in Rooms |-> {}]
  /\ playing = [r \in Rooms |-> FALSE]
  /\ gpc = [r \in Rooms |-> "none"]
  /\ name \in LogIns
  /\ table = [s \in SessionIds |-> NoTable]
  /\ seat = [s \in SessionIds |-> NoSeat]
  /\ gone = {} /\ creating = Nobody
-----------------------------------------------------------------------------
(* The seats of the rooms, as the handlers change them.  A "hall" is the    *)
(* record of all the seats, so that leaving and entering compose.           *)

Hall == [user |-> seatUser, on |-> connected, ready |-> ready, guests |-> guests]
HallBecomes(h) ==
  /\ seatUser' = h.user /\ connected' = h.on /\ ready' = h.ready
  /\ guests' = h.guests

InMap(r) == r # NoTable /\ life[r] \in {"open", "dead"}
SeatsOf(h, r, u) == {i \in Seats(r) : h.user[r][i] = u}

\* onUserLeave: before the game the seat is freed, during it the seat is kept
Left(h, r, u) ==
  IF SeatsOf(h, r, u) = {} THEN [h EXCEPT !.guests[r] = @ \ {u}]
  ELSE LET i == Min(SeatsOf(h, r, u)) IN
       IF playing[r]
       THEN [h EXCEPT !.guests[r] = @ \ {u}, !.on[r][i] = FALSE]
       ELSE [h EXCEPT !.guests[r] = @ \ {u}, !.on[r][i] = FALSE,
                      !.user[r][i] = NoUser, !.ready[r][i] = FALSE]

LeftIfThere(h, r, u) == IF InMap(r) THEN Left(h, r, u) ELSE h

\* mutant: who is seated already is not looked for
SeatFor_AnyFree(h, r, u) ==
  LET free == {i \in Seats(r) : ~playing[r] /\ ~h.on[r][i]} IN
  IF free # {} THEN Min(free) ELSE GUEST

\* playerEnterIntoTable: the seat the user has, else the first free one in the
\* lobby, else none
SeatFor(h, r, u) ==
  LET free == {i \in Seats(r) : ~playing[r] /\ ~h.on[r][i]} IN
  IF SeatsOf(h, r, u) # {} THEN Min(SeatsOf(h, r, u))
  ELSE IF free # {} THEN Min(free) ELSE GUEST

\* enterRoom: onto a seat, or among the guests
Entered(h, r, u) ==
  LET i == SeatFor(h, r, u) IN
  IF i = GUEST THEN [h EXCEPT !.guests[r] = @ \cup {u}]
  ELSE [h EXCEPT !.user[r][i] = u, !.on[r][i] = TRUE]
-----------------------------------------------------------------------------
(* The main thread *)

Free(s) == creating = Nobody /\ s \notin gone

\* createGame: the game thread starts at once
CreateRoom(s, r) ==
  /\ Free(s)
  /\ life[r] = "none" /\ \A q \in Rooms : q < r => life[q] # "none"   \* m_next_roomId++
  /\ life' = [life EXCEPT ![r] = "open"]
  /\ gpc' = [gpc EXCEPT ![r] = "count"]
  /\ creating' = [session |-> {s}, room |-> r]
  /\ UNCHANGED <<seats, playing, sessions>>

\* mutant: the room the user comes from is not told
Enter_StillThere(s, r) ==
  /\ HallBecomes(Entered(Hall, r, name[s]))
  /\ table' = [table EXCEPT ![s] = r]
  /\ seat' = [seat EXCEPT ![s] = SeatFor(Hall, r, name[s])]

\* handleEnterRoom when it succeeds
Enter(s, r) ==
  LET h == IF table[s] # r THEN LeftIfThere(Hall, table[s], name[s]) ELSE Hall IN
  /\ HallBecomes(Entered(h, r, name[s]))
  /\ table' = [table EXCEPT ![s] = r]
  /\ seat' = [seat EXCEPT ![s] = SeatFor(h, r, name[s])]

\* The rest of handleCreateRoom
EnterCreated ==
  /\ \E s \in creating.session : Enter(s, creating.room)
  /\ creating' = Nobody
  /\ UNCHANGED <<life, playing, gpc, name, gone>>

EnterRoom(s, r) ==
  /\ Free(s) /\ InMap(r)
  /\ Enter(s, r)
  /\ UNCHANGED <<life, playing, gpc, name, gone, creating>>

\* tryEnterRoom fails (no such room, wrong password, not welcome): the room the
\* user comes from has been left all the same
RefusedRoom(s, r) ==
  /\ Free(s)
  /\ InMap(r) => ~playing[r]
  /\ HallBecomes(IF table[s] # r THEN LeftIfThere(Hall, table[s], name[s]) ELSE Hall)
  /\ UNCHANGED <<life, playing, gpc, sessions, creating>>

\* handleLeaveRoom: m_tableId and m_playerId stay
LeaveRoom(s) ==
  /\ Free(s) /\ InMap(table[s])
  /\ HallBecomes(Left(Hall, table[s], name[s]))
  /\ UNCHANGED <<life, playing, gpc, sessions, creating>>

\* mutant: the room is not told that the session has gone
Destroy_Silently(s) ==
  /\ Free(s)
  /\ gone' = gone \cup {s}
  /\ UNCHANGED <<life, seats, playing, gpc, name, table, seat, creating>>

\* ~UserTask; what the session knew is gone with it.
Destroy(s) ==
  /\ Free(s)
  /\ gone' = gone \cup {s}
  /\ HallBecomes(LeftIfThere(Hall, table[s], name[s]))
  /\ table' = [table EXCEPT ![s] = NoTable]
  /\ seat' = [seat EXCEPT ![s] = NoSeat]
  /\ UNCHANGED <<life, playing, gpc, name, creating>>

\* topGameState() is StateWaitForEnter, and the room has not ended
LobbyOnTop(r) == gpc[r] \in {"count", "lobby"} /\ ~playing[r]

\* setPlayerReady, setStartReady: in the lobby, for the seat the session last had
Ready(s, b) ==
  LET r == table[s] IN
  /\ Free(s) /\ InMap(r) /\ seat[s] \in Seats(r)
  /\ LobbyOnTop(r)
  /\ ready' = [ready EXCEPT ![r][seat[s]] = b]
  /\ UNCHANGED <<life, seatUser, connected, guests, playing, gpc, sessions, creating>>

\* GameManager::Check deletes a dead room and all that it holds.
DeleteRoom(r) ==
  /\ creating = Nobody
  /\ life[r] = "dead"
  /\ life' = [life EXCEPT ![r] = "deleted"]
  /\ seatUser' = [seatUser EXCEPT ![r] = [i \in Seats(r) |-> NoUser]]
  /\ connected' = [connected EXCEPT ![r] = [i \in Seats(r) |-> FALSE]]
  /\ ready' = [ready EXCEPT ![r] = [i \in Seats(r) |-> FALSE]]
  /\ guests' = [guests EXCEPT ![r] = {}]
  /\ playing' = [playing EXCEPT ![r] = FALSE]
  /\ UNCHANGED <<gpc, sessions, creating>>
-----------------------------------------------------------------------------
(* The game thread of a room *)

Empty(r) == \A i \in Seats(r) : ~connected[r][i]

\* The thread leaves GameRun: dead = true.
Ends(r) ==
  /\ gpc' = [gpc EXCEPT ![r] = "end"]
  /\ life' = [life EXCEPT ![r] = "dead"]

GoesTo(r, pc) == gpc' = [gpc EXCEPT ![r] = pc] /\ life' = life

\* The loop counts the connected seats, then calls the handler on top; the play
\* itself leaves the seats alone.
Count(r) ==
  /\ gpc[r] = "count"
  /\ Empty(r) \/ ~playing[r]
  /\ IF Empty(r) THEN Ends(r) ELSE GoesTo(r, "lobby")
  /\ UNCHANGED <<seats, playing, sessions, creating>>

\* The game is over, or the players have voted to leave: dying
GameEnds(r) ==
  /\ gpc[r] = "count" /\ playing[r]
  /\ Ends(r)
  /\ UNCHANGED <<seats, playing, sessions, creating>>

\* StateWaitForEnter: on to StateSeatArrange, or wait, or give up
Lobby(r) ==
  /\ gpc[r] = "lobby"
  /\ \/ GoesTo(r, IF \A i \in Seats(r) : ready[r][i] THEN "arrange" ELSE "count")
     \/ Ends(r)
  /\ UNCHANGED <<seats, playing, sessions, creating>>

\* The loop counts once more before StateSeatArrange sets playing.
StartPlaying(r) ==
  /\ gpc[r] = "arrange"
  /\ IF Empty(r)
     THEN Ends(r) /\ playing' = playing
     ELSE GoesTo(r, "count") /\ playing' = [playing EXCEPT ![r] = TRUE]
  /\ UNCHANGED <<seats, sessions, creating>>

GameStep(r) == Count(r) \/ Lobby(r) \/ StartPlaying(r)

Next ==
  \/ EnterCreated
  \/ \E s \in SessionIds :
       \/ LeaveRoom(s) \/ Destroy(s)
       \/ \E r \in Rooms : CreateRoom(s, r) \/ EnterRoom(s, r) \/ RefusedRoom(s, r)
       \/ \E b \in BOOLEAN : Ready(s, b)
  \/ \E r \in Rooms : DeleteRoom(r) \/ GameStep(r) \/ GameEnds(r)

Spec == Init /\ [][Next]_vars

\* Game threads are scheduled; the main loop finishes a command and comes round
\* to Check.
FairSpec ==
  Spec /\ WF_vars(EnterCreated) /\ \A r \in Rooms : WF_vars(GameStep(r)) /\ SF_vars(DeleteRoom(r))
-----------------------------------------------------------------------------
(* Properties *)

\* A user never has two seats of a room, whatever number of connections the user
\* has: who returns to a game gets one seat back.
OneSeatPerUser ==
  \A r \in Rooms : \A i, j \in Seats(r) :
    (seatUser[r][i] = seatUser[r][j] /\ i # j) => seatUser[r][i] = NoUser

\* A connected seat has a session of its user that is in the room and answers for
\* that seat: else the players wait for somebody who is not there.
ConnectedSeatHasSession ==
  \A r \in Rooms : InMap(r) => \A i \in Seats(r) : connected[r][i] =>
    \E s \in SessionIds \ gone : name[s] = seatUser[r][i] /\ table[s] = r /\ seat[s] = i

\* A room that every session has left for another or been deleted from goes, even
\* when a command of a session that is in another room made it.
AbandonedRoomsGo ==
  \A r \in Rooms :
    <>[](life[r] # "none" /\ \A s \in SessionIds : s \in gone \/ table[s] # r)
      => <>(life[r] = "deleted")
=============================================================================
