----------------------------- MODULE Room_proof -----------------------------
(***************************************************************************)
(* Proofs about Room, for every number of rooms, sizes of rooms, sessions  *)
(* and ways of logging in.  Leaving looks for the first seat of the user,  *)
(* and sessions of one user may be in a room at the same time: that no     *)
(* user has two seats is what makes the seat a command frees or takes the  *)
(* right one, and the two safety properties need each other.               *)
(***************************************************************************)
EXTENDS Room, TLAPS

\* A room that is not there any more, or not yet, has nobody connected.
NoRoomNoSeats ==
  \A r \in Rooms : life[r] \in {"none", "deleted"} => \A i \in Seats(r) : ~connected[r][i]

\* A connected seat is somebody's.
ConnectedIsTaken ==
  \A r \in Rooms : \A i \in Seats(r) : connected[r][i] => seatUser[r][i] # NoUser

\* A room that is being created exists until its creator has entered it.
CreatedExists ==
  creating # Nobody => /\ creating.room \in Rooms
                       /\ life[creating.room] \in {"open", "dead"}
                       /\ \E s \in SessionIds \ gone : creating.session = {s}

IInv ==
  /\ TypeOK
  /\ OneSeatPerUser
  /\ ConnectedSeatHasSession
  /\ NoRoomNoSeats
  /\ ConnectedIsTaken
  /\ CreatedExists
-----------------------------------------------------------------------------
(* Leaving and entering, as functions of the seats *)

\* What is true of the seats between two commands, and between the two halves of one.
HallOK(h) ==
  /\ DOMAIN h = {"user", "on", "ready", "guests"}
  /\ DOMAIN h.user = Rooms /\ DOMAIN h.on = Rooms /\ DOMAIN h.ready = Rooms
  /\ \A r \in Rooms : /\ h.user[r] \in [Seats(r) -> Users \cup {NoUser}]
                      /\ h.on[r] \in [Seats(r) -> BOOLEAN]
                      /\ h.ready[r] \in [Seats(r) -> BOOLEAN]
  /\ h.guests \in [Rooms -> SUBSET Users]
  /\ \A r \in Rooms : \A i, j \in Seats(r) :
       (h.user[r][i] = h.user[r][j] /\ i # j) => h.user[r][i] = NoUser
  /\ \A r \in Rooms : \A i \in Seats(r) : h.on[r][i] => h.user[r][i] # NoUser

\* Every connected seat of h was connected in g, to the same user.
NobodyCame(g, h) ==
  \A r \in Rooms : \A i \in Seats(r) :
    h.on[r][i] => g.on[r][i] /\ h.user[r][i] = g.user[r][i]

\* A room has at most eight seats: one of any choice of them is the first.
LEMMA FirstSeat ==
  ASSUME NEW r \in Rooms, NEW S \in SUBSET Seats(r), S # {}
  PROVE  Min(S) \in S
<1>1. S \subseteq 0 .. 7
  <2>1. MaxPlayers[r] \in 1 .. 8
    BY MaxPlayersAssumption DEF MaxPlayersAssumption, Rooms
  <2> QED BY <2>1 DEF Seats
<1>2. \E x \in S : \A y \in S : x =< y
  <2>1. ASSUME NEW n \in 0 .. 7, n \in S, \A m \in 0 .. 7 : m < n => m \notin S
        PROVE  \E x \in S : \A y \in S : x =< y
    BY <1>1, <2>1
  <2>2. CASE 0 \in S BY <2>1, <2>2
  <2>3. CASE 0 \notin S /\ 1 \in S BY <2>1, <2>3
  <2>4. CASE S \cap {0, 1} = {} /\ 2 \in S BY <2>1, <2>4
  <2>5. CASE S \cap {0, 1, 2} = {} /\ 3 \in S BY <2>1, <2>5
  <2>6. CASE S \cap {0, 1, 2, 3} = {} /\ 4 \in S BY <2>1, <2>6
  <2>7. CASE S \cap {0, 1, 2, 3, 4} = {} /\ 5 \in S BY <2>1, <2>7
  <2>8. CASE S \cap {0, 1, 2, 3, 4, 5} = {} /\ 6 \in S BY <2>1, <2>8
  <2>9. CASE S \cap {0, 1, 2, 3, 4, 5, 6} = {} /\ 7 \in S BY <2>1, <2>9
  <2>10. PICK x \in 0 .. 7 : x \in S
    BY <1>1
  <2>11. x \in {0, 1, 2, 3, 4, 5, 6, 7}
    OBVIOUS
  <2> QED BY <2>2, <2>3, <2>4, <2>5, <2>6, <2>7, <2>8, <2>9, <2>10, <2>11
<1> QED BY <1>2 DEF Min

\* onUserLeave: no seat of the room is connected to the user any more, and the seats
\* of everybody else stay as they are.
LEMMA LeavingFrees ==
  ASSUME NEW h, HallOK(h), NEW r \in Rooms, NEW u \in Users
  PROVE  /\ HallOK(Left(h, r, u))
         /\ NobodyCame(h, Left(h, r, u))
         /\ \A i \in Seats(r) : Left(h, r, u).on[r][i] => h.user[r][i] # u
<1> DEFINE g == Left(h, r, u)
           i == Min(SeatsOf(h, r, u))
<1>1. u # NoUser
  BY NoUserAssumption DEF NoUserAssumption
<1>2. CASE SeatsOf(h, r, u) = {}
  <2>1. g = [h EXCEPT !.guests[r] = @ \ {u}]
    BY <1>2 DEF Left
  <2>2. g.user = h.user /\ g.on = h.on /\ g.ready = h.ready
    BY <2>1
  <2>3. DOMAIN g = DOMAIN h /\ g.guests \in [Rooms -> SUBSET Users]
    BY <2>1 DEF HallOK
  <2>4. HallOK(g)
    BY <2>2, <2>3 DEF HallOK
  <2> QED BY <1>2, <2>2, <2>4 DEF NobodyCame, SeatsOf
<1>3. CASE SeatsOf(h, r, u) # {}
  <2>1. i \in Seats(r) /\ h.user[r][i] = u
    BY <1>3, FirstSeat DEF SeatsOf
  <2>2. \A j \in Seats(r) : j # i => h.user[r][j] # u
    BY <1>1, <2>1 DEF HallOK
  <2>3. /\ g.on = [h.on EXCEPT ![r] = [@ EXCEPT ![i] = FALSE]]
        /\ g.user = h.user \/ g.user = [h.user EXCEPT ![r] = [@ EXCEPT ![i] = NoUser]]
        /\ g.ready = h.ready \/ g.ready = [h.ready EXCEPT ![r] = [@ EXCEPT ![i] = FALSE]]
        /\ g.guests = [h.guests EXCEPT ![r] = @ \ {u}]
        /\ DOMAIN g = DOMAIN h
    BY <1>3 DEF Left, HallOK
  <2> HIDE DEF g, i
  <2>4. /\ DOMAIN g.user = Rooms /\ DOMAIN g.on = Rooms /\ DOMAIN g.ready = Rooms
        /\ g.guests \in [Rooms -> SUBSET Users]
    BY <2>3 DEF HallOK
  <2>5. ASSUME NEW q \in Rooms
        PROVE  /\ g.user[q] \in [Seats(q) -> Users \cup {NoUser}]
               /\ g.on[q] \in [Seats(q) -> BOOLEAN]
               /\ g.ready[q] \in [Seats(q) -> BOOLEAN]
    <3>1. CASE q = r
      <4>1. g.on[q] = [h.on[q] EXCEPT ![i] = FALSE]
        BY <2>3, <3>1 DEF HallOK
      <4>2. g.user[q] = h.user[q] \/ g.user[q] = [h.user[q] EXCEPT ![i] = NoUser]
        BY <2>3, <3>1 DEF HallOK
      <4>3. g.ready[q] = h.ready[q] \/ g.ready[q] = [h.ready[q] EXCEPT ![i] = FALSE]
        BY <2>3, <3>1 DEF HallOK
      <4>4. /\ h.user[q] \in [Seats(q) -> Users \cup {NoUser}]
            /\ h.on[q] \in [Seats(q) -> BOOLEAN] /\ h.ready[q] \in [Seats(q) -> BOOLEAN]
        BY DEF HallOK
      <4>5. g.user[q] \in [Seats(q) -> Users \cup {NoUser}]
        BY <4>2, <4>4
      <4>6. g.on[q] \in [Seats(q) -> BOOLEAN]
        BY <4>1, <4>4
      <4>7. g.ready[q] \in [Seats(q) -> BOOLEAN]
        BY <4>3, <4>4
      <4> QED BY <4>5, <4>6, <4>7
    <3>2. CASE q # r
      <4>1. g.on[q] = h.on[q] /\ g.user[q] = h.user[q] /\ g.ready[q] = h.ready[q]
        BY <2>3, <3>2 DEF HallOK
      <4> QED BY <4>1 DEF HallOK
    <3> QED BY <3>1, <3>2
  <2>6. ASSUME NEW q \in Rooms, NEW j \in Seats(q), ~(q = r /\ j = i)
        PROVE  g.user[q][j] = h.user[q][j] /\ g.on[q][j] = h.on[q][j]
    <3>1. CASE q = r
      <4>1. g.on[q] = [h.on[q] EXCEPT ![i] = FALSE]
        BY <2>3, <3>1 DEF HallOK
      <4>2. g.user[q] = h.user[q] \/ g.user[q] = [h.user[q] EXCEPT ![i] = NoUser]
        BY <2>3, <3>1 DEF HallOK
      <4> QED BY <2>6, <3>1, <4>1, <4>2 DEF HallOK
    <3>2. CASE q # r
      BY <2>3, <3>2 DEF HallOK
    <3> QED BY <3>1, <3>2
  <2>7. g.on[r][i] = FALSE /\ g.user[r][i] \in {u, NoUser}
    BY <2>1, <2>3 DEF HallOK
  <2>8. \A q \in Rooms : \A j, k \in Seats(q) :
          (g.user[q][j] = g.user[q][k] /\ j # k) => g.user[q][j] = NoUser
    BY <2>1, <2>2, <2>6, <2>7 DEF HallOK
  <2>9. \A q \in Rooms : \A j \in Seats(q) : g.on[q][j] => g.user[q][j] # NoUser
    BY <2>6, <2>7 DEF HallOK
  <2>10. HallOK(g)
    BY <2>3, <2>4, <2>5, <2>8, <2>9 DEF HallOK
  <2>11. NobodyCame(h, g)
    BY <2>6, <2>7 DEF NobodyCame
  <2>12. \A j \in Seats(r) : g.on[r][j] => h.user[r][j] # u
    BY <2>2, <2>7
  <2> QED BY <2>10, <2>11, <2>12 DEF g
<1> QED BY <1>2, <1>3

\* enterRoom: the user gets one seat, or none; whoever else is connected is so already,
\* and no other seat of the room is the user's.
LEMMA EnteringSeats ==
  ASSUME NEW h, HallOK(h), NEW r \in Rooms, NEW u \in Users
  PROVE  LET g == Entered(h, r, u)
             k == SeatFor(h, r, u)
         IN  /\ HallOK(g)
             /\ k = GUEST \/ k \in Seats(r)
             /\ \A q \in Rooms : \A j \in Seats(q) :
                  g.on[q][j] => \/ q = r /\ j = k /\ g.user[q][j] = u
                                \/ /\ h.on[q][j] /\ g.user[q][j] = h.user[q][j]
                                   /\ q = r => g.user[q][j] # u
             /\ \A q \in Rooms : q # r => g.on[q] = h.on[q]
<1> DEFINE g == Entered(h, r, u)
           k == SeatFor(h, r, u)
           free == {i \in Seats(r) : ~playing[r] /\ ~h.on[r][i]}
<1>1. u # NoUser
  BY NoUserAssumption DEF NoUserAssumption
<1>2. GUEST \notin Seats(r)
  <2>1. MaxPlayers[r] \in 1 .. 8
    BY MaxPlayersAssumption DEF MaxPlayersAssumption, Rooms
  <2> QED BY <2>1 DEF Seats, GUEST
<1>3. \/ k = GUEST /\ SeatsOf(h, r, u) = {}
      \/ k \in Seats(r) /\ h.user[r][k] = u
      \/ k \in Seats(r) /\ SeatsOf(h, r, u) = {}
  <2>1. SeatsOf(h, r, u) # {} => k \in SeatsOf(h, r, u)
    BY FirstSeat DEF SeatFor, SeatsOf
  <2>2. SeatsOf(h, r, u) = {} /\ free # {} => k \in free
    BY FirstSeat DEF SeatFor
  <2>3. SeatsOf(h, r, u) = {} /\ free = {} => k = GUEST
    BY DEF SeatFor
  <2> QED BY <2>1, <2>2, <2>3 DEF SeatsOf
<1> HIDE DEF k
<1>4. CASE k = GUEST
  <2>1. g = [h EXCEPT !.guests[r] = @ \cup {u}]
    BY <1>4 DEF Entered, k
  <2>2. g.user = h.user /\ g.on = h.on /\ g.ready = h.ready
    BY <2>1
  <2>3. DOMAIN g = DOMAIN h /\ g.guests \in [Rooms -> SUBSET Users]
    BY <2>1 DEF HallOK
  <2>4. HallOK(g)
    BY <2>2, <2>3 DEF HallOK
  <2>5. SeatsOf(h, r, u) = {}
    BY <1>2, <1>3, <1>4
  <2> QED BY <1>4, <2>2, <2>4, <2>5 DEF SeatsOf, k
<1>5. CASE k # GUEST
  <2>1. k \in Seats(r) /\ \A j \in Seats(r) : j # k => h.user[r][j] # u
    BY <1>1, <1>3, <1>5 DEF HallOK, SeatsOf
  <2>2. /\ g.on = [h.on EXCEPT ![r] = [@ EXCEPT ![k] = TRUE]]
        /\ g.user = [h.user EXCEPT ![r] = [@ EXCEPT ![k] = u]]
        /\ g.ready = h.ready /\ g.guests = h.guests
        /\ DOMAIN g = DOMAIN h
    BY <1>5 DEF Entered, HallOK, k
  <2> HIDE DEF g
  <2>3. DOMAIN g.user = Rooms /\ DOMAIN g.on = Rooms
    BY <2>2 DEF HallOK
  <2>4. ASSUME NEW q \in Rooms
        PROVE  /\ g.user[q] = IF q = r THEN [h.user[q] EXCEPT ![k] = u] ELSE h.user[q]
               /\ g.on[q] = IF q = r THEN [h.on[q] EXCEPT ![k] = TRUE] ELSE h.on[q]
               /\ g.user[q] \in [Seats(q) -> Users \cup {NoUser}]
               /\ g.on[q] \in [Seats(q) -> BOOLEAN]
    <3>1. g.user[q] = IF q = r THEN [h.user[q] EXCEPT ![k] = u] ELSE h.user[q]
      BY <2>2 DEF HallOK
    <3>2. g.on[q] = IF q = r THEN [h.on[q] EXCEPT ![k] = TRUE] ELSE h.on[q]
      BY <2>2 DEF HallOK
    <3>3. /\ h.user[q] \in [Seats(q) -> Users \cup {NoUser}]
          /\ h.on[q] \in [Seats(q) -> BOOLEAN]
      BY DEF HallOK
    <3>4. g.user[q] \in [Seats(q) -> Users \cup {NoUser}]
      BY <3>1, <3>3
    <3>5. g.on[q] \in [Seats(q) -> BOOLEAN]
      BY <3>2, <3>3
    <3> QED BY <3>1, <3>2, <3>4, <3>5
  <2>5. ASSUME NEW q \in Rooms, NEW j \in Seats(q), ~(q = r /\ j = k)
        PROVE  g.user[q][j] = h.user[q][j] /\ g.on[q][j] = h.on[q][j]
    BY <2>4, <2>5 DEF HallOK
  <2>6. g.on[r][k] = TRUE /\ g.user[r][k] = u
    BY <2>1, <2>2 DEF HallOK
  <2>7. \A q \in Rooms : \A i, j \in Seats(q) :
          (g.user[q][i] = g.user[q][j] /\ i # j) => g.user[q][i] = NoUser
    BY <2>1, <2>5, <2>6 DEF HallOK
  <2>8. \A q \in Rooms : \A j \in Seats(q) : g.on[q][j] => g.user[q][j] # NoUser
    BY <1>1, <2>5, <2>6 DEF HallOK
  <2>9. HallOK(g)
    BY <2>2, <2>3, <2>4, <2>7, <2>8 DEF HallOK
  <2>10. \A q \in Rooms : q # r => g.on[q] = h.on[q]
    BY <2>2 DEF HallOK
  <2> QED BY <2>1, <2>5, <2>6, <2>9, <2>10 DEF g, k
<1> QED BY <1>4, <1>5
-----------------------------------------------------------------------------
LEMMA HallIsOK == IInv => HallOK(Hall)
BY DEF HallOK, Hall, IInv, TypeOK, OneSeatPerUser, ConnectedIsTaken

\* What a command leaves in the rooms when it has changed their seats to h.
LEMMA SeatsOfHall ==
  ASSUME NEW h, HallOK(h), HallBecomes(h)
  PROVE  /\ DOMAIN seatUser' = Rooms /\ DOMAIN connected' = Rooms /\ DOMAIN ready' = Rooms
         /\ \A r \in Rooms :
              /\ seatUser'[r] \in [Seats(r) -> Users \cup {NoUser}]
              /\ connected'[r] \in [Seats(r) -> BOOLEAN]
              /\ ready'[r] \in [Seats(r) -> BOOLEAN]
         /\ guests' \in [Rooms -> SUBSET Users]
         /\ OneSeatPerUser'
         /\ ConnectedIsTaken'
BY DEF HallOK, HallBecomes, OneSeatPerUser, ConnectedIsTaken, Seats

LEMMA InitInv == Init => IInv
<1> SUFFICES ASSUME Init PROVE IInv
  OBVIOUS
<1> USE DEF Init
<1>1. name \in [SessionIds -> Users]
  BY LogInsAssumption DEF LogInsAssumption
<1>2. creating \in [session : SUBSET SessionIds, room : Rooms \cup {NoTable}]
  BY DEF Nobody
<1>3. TypeOK
  BY <1>1, <1>2 DEF TypeOK, NoSeat
<1>4. OneSeatPerUser /\ ConnectedSeatHasSession /\ NoRoomNoSeats /\ ConnectedIsTaken
  BY DEF OneSeatPerUser, ConnectedSeatHasSession, NoRoomNoSeats, ConnectedIsTaken
<1>5. CreatedExists
  BY DEF CreatedExists
<1> QED BY <1>3, <1>4, <1>5 DEF IInv
-----------------------------------------------------------------------------
\* Leaving the room the session is in, or none: no seat there is connected for its
\* user afterwards.
LEMMA LeavingRoom ==
  ASSUME IInv, NEW s \in SessionIds
  PROVE  LET h == LeftIfThere(Hall, table[s], name[s])
         IN  /\ HallOK(h)
             /\ NobodyCame(Hall, h)
             /\ InMap(table[s]) =>
                  \A i \in Seats(table[s]) : h.on[table[s]][i] => seatUser[table[s]][i] # name[s]
<1>1. name[s] \in Users /\ table[s] \in Rooms \cup {NoTable}
  BY DEF IInv, TypeOK
<1>2. HallOK(Hall)
  BY HallIsOK
<1>3. CASE InMap(table[s])
  <2>1. table[s] \in Rooms
    BY <1>1, <1>3 DEF InMap
  <2>2. LeftIfThere(Hall, table[s], name[s]) = Left(Hall, table[s], name[s])
    BY <1>3 DEF LeftIfThere
  <2>3. Hall.user = seatUser
    BY DEF Hall
  <2> QED BY <1>1, <1>2, <2>1, <2>2, <2>3, LeavingFrees
<1>4. CASE ~InMap(table[s])
  <2>1. LeftIfThere(Hall, table[s], name[s]) = Hall
    BY <1>4 DEF LeftIfThere
  <2> QED BY <1>2, <1>4, <2>1 DEF NobodyCame
<1> QED BY <1>3, <1>4

\* A command that only frees seats, and leaves what sessions know alone.
LEMMA FreeingKeeps ==
  ASSUME IInv, NEW h, HallOK(h), NobodyCame(Hall, h), HallBecomes(h),
         UNCHANGED <<life, playing, gpc, sessions, creating>>
  PROVE  IInv'
<1> USE DEF IInv, sessions
<1>1. TypeOK'
  BY SeatsOfHall DEF TypeOK, Seats
<1>2. ASSUME NEW r \in Rooms, NEW i \in Seats(r), connected'[r][i]
      PROVE  connected[r][i] /\ seatUser'[r][i] = seatUser[r][i]
  BY <1>2 DEF NobodyCame, HallBecomes, Hall
<1>3. ConnectedSeatHasSession'
  BY <1>2 DEF ConnectedSeatHasSession, InMap, Seats
<1>4. NoRoomNoSeats'
  BY <1>2 DEF NoRoomNoSeats, Seats
<1>5. CreatedExists'
  BY DEF CreatedExists, Nobody
<1> QED BY <1>1, <1>3, <1>4, <1>5, SeatsOfHall

\* Entering a room, for a session that lives: the room it comes from has no seat that
\* waits for it any more, and in the new one it knows its seat.
LEMMA EnteringKeeps ==
  ASSUME IInv, NEW s \in SessionIds, s \notin gone, NEW r \in Rooms, InMap(r),
         Enter(s, r), UNCHANGED <<life, playing, gpc, name, gone>>, creating' = Nobody
  PROVE  IInv'
<1> DEFINE u == name[s]
           h == IF table[s] # r THEN LeftIfThere(Hall, table[s], u) ELSE Hall
           k == SeatFor(h, r, u)
           g == Entered(h, r, u)
<1> USE DEF IInv
<1>1. u \in Users /\ table[s] \in Rooms \cup {NoTable}
  BY DEF TypeOK
<1>2. HallOK(h) /\ NobodyCame(Hall, h)
  BY LeavingRoom, HallIsOK DEF NobodyCame
<1>3. table[s] # r /\ InMap(table[s]) =>
        \A i \in Seats(table[s]) : h.on[table[s]][i] => seatUser[table[s]][i] # u
  BY LeavingRoom
<1>4. HallBecomes(g) /\ table' = [table EXCEPT ![s] = r] /\ seat' = [seat EXCEPT ![s] = k]
  BY DEF Enter
<1> HIDE DEF u, h
<1>5. /\ HallOK(g)
      /\ k = GUEST \/ k \in Seats(r)
      /\ \A q \in Rooms : \A j \in Seats(q) :
           g.on[q][j] => \/ q = r /\ j = k /\ g.user[q][j] = u
                         \/ /\ h.on[q][j] /\ g.user[q][j] = h.user[q][j]
                            /\ q = r => g.user[q][j] # u
      /\ \A q \in Rooms : q # r => g.on[q] = h.on[q]
  BY <1>1, <1>2, EnteringSeats
<1> HIDE DEF k, g
<1>6. TypeOK'
  <2>1. table' \in [SessionIds -> Rooms \cup {NoTable}]
    BY <1>4 DEF TypeOK
  <2>2. seat' \in [SessionIds -> Int]
    BY <1>4, <1>5 DEF TypeOK, Seats, GUEST
  <2>3. \A t \in SessionIds : seat'[t] \notin {NoSeat, GUEST} => seat'[t] \in Seats(table'[t])
    BY <1>4, <1>5 DEF TypeOK
  <2>4. creating' \in [session : SUBSET SessionIds, room : Rooms \cup {NoTable}]
    BY DEF Nobody
  <2> QED BY <1>4, <1>5, <2>1, <2>2, <2>3, <2>4, SeatsOfHall DEF TypeOK, Seats
<1>7. ASSUME NEW q \in Rooms, NEW j \in Seats(q), connected'[q][j]
      PROVE  \/ q = r /\ j = k /\ seatUser'[q][j] = u
             \/ /\ connected[q][j] /\ seatUser'[q][j] = seatUser[q][j]
                /\ InMap(q) /\ q = table[s] => seatUser[q][j] # u
                /\ q = r => seatUser[q][j] # u
  <2>1. g.on[q][j] /\ g.user[q][j] = seatUser'[q][j]
    BY <1>4, <1>7 DEF HallBecomes
  <2>2. h.on[q][j] => connected[q][j] /\ h.user[q][j] = seatUser[q][j]
    BY <1>2 DEF NobodyCame, Hall
  <2> QED BY <1>3, <1>5, <2>1, <2>2
<1>8. ConnectedSeatHasSession'
  <2> SUFFICES ASSUME NEW q \in Rooms, InMap(q), NEW j \in Seats(q), connected'[q][j]
               PROVE  \E t \in SessionIds \ gone :
                        name[t] = seatUser'[q][j] /\ table'[t] = q /\ seat'[t] = j
    BY DEF ConnectedSeatHasSession, InMap, Seats
  <2>1. CASE q = r /\ j = k /\ seatUser'[q][j] = u
    BY <1>4, <2>1 DEF u, TypeOK
  <2>2. CASE /\ connected[q][j] /\ seatUser'[q][j] = seatUser[q][j]
             /\ InMap(q) /\ q = table[s] => seatUser[q][j] # u
             /\ q = r => seatUser[q][j] # u
    <3>1. PICK t \in SessionIds \ gone :
            name[t] = seatUser[q][j] /\ table[t] = q /\ seat[t] = j
      BY <2>2 DEF ConnectedSeatHasSession
    <3>2. t # s
      BY <2>2, <3>1 DEF u
    <3> QED BY <1>4, <2>2, <3>1, <3>2 DEF TypeOK
  <2> QED BY <1>7, <2>1, <2>2
<1>9. NoRoomNoSeats'
  BY <1>7 DEF NoRoomNoSeats, InMap, Seats
<1>10. CreatedExists'
  BY DEF CreatedExists, Nobody
<1> QED BY <1>4, <1>5, <1>6, <1>8, <1>9, <1>10, SeatsOfHall
-----------------------------------------------------------------------------
(* The commands of the main thread *)

LEMMA EnterCreatedKeeps == IInv /\ EnterCreated => IInv'
<1> SUFFICES ASSUME IInv, EnterCreated PROVE IInv'
  OBVIOUS
<1>1. PICK s \in creating.session : Enter(s, creating.room)
  BY DEF EnterCreated
<1>2. creating # Nobody
  BY <1>1 DEF Nobody
<1>3. /\ creating.room \in Rooms /\ InMap(creating.room)
      /\ s \in SessionIds /\ s \notin gone
  BY <1>1, <1>2 DEF IInv, CreatedExists, InMap, Rooms, NoTable
<1> QED BY <1>1, <1>3, EnteringKeeps DEF EnterCreated

LEMMA EnterRoomKeeps ==
  ASSUME IInv, NEW s \in SessionIds, NEW r \in Rooms, EnterRoom(s, r) PROVE IInv'
BY EnteringKeeps DEF EnterRoom, Free

LEMMA RefusedRoomKeeps ==
  ASSUME IInv, NEW s \in SessionIds, NEW r \in Rooms, RefusedRoom(s, r) PROVE IInv'
<1> DEFINE h == IF table[s] # r THEN LeftIfThere(Hall, table[s], name[s]) ELSE Hall
<1>1. HallOK(h) /\ NobodyCame(Hall, h)
  BY LeavingRoom, HallIsOK DEF NobodyCame
<1>2. HallBecomes(h)
  BY DEF RefusedRoom
<1> HIDE DEF h
<1> QED BY <1>1, <1>2, FreeingKeeps DEF RefusedRoom

LEMMA LeaveRoomKeeps ==
  ASSUME IInv, NEW s \in SessionIds, LeaveRoom(s) PROVE IInv'
<1> DEFINE h == LeftIfThere(Hall, table[s], name[s])
<1>1. HallOK(h) /\ NobodyCame(Hall, h)
  BY LeavingRoom
<1>2. HallBecomes(h)
  BY DEF LeaveRoom, LeftIfThere
<1> HIDE DEF h
<1> QED BY <1>1, <1>2, FreeingKeeps DEF LeaveRoom

LEMMA DestroyKeeps ==
  ASSUME IInv, NEW s \in SessionIds, Destroy(s) PROVE IInv'
<1> DEFINE h == LeftIfThere(Hall, table[s], name[s])
<1> USE DEF IInv, Destroy
<1>1. /\ HallOK(h) /\ NobodyCame(Hall, h) /\ HallBecomes(h)
      /\ InMap(table[s]) =>
           \A i \in Seats(table[s]) : h.on[table[s]][i] => seatUser[table[s]][i] # name[s]
  BY LeavingRoom
<1> HIDE DEF h
<1>2. TypeOK'
  <2>1. table' \in [SessionIds -> Rooms \cup {NoTable}] /\ seat' \in [SessionIds -> Int]
    BY DEF TypeOK, NoSeat
  <2>2. \A t \in SessionIds : seat'[t] \notin {NoSeat, GUEST} => seat'[t] \in Seats(table'[t])
    BY DEF TypeOK
  <2> QED BY <1>1, <2>1, <2>2, SeatsOfHall DEF TypeOK, Seats
<1>3. ASSUME NEW q \in Rooms, NEW j \in Seats(q), connected'[q][j]
      PROVE  /\ connected[q][j] /\ seatUser'[q][j] = seatUser[q][j]
             /\ InMap(q) /\ q = table[s] => seatUser[q][j] # name[s]
  BY <1>1, <1>3 DEF NobodyCame, HallBecomes, Hall
<1>4. ConnectedSeatHasSession'
  <2> SUFFICES ASSUME NEW q \in Rooms, InMap(q), NEW j \in Seats(q), connected'[q][j]
               PROVE  \E t \in SessionIds \ gone' :
                        name[t] = seatUser'[q][j] /\ table'[t] = q /\ seat'[t] = j
    BY DEF ConnectedSeatHasSession, InMap, Seats
  <2>1. PICK t \in SessionIds \ gone :
          name[t] = seatUser[q][j] /\ table[t] = q /\ seat[t] = j
    BY <1>3 DEF ConnectedSeatHasSession
  <2>2. t # s
    BY <1>3, <2>1
  <2> QED BY <1>3, <2>1, <2>2 DEF TypeOK
<1>5. NoRoomNoSeats' /\ CreatedExists'
  BY <1>3 DEF NoRoomNoSeats, CreatedExists, Free, Seats, Nobody
<1> QED BY <1>1, <1>2, <1>4, <1>5, SeatsOfHall

LEMMA CreateRoomKeeps ==
  ASSUME IInv, NEW s \in SessionIds, NEW r \in Rooms, CreateRoom(s, r) PROVE IInv'
<1> USE DEF IInv, CreateRoom, seats, sessions
<1>1. TypeOK'
  <2>1. creating' \in [session : SUBSET SessionIds, room : Rooms \cup {NoTable}]
    OBVIOUS
  <2> QED BY <2>1 DEF TypeOK, Seats
<1>2. ConnectedSeatHasSession'
  BY DEF ConnectedSeatHasSession, NoRoomNoSeats, InMap, Seats, TypeOK
<1>3. NoRoomNoSeats' /\ CreatedExists'
  BY DEF NoRoomNoSeats, CreatedExists, Seats, TypeOK, Free
<1>4. OneSeatPerUser' /\ ConnectedIsTaken'
  BY DEF OneSeatPerUser, ConnectedIsTaken, Seats
<1> QED BY <1>1, <1>2, <1>3, <1>4

LEMMA ReadyKeeps ==
  ASSUME IInv, NEW s \in SessionIds, NEW b \in BOOLEAN, Ready(s, b) PROVE IInv'
<1> USE DEF IInv, Ready, sessions
<1>1. TypeOK'
  <2>1. \A r \in Rooms : ready'[r] \in [Seats(r) -> BOOLEAN]
    <3>1. \A r \in Rooms : ready'[r] = IF r = table[s] THEN [ready[r] EXCEPT ![seat[s]] = b] ELSE ready[r]
      BY DEF TypeOK
    <3> QED BY <3>1 DEF TypeOK
  <2> QED BY <2>1 DEF TypeOK, Seats
<1>2. ConnectedSeatHasSession' /\ NoRoomNoSeats' /\ CreatedExists'
  BY DEF ConnectedSeatHasSession, NoRoomNoSeats, CreatedExists, InMap, Seats, Nobody
<1>3. OneSeatPerUser' /\ ConnectedIsTaken'
  BY DEF OneSeatPerUser, ConnectedIsTaken, Seats
<1> QED BY <1>1, <1>2, <1>3

LEMMA DeleteRoomKeeps ==
  ASSUME IInv, NEW r \in Rooms, DeleteRoom(r) PROVE IInv'
<1> USE DEF IInv, DeleteRoom, sessions
<1>1. TypeOK'
  BY DEF TypeOK, Seats
<1>2. \A q \in Rooms : q # r =>
        life'[q] = life[q] /\ connected'[q] = connected[q] /\ seatUser'[q] = seatUser[q]
  BY DEF TypeOK
<1>3. /\ life'[r] = "deleted" /\ connected'[r] = [i \in Seats(r) |-> FALSE]
      /\ seatUser'[r] = [i \in Seats(r) |-> NoUser]
  BY DEF TypeOK
<1>4. ConnectedSeatHasSession'
  BY <1>2, <1>3 DEF ConnectedSeatHasSession, InMap, Seats
<1> HIDE DEF DeleteRoom
<1>5. NoRoomNoSeats' /\ CreatedExists'
  <2>1. NoRoomNoSeats'
    <3> SUFFICES ASSUME NEW q \in Rooms, life'[q] \in {"none", "deleted"}, NEW i \in Seats(q)
                 PROVE  ~connected'[q][i]
      BY DEF NoRoomNoSeats, Seats
    <3>1. CASE q = r BY <1>3, <3>1
    <3>2. CASE q # r BY <1>2, <3>2 DEF NoRoomNoSeats
    <3> QED BY <3>1, <3>2
  <2>2. creating' = Nobody
    BY DEF DeleteRoom
  <2>3. Nobody' = Nobody
    BY DEF Nobody, NoTable
  <2> QED BY <2>1, <2>2, <2>3 DEF CreatedExists
<1>6. OneSeatPerUser' /\ ConnectedIsTaken'
  <2>1. OneSeatPerUser'
    <3> SUFFICES ASSUME NEW q \in Rooms, NEW i \in Seats(q), NEW j \in Seats(q),
                        seatUser'[q][i] = seatUser'[q][j], i # j
                 PROVE  seatUser'[q][i] = NoUser
      BY DEF OneSeatPerUser, Seats
    <3>1. CASE q = r BY <1>3, <3>1
    <3>2. CASE q # r BY <1>2, <3>2 DEF OneSeatPerUser
    <3> QED BY <3>1, <3>2
  <2>2. ConnectedIsTaken'
    <3> SUFFICES ASSUME NEW q \in Rooms, NEW i \in Seats(q), connected'[q][i]
                 PROVE  seatUser'[q][i] # NoUser
      BY DEF ConnectedIsTaken, Seats
    <3>1. CASE q = r BY <1>3, <3>1
    <3>2. CASE q # r BY <1>2, <3>2 DEF ConnectedIsTaken
    <3> QED BY <3>1, <3>2
  <2> QED BY <2>1, <2>2
<1> QED BY <1>1, <1>4, <1>5, <1>6
-----------------------------------------------------------------------------
(* The game thread of a room: it reads the seats and changes none *)

LEMMA GameThreadKeeps ==
  ASSUME IInv, NEW r \in Rooms, GameStep(r) \/ GameEnds(r) PROVE IInv'
<1> USE DEF IInv, seats, sessions, GameStep, GameEnds, Count, Lobby, StartPlaying, GoesTo, Ends
<1>1. UNCHANGED <<seats, sessions, creating>>
  OBVIOUS
<1>2. life' = life \/ life' = [life EXCEPT ![r] = "dead"]
  OBVIOUS
<1>3. TypeOK'
  <2>1. life' \in [Rooms -> {"none", "open", "dead", "deleted"}]
    BY <1>2 DEF TypeOK
  <2>2. \/ gpc' = [gpc EXCEPT ![r] = "end"] \/ gpc' = [gpc EXCEPT ![r] = "lobby"]
        \/ gpc' = [gpc EXCEPT ![r] = "arrange"] \/ gpc' = [gpc EXCEPT ![r] = "count"]
    OBVIOUS
  <2>3. gpc' \in [Rooms -> {"none", "count", "lobby", "arrange", "end"}]
    <3> HIDE DEF GameStep, GameEnds
    <3>1. PICK pc \in {"count", "lobby", "arrange", "end"} : gpc' = [gpc EXCEPT ![r] = pc]
      BY <2>2
    <3> QED BY <3>1 DEF TypeOK
  <2>4. playing' = playing \/ playing' = [playing EXCEPT ![r] = TRUE]
    OBVIOUS
  <2>5. playing' \in [Rooms -> BOOLEAN]
    BY <2>4 DEF TypeOK
  <2> QED BY <1>1, <2>1, <2>3, <2>5 DEF TypeOK, Seats
<1> HIDE DEF GameStep, GameEnds
<1>4. ConnectedSeatHasSession' /\ NoRoomNoSeats' /\ CreatedExists'
  <2>1. \A q \in Rooms : q # r => life'[q] = life[q]
    BY <1>2 DEF TypeOK
  <2>2. life'[r] \in {life[r], "dead"}
    BY <1>2 DEF TypeOK
  <2>3. ConnectedSeatHasSession'
    <3> SUFFICES ASSUME NEW q \in Rooms, InMap(q)', NEW j \in Seats(q), connected[q][j]
                 PROVE  \E t \in SessionIds \ gone :
                          name[t] = seatUser[q][j] /\ table[t] = q /\ seat[t] = j
      BY <1>1 DEF ConnectedSeatHasSession, Seats
    <3>1. life[q] \in {"none", "open", "dead", "deleted"}
      BY DEF TypeOK
    <3>2. life[q] \in {"open", "dead"}
      BY <3>1 DEF NoRoomNoSeats
    <3> QED BY <3>2 DEF ConnectedSeatHasSession, InMap
  <2>4. NoRoomNoSeats' /\ CreatedExists'
    BY <1>1, <2>1, <2>2 DEF NoRoomNoSeats, CreatedExists, Seats, Nobody
  <2> QED BY <2>3, <2>4
<1>5. OneSeatPerUser' /\ ConnectedIsTaken'
  BY <1>1 DEF OneSeatPerUser, ConnectedIsTaken, Seats
<1> QED BY <1>3, <1>4, <1>5
-----------------------------------------------------------------------------
LEMMA NextInv == IInv /\ [Next]_vars => IInv'
<1> SUFFICES ASSUME IInv, [Next]_vars PROVE IInv'
  OBVIOUS
<1>1. CASE Next
  BY <1>1, EnterCreatedKeeps, LeaveRoomKeeps, DestroyKeeps, CreateRoomKeeps, EnterRoomKeeps,
     RefusedRoomKeeps, ReadyKeeps, DeleteRoomKeeps, GameThreadKeeps DEF Next
<1>2. CASE UNCHANGED vars
  <2> USE <1>2 DEF vars, IInv
  <2>1. TypeOK'
    BY DEF TypeOK, Seats
  <2>2. ConnectedSeatHasSession' /\ NoRoomNoSeats' /\ CreatedExists'
    BY DEF ConnectedSeatHasSession, NoRoomNoSeats, CreatedExists, InMap, Seats, Nobody
  <2>3. OneSeatPerUser' /\ ConnectedIsTaken'
    BY DEF OneSeatPerUser, ConnectedIsTaken, Seats
  <2> QED BY <2>1, <2>2, <2>3
<1> QED BY <1>1, <1>2

LEMMA Invariant == Spec => []IInv
BY InitInv, NextInv, PTL DEF Spec

\* The fields keep their types: above all, the seat a session remembers is one of the
\* room it remembers, whatever rooms it was refused or left.
THEOREM TypeCorrect == Spec => []TypeOK
<1>1. IInv => TypeOK
  BY DEF IInv
<1> QED BY <1>1, Invariant, PTL

\* A user never has two seats of a room, with however many connections.
THEOREM SeatsAreUnique == Spec => []OneSeatPerUser
<1>1. IInv => OneSeatPerUser
  BY DEF IInv
<1> QED BY <1>1, Invariant, PTL

\* A connected seat has a session of its user that is in the room and answers for it.
THEOREM SeatHasSession == Spec => []ConnectedSeatHasSession
<1>1. IInv => ConnectedSeatHasSession
  BY DEF IInv
<1> QED BY <1>1, Invariant, PTL
=============================================================================
