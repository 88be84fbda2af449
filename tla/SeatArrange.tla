---------------------------- MODULE SeatArrange -----------------------------
(***************************************************************************)
(* Teams are chosen in the lobby by the main thread (setTeam, onUserLeave) *)
(* while the game thread arranges the seats: it copies one list of players *)
(* after the other, gives a team to who has none, draws the colours of the *)
(* seats and sits the players down (StateSeatArrange).  Nothing locks the  *)
(* two lists, and setTeam does not ask whether the game has begun.  The    *)
(* lists are sets: their order is lost when they are shuffled.  A room may *)
(* be created with any mode for any number of players, also with one whose *)
(* colours are not even for that number.                                   *)
(***************************************************************************)
EXTENDS Integers, FiniteSets, SequencesExt

CONSTANTS
  Ids,         \* the numbers of the players, which are only names here
  Modes,       \* the seat modes the room may be created with
  MaxMoves     \* bound: how often players choose a team or leave

MaxPlayers == Cardinality(Ids)   \* m_maxPlayers

ASSUME IdsAssumption == IsFiniteSet(Ids) /\ MaxPlayers \in {4, 6, 8}
ASSUME MovesAssumption == MaxMoves \in Nat

SeatModes == {"RANDOM", "2COMBO", "3COMBO", "INTERLACE", "RBBRRB"}

ASSUME ModesAssumption == Modes \subseteq SeatModes

VARIABLES
  teamA, teamB,  \* the players who have chosen a team
  setting,       \* the call of setTeam that has taken its player off both lists
  moves,         \* how many calls there were
  mode,          \* m_seatMode
  pc,            \* where the game thread is
  red, blue,     \* red_l and blue_l, then StateSeatArrange::red and blue
  colors,        \* the colours of the seats
  seated,        \* room_info: the players of the seats so far
  atStart,       \* history: the team of each player when the copying began
  moved          \* history: who was on the move while the lists were copied

lists == <<teamA, teamB>>
game  == <<red, blue, colors, seated>>
vars  == <<lists, setting, moves, mode, pc, game, atStart, moved>>

Half  == MaxPlayers \div 2
Idle  == {}

TypeOK ==
  /\ teamA \subseteq Ids /\ teamB \subseteq Ids
  /\ setting \in {Idle} \cup {{[id |-> i, team |-> t]} : i \in Ids, t \in {"A", "B", "RANDOM"}}
  /\ moves \in 0 .. MaxMoves /\ mode \in Modes
  /\ pc \in {"lobby", "arrange", "copyA", "copyB", "fill", "color", "seat", "done", "broken"}
  /\ red \subseteq Ids /\ blue \subseteq Ids
  /\ colors \in Seq({0, 1}) /\ seated \in Seq([id : Ids, team : {0, 1}])
  /\ atStart \in [Ids -> {"A", "B", "none"}] /\ moved \subseteq Ids

Init ==
  /\ teamA = {} /\ teamB = {} /\ setting = Idle /\ moves = 0
  /\ mode \in Modes
  /\ pc = "lobby"
  /\ red = {} /\ blue = {}
  /\ colors = <<>> /\ seated = <<>>
  /\ atStart = [i \in Ids |-> "none"] /\ moved = {}
-----------------------------------------------------------------------------
(* The main thread *)

Copying == pc = "copyB"

\* Nothing reads the lists once they are copied: no call is tried after that.
MayMove == setting = Idle /\ moves < MaxMoves /\ pc \in {"lobby", "arrange", "copyA", "copyB"}
Moving(i) == moved' = IF Copying THEN moved \cup {i} ELSE moved

\* setTeam takes the player off both lists,
SetTeam(i, t) ==
  /\ MayMove
  /\ teamA' = teamA \ {i} /\ teamB' = teamB \ {i}
  /\ setting' = {[id |-> i, team |-> t]}
  /\ moves' = moves + 1
  /\ Moving(i)
  /\ UNCHANGED <<mode, pc, game, atStart>>

\* mutant: the size of the list is not looked at
Joined_Always ==
  \E s \in setting :
    /\ teamA' = IF s.team = "A" THEN teamA \cup {s.id} ELSE teamA
    /\ teamB' = IF s.team = "B" THEN teamB \cup {s.id} ELSE teamB

\* then onto the list of the wanted team, unless that is full; nobody is told of
\* a player who was taken off and not put on.
Joined ==
  \E s \in setting :
    /\ teamA' = IF s.team = "A" /\ Cardinality(teamA) < Half
                THEN teamA \cup {s.id} ELSE teamA
    /\ teamB' = IF s.team = "B" /\ Cardinality(teamB) < Half
                THEN teamB \cup {s.id} ELSE teamB

JoinTeam ==
  /\ setting # Idle
  /\ Joined
  /\ setting' = Idle
  /\ \A s \in setting : Moving(s.id)
  /\ UNCHANGED <<moves, mode, pc, game, atStart>>

Playing == pc \notin {"lobby", "arrange"}

\* onUserLeave: before the game begins the player also leaves the team.
Leave(i) ==
  /\ MayMove /\ ~Playing
  /\ i \in teamA \cup teamB
  /\ teamA' = teamA \ {i} /\ teamB' = teamB \ {i}
  /\ moves' = moves + 1
  /\ UNCHANGED <<setting, mode, pc, game, atStart, moved>>
-----------------------------------------------------------------------------
(* The game thread *)

\* StateWaitForEnter has found everybody ready.
AllReady ==
  /\ pc = "lobby"
  /\ pc' = "arrange"
  /\ UNCHANGED <<lists, setting, moves, mode, game, atStart, moved>>

\* playing = true
StartPlaying ==
  /\ pc = "arrange"
  /\ pc' = "copyA"
  /\ UNCHANGED <<lists, setting, moves, mode, game, atStart, moved>>

\* red_l = teamA; a player whom setTeam has off the lists just now is on the move.
CopyA ==
  /\ pc = "copyA"
  /\ red' = teamA
  /\ pc' = "copyB"
  /\ atStart' = [i \in Ids |-> IF i \in teamA THEN "A" ELSE IF i \in teamB THEN "B" ELSE "none"]
  /\ moved' = {s.id : s \in setting}
  /\ UNCHANGED <<lists, setting, moves, mode, blue, colors, seated>>

CopyB ==
  /\ pc = "copyB"
  /\ blue' = teamB
  /\ pc' = "fill"
  /\ UNCHANGED <<lists, setting, moves, mode, red, colors, seated,
                 atStart, moved>>

AtMost(n, S) == kSubset(Max({0, Min({n, Cardinality(S)})}), S)

\* mutant: who has chosen blue counts as without a team
NoTeam_OfRed(r, b) == Ids \ r

NoTeam(r, b) == Ids \ (r \cup b)

\* The rest of assignTeam: which list is red is drawn, then those without a team
\* fill the red list and after it the blue one, in an order that is drawn as well.
Fill ==
  /\ pc = "fill"
  /\ \E r \in {red, blue} : LET b == IF r = red THEN blue ELSE red IN
       \E toRed \in AtMost(Half - Cardinality(r), NoTeam(r, b)) :
       \E toBlue \in AtMost(Half - Cardinality(b), NoTeam(r, b) \ toRed) :
         red' = r \cup toRed /\ blue' = b \cup toBlue
  /\ pc' = "color"
  /\ UNCHANGED <<lists, setting, moves, mode, colors, seated, atStart, moved>>

Interlace(n) == [i \in 1 .. n |-> i % 2]

\* mutant: the seat to swap is drawn from all of them
Combo2_AnySeat(n) ==
  {[Interlace(n) EXCEPT ![i] = 1 - @, ![IF i = 1 THEN n ELSE i - 1] = 1 - @] : i \in 1 .. n}

\* One of the third seat to the last is swapped with the seat before it.
Combo2(n) == {[Interlace(n) EXCEPT ![i] = 1 - @, ![i - 1] = 1 - @] : i \in 3 .. n}

\* assignColor: the colours that may be drawn, 1 for red.  Red is first.
AssignColor(m, n) ==
  CASE m = "RANDOM"    -> {c \in [1 .. n -> {0, 1}] :
                             c[1] = 1 /\ Cardinality({i \in 1 .. n : c[i] = 1}) = n \div 2}
    [] m = "2COMBO"    -> Combo2(n)
    [] m = "3COMBO"    -> {[i \in 1 .. 6 |-> IF (i - 1 + k) % 6 < 3 THEN 1 ELSE 0] : k \in 0 .. 2}
    [] m = "INTERLACE" -> {Interlace(n)}
    [] m = "RBBRRB"    -> {<<1, 0, 0, 1, 1, 0>>}

Color ==
  /\ pc = "color"
  /\ colors' \in AssignColor(mode, MaxPlayers)
  /\ pc' = "seat"
  /\ UNCHANGED <<lists, setting, moves, mode, red, blue, seated, atStart, moved>>

ListOf(c) == IF c = 1 THEN red ELSE blue

\* There is no colour for the next seat, or nobody on the list of its colour.
RunsOut ==
  LET k == Len(seated) + 1
  IN  k > Len(colors) \/ ListOf(colors[k]) = {}

\* One round of the loop of handle: the last of the shuffled list of that colour
\* sits down.  Reading past the end of the colours, and back() of an empty list, are
\* undefined.
Sit ==
  /\ pc = "seat"
  /\ \/ RunsOut /\ pc' = "broken" /\ UNCHANGED <<red, blue, seated>>
     \/ LET c == colors[Len(seated) + 1] IN
        /\ ~RunsOut
        /\ \E i \in ListOf(c) :
             /\ red' = IF c = 1 THEN red \ {i} ELSE red
             /\ blue' = IF c = 1 THEN blue ELSE blue \ {i}
             /\ seated' = Append(seated, [id |-> i, team |-> c])
             /\ pc' = IF Len(seated) + 1 = MaxPlayers THEN "done" ELSE "seat"
  /\ UNCHANGED <<lists, setting, moves, mode, colors, atStart, moved>>

Next ==
  \/ \E i \in Ids : Leave(i) \/ \E t \in {"A", "B", "RANDOM"} : SetTeam(i, t)
  \/ JoinTeam
  \/ AllReady \/ StartPlaying \/ CopyA \/ CopyB \/ Fill \/ Color \/ Sit

Spec == Init /\ [][Next]_vars
-----------------------------------------------------------------------------
(* Properties *)

SeatsOf(i) == {k \in 1 .. Len(seated) : seated[k].id = i}

\* The modes that give as many seats to one side as to the other, for n players.
ModesFor(n) ==
  CASE n = 4 -> SeatModes \ {"3COMBO"}
    [] n = 6 -> SeatModes
    [] n = 8 -> SeatModes \ {"3COMBO", "RBBRRB"}

\* Whatever teams are chosen while they are copied, the lists run out of players only
\* in a mode that is not for so many of them.  When all seats are taken half of them
\* are red, and every player has one, unless somebody changed teams in the moment
\* between the copies of the two lists: then one player may have two and another none.
EverybodySits ==
  /\ pc = "broken" => mode \notin ModesFor(MaxPlayers)
  /\ pc = "done" =>
       /\ Cardinality({k \in 1 .. MaxPlayers : seated[k].team = 1}) = Half
       /\ moved = {} => \A i \in Ids : Cardinality(SeatsOf(i)) = 1

\* Whatever the others do meanwhile, players who had chosen a team and stayed in
\* it sit: those of one team on the same side, those of different teams on
\* different sides, however full the teams became.
TeamsAreKept ==
  pc = "done" =>
    \A i, j \in {k \in Ids \ moved : atStart[k] # "none"} :
      /\ SeatsOf(i) # {}
      /\ \A k \in SeatsOf(i), l \in SeatsOf(j) :
           (seated[k].team = seated[l].team) <=> (atStart[i] = atStart[j])

\* n players find n colours, half of them red.
IsEven(n, c) == Len(c) >= n /\ Cardinality({i \in 1 .. n : c[i] = 1}) * 2 = n

\* Which modes are even for how many players, whatever is drawn: all of them for six,
\* but not for four or eight, and so are the colours this room has drawn.  The first
\* seat is red, and two in a row really has two of a side next to each other.
ModesFit ==
  /\ \A n \in {4, 6, 8} : \A m \in SeatModes :
       /\ (m \in ModesFor(n)) <=> (\A c \in AssignColor(m, n) : IsEven(n, c))
       /\ \A c \in AssignColor(m, n) :
            c[1] = 1 /\ (m = "2COMBO" => \E i \in 1 .. n - 1 : c[i] = c[i + 1])
  /\ pc \in {"seat", "done"} /\ mode \in ModesFor(MaxPlayers) => IsEven(MaxPlayers, colors)
=============================================================================
