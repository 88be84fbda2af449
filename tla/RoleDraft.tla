----------------------------- MODULE RoleDraft ------------------------------
(***************************************************************************)
(* How the players of a game get their roles: the five role strategies and *)
(* the election of the captains that goes before CM.  Each is a state      *)
(* whose handler runs again from its beginning when a wait is interrupted  *)
(* by a player who returns, or when nobody answers; what it keeps is in    *)
(* the members of the state.  The waits themselves are in WaitNotify: here *)
(* an answer counts from the moment it is stored.  What a player sends is  *)
(* not looked at: any number is taken for a role, offered or not.          *)
(***************************************************************************)
EXTENDS Integers, FiniteSets, SequencesExt

CONSTANTS
  Strategies,  \* the role strategies to look at
  Seating,     \* room_info after StateSeatArrange: the players by seat
  Numbers,     \* what may be in role_ids(0)
  Created,     \* the numbers createRole knows
  Roles,       \* the numbers of the roles of the game
  Decks,       \* the orders in which initRoles may leave them
  Wish(_, _),  \* bound: what a player may send when a set of roles is offered
  MaxInterrupts  \* bound: how often somebody returns while all are asked

NumPlayers == Len(Seating)
Players == 0 .. NumPlayers - 1
RED  == 1
BLUE == 0
Colors == {RED, BLUE}

OptionNum == 5
AlternativeNum == <<12, 16, 20>>[NumPlayers \div 2 - 1]   \* BP_ALTERNATIVE_NUM

\* What StateSeatArrange leaves: every player on a seat, half of them red.
FairSeating(seats, players) ==
  /\ Len(seats) \in {4, 6, 8}
  /\ seats \in Seq([id : players, team : Colors])
  /\ {seats[k].id : k \in 1 .. Len(seats)} = players
  /\ Cardinality({k \in 1 .. Len(seats) : seats[k].team = RED}) * 2 = Len(seats)

ASSUME SeatingAssumption == FairSeating(Seating, Players)

\* The nine steps of CM are written for three players a side, the options of 31
\* want five roles for each player, and in ANY the number of a player is also that
\* of a role.
ASSUME StrategyAssumption ==
  /\ Strategies \subseteq {"RANDOM", "31", "ANY", "BP", "CM"}
  /\ "CM" \in Strategies => NumPlayers = 6
  /\ "31" \in Strategies => OptionNum * NumPlayers <= Cardinality(Roles)
  /\ "ANY" \in Strategies => 1 .. NumPlayers \subseteq Roles

ASSUME DecksAssumption ==
  /\ Roles \subseteq Created /\ Created \subseteq Numbers /\ Numbers \subseteq Nat \ {0}
  /\ IsFiniteSet(Roles) /\ Cardinality(Roles) >= AlternativeNum
  /\ \A d \in Decks : d \in [1 .. Cardinality(Roles) -> Roles] /\ IsInjective(d)

ASSUME InterruptsAssumption == MaxInterrupts \in Nat

VARIABLES
  strategy,   \* m_roleStrategy
  top,        \* the state on top: the election, the strategy, or StateGameStart
  phase,      \* its handler is about to run, or waits for an answer
  isSet,      \* the member of that name: the handler has run before
  answers,    \* the reply of each player, while m_ready says there is one
  options,    \* of each player, in 31
  alternatives, mark, \* alternativeRoles of BP and CM, and options[] there
  step, decided, mayIB, \* of BP and CM; ibr and ibb
  leader,     \* the captains
  role,       \* role_id of each player in room_info
  stray,      \* ghost: the players who have sent a number they were not offered
  interrupts

draft == <<alternatives, mark, step, decided, mayIB>>
draftVars  == <<strategy, top, phase, isSet, answers, options, draft, leader, role, stray,
                interrupts>>

NoAnswer == -1
No  == 0    \* respond->yes() of the election
Yes == 1
NoRole   == 0

TeamOf(i) == (CHOOSE s \in Range(Seating) : s.id = i).team
Side(c) == {i \in Players : TeamOf(i) = c}

DraftTypeOK ==
  /\ strategy \in Strategies
  /\ top \in {"election", "strategy", "start"} /\ phase \in {"handle", "wait"}
  /\ isSet \in BOOLEAN
  /\ answers \in [Players -> Numbers \cup {NoAnswer, No, Yes}]
  /\ options \in [Players -> Seq(Roles)]
  /\ alternatives \subseteq Roles /\ mark \in [alternatives -> 0 .. 2 * NumPlayers]
  /\ step \in 0 .. 2 * NumPlayers + 1 /\ decided \in BOOLEAN /\ mayIB \in [Colors -> BOOLEAN]
  /\ leader \in [Players -> BOOLEAN] /\ role \in [Players -> Numbers \cup {NoRole}]
  /\ stray \subseteq Players
  /\ interrupts \in 0 .. MaxInterrupts

Nobody == [i \in Players |-> NoAnswer]

\* setStateRoleStrategy
DraftInit ==
  /\ strategy \in Strategies
  /\ top = (IF strategy = "CM" THEN "election" ELSE "strategy")
  /\ phase = "handle" /\ isSet = FALSE
  /\ answers = Nobody
  /\ options = [i \in Players |-> <<>>]
  /\ alternatives = {} /\ mark = <<>>
  /\ step = 0 /\ decided = FALSE /\ mayIB = [c \in Colors |-> TRUE]
  /\ leader = [i \in Players |-> FALSE] /\ role = [i \in Players |-> NoRole]
  /\ stray = {} /\ interrupts = 0
-----------------------------------------------------------------------------
(* Player i answers with the number n where S is offered. *)
Sends(i, n, S) ==
  /\ n \in Numbers \cap Wish(i, S)
  /\ stray' = IF n \in S THEN stray ELSE stray \cup {i}

(* Questions to all the players: the election, 31 and ANY *)

AsksAll == top = "election" \/ (top = "strategy" /\ strategy \in {"31", "ANY"})

\* mutant: the options are dealt whenever the handler runs
Deal31_Again ==
  \E d \in Decks :
    options' = [i \in Players |-> SubSeq(d, OptionNum * i + 1, OptionNum * (i + 1))]

\* Five roles each from one deck, once
Deal31 ==
  IF isSet THEN options' = options
  ELSE \E d \in Decks :
         options' = [i \in Players |-> SubSeq(d, OptionNum * i + 1, OptionNum * (i + 1))]

\* The handler up to waitForAll.  Answers of before an interruption stay.
AskAll ==
  /\ AsksAll /\ phase = "handle"
  /\ IF strategy = "31" THEN Deal31 ELSE options' = options
  /\ answers' = IF isSet THEN answers ELSE Nobody     \* resetReady(-1)
  /\ isSet' = TRUE
  /\ phase' = "wait"
  /\ UNCHANGED <<strategy, top, draft, leader, role, stray, interrupts>>

Offered(i) == IF strategy = "31" THEN Range(options[i]) ELSE Roles

\* tryNotify; a second answer to the same question replaces the first.
AnswerAll(i) ==
  /\ AsksAll /\ phase = "wait"
  /\ \/ top = "election" /\ \E a \in {No, Yes} : answers' = [answers EXCEPT ![i] = a]
                         /\ stray' = stray
     \/ top = "strategy" /\ \E n \in Numbers : Sends(i, n, Offered(i))
                                             /\ answers' = [answers EXCEPT ![i] = n]
  /\ UNCHANGED <<strategy, top, phase, isSet, options, draft, leader, role, interrupts>>

\* A player returns: falseNotify interrupts the wait and GameRun calls the handler
\* again.
Interrupt ==
  /\ AsksAll /\ phase = "wait" /\ interrupts < MaxInterrupts
  /\ interrupts' = interrupts + 1
  /\ phase' = "handle"
  /\ UNCHANGED <<strategy, top, isSet, answers, options, draft, leader, role, stray>>

Answered(i) == answers[i] # NoAnswer

\* mutant: there is no time-out
WaitIsOver_OnlyByAnswers == \A i \in Players : Answered(i)

\* waitForAll returns when all have answered, and else after the last time-out.
WaitIsOver == TRUE

\* mutant: who wants to be captain is taken for one of the other side
Candidates_AnySide(c) ==
  LET volunteers == {i \in Players : answers[i] = Yes} IN
  IF volunteers # {} THEN volunteers ELSE Side(c)

\* Those of a side who said yes, or all of it if nobody did.
Candidates(c) ==
  LET volunteers == {i \in Side(c) : answers[i] = Yes} IN
  IF volunteers # {} THEN volunteers ELSE Side(c)

\* StateLeaderElection after the wait
LeaderElection ==
  /\ top = "election" /\ phase = "wait" /\ WaitIsOver
  /\ \E r \in Candidates(RED), b \in Candidates(BLUE) :
       leader' = [i \in Players |-> i \in {r, b}]
  /\ top' = "strategy" /\ phase' = "handle" /\ isSet' = FALSE
  /\ UNCHANGED <<strategy, answers, options, draft, role, stray, interrupts>>

\* initPlayerEntities, then StateGameStart.  createRole throws at a number it does not
\* know: the state stays and its handler runs again, and throws again in BP and CM,
\* until GameRun takes the state off.
Starts ==
  /\ phase' = "handle"
  /\ IF \A i \in Players : role'[i] \in Created
     THEN top' = "start" /\ isSet' = FALSE
     ELSE UNCHANGED <<top, isSet>>

\* StateRoleStrategy31 and StateRoleStrategyAny after the wait: who has not
\* answered gets the first option, or the role with the number of the seat.
RoleStrategyAll ==
  /\ top = "strategy" /\ strategy \in {"31", "ANY"} /\ phase = "wait" /\ WaitIsOver
  /\ role' = [i \in Players |-> IF Answered(i) THEN answers[i]
                            ELSE IF strategy = "31" THEN options[i][1] ELSE i + 1]
  /\ Starts
  /\ UNCHANGED <<strategy, answers, options, draft, leader, stray, interrupts>>

\* StateRoleStrategyRandom
RoleStrategyRandom ==
  /\ top = "strategy" /\ strategy = "RANDOM"
  /\ \E d \in Decks : role' = [i \in Players |-> d[i + 1]]
  /\ Starts
  /\ UNCHANGED <<strategy, answers, options, draft, leader, stray, interrupts>>
-----------------------------------------------------------------------------
(* Questions to one player after the other: BP and CM *)

LastStep == IF strategy = "BP" THEN 2 * NumPlayers ELSE 9

OneByOne == top = "strategy" /\ strategy \in {"BP", "CM"}
InLoop   == OneByOne /\ step \in 1 .. LastStep

\* step 0: the alternatives are drawn.
DrawAlternatives ==
  /\ OneByOne /\ step = 0
  /\ \E d \in Decks : alternatives' = Range(SubSeq(d, 1, AlternativeNum))
  /\ mark' = [r \in alternatives' |-> 0]
  /\ step' = 1
  /\ UNCHANGED <<strategy, top, phase, isSet, answers, options, decided, mayIB, leader, role,
                 stray, interrupts>>

\* The handler up to waitForOne.  It is the same when it runs again because nobody
\* has answered (AskAgain).
AskOne ==
  /\ InLoop /\ phase = "handle"
  /\ answers' = Nobody     \* resetReady: older answers are not looked at any more
  /\ phase' = "wait"
  /\ UNCHANGED <<strategy, top, isSet, options, draft, leader, role, stray, interrupts>>

AskAgain ==
  /\ InLoop /\ phase = "wait"
  /\ phase' = "handle"
  /\ UNCHANGED <<strategy, top, isSet, answers, options, draft, leader, role, stray, interrupts>>

\* What is offered: the alternatives nobody has banned or picked.
Unmarked == {r \in alternatives : mark[r] = 0}

\* options[i] = m, for the alternative of this number if there is one
MarkedAs(n, m) == [r \in alternatives |-> IF r = n THEN m ELSE mark[r]]

\* The end of a round of the loop
NextStep ==
  /\ step' = step + 1
  /\ IF step = LastStep THEN Starts
     ELSE phase' = "handle" /\ UNCHANGED <<top, isSet>>

\* red[k] or blue[k]: the seats of a side, in their order, are counted from 0.
Before(s, c) == Cardinality({t \in 1 .. s - 1 : Seating[t].team = c})
Nth(c, k) ==
  Seating[CHOOSE s \in 1 .. NumPlayers : Seating[s].team = c /\ Before(s, c) = k].id

\* whose turn it is in step s of BP, and whether to ban or to pick
BPSeat(s) == Nth(s % 2, (s - 1) \div 4)
IsPick(s) == ((s - 1) \div 2) % 2 = 1

BP ==
  /\ InLoop /\ strategy = "BP" /\ phase = "wait"
  /\ \E n \in Numbers :
       /\ Sends(BPSeat(step), n, Unmarked)
       /\ mark' = MarkedAs(n, step)
       /\ role' = IF IsPick(step) THEN [role EXCEPT ![BPSeat(step)] = n] ELSE role
  /\ NextStep
  /\ UNCHANGED <<strategy, answers, options, alternatives, decided, mayIB, leader, interrupts>>

\* The marks of CM, after options[i] -= 10
RED_BAN  == 2
BLUE_BAN == 5
IB(c)    == IF c = RED THEN 3 ELSE 6
PICKED(c)  == IF c = RED THEN 4 ELSE 7

InCM == InLoop /\ strategy = "CM" /\ phase = "wait"

\* idr and idb
Captain(c) == CHOOSE i \in Side(c) : leader[i]

\* Step 1: the red captain bans; steps 2 and 3: the blue one.
CMBan ==
  /\ InCM /\ step \in 1 .. 3
  /\ \E n \in Numbers :
       /\ Sends(Captain(IF step = 1 THEN RED ELSE BLUE), n, Unmarked)
       /\ mark' = MarkedAs(n, IF step = 1 THEN RED_BAN ELSE BLUE_BAN)
  /\ NextStep
  /\ UNCHANGED <<strategy, answers, options, alternatives, decided, mayIB, leader, role, interrupts>>

\* Steps 4 to 9: whose side picks
Picking == IF step % 2 = 0 THEN RED ELSE BLUE
Other(c) == 1 - c

\* mutant: ibr and ibb stay as they are
IBSpent_Never(c) == mayIB

IBSpent(c) == [mayIB EXCEPT ![c] = FALSE]

NoBan == 100   \* chosen of who declines

\* Before a pick the captain of the other side may ban once more, once in a game.
CMInterruptBan ==
  LET c == Other(Picking) IN
  /\ InCM /\ step > 3 /\ mayIB[c] /\ ~decided
  /\ decided' = TRUE
  /\ \/ UNCHANGED <<mark, mayIB, stray>>
     \/ \E n \in Numbers \ {NoBan} :
          /\ Sends(Captain(c), n, Unmarked)
          /\ mark' = MarkedAs(n, IB(c))
          /\ mayIB' = IBSpent(c)
  /\ phase' = "handle"
  /\ UNCHANGED <<strategy, top, isSet, answers, options, alternatives, step, leader, role, interrupts>>

CMPick ==
  /\ InCM /\ step > 3 /\ (~mayIB[Other(Picking)] \/ decided)
  /\ decided' = FALSE
  /\ \E n \in Numbers :
       /\ Sends(Captain(Picking), n, Unmarked)
       /\ mark' = MarkedAs(n, PICKED(Picking))
       /\ role' = [role EXCEPT ![Nth(Picking, (step - 4) \div 2)] = n]
  /\ NextStep
  /\ UNCHANGED <<strategy, answers, options, alternatives, mayIB, leader, interrupts>>

DraftNext ==
  \/ AskAll \/ Interrupt \/ LeaderElection \/ RoleStrategyAll \/ RoleStrategyRandom
  \/ \E i \in Players : AnswerAll(i)
  \/ DrawAlternatives \/ AskOne \/ AskAgain
  \/ BP \/ CMBan \/ CMInterruptBan \/ CMPick

DraftSpec == DraftInit /\ [][DraftNext]_draftVars

\* The game thread runs and its waits time out; nothing is asked of the players.
FairSpec ==
  /\ DraftSpec
  /\ WF_draftVars(AskAll) /\ WF_draftVars(LeaderElection) /\ WF_draftVars(RoleStrategyAll)
  /\ WF_draftVars(RoleStrategyRandom) /\ WF_draftVars(DrawAlternatives)
-----------------------------------------------------------------------------
(* Properties *)

Marked(m) == Cardinality({r \in alternatives : mark[r] = m})
Banned == {r \in alternatives : mark[r] # 0} \ Range(role)

\* who chooses the role of each player: in CM the captain of the side
chooser == [i \in Players |-> IF strategy = "CM" THEN Captain(TeamOf(i)) ELSE i]

\* When the game starts, two players have the same role only if one of the two who
\* chose it has sent a number that was not offered, whatever the others sent and
\* whether they chose before an interruption or after it; except in ANY, where they
\* may wish for the same one.  Who took what was offered has a role of the game.
RolesDistinct ==
  top = "start" =>
    /\ \A i \in Players : chooser[i] \notin stray => role[i] \in Roles
    /\ strategy # "ANY" => \A i, j \in Players :
         (i # j /\ role[i] = role[j]) => chooser[i] \in stray \/ chooser[j] \in stray
    /\ strategy = "31" => \A i \in Players \ stray : role[i] \in Range(options[i])

\* at most n, and n exactly as long as nobody has sent what was not offered
Limit(count, n) == count <= n /\ (stray = {} => count = n)

\* A draft is even: in BP a side bans one role for each of its players, and everybody
\* bans once and picks once; in CM red bans once and blue twice, a side bans one more
\* role before a pick of the other, and picks one for each of its players, whatever
\* was asked again or declined on the way.  A ban of what is not offered is lost or
\* takes another's place, so that a side never gets more.
DraftIsEven ==
  /\ (strategy = "BP" /\ top = "start") =>
       /\ \A c \in Colors :
            /\ Limit(Cardinality({r \in Banned : mark[r] % 2 = c}), NumPlayers \div 2)
            /\ stray = {} => \A i \in Side(c) : mark[role[i]] % 2 = c /\ IsPick(mark[role[i]])
       /\ \A i \in Players : Cardinality({s \in 1 .. LastStep : BPSeat(s) = i /\ ~IsPick(s)}) = 1
  /\ (strategy = "CM" /\ top = "strategy") =>
       \A c \in Colors : Limit(Marked(IB(c)), IF mayIB[c] THEN 0 ELSE 1)
  /\ (strategy = "CM" /\ top = "start") =>
       /\ Limit(Marked(RED_BAN), 1) /\ Limit(Marked(BLUE_BAN), 2)
       /\ \A c \in Colors : /\ Marked(IB(c)) <= 1
                            /\ stray = {} => \A i \in Side(c) : mark[role[i]] = PICKED(c)

\* The election gives each side one captain, and nobody who declined or did not
\* answer is made captain while another of the side volunteered.
OneCaptainEach ==
  [][(top = "election" /\ top' # "election") =>
       \A c \in Colors : \E i \in Side(c) :
         /\ {j \in Side(c) : leader'[j]} = {i}
         /\ answers[i] = Yes \/ \A j \in Side(c) : answers[j] # Yes]_draftVars

\* Nobody can hold up the draft by not answering, where everybody is asked at once:
\* the wait times out and who has not answered gets a role or is led by somebody.
\* Only a role that does not exist can keep the game from starting.
DraftEnds ==
  /\ strategy \in {"RANDOM", "31", "ANY"} ~>
       top = "start" \/ \E i \in Players : role[i] \in Numbers \ Created
  /\ strategy = "CM" ~> \E i \in Players : leader[i]
=============================================================================
