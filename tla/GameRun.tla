------------------------------ MODULE GameRun ------------------------------
(***************************************************************************)
(* GameGrail::GameRun, the loop of a room's game thread: it runs the       *)
(* handler of the state on top of the stack, pops a state after too many   *)
(* errors, interposes a poll when players are missing and ends the room.   *)
(* The states of the lobby, the end of the game and the two polls are      *)
(* modelled by their handlers; "draft" and "play" stand for all the others *)
(* and may end in every way a handler can.  Players leave and return at    *)
(* any moment (the main thread); only how many are present matters here.   *)
(***************************************************************************)
EXTENDS Naturals, Sequences, SequencesExt

CONSTANTS
  MaxPlayers,  \* m_maxPlayers
  MaxDepth     \* bound: how deep handlers nest the states of the play

ASSUME MaxPlayersAssumption == MaxPlayers \in Nat \ {0}
ASSUME MaxDepthAssumption == MaxDepth \in Nat \ {0}

VARIABLES
  stack,        \* m_states, the top last
  present,      \* getGameNowPlayers(): how many seats are connected
  error,        \* local of GameRun
  playing, roleInited, gameover, dying,
  interrupted,
  gpc,          \* where the game thread is
  recorded,     \* ghost: how often the result was recorded (2: more than once)
  threw,        \* ghost: a call of the database has thrown
  leftSince     \* ghost: somebody left since GameRun counted the players

flags  == <<playing, roleInited, gameover>>
ghosts == <<recorded, threw, leftSince>>
vars == <<stack, present, error, playing, roleInited, gameover, dying, interrupted, gpc,
          recorded, threw, leftSince>>

Kinds == {"waitForEnter", "seatArrange", "draft", "play", "gameOver",
          "pollDisconnected", "pollGameover"}
GamePC == {"loop", "check", "enter", "run", "forceWait", "poll", "dead"}
Threshold   == MaxPlayers \div 2
TooMany     == 4      \* error > 3; more errors make no difference
Top         == Last(stack)
TopIs(k)    == stack # <<>> /\ Top = k
RemoveTop   == Front(stack)
Replace(k)  == Append(Front(stack), k)

TypeOK ==
  /\ stack \in Seq(Kinds) /\ Len(stack) <= MaxDepth + 2
  /\ present \in 0 .. MaxPlayers
  /\ error \in 0 .. TooMany
  /\ {playing, roleInited, gameover, dying, interrupted} \subseteq BOOLEAN
  /\ gpc \in GamePC
  /\ recorded \in 0 .. 2 /\ threw \in BOOLEAN
  /\ leftSince \in BOOLEAN

\* The constructor; nobody has entered yet when the thread is started
Init ==
  /\ stack = <<"waitForEnter">>
  /\ present = 0 /\ error = 0
  /\ playing = FALSE /\ roleInited = FALSE /\ gameover = FALSE
  /\ dying = FALSE /\ interrupted = FALSE
  /\ gpc = "loop"
  /\ recorded = 0 /\ threw = FALSE /\ leftSince = FALSE
-----------------------------------------------------------------------------
(* The loop *)

\* while(!dying); the state on top is popped because of too many errors.  On an
\* empty stack topGameState throws GE_NO_STATE, which ends the loop.
LoopHead ==
  /\ gpc = "loop"
  /\ IF dying \/ (error >= TooMany /\ stack = <<>>)
     THEN gpc' = "dead" /\ stack' = stack
     ELSE /\ gpc' = "check"
          /\ IF error >= TooMany
             THEN stack' = RemoveTop
             ELSE stack' = stack
  /\ UNCHANGED <<present, error, flags, dying, interrupted, ghosts>>

NeedsPoll == /\ roleInited /\ ~gameover /\ present < MaxPlayers
             /\ ~TopIs("pollDisconnected")

\* mutant: the room does not end when everybody has left
Check_NobodyStays ==
  /\ gpc = "check"
  /\ leftSince' = FALSE
  /\ IF stack = <<>>
     THEN gpc' = "dead" /\ stack' = stack
     ELSE /\ gpc' = "enter"
          /\ IF NeedsPoll
             THEN stack' = Append(stack, "pollDisconnected")
             ELSE stack' = stack
  /\ UNCHANGED <<present, error, flags, dying, interrupted, recorded, threw>>

\* mutant: a poll is pushed on a poll
Check_PollAgain ==
  /\ gpc = "check"
  /\ leftSince' = FALSE
  /\ IF present = 0 \/ stack = <<>>
     THEN gpc' = "dead" /\ stack' = stack
     ELSE /\ gpc' = "enter"
          /\ IF roleInited /\ ~gameover /\ present < MaxPlayers
             THEN /\ Len(stack) < MaxDepth + 3
                  /\ stack' = Append(stack, "pollDisconnected")
             ELSE stack' = stack
  /\ UNCHANGED <<present, error, flags, dying, interrupted, recorded, threw>>

\* mutant: players missing before the draft is over, or never, make a poll
Check_NoPoll ==
  /\ gpc = "check"
  /\ leftSince' = FALSE
  /\ gpc' = IF present = 0 \/ stack = <<>> THEN "dead" ELSE "enter"
  /\ UNCHANGED <<stack, present, error, flags, dying, interrupted, recorded, threw>>

\* nowPlayer is read once and decides about the end and about the poll
Check ==
  /\ gpc = "check"
  /\ leftSince' = FALSE
  /\ IF present = 0 \/ stack = <<>>
     THEN gpc' = "dead" /\ stack' = stack
     ELSE /\ gpc' = "enter"
          /\ IF NeedsPoll
             THEN stack' = Append(stack, "pollDisconnected")
             ELSE stack' = stack
  /\ UNCHANGED <<present, error, flags, dying, interrupted, recorded, threw>>

\* handle is called; a handler that waits clears interrupted first (resetReady,
\* or the catch of the interrupt for a draft that is entered again)
Enter ==
  /\ gpc = "enter"
  /\ gpc' = "run"
  /\ interrupted' = FALSE
  /\ UNCHANGED <<stack, present, error, flags, dying, ghosts>>

\* handle returned GE_SUCCESS, GE_TIMEOUT or GE_URGENT
Succeeds ==
  /\ gpc' = "loop" /\ interrupted' = interrupted
  /\ error' = 0

\* handle returned or threw anything else but GE_INTERRUPTED
Fails ==
  /\ gpc' = "loop" /\ interrupted' = interrupted
  /\ error' = IF error < TooMany THEN error + 1 ELSE error

\* a wait threw GE_INTERRUPTED: the loop goes on, with error as it was
Interrupted ==
  /\ interrupted
  /\ gpc' = "loop" /\ interrupted' = FALSE
  /\ error' = error
  /\ UNCHANGED <<stack, flags, dying, recorded, threw>>

\* An SQLException, which only GameRun catches
DatabaseThrows == Fails /\ threw' = TRUE
-----------------------------------------------------------------------------
(* The handlers *)

\* isAllStartReady() depends on the seats; the lobby also gives up after a while
WaitForEnter ==
  /\ gpc = "run" /\ TopIs("waitForEnter")
  /\ Succeeds
  /\ \/ stack' = Replace("seatArrange")
     \/ stack' = stack
  /\ dying' \in BOOLEAN
  /\ UNCHANGED <<present, flags, recorded, threw, leftSince>>

\* mutant: playing is left to the draft
SeatArrange_NotPlaying ==
  /\ gpc = "run" /\ TopIs("seatArrange")
  /\ Succeeds
  /\ stack' = Replace("draft")
  /\ UNCHANGED <<present, flags, dying, recorded, threw, leftSince>>

SeatArrange ==
  /\ gpc = "run" /\ TopIs("seatArrange")
  /\ Succeeds
  /\ playing' = TRUE
  /\ stack' = Replace("draft")
  /\ UNCHANGED <<present, roleInited, gameover, dying, recorded, threw, leftSince>>

\* A draft is interrupted, is followed by the next one (the leader election by
\* captain mode), ends with initPlayerEntities and the start of the game, or has an
\* error, such as too few roles or one that createRole does not know.
Draft ==
  /\ gpc = "run" /\ TopIs("draft")
  /\ \/ Interrupted
     \/ /\ Succeeds \/ Fails
        /\ UNCHANGED <<stack, flags, dying, recorded, threw>>
     \/ /\ Succeeds
        /\ roleInited' = TRUE
        /\ stack' = Replace("play")
        /\ UNCHANGED <<playing, gameover, dying, recorded, threw>>
  /\ UNCHANGED <<present, leftSince>>

\* What the handlers of the play do to the stack: nothing, push, pop, replace
PlayMoves ==
  {stack, Replace("gameOver"), Append(stack, "gameOver"), Append(stack, "play")}
    \cup (IF Len(stack) > 1 THEN {RemoveTop} ELSE {})

Play ==
  /\ gpc = "run" /\ TopIs("play")
  /\ \/ Interrupted
     \/ /\ Succeeds \/ Fails
        /\ stack' \in {s \in PlayMoves : Len(s) <= MaxDepth \/ Last(s) = "gameOver"}
        /\ UNCHANGED <<flags, dying, recorded, threw>>
  /\ UNCHANGED <<present, leftSince>>

RecordedAgain == IF recorded < 2 THEN recorded + 1 ELSE recorded

\* mutant: the flag is left to the poll
GameOver_NoFlag ==
  /\ gpc = "run" /\ TopIs("gameOver")
  /\ Succeeds
  /\ gameover' = FALSE
  /\ recorded' = RecordedAgain
  /\ stack' = Append(stack, "pollGameover")
  /\ UNCHANGED <<present, playing, roleInited, dying, threw, leftSince>>

\* StateGameOver: the result is recorded, the poll for the best player goes on top
GameOver ==
  /\ gpc = "run" /\ TopIs("gameOver")
  /\ gameover' = TRUE
  /\ \/ /\ Succeeds
        /\ recorded' = RecordedAgain
        /\ stack' = Append(stack, "pollGameover")
        /\ threw' = threw
     \/ DatabaseThrows /\ UNCHANGED <<stack, recorded>>
  /\ UNCHANGED <<present, playing, roleInited, dying, leftSince>>

\* mutant: the poll does not end the room
PollGameover_NotDying ==
  /\ gpc = "run" /\ TopIs("pollGameover")
  /\ \/ Interrupted
     \/ /\ Succeeds
        /\ stack' = RemoveTop
        /\ UNCHANGED <<flags, dying, recorded, threw>>
  /\ UNCHANGED <<present, leftSince>>

\* StatePollingGameover: poll, insert, Sleep, dying
PollGameover ==
  /\ gpc = "run" /\ TopIs("pollGameover")
  /\ \/ Interrupted
     \/ /\ Succeeds
        /\ dying' = TRUE
        /\ stack' = RemoveTop
        /\ UNCHANGED <<flags, recorded, threw>>
     \/ DatabaseThrows /\ UNCHANGED <<stack, flags, dying, recorded>>
  /\ UNCHANGED <<present, leftSince>>

\* mutant: the poll does not see that everybody is back
PollDisconnected_NotBack ==
  /\ gpc = "run" /\ TopIs("pollDisconnected")
  /\ IF present < Threshold
     THEN /\ Succeeds
          /\ dying' = TRUE
          /\ stack' = RemoveTop
     ELSE /\ gpc' \in {"forceWait", "poll"}
          /\ interrupted' = FALSE
          /\ UNCHANGED <<stack, error, dying>>
  /\ UNCHANGED <<present, flags, recorded, threw, leftSince>>

\* StatePollingDisconnected: everybody is back, or too few are left to vote;
\* else wait for the missing while time is left, then poll
PollDisconnected ==
  /\ gpc = "run" /\ TopIs("pollDisconnected")
  /\ IF present = MaxPlayers \/ present < Threshold
     THEN /\ Succeeds
          /\ dying' = (dying \/ present < Threshold)
          /\ stack' = RemoveTop
     ELSE /\ gpc' \in {"forceWait", "poll"}
          /\ interrupted' = FALSE
          /\ UNCHANGED <<stack, error, dying>>
  /\ UNCHANGED <<present, flags, recorded, threw, leftSince>>

\* waitForAll: over after waitTime, or interrupted by who comes or leaves; poll
\* begins with resetReady, which clears an interruption that came too late.
ForceWait ==
  /\ gpc = "forceWait"
  /\ \/ Interrupted
     \/ /\ gpc' = "poll" /\ interrupted' = FALSE
        /\ UNCHANGED <<stack, error, flags, dying, recorded, threw>>
  /\ UNCHANGED <<present, leftSince>>

\* poll: the vote to leave needs more than Threshold voices, else try again.  An
\* interruption after the wait does not keep the votes from being counted.
CountVotes ==
  /\ gpc = "poll"
  /\ \/ Interrupted
     \/ /\ Succeeds
        /\ \/ dying' = TRUE /\ stack' = RemoveTop
           \/ UNCHANGED <<stack, dying>>
        /\ UNCHANGED <<flags, recorded, threw>>
     \/ /\ DatabaseThrows   \* gameFlee
        /\ UNCHANGED <<stack, flags, dying, recorded>>
  /\ UNCHANGED <<present, leftSince>>

GameStep ==
  \/ LoopHead \/ Check \/ Enter
  \/ WaitForEnter \/ SeatArrange \/ Draft \/ Play \/ GameOver \/ PollGameover
  \/ PollDisconnected \/ ForceWait \/ CountVotes
-----------------------------------------------------------------------------
(* The main thread *)

\* falseNotify of a player interrupts when m_token is that player or everyone
FalseNotify ==
  IF gpc \in {"forceWait", "poll"} THEN interrupted' = TRUE
  ELSE interrupted' \in {interrupted, TRUE}

\* A player enters before the game, or returns to it
PlayerEnter ==
  /\ present < MaxPlayers
  /\ present' = present + 1
  /\ IF playing THEN FalseNotify ELSE UNCHANGED interrupted
  /\ UNCHANGED <<stack, error, flags, dying, gpc, ghosts>>

UserLeave ==
  /\ present > 0
  /\ present' = present - 1
  /\ leftSince' = TRUE
  /\ IF roleInited THEN FalseNotify ELSE UNCHANGED interrupted
  /\ UNCHANGED <<stack, error, flags, dying, gpc, recorded, threw>>

Next == GameStep \/ PlayerEnter \/ UserLeave

Spec == Init /\ [][Next]_vars

\* The game thread is scheduled, and every wait of a handler has a deadline.
FairSpec == Spec /\ WF_vars(GameStep)
-----------------------------------------------------------------------------
(* Properties *)

\* The poll about missing players is never buried and never doubled: what
\* interrupts the game is on top until it is settled.
PollIsOnTop ==
  \A k \in 1 .. Len(stack) : stack[k] = "pollDisconnected" => k = Len(stack)

\* UserTask sends the answers to a poll to the state that the flag gameover
\* names, so the flag has to agree with the poll that is running.
PollAnswersFindTheirPoll ==
  gpc \in {"run", "forceWait", "poll"} =>
    /\ TopIs("pollGameover") => gameover
    /\ TopIs("pollDisconnected") => ~gameover

\* The play does not go on without a player, except one who left after the
\* loop had counted, or when the database has kept the end of the game from
\* being recorded and the loop has given it up.
NoPlayWithMissing ==
  gpc = "run" /\ TopIs("play") => present = MaxPlayers \/ leftSince \/ (gameover /\ threw)

\* The result of a game is recorded once, although its state stays on the stack
\* under the last poll and that poll may be interrupted; unless the database throws,
\* which makes the loop call a handler of the end again.
ResultRecordedOnce == threw \/ recorded <= 1

\* A room everybody has left for good ends.
EmptyRoomEnds == <>[](present = 0) => <>(gpc = "dead")

\* When everybody is there for good, the poll about the missing is settled.
GameResumes ==
  <>[](present = MaxPlayers) => <>[](~TopIs("pollDisconnected") \/ gpc = "dead")

Phase == CASE gpc = "dead" -> "ended"
           [] gpc # "dead" /\ gameover -> "over"
           [] gpc # "dead" /\ ~gameover /\ roleInited ->
                IF TopIs("pollDisconnected") THEN "paused" ELSE "playing"
           [] gpc # "dead" /\ ~roleInited /\ playing -> "seated"
           [] OTHER -> "lobby"

Life == INSTANCE RoomLife WITH phase <- Phase

\* The flags and the stack together go through the phases of RoomLife.
FollowsRoomLife == Life!Spec
=============================================================================
