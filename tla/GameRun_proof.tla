--------------------------- MODULE GameRun_proof ---------------------------
(***************************************************************************)
(* Proofs about GameRun, for every number of players and every depth of    *)
(* the play.  Each state on the stack says something about the flags and   *)
(* about how deep it lies (Fits); a game that is over has its last poll on *)
(* top until the room dies (Ending), unless the database has thrown; and   *)
(* who is missing has been seen by the loop (Counted).                     *)
(***************************************************************************)
EXTENDS GameRun, SequenceTheorems, TLAPS

\* how deep a state of a kind may lie
Deepest(kind) == MaxDepth + CASE kind \in {"pollDisconnected", "pollGameover"} -> 2
                              [] kind = "gameOver" -> 1
                              [] OTHER -> 0

\* what the state at position k of stack s, of length n, says
Fits(kind, k, n, seated, inited, over) ==
  /\ k <= Deepest(kind)
  /\ kind = "pollDisconnected" => k = n /\ inited /\ ~over
  /\ kind = "pollGameover" => over
  /\ kind = "draft" => seated
  /\ kind \in {"play", "gameOver"} => inited

AllFit(s, seated, inited, over) ==
  /\ s \in Seq(Kinds)
  /\ \A k \in 1 .. Len(s) : Fits(s[k], k, Len(s), seated, inited, over)

StackFits == AllFit(stack, playing, roleInited, gameover)

\* the waits inside the poll about the missing
Polling == gpc \in {"forceWait", "poll"} => TopIs("pollDisconnected")

\* no exception of the database: the result is recorded exactly when the game is over,
\* and from then on its poll is on top and does not fail, until the room dies
Ending ==
  ~threw => IF gameover
            THEN /\ recorded = 1 /\ error = 0
                 /\ TopIs("pollGameover") \/ (dying /\ gpc \in {"loop", "dead"})
            ELSE recorded = 0

\* when the loop calls a handler of the play it has counted all players
Counted ==
  gpc \in {"enter", "run"} /\ TopIs("play") =>
    present = MaxPlayers \/ leftSince \/ (gameover /\ threw)

Core ==
  /\ TypeOK
  /\ StackFits
  /\ Polling
  /\ Ending
  /\ Counted

OverAfterDraft == gameover => roleInited

IInv == Core /\ OverAfterDraft
-----------------------------------------------------------------------------
(* The stack *)

LEMMA TopOfStack ==
  ASSUME NEW s \in Seq(Kinds), s # <<>>
  PROVE  Len(s) \in Nat \ {0} /\ Last(s) = s[Len(s)] /\ Last(s) \in Kinds
  BY DEF Last

\* Nothing lies deeper than two states under the play.
LEMMA DepthBound ==
  ASSUME NEW s, NEW seated, NEW inited, NEW over, AllFit(s, seated, inited, over)
  PROVE  Len(s) <= MaxDepth + 2
<1> USE MaxDepthAssumption DEF MaxDepthAssumption
<1>1. Len(s) \in Nat
  BY DEF AllFit
<1>2. CASE Len(s) = 0
  BY <1>2
<1>3. CASE Len(s) # 0
  BY <1>1, <1>3 DEF AllFit, Fits, Deepest
<1> QED BY <1>2, <1>3

LEMMA PopFits ==
  ASSUME NEW s, NEW seated, NEW inited, NEW over, AllFit(s, seated, inited, over), s # <<>>
  PROVE  /\ AllFit(Front(s), seated, inited, over)
         /\ Len(Front(s)) = Len(s) - 1
         /\ Front(s) # <<>> => Last(Front(s)) # "pollDisconnected"
<1>1. s \in Seq(Kinds) /\ Len(s) \in Nat \ {0}
  BY TopOfStack DEF AllFit
<1>2. /\ Front(s) \in Seq(Kinds) /\ Len(Front(s)) = Len(s) - 1
      /\ \A k \in 1 .. Len(s) - 1 : Front(s)[k] = s[k]
  <2>1. \A k \in 1 .. Len(s) - 1 : s[k] \in Kinds
    BY <1>1
  <2>2. /\ SubSeq(s, 1, Len(s) - 1) \in Seq(Kinds)
        /\ Len(SubSeq(s, 1, Len(s) - 1)) =
             IF 1 <= Len(s) - 1 THEN (Len(s) - 1) - 1 + 1 ELSE 0
        /\ \A k \in 1 .. (Len(s) - 1) - 1 + 1 : SubSeq(s, 1, Len(s) - 1)[k] = s[1 + k - 1]
    BY <1>1, <2>1, SubSeqProperties
  <2>3. \A k \in 1 .. Len(s) - 1 : k \in 1 .. (Len(s) - 1) - 1 + 1 /\ 1 + k - 1 = k
    BY <1>1
  <2>4. \A k \in 1 .. Len(s) - 1 : SubSeq(s, 1, Len(s) - 1)[k] = s[k]
    BY <2>2, <2>3
  <2>5. Len(SubSeq(s, 1, Len(s) - 1)) = Len(s) - 1
    <3>1. ASSUME NEW n \in Nat \ {0}
          PROVE  (IF 1 <= n - 1 THEN (n - 1) - 1 + 1 ELSE 0) = n - 1
      OBVIOUS
    <3> QED BY <1>1, <2>2, <3>1
  <2> QED BY <2>2, <2>4, <2>5 DEF Front
<1>3. \A k \in 1 .. Len(s) - 1 : Fits(s[k], k, Len(s) - 1, seated, inited, over) /\ s[k] # "pollDisconnected"
  BY <1>1 DEF AllFit, Fits
<1>4. AllFit(Front(s), seated, inited, over)
  BY <1>2, <1>3 DEF AllFit
<1>5. ASSUME Front(s) # <<>> PROVE Last(Front(s)) # "pollDisconnected"
  <2>1. Len(Front(s)) \in Nat \ {0} /\ Last(Front(s)) = Front(s)[Len(Front(s))]
    BY <1>2, <1>5, TopOfStack
  <2> QED BY <1>1, <1>2, <1>3, <2>1
<1> QED BY <1>2, <1>4, <1>5

LEMMA PushFits ==
  ASSUME NEW s, NEW seated, NEW inited, NEW over, AllFit(s, seated, inited, over),
         NEW kind \in Kinds, Fits(kind, Len(s) + 1, Len(s) + 1, seated, inited, over),
         s # <<>> => Last(s) # "pollDisconnected"
  PROVE  /\ AllFit(Append(s, kind), seated, inited, over)
         /\ Last(Append(s, kind)) = kind /\ Append(s, kind) # <<>>
<1>1. s \in Seq(Kinds) /\ Len(s) \in Nat
  BY DEF AllFit
<1>2. /\ Append(s, kind) \in Seq(Kinds) /\ Len(Append(s, kind)) = Len(s) + 1
      /\ Append(s, kind)[Len(s) + 1] = kind
      /\ \A k \in 1 .. Len(s) : Append(s, kind)[k] = s[k]
  BY <1>1
<1>3. \A k \in 1 .. Len(s) : s[k] # "pollDisconnected"
  <2> SUFFICES ASSUME NEW k \in 1 .. Len(s), s[k] = "pollDisconnected" PROVE FALSE
    OBVIOUS
  <2>1. k = Len(s) /\ s # <<>>
    BY <1>1 DEF AllFit, Fits
  <2> QED BY <1>1, <2>1, TopOfStack
<1>4. \A k \in 1 .. Len(s) : Fits(s[k], k, Len(s) + 1, seated, inited, over)
  BY <1>1, <1>3 DEF AllFit, Fits
<1>5. AllFit(Append(s, kind), seated, inited, over)
  <2>1. ASSUME NEW k \in 1 .. Len(s) + 1
        PROVE  Fits(Append(s, kind)[k], k, Len(s) + 1, seated, inited, over)
    <3>1. CASE k = Len(s) + 1
      BY <1>2, <3>1
    <3>2. CASE k # Len(s) + 1
      <4>1. k \in 1 .. Len(s)
        BY <1>1, <3>2
      <4> QED BY <1>2, <1>4, <4>1
    <3> QED BY <3>1, <3>2
  <2> QED BY <1>2, <2>1 DEF AllFit
<1> QED BY <1>1, <1>2, <1>5 DEF Last

LEMMA ReplaceFits ==
  ASSUME NEW s, NEW seated, NEW inited, NEW over, AllFit(s, seated, inited, over), s # <<>>,
         NEW kind \in Kinds, Fits(kind, Len(s), Len(s), seated, inited, over)
  PROVE  /\ AllFit(Append(Front(s), kind), seated, inited, over)
         /\ Last(Append(Front(s), kind)) = kind /\ Append(Front(s), kind) # <<>>
<1>1. Len(s) \in Nat
  BY DEF AllFit
<1>2. AllFit(Front(s), seated, inited, over) /\ (Front(s) # <<>> => Last(Front(s)) # "pollDisconnected")
  BY PopFits
<1>3. Fits(kind, Len(Front(s)) + 1, Len(Front(s)) + 1, seated, inited, over)
  <2>1. Len(Front(s)) = Len(s) - 1
    BY PopFits
  <2>2. Len(Front(s)) + 1 = Len(s)
    BY <1>1, <2>1
  <2> QED BY <2>2
<1> QED BY <1>2, <1>3, PushFits

-----------------------------------------------------------------------------
(* The invariant *)

LEMMA InitInv == Init => IInv
<1> USE MaxPlayersAssumption, MaxDepthAssumption DEF MaxPlayersAssumption, MaxDepthAssumption
<1> SUFFICES ASSUME Init PROVE IInv
  OBVIOUS
<1>1. stack \in Seq(Kinds) /\ Len(stack) = 1 /\ stack[1] = "waitForEnter"
  BY DEF Init, Kinds
<1>2. TypeOK
  <2>1. {playing, roleInited, gameover, dying, interrupted} \subseteq BOOLEAN
    BY DEF Init
  <2>2. present \in 0 .. MaxPlayers /\ error \in 0 .. TooMany /\ gpc \in GamePC /\ recorded \in 0 .. 2
    BY DEF Init, GamePC, TooMany
  <2>3. threw \in BOOLEAN /\ leftSince \in BOOLEAN
    BY DEF Init
  <2> QED BY <1>1, <2>1, <2>2, <2>3 DEF TypeOK
<1>3. StackFits
  BY <1>1 DEF StackFits, AllFit, Fits, Deepest
<1>4. Polling /\ Ending /\ Counted
  BY DEF Init, Polling, Ending, Counted
<1>5. OverAfterDraft
  BY DEF Init, OverAfterDraft
<1> QED BY <1>2, <1>3, <1>4, <1>5 DEF IInv, Core

\* The stack of a successor state needs to be looked at by one part of the invariant only.
LEMMA StackTyped ==
  ASSUME StackFits' PROVE stack' \in Seq(Kinds) /\ Len(stack') <= MaxDepth + 2
  BY DepthBound DEF StackFits, AllFit

\* The loop: a state that is popped for its errors, the count of the players and the
\* poll about the missing preserve the invariant.
LEMMA LoopInv ==
  ASSUME IInv, LoopHead \/ Check \/ Enter PROVE Core'
<1> USE MaxPlayersAssumption, MaxDepthAssumption DEF MaxPlayersAssumption, MaxDepthAssumption, IInv, Core
<1>1. CASE LoopHead
  <2>1. StackFits'
    BY <1>1, PopFits DEF LoopHead, flags, StackFits, RemoveTop
  <2>2. TypeOK'
    BY <1>1, <2>1, StackTyped DEF LoopHead, TypeOK, flags, ghosts, GamePC
  <2>3. Ending'
    BY <1>1 DEF LoopHead, Ending, TypeOK, TopIs, Top, flags, ghosts, TooMany
  <2>4. Polling' /\ Counted'
    BY <1>1 DEF LoopHead, Polling, Counted
  <2> QED BY <2>1, <2>2, <2>3, <2>4
<1>2. CASE Check
  <2>1. CASE present = 0 \/ stack = <<>> \/ ~NeedsPoll
    <3>1. stack' = stack /\ gpc' \in {"dead", "enter"}
      BY <1>2, <2>1 DEF Check
    <3>2. StackFits'
      BY <1>2, <3>1 DEF Check, StackFits, flags
    <3>3. TypeOK'
      BY <1>2, <3>1, <3>2, StackTyped DEF Check, TypeOK, flags, GamePC
    <3>4. Ending'
      BY <1>2, <3>1 DEF Check, Ending, TopIs, Top, flags
    <3>5. Counted'
      <4> SUFFICES ASSUME gpc' = "enter", TopIs("play")
                   PROVE  present = MaxPlayers \/ (gameover /\ threw)
        BY <1>2, <3>1 DEF Check, Counted, TopIs, Top, flags
      <4>1. roleInited
        BY TopOfStack DEF StackFits, AllFit, Fits, TopIs, Top
      <4>2. stack # <<>> /\ present # 0
        BY <1>2 DEF Check
      <4>3. gameover \/ present >= MaxPlayers
        BY <2>1, <4>1, <4>2 DEF NeedsPoll, TopIs, TypeOK
      <4>4. present <= MaxPlayers
        BY DEF TypeOK
      <4>5. gameover => threw
        BY <1>2 DEF Ending, TopIs, Top, Check
      <4> QED BY <4>3, <4>4, <4>5 DEF TypeOK
    <3> QED BY <3>1, <3>2, <3>3, <3>4, <3>5 DEF Polling
  <2>2. CASE ~(present = 0 \/ stack = <<>> \/ ~NeedsPoll)
    <3>1. /\ stack' = Append(stack, "pollDisconnected") /\ gpc' = "enter"
          /\ roleInited /\ ~gameover /\ stack # <<>> /\ Last(stack) # "pollDisconnected"
      BY <1>2, <2>2 DEF Check, NeedsPoll, TopIs, Top
    <3>2. stack \in Seq(Kinds) /\ Len(stack) \in Nat \ {0} /\ Last(stack) = stack[Len(stack)]
      BY <3>1, TopOfStack DEF StackFits, AllFit
    <3>3. Len(stack) + 1 <= Deepest("pollDisconnected")
      <4>1. Len(stack) <= Deepest(stack[Len(stack)])
        BY <3>2 DEF StackFits, AllFit, Fits
      <4>2. stack[Len(stack)] # "pollGameover"
        BY <3>1, <3>2 DEF StackFits, AllFit, Fits
      <4> QED BY <3>1, <3>2, <4>1, <4>2 DEF Deepest
    <3>4. Fits("pollDisconnected", Len(stack) + 1, Len(stack) + 1, playing, roleInited, gameover)
      BY <3>1, <3>3 DEF Fits
    <3>5. /\ AllFit(stack', playing, roleInited, gameover)
          /\ Last(stack') = "pollDisconnected" /\ stack' # <<>>
      BY <3>1, <3>4, PushFits DEF StackFits, Kinds
    <3>6. StackFits'
      BY <1>2, <3>5 DEF Check, flags, StackFits
    <3>7. TypeOK'
      BY <1>2, <3>1, <3>6, StackTyped DEF Check, TypeOK, flags, GamePC
    <3>8. Ending' /\ Polling' /\ Counted'
      BY <1>2, <3>1, <3>5 DEF Check, flags, Ending, Polling, Counted, TopIs, Top
    <3> QED BY <3>6, <3>7, <3>8
  <2> QED BY <2>1, <2>2
<1>3. CASE Enter
  <2>1. StackFits' /\ Polling' /\ Ending' /\ Counted'
    BY <1>3 DEF Enter, flags, ghosts, StackFits, Polling, Ending, Counted, TopIs, Top
  <2>2. TypeOK'
    BY <1>3 DEF Enter, flags, ghosts, TypeOK, GamePC
  <2> QED BY <2>1, <2>2
<1> QED BY <1>1, <1>2, <1>3

\* A handler that runs with another state than the last poll on top finds a game that
\* is not over, or one whose end the database has disturbed.
LEMMA OverIsDisturbed ==
  ASSUME IInv, gpc \in {"run", "forceWait", "poll"}, ~TopIs("pollGameover"), gameover
  PROVE  threw
  BY DEF IInv, Core, Ending

\* The handlers of the lobby, of the drafts and of the play preserve the invariant.
LEMMA PlayInv ==
  ASSUME IInv, WaitForEnter \/ SeatArrange \/ Draft \/ Play PROVE Core'
<1> USE MaxPlayersAssumption, MaxDepthAssumption DEF MaxPlayersAssumption, MaxDepthAssumption, IInv, Core
<1>0. /\ gpc = "run" /\ stack # <<>> /\ stack \in Seq(Kinds)
      /\ Top \in {"waitForEnter", "seatArrange", "draft", "play"}
      /\ Len(stack) \in Nat \ {0} /\ Top = stack[Len(stack)]
      /\ Len(stack) <= MaxDepth
  <2>1. /\ gpc = "run" /\ stack # <<>> /\ stack \in Seq(Kinds)
        /\ Top \in {"waitForEnter", "seatArrange", "draft", "play"}
    BY DEF WaitForEnter, SeatArrange, Draft, Play, TopIs, TypeOK
  <2>2. Len(stack) \in Nat \ {0} /\ Top = stack[Len(stack)]
    BY <2>1, TopOfStack DEF Top
  <2>3. Len(stack) <= Deepest(stack[Len(stack)])
    BY <2>2 DEF StackFits, AllFit, Fits
  <2> QED BY <2>1, <2>2, <2>3 DEF Deepest
<1>1. gpc' = "loop" /\ Polling' /\ Counted'
  BY DEF WaitForEnter, SeatArrange, Draft, Play, Succeeds, Fails, Interrupted, Polling, Counted
<1>2. Ending'
  <2>1. gameover => threw
    BY <1>0, OverIsDisturbed DEF TopIs
  <2>2. gameover' = gameover /\ recorded' = recorded /\ threw' = threw
    BY DEF WaitForEnter, SeatArrange, Draft, Play, Interrupted, flags
  <2> QED BY <2>1, <2>2 DEF Ending
<1>3. StackFits'
  <2>1. CASE WaitForEnter
    <3>1. Fits("seatArrange", Len(stack), Len(stack), playing, roleInited, gameover) /\ "seatArrange" \in Kinds
      BY <1>0 DEF Fits, Deepest, Kinds
    <3>2. AllFit(Replace("seatArrange"), playing, roleInited, gameover)
      BY <1>0, <3>1, ReplaceFits DEF StackFits, Replace
    <3> QED BY <2>1, <3>2 DEF WaitForEnter, StackFits, flags
  <2>2. CASE SeatArrange
    <3>1. AllFit(stack, TRUE, roleInited, gameover)
      BY <1>0 DEF StackFits, AllFit, Fits
    <3>2. Fits("draft", Len(stack), Len(stack), TRUE, roleInited, gameover) /\ "draft" \in Kinds
      BY <1>0 DEF Fits, Deepest, Kinds
    <3>3. AllFit(Replace("draft"), TRUE, roleInited, gameover)
      BY <1>0, <3>1, <3>2, ReplaceFits DEF Replace
    <3> QED BY <2>2, <3>3 DEF SeatArrange, StackFits
  <2>3. CASE Draft
    <3>1. AllFit(stack, playing, TRUE, gameover)
      <4>1. AllFit(stack, playing, roleInited, gameover)
        BY DEF StackFits
      <4>2. Last(stack) # "pollDisconnected"
        BY <1>0 DEF Top
      <4> QED BY <1>0, <4>1, <4>2 DEF AllFit, Fits, Top
    <3>2. Fits("play", Len(stack), Len(stack), playing, TRUE, gameover) /\ "play" \in Kinds
      BY <1>0 DEF Fits, Deepest, Kinds
    <3>3. AllFit(Replace("play"), playing, TRUE, gameover)
      BY <1>0, <3>1, <3>2, ReplaceFits DEF Replace
    <3> QED BY <2>3, <3>3 DEF Draft, Interrupted, StackFits, flags
  <2>4. CASE Play
    <3>1. roleInited
      <4>1. stack[Len(stack)] = "play"
        BY <1>0, <2>4 DEF Play, TopIs
      <4> QED BY <1>0, <4>1 DEF StackFits, AllFit, Fits
    <3>2. /\ Fits("gameOver", Len(stack), Len(stack), playing, roleInited, gameover)
          /\ Fits("gameOver", Len(stack) + 1, Len(stack) + 1, playing, roleInited, gameover)
          /\ {"gameOver", "play"} \subseteq Kinds
      BY <1>0, <3>1 DEF Fits, Deepest, Kinds
    <3>3. AllFit(Replace("gameOver"), playing, roleInited, gameover)
      BY <1>0, <3>2, ReplaceFits DEF StackFits, Replace
    <3>4. AllFit(Append(stack, "gameOver"), playing, roleInited, gameover)
      BY <1>0, <3>2, PushFits DEF StackFits, Top
    <3>5. ASSUME Len(Append(stack, "play")) <= MaxDepth
          PROVE  AllFit(Append(stack, "play"), playing, roleInited, gameover)
      <4>1. Len(stack) + 1 <= MaxDepth
        BY <1>0, <3>5
      <4>2. Fits("play", Len(stack) + 1, Len(stack) + 1, playing, roleInited, gameover)
        BY <3>1, <4>1 DEF Fits, Deepest
      <4> QED BY <1>0, <3>2, <4>2, PushFits DEF StackFits, Top
    <3>6. AllFit(RemoveTop, playing, roleInited, gameover)
      BY <1>0, PopFits DEF StackFits, RemoveTop
    <3>7. Last(Append(stack, "play")) # "gameOver"
      BY <1>0 DEF Last
    <3>8. CASE Interrupted
      BY <3>8, <2>4 DEF Interrupted, flags, StackFits
    <3>9. CASE ~Interrupted
      <4>1. /\ stack' \in PlayMoves /\ UNCHANGED flags
            /\ Len(stack') <= MaxDepth \/ Last(stack') = "gameOver"
        BY <2>4, <3>9 DEF Play
      <4> QED BY <4>1, <3>3, <3>4, <3>5, <3>6, <3>7 DEF PlayMoves, StackFits, flags
    <3> QED BY <3>8, <3>9
  <2> QED BY <2>1, <2>2, <2>3, <2>4
<1>4. TypeOK'
  <2>1. {playing', roleInited', gameover', dying', interrupted'} \subseteq BOOLEAN
    BY DEF WaitForEnter, SeatArrange, Draft, Play, Succeeds, Fails, Interrupted, TypeOK, flags
  <2>2. error' \in 0 .. TooMany
    BY DEF WaitForEnter, SeatArrange, Draft, Play, Succeeds, Fails, Interrupted, TypeOK, TooMany
  <2>3. /\ present' = present /\ recorded' = recorded
        /\ threw' = threw /\ leftSince' = leftSince
    BY DEF WaitForEnter, SeatArrange, Draft, Play, Succeeds, Fails, Interrupted
  <2> QED BY <1>1, <1>3, <2>1, <2>2, <2>3, StackTyped DEF TypeOK, GamePC
<1> QED BY <1>1, <1>2, <1>3, <1>4

\* So do the handlers of the end of the game, also when the database throws.
LEMMA EndInv ==
  ASSUME IInv, GameOver \/ PollGameover PROVE Core'
<1> USE MaxPlayersAssumption, MaxDepthAssumption DEF MaxPlayersAssumption, MaxDepthAssumption, IInv, Core
<1>0. /\ gpc = "run" /\ stack # <<>> /\ stack \in Seq(Kinds)
      /\ Len(stack) \in Nat \ {0} /\ Top = stack[Len(stack)]
  <2>1. gpc = "run" /\ stack # <<>> /\ stack \in Seq(Kinds)
    BY DEF GameOver, PollGameover, TopIs, TypeOK
  <2> QED BY <2>1, TopOfStack DEF Top
<1>1. gpc' = "loop" /\ Polling' /\ Counted'
  BY DEF GameOver, PollGameover, DatabaseThrows, Succeeds, Fails, Interrupted, Polling, Counted
<1>2. CASE GameOver
  <2>1. Top = "gameOver" /\ stack[Len(stack)] = "gameOver" /\ Last(stack) = "gameOver"
    BY <1>0, <1>2 DEF GameOver, TopIs, Top
  <2>2. AllFit(stack, playing, roleInited, TRUE)
    <3>1. AllFit(stack, playing, roleInited, gameover)
      BY DEF StackFits
    <3> QED BY <1>0, <2>1, <3>1 DEF AllFit, Fits
  <2>3. CASE DatabaseThrows /\ UNCHANGED <<stack, recorded>>
    <3>1. StackFits' /\ Ending'
      BY <1>2, <2>2, <2>3 DEF GameOver, DatabaseThrows, StackFits, Ending
    <3>2. TypeOK'
      BY <1>1, <1>2, <2>3 DEF GameOver, DatabaseThrows, Fails, TypeOK, GamePC, TooMany
    <3> QED BY <1>1, <3>1, <3>2
  <2>4. CASE /\ Succeeds
             /\ recorded' = RecordedAgain
             /\ stack' = Append(stack, "pollGameover")
             /\ threw' = threw
    <3>1. Len(stack) <= Deepest(stack[Len(stack)])
      BY <1>0 DEF StackFits, AllFit, Fits
    <3>2. Len(stack) + 1 <= Deepest("pollGameover")
      BY <1>0, <2>1, <3>1 DEF Deepest
    <3>3. Fits("pollGameover", Len(stack) + 1, Len(stack) + 1, playing, roleInited, TRUE)
      BY <3>2 DEF Fits
    <3>4. /\ AllFit(stack', playing, roleInited, TRUE)
          /\ Last(stack') = "pollGameover" /\ stack' # <<>>
      BY <1>0, <2>1, <2>2, <2>4, <3>3, PushFits DEF Kinds
    <3>5. StackFits'
      BY <1>2, <3>4 DEF GameOver, StackFits
    <3>6. ~threw => recorded = 0
      BY <1>0, <2>1, OverIsDisturbed DEF Ending, TopIs
    <3>7. Ending'
      BY <1>2, <2>4, <3>4, <3>6 DEF GameOver, Succeeds, RecordedAgain, Ending, TopIs, Top
    <3>8. TypeOK'
      <4>1. {playing', roleInited', gameover', dying', interrupted'} \subseteq BOOLEAN
        BY <1>2, <2>4 DEF GameOver, Succeeds, TypeOK
      <4>2. error' \in 0 .. TooMany /\ recorded' \in 0 .. 2
        BY <2>4 DEF Succeeds, RecordedAgain, TypeOK, TooMany
      <4>3. present' = present /\ threw' = threw /\ leftSince' = leftSince
        BY <1>2, <2>4 DEF GameOver
      <4> QED BY <1>1, <3>5, <4>1, <4>2, <4>3, StackTyped DEF TypeOK, GamePC
    <3> QED BY <1>1, <3>5, <3>7, <3>8
  <2> QED BY <1>2, <2>3, <2>4 DEF GameOver
<1>3. CASE PollGameover
  <2>1. StackFits'
    BY <1>0, <1>3, PopFits DEF PollGameover, Interrupted, flags, RemoveTop, StackFits
  <2>2. TypeOK'
    <3>1. {playing', roleInited', gameover', dying', interrupted'} \subseteq BOOLEAN
      BY <1>3 DEF PollGameover, DatabaseThrows, Interrupted, Succeeds, Fails, flags, TypeOK
    <3>2. error' \in 0 .. TooMany
      BY <1>3 DEF PollGameover, DatabaseThrows, Interrupted, Succeeds, Fails, TypeOK, TooMany
    <3>4. threw' \in BOOLEAN
      BY <1>3 DEF PollGameover, DatabaseThrows, Interrupted, Succeeds, Fails, TypeOK
    <3>3. present' = present /\ recorded' = recorded /\ leftSince' = leftSince
      BY <1>3 DEF PollGameover, Interrupted
    <3> QED BY <1>1, <2>1, <3>1, <3>2, <3>3, <3>4, StackTyped DEF TypeOK, GamePC
  <2>3. Ending'
    BY <1>0, <1>3
    DEF PollGameover, DatabaseThrows, Interrupted, Succeeds, flags, Ending, TopIs, Top
  <2> QED BY <1>1, <2>1, <2>2, <2>3
<1> QED BY <1>2, <1>3

\* So does the poll about the missing.
LEMMA PollInv ==
  ASSUME IInv, PollDisconnected \/ ForceWait \/ CountVotes PROVE Core'
<1> USE MaxPlayersAssumption, MaxDepthAssumption DEF MaxPlayersAssumption, MaxDepthAssumption, IInv, Core
<1>0. /\ gpc \in {"run", "forceWait", "poll"} /\ stack # <<>> /\ Top = "pollDisconnected"
      /\ stack \in Seq(Kinds)
  BY DEF PollDisconnected, ForceWait, CountVotes, Polling, TopIs, TypeOK
<1>1. StackFits'
  BY <1>0, PopFits
  DEF PollDisconnected, ForceWait, CountVotes, Interrupted, flags, RemoveTop, StackFits
<1>2. Ending'
  <2>1. gameover => threw
    BY <1>0, OverIsDisturbed DEF TopIs
  <2>2. gameover' = gameover /\ recorded' = recorded /\ (threw => threw')
    BY DEF PollDisconnected, ForceWait, CountVotes, DatabaseThrows, Interrupted, flags
  <2> QED BY <2>1, <2>2 DEF Ending
<1>3. Polling' /\ Counted'
  BY <1>0
  DEF PollDisconnected, ForceWait, CountVotes, DatabaseThrows, Succeeds, Fails, Interrupted,
      Polling, Counted, TopIs, Top
<1>4. TypeOK'
  <2>1. {playing', roleInited', gameover', dying', interrupted'} \subseteq BOOLEAN
    BY DEF PollDisconnected, ForceWait, CountVotes, DatabaseThrows, Succeeds, Fails, Interrupted,
           TypeOK, flags
  <2>2. error' \in 0 .. TooMany /\ gpc' \in GamePC
    BY DEF PollDisconnected, ForceWait, CountVotes, DatabaseThrows, Succeeds, Fails, Interrupted,
           TypeOK, TooMany, GamePC
  <2>3. /\ present' = present /\ recorded' = recorded /\ threw' \in BOOLEAN
        /\ leftSince' = leftSince
    BY DEF PollDisconnected, ForceWait, CountVotes, DatabaseThrows, Succeeds, Fails, Interrupted,
           TypeOK
  <2> QED BY <1>1, <2>1, <2>2, <2>3, StackTyped DEF TypeOK
<1> QED BY <1>1, <1>2, <1>3, <1>4

\* So do players who come and go, whatever the game thread is doing.
LEMMA PlayersInv ==
  ASSUME IInv, PlayerEnter \/ UserLeave PROVE Core'
<1> USE MaxPlayersAssumption DEF MaxPlayersAssumption, IInv, Core
<1>1. UNCHANGED <<stack, error, flags, dying, gpc, recorded, threw>>
  BY DEF PlayerEnter, UserLeave, ghosts
<1>2. StackFits' /\ Polling' /\ Ending'
  BY <1>1 DEF flags, StackFits, Polling, Ending, TopIs, Top
<1>3. interrupted' \in BOOLEAN /\ leftSince' \in BOOLEAN
  BY DEF PlayerEnter, UserLeave, FalseNotify, ghosts, TypeOK
<1>4. TypeOK'
  BY <1>1, <1>3 DEF PlayerEnter, UserLeave, flags, TypeOK
<1>5. Counted'
  BY <1>1 DEF PlayerEnter, UserLeave, flags, ghosts, Counted, TopIs, Top, TypeOK
<1> QED BY <1>2, <1>4, <1>5

\* The end of a game comes after its draft: its state was pushed by the play.
LEMMA OverInv ==
  ASSUME IInv, [Next]_vars PROVE OverAfterDraft'
<1>1. CASE GameOver
  <2>1. stack # <<>> /\ stack \in Seq(Kinds) /\ Last(stack) = "gameOver"
    BY <1>1 DEF GameOver, TopIs, Top, IInv, Core, TypeOK
  <2>2. Len(stack) \in Nat \ {0} /\ stack[Len(stack)] = "gameOver"
    BY <2>1, TopOfStack
  <2>3. roleInited
    BY <2>2 DEF IInv, Core, StackFits, AllFit, Fits
  <2> QED BY <1>1, <2>3 DEF GameOver, OverAfterDraft
<1>2. CASE ~GameOver
  <2>1. gameover' = gameover /\ (roleInited => roleInited')
    BY <1>2
    DEF Next, GameStep, PlayerEnter, UserLeave, LoopHead, Check, Enter, WaitForEnter, SeatArrange,
        Draft, Play, PollGameover, PollDisconnected, ForceWait, CountVotes, Interrupted, flags, vars
  <2> QED BY <2>1 DEF IInv, OverAfterDraft
<1> QED BY <1>1, <1>2

LEMMA NextInv == IInv /\ [Next]_vars => IInv'
<1> SUFFICES ASSUME IInv, [Next]_vars PROVE IInv'
  OBVIOUS
<1>1. ASSUME GameStep PROVE Core'
  BY <1>1, LoopInv, PlayInv, EndInv, PollInv DEF GameStep
<1>2. ASSUME PlayerEnter \/ UserLeave PROVE Core'
  BY <1>2, PlayersInv
<1>3. ASSUME UNCHANGED vars PROVE Core'
  BY <1>3 DEF vars, IInv, Core, TypeOK, StackFits, Polling, Ending, Counted, TopIs, Top
<1> QED BY <1>1, <1>2, <1>3, OverInv DEF Next, IInv

LEMMA Invariance == Spec => []IInv
  BY InitInv, NextInv, PTL DEF Spec
-----------------------------------------------------------------------------
\* The stack never grows by more than the two states that may lie on the play, and
\* every field keeps its type.
THEOREM TypeCorrect == Spec => []TypeOK
<1>1. IInv => TypeOK
  BY DEF IInv, Core
<1> QED BY <1>1, Invariance, PTL

\* The poll about missing players is on top of the stack and is there only once.
THEOREM PollOnTop == Spec => []PollIsOnTop
<1>1. IInv => PollIsOnTop
  BY DEF IInv, Core, StackFits, AllFit, Fits, PollIsOnTop
<1> QED BY <1>1, Invariance, PTL

\* Votes are given to the poll that runs: the flag gameover tells which.
THEOREM VotesFindPoll == Spec => []PollAnswersFindTheirPoll
<1>1. IInv => PollAnswersFindTheirPoll
  <2> SUFFICES ASSUME IInv PROVE PollAnswersFindTheirPoll
    OBVIOUS
  <2>1. CASE stack = <<>>
    BY <2>1 DEF PollAnswersFindTheirPoll, TopIs
  <2>2. CASE stack # <<>>
    <3>1. Len(stack) \in Nat \ {0} /\ Top = stack[Len(stack)]
      BY <2>2, TopOfStack DEF IInv, Core, TypeOK, Top
    <3>2. Fits(Top, Len(stack), Len(stack), playing, roleInited, gameover)
      BY <3>1 DEF IInv, Core, StackFits, AllFit
    <3> QED BY <3>2 DEF Fits, PollAnswersFindTheirPoll, TopIs
  <2> QED BY <2>1, <2>2
<1> QED BY <1>1, Invariance, PTL

\* A handler of the play runs only when the loop has counted everybody.
THEOREM PlayWaits == Spec => []NoPlayWithMissing
<1>1. IInv => NoPlayWithMissing
  BY DEF IInv, Core, Counted, NoPlayWithMissing
<1> QED BY <1>1, Invariance, PTL

\* The result of a game is recorded once, however often its last poll is interrupted.
THEOREM OneResult == Spec => []ResultRecordedOnce
<1>1. IInv => ResultRecordedOnce
  BY DEF IInv, Core, TypeOK, Ending, ResultRecordedOnce
<1> QED BY <1>1, Invariance, PTL
-----------------------------------------------------------------------------
(* GameRun implements RoomLife *)

\* what the flags and the stack say about the phase
PhaseIs ==
  /\ gpc = "dead" => Phase = "ended"
  /\ gpc # "dead" /\ gameover => Phase = "over"
  /\ gpc # "dead" /\ ~gameover /\ roleInited =>
       Phase = IF TopIs("pollDisconnected") THEN "paused" ELSE "playing"
  /\ gpc # "dead" /\ ~gameover /\ ~roleInited =>
       Phase = IF playing THEN "seated" ELSE "lobby"

LEMMA PhaseFacts == IInv /\ IInv' => PhaseIs /\ PhaseIs'
<1>1. IInv => PhaseIs
  BY DEF PhaseIs, Phase, IInv, OverAfterDraft
<1>2. IInv' => PhaseIs'
  BY DEF PhaseIs, Phase, IInv, OverAfterDraft
<1> QED BY <1>1, <1>2

\* The steps between phases that RoomLife allows, one by one
LEMMA LifeSteps ==
  ASSUME \/ Phase = "lobby" /\ Phase' = "seated"
         \/ Phase = "seated" /\ Phase' = "playing"
         \/ Phase = "playing" /\ Phase' = "paused"
         \/ Phase = "paused" /\ Phase' = "playing"
         \/ Phase = "playing" /\ Phase' = "over"
         \/ /\ Phase \in {"lobby", "seated", "playing", "paused", "over"}
            /\ Phase' = "ended"
  PROVE  Life!Next
<1> HIDE DEF Phase
<1> QED BY DEF Life!Next, Life!Advance, Life!Before, Life!Phases

\* No flag is ever taken back, and a game thread that has ended stays so.
LEMMA FlagsStay ==
  ASSUME [Next]_vars
  PROVE  /\ gameover => gameover'
         /\ roleInited => roleInited'
         /\ playing => playing'
         /\ gpc = "dead" => gpc' = "dead"
  BY DEF Next, GameStep, PlayerEnter, UserLeave, LoopHead, Check, Enter, WaitForEnter, SeatArrange,
         Draft, Play, GameOver, PollGameover, PollDisconnected, ForceWait, CountVotes,
         DatabaseThrows, Succeeds, Fails, Interrupted, flags, vars

\* The game is over only by its own state, on top, and the draft ends only by its own.
LEMMA FlagsRise ==
  ASSUME IInv, [Next]_vars
  PROVE  /\ ~gameover /\ gameover' => roleInited /\ ~TopIs("pollDisconnected")
         /\ ~roleInited /\ roleInited' => playing /\ ~TopIs("pollDisconnected")'
<1>1. ASSUME ~gameover, gameover' PROVE roleInited /\ ~TopIs("pollDisconnected")
  <2>1. GameOver
    BY <1>1
    DEF Next, GameStep, PlayerEnter, UserLeave, LoopHead, Check, Enter, WaitForEnter, SeatArrange,
        Draft, Play, PollGameover, PollDisconnected, ForceWait, CountVotes, Interrupted, flags, vars
  <2>2. stack \in Seq(Kinds) /\ stack # <<>> /\ Last(stack) = "gameOver"
    BY <2>1 DEF GameOver, TopIs, Top, IInv, Core, TypeOK
  <2>3. Len(stack) \in Nat \ {0} /\ stack[Len(stack)] = "gameOver"
    BY <2>2, TopOfStack
  <2>4. roleInited
    BY <2>3 DEF IInv, Core, StackFits, AllFit, Fits
  <2> QED BY <2>2, <2>4 DEF TopIs, Top
<1>2. ASSUME ~roleInited, roleInited' PROVE playing /\ ~TopIs("pollDisconnected")'
  <2>1. Draft /\ stack' = Replace("play")
    BY <1>2
    DEF Next, GameStep, PlayerEnter, UserLeave, LoopHead, Check, Enter, WaitForEnter, SeatArrange,
        Draft, Play, GameOver, PollGameover, PollDisconnected, ForceWait, CountVotes, Interrupted,
        flags, vars
  <2>2. stack \in Seq(Kinds) /\ stack # <<>> /\ Last(stack) = "draft"
    BY <2>1 DEF Draft, TopIs, Top, IInv, Core, TypeOK
  <2>3. Len(stack) \in Nat \ {0} /\ stack[Len(stack)] = "draft"
    BY <2>2, TopOfStack
  <2>4. playing
    BY <2>3 DEF IInv, Core, StackFits, AllFit, Fits
  <2>5. Front(stack) \in Seq(Kinds)
    BY <2>2, PopFits DEF IInv, Core, StackFits, AllFit
  <2>6. Last(stack') = "play"
    BY <2>1, <2>5 DEF Replace, Last
  <2> QED BY <2>4, <2>6 DEF TopIs, Top
<1> QED BY <1>1, <1>2

\* The room goes through the phases that RoomLife promises: it is seated once, paused
\* and resumed while it plays, over only from the play, and ended for good.
THEOREM GoesThroughPhases == Spec => FollowsRoomLife
<1>1. Init => Life!Init
  BY DEF Init, Life!Init, Phase
<1>2. IInv /\ IInv' /\ [Next]_vars => [Life!Next]_Phase
  <2> SUFFICES ASSUME IInv, IInv', [Next]_vars, Phase' # Phase PROVE Life!Next
    OBVIOUS
  <2>1. PhaseIs /\ PhaseIs'
    BY PhaseFacts
  <2>2. gpc # "dead"
    BY <2>1, FlagsStay DEF PhaseIs
  <2>3. CASE gpc' = "dead"
    BY <2>1, <2>2, <2>3, LifeSteps DEF PhaseIs
  <2>4. CASE gpc' # "dead" /\ gameover'
    BY <2>1, <2>2, <2>4, FlagsRise, LifeSteps DEF PhaseIs
  <2>5. CASE gpc' # "dead" /\ ~gameover' /\ roleInited'
    BY <2>1, <2>2, <2>5, FlagsStay, FlagsRise, LifeSteps DEF PhaseIs
  <2>6. CASE gpc' # "dead" /\ ~gameover' /\ ~roleInited'
    BY <2>1, <2>2, <2>6, FlagsStay, LifeSteps DEF PhaseIs
  <2> QED BY <2>3, <2>4, <2>5, <2>6
<1> QED BY <1>1, <1>2, Invariance, PTL DEF Spec, FollowsRoomLife, Life!Spec
=============================================================================
