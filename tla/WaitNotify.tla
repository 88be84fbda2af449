----------------------------- MODULE WaitNotify -----------------------------
(***************************************************************************)
(* How a room's game thread asks players and gets their answers.           *)
(*                                                                         *)
(* The game thread runs the handler of the state on top of the stack.  The *)
(* handler calls waitForOne, waitForAll or waitForAllConnected: announce   *)
(* whose answer counts (token), send the request, sleep until the answers  *)
(* are ready, the wait is interrupted or it times out.  The main thread    *)
(* runs the players' packets (tryNotify) and their leaving and coming back *)
(* (falseNotify).  Neither takes m_mutex_for_wait, so every access of a    *)
(* shared field is a step of its own, in program order (x86 stores).       *)
(*                                                                         *)
(* A kind stands for the pair (state, step) a packet claims to answer and  *)
(* the state on top has.  States that do not wait are not modelled: a      *)
(* packet meeting one is rejected as with any other kind.  The state stack *)
(* itself is one push or pop at a time; only its top is visible here.      *)
(***************************************************************************)
EXTENDS Integers, FiniteSets

CONSTANTS
  MaxPlayers,      \* m_maxPlayers
  OneKinds,        \* states that ask one player (waitForOne)
  AllKinds,        \* drafts that ask everyone once (waitForAll, resetReady only if !isSet)
  ConnectedKinds,  \* polls that ask those present (poll: waitForAllConnected)
  MaxReply         \* bound: how many answers the players send

Kinds  == OneKinds \cup AllKinds \cup ConnectedKinds
NoKind == "none"

ASSUME MaxPlayersAssumption == MaxPlayers \in Nat \ {0}
ASSUME MaxReplyAssumption == MaxReply \in Nat
ASSUME KindsAssumption ==
  /\ OneKinds \cap AllKinds = {} /\ OneKinds \cap ConnectedKinds = {}
  /\ AllKinds \cap ConnectedKinds = {}
  /\ NoKind \notin Kinds

VARIABLES
  top,          \* topGameState(): its kind, whom it asks, isSet
  roleInited,   \* the draft is over
  token,        \* m_token: the player whose answer counts, or Everyone
  ready,        \* m_ready
  interrupted,
  buf,          \* buf of each GameGrailPlayerContext
  connected,    \* isConnected of each player
  i,            \* loop index of the sending loop
  gpc,          \* where the game thread is
  mpc,          \* where the main thread is
  msg,          \* the packet (or the player who came or left) the main thread is at
  freed,        \* answers deleted
  leaked,       \* answers nobody points to any more
  received,     \* number of answers received so far
  askedTo,      \* ghost: who was sent the request of the present wait
  heard,        \* ghost: whose answer to the present question was accepted
  taken         \* ghost: answers used by a handler when their m_ready had been raised

question == <<top, roleInited>>
waiting  == <<token, ready, interrupted>>
replies  == <<buf, freed, leaked, received>>
ghosts   == <<askedTo, heard, taken>>
vars == <<top, roleInited, token, ready, interrupted, buf, connected, i, gpc, mpc, msg,
          freed, leaked, received, askedTo, heard, taken>>

Players  == 0 .. MaxPlayers - 1
Everyone == -1
Reply    == [id : 1 .. MaxReply, kind : Kinds]
NoReply  == [id |-> 0, kind |-> NoKind]
State    == [kind : Kinds, target : Players \cup {Everyone}, isSet : BOOLEAN]
NoState  == [kind |-> NoKind, target |-> Everyone, isSet |-> FALSE]
NoMessage == [player |-> 0, reply |-> NoReply]
Message   == [player : Players, reply : Reply \cup {NoReply}]

GamePC == {"choose", "push", "ask", "clear", "reset", "token", "send", "test",
           "asleep", "return", "caught", "handle", "timedOut"}
MainPC == {"idle", "token", "state", "reject", "store", "ready", "interrupt", "notify"}

TypeOK ==
  /\ top \in State \cup {NoState}
  /\ roleInited \in BOOLEAN /\ interrupted \in BOOLEAN
  /\ token \in Players \cup {Everyone}
  /\ ready \in [Players -> BOOLEAN]
  /\ connected \in [Players -> BOOLEAN]
  /\ buf \in [Players -> Reply \cup {NoReply}]
  /\ i \in 0 .. MaxPlayers
  /\ gpc \in GamePC /\ mpc \in MainPC
  /\ msg \in Message
  /\ freed \subseteq 1 .. MaxReply /\ leaked \subseteq 1 .. MaxReply
  /\ taken \subseteq 1 .. MaxReply
  /\ received \in 0 .. MaxReply
  /\ askedTo \subseteq Players /\ heard \subseteq Players

AsksOne == top.kind \in OneKinds

Waits == gpc \in {"send", "test", "asleep", "return"}

\* The players whose answers the state on top waits for
Awaited == IF top.target = Everyone THEN Players ELSE {top.target}

\* m_token and m_ready are not initialised by the constructor
Init ==
  /\ top = NoState
  /\ roleInited = FALSE
  /\ token \in Players \cup {Everyone}
  /\ ready \in [Players -> BOOLEAN]
  /\ interrupted = FALSE
  /\ buf = [p \in Players |-> NoReply]
  /\ connected = [p \in Players |-> TRUE]
  /\ i = 0
  /\ gpc = "push" /\ mpc = "idle"
  /\ msg = NoMessage
  /\ freed = {} /\ leaked = {} /\ received = 0
  /\ askedTo = {} /\ heard = {} /\ taken = {}
-----------------------------------------------------------------------------
(* The game thread *)

\* A state nobody has asked about yet.  Drafts run before roleInited, polls after.
FreshState ==
  [kind : OneKinds, target : Players, isSet : {FALSE}] \cup
  [kind : IF roleInited THEN ConnectedKinds ELSE AllKinds, target : {Everyone}, isSet : {FALSE}]

\* The handler is done with its state.  The last one of the draft ends with
\* initPlayerEntities.  Under the popped state lies another one, or none.
Pop ==
  /\ gpc = "choose"
  /\ roleInited' \in {roleInited, TRUE}
  /\ \/ top' = NoState /\ gpc' = "push"
     \/ top' \in FreshState /\ top'.kind \notin AllKinds /\ gpc' = "ask"
  /\ heard' = {}
  /\ UNCHANGED <<waiting, replies, connected, i, mpc, msg, askedTo, taken>>

Push ==
  /\ gpc \in {"choose", "push"}
  /\ top.kind \notin AllKinds          \* a draft is popped before the next push
  /\ top' \in FreshState
  /\ gpc' = "ask"
  /\ heard' = {}
  /\ UNCHANGED <<roleInited, waiting, replies, connected, i, mpc, msg, askedTo, taken>>

\* The state stays on top: it was interrupted, or its handler returned an error
\* (a draft always ends by popping itself).
Keep ==
  /\ gpc = "choose"
  /\ top.kind \notin AllKinds
  /\ gpc' = "ask"
  /\ UNCHANGED <<question, waiting, replies, connected, i, mpc, msg, ghosts>>

\* mutant: the draft calls resetReady each time it is entered
Ask_AlwaysResets ==
  /\ gpc = "ask"
  /\ gpc' = "clear"
  /\ UNCHANGED <<question, waiting, replies, connected, i, mpc, msg, ghosts>>

\* handle is entered: a draft that is set goes straight to waitForAll
Ask ==
  /\ gpc = "ask"
  /\ gpc' = IF top.kind \in AllKinds /\ top.isSet THEN "token" ELSE "clear"
  /\ UNCHANGED <<question, waiting, replies, connected, i, mpc, msg, ghosts>>

ClearInterrupted ==
  /\ gpc = "clear"
  /\ interrupted' = FALSE
  /\ gpc' = "reset"
  /\ UNCHANGED <<question, token, ready, replies, connected, i, mpc, msg, ghosts>>

\* mutant: the one who is asked is not marked as missing
ResetReady_Nobody ==
  /\ gpc = "reset"
  /\ ready' = [p \in Players |-> AsksOne]
  /\ top' = [top EXCEPT !.isSet = (top.kind \in AllKinds)]
  /\ gpc' = "token"
  /\ heard' = IF top.kind \in AllKinds THEN heard ELSE {}
  /\ UNCHANGED <<roleInited, token, interrupted, replies, connected, i, mpc, msg, askedTo, taken>>

ResetReady ==
  /\ gpc = "reset"
  /\ ready' = [p \in Players |-> p \notin Awaited]
  /\ top' = [top EXCEPT !.isSet = (top.kind \in AllKinds)]
  /\ gpc' = "token"
  /\ heard' = IF top.kind \in AllKinds THEN heard ELSE {}
  /\ UNCHANGED <<roleInited, token, interrupted, replies, connected, i, mpc, msg, askedTo, taken>>

SetToken ==
  /\ gpc = "token"
  /\ token' = top.target
  /\ gpc' = "send"
  /\ UNCHANGED <<question, ready, interrupted, replies, connected, i, mpc, msg, ghosts>>

\* waitForOne tells everybody (sendMessage(-1)), the others only the missing
\* ones; sendMessage skips who is not connected.
Send ==
  /\ gpc = "send"
  /\ IF i < MaxPlayers
     THEN /\ i' = i + 1 /\ gpc' = gpc
          /\ askedTo' = IF connected[i] /\ (AsksOne \/ ~ready[i]) THEN askedTo \cup {i} ELSE askedTo
     ELSE i' = 0 /\ gpc' = "test" /\ askedTo' = askedTo
  /\ UNCHANGED <<question, waiting, replies, connected, mpc, msg, heard, taken>>

\* isReadyOrInterrupted, and isReadyOrInterruptedOrDisconnected for the polls
WaitIsOver ==
  \/ interrupted
  \/ \A p \in Awaited : ready[p] \/ (top.kind \in ConnectedKinds /\ ~connected[p])

\* timed_wait evaluates the predicate before it sleeps and after each notify
Test ==
  /\ gpc = "test"
  /\ gpc' = IF WaitIsOver THEN "return" ELSE "asleep"
  /\ UNCHANGED <<question, waiting, replies, connected, i, mpc, msg, ghosts>>

\* mutant: after the timeout the request is sent once more, without a limit
Timeout_SendAgain ==
  /\ gpc = "asleep"
  /\ gpc' = IF WaitIsOver THEN "return" ELSE "token"
  /\ UNCHANGED <<question, waiting, replies, connected, i, mpc, msg, ghosts>>

\* the deadline is absolute and m_maxAttempts is 1
Timeout ==
  /\ gpc = "asleep"
  /\ gpc' = IF WaitIsOver THEN "return" ELSE "timedOut"
  /\ askedTo' = {}
  /\ UNCHANGED <<question, waiting, replies, connected, i, mpc, msg, heard, taken>>

\* return interrupted ? throw GE_INTERRUPTED : true
Return ==
  /\ gpc = "return"
  /\ gpc' = IF interrupted THEN "caught" ELSE "handle"
  /\ askedTo' = {}
  /\ UNCHANGED <<question, waiting, replies, connected, i, mpc, msg, heard, taken>>

\* GameRun catches GE_INTERRUPTED and runs the state on top again
Caught ==
  /\ gpc = "caught"
  /\ interrupted' = FALSE
  /\ gpc' = IF top.kind \in AllKinds THEN "ask" ELSE "choose"
  /\ UNCHANGED <<question, token, ready, replies, connected, i, mpc, msg, ghosts>>

\* getReply: what the handler finds.  After a timeout waitForOne's callers do
\* not ask for the answer, the others look at every player.
AnswersSeen ==
  {p \in Awaited : /\ gpc = "timedOut" => ~AsksOne
                   /\ ready[p] /\ buf[p] # NoReply}

\* The answer in the buffer of p is new and its m_ready is still to be raised.
IsLate(p) == mpc = "ready" /\ msg.player = p

Handle ==
  /\ gpc \in {"handle", "timedOut"}
  /\ taken' = taken \cup {buf[p].id : p \in {q \in AnswersSeen : ~IsLate(q)}}
  /\ gpc' = "choose"
  /\ UNCHANGED <<question, waiting, replies, connected, i, mpc, msg, askedTo, heard>>

GameStep == \/ Pop \/ Push \/ Keep \/ Ask \/ ClearInterrupted \/ ResetReady
            \/ SetToken \/ Send \/ Test \/ Return \/ Caught \/ Handle
-----------------------------------------------------------------------------
(* The main thread *)

\* A packet of player p that claims to answer a state of kind k
Receive(p, k) ==
  /\ mpc = "idle" /\ connected[p]
  /\ received < MaxReply
  /\ received' = received + 1
  /\ msg' = [player |-> p, reply |-> [id |-> received + 1, kind |-> k]]
  /\ mpc' = "token"
  /\ UNCHANGED <<question, waiting, buf, freed, leaked, connected, i, gpc, ghosts>>

\* tryNotify: id == m_token || m_token == -1
CheckToken ==
  /\ mpc = "token"
  /\ mpc' = IF token \in {msg.player, Everyone} THEN "state" ELSE "reject"
  /\ UNCHANGED <<question, waiting, replies, connected, i, gpc, msg, ghosts>>

\* tryNotify: state and step are those of topGameState(), which throws on an
\* empty stack: UserTask's catch does not know of the answer any more
CheckState ==
  /\ mpc = "state"
  /\ mpc' = CASE top = NoState -> "idle"
              [] top # NoState /\ top.kind = msg.reply.kind -> "store"
              [] OTHER -> "reject"
  /\ msg' = IF top = NoState THEN NoMessage ELSE msg
  /\ leaked' = IF top = NoState THEN leaked \cup {msg.reply.id} ELSE leaked
  /\ UNCHANGED <<question, waiting, buf, freed, received, connected, i, gpc, ghosts>>

\* tryNotify logs the state on top and returns false, UserTask deletes the answer
Reject ==
  /\ mpc = "reject"
  /\ mpc' = "idle" /\ msg' = NoMessage
  /\ IF top = NoState
     THEN leaked' = leaked \cup {msg.reply.id} /\ freed' = freed
     ELSE freed' = freed \cup {msg.reply.id} /\ leaked' = leaked
  /\ UNCHANGED <<question, waiting, buf, received, connected, i, gpc, ghosts>>

\* mutant: setBuf does not delete the answer it replaces
SetBuf_NoDelete ==
  /\ mpc = "store"
  /\ buf' = [buf EXCEPT ![msg.player] = msg.reply]
  /\ mpc' = "ready"
  /\ UNCHANGED <<question, waiting, freed, leaked, received, connected, i, gpc, msg, ghosts>>

SetBuf ==
  /\ mpc = "store"
  /\ freed' = freed \cup ({buf[msg.player].id} \ {0})
  /\ buf' = [buf EXCEPT ![msg.player] = msg.reply]
  /\ mpc' = "ready"
  /\ UNCHANGED <<question, waiting, leaked, received, connected, i, gpc, msg, ghosts>>

RaiseReady ==
  /\ mpc = "ready"
  /\ ready' = [ready EXCEPT ![msg.player] = TRUE]
  /\ heard' = IF top.isSet \/ Waits \/ gpc = "token" THEN heard \cup {msg.player} ELSE heard
  /\ mpc' = "notify"
  /\ UNCHANGED <<question, token, interrupted, replies, connected, i, gpc, msg, askedTo, taken>>

\* notify_one wakes the game thread if it sleeps; if it does not, nothing happens
NotifyOne ==
  /\ mpc = "notify"
  /\ gpc' = IF gpc = "asleep" THEN "test" ELSE gpc
  /\ mpc' = "idle" /\ msg' = NoMessage
  /\ UNCHANGED <<question, waiting, replies, connected, i, ghosts>>

\* onUserLeave, after the seats are taken: no falseNotify before roleInited
Leave(p) ==
  /\ mpc = "idle" /\ connected[p]
  /\ connected' = [connected EXCEPT ![p] = FALSE]
  /\ IF roleInited
     THEN msg' = [player |-> p, reply |-> NoReply] /\ mpc' = "interrupt"
     ELSE UNCHANGED <<msg, mpc>>
  /\ UNCHANGED <<question, waiting, replies, i, gpc, ghosts>>

\* mutant: who comes back does not interrupt the wait
Rejoin_NoNotify(p) ==
  /\ mpc = "idle" /\ ~connected[p]
  /\ connected' = [connected EXCEPT ![p] = TRUE]
  /\ UNCHANGED <<msg, mpc>>
  /\ UNCHANGED <<question, waiting, replies, i, gpc, ghosts>>

\* playerEnterIntoTable, then onPlayerEnter
Rejoin(p) ==
  /\ mpc = "idle" /\ ~connected[p]
  /\ connected' = [connected EXCEPT ![p] = TRUE]
  /\ msg' = [player |-> p, reply |-> NoReply]
  /\ mpc' = "interrupt"
  /\ UNCHANGED <<question, waiting, replies, i, gpc, ghosts>>

FalseNotify ==
  /\ mpc = "interrupt"
  /\ IF token \in {msg.player, Everyone}
     THEN interrupted' = TRUE /\ mpc' = "notify" /\ msg' = msg
     ELSE interrupted' = interrupted /\ mpc' = "idle" /\ msg' = NoMessage
  /\ UNCHANGED <<question, token, ready, replies, connected, i, gpc, ghosts>>

MainStep == \/ CheckToken \/ CheckState \/ Reject \/ SetBuf \/ RaiseReady
            \/ NotifyOne \/ FalseNotify

Next ==
  \/ GameStep \/ Timeout \/ MainStep
  \/ \E p \in Players : Leave(p) \/ Rejoin(p) \/ \E k \in Kinds : Receive(p, k)

Spec == Init /\ [][Next]_vars

\* The game thread is scheduled, and the deadline of a wait passes however often
\* the sleeper is woken before it.
FairSpec == Spec /\ WF_vars(GameStep) /\ SF_vars(Timeout)
-----------------------------------------------------------------------------
(* Properties *)

\* An accepted answer to the present question stays accepted until a handler has
\* seen it, also when the draft is interrupted by a player coming back and
\* entered again; a question that is asked anew starts without answers.
AnswersAreKept ==
  (Waits \/ gpc \in {"caught", "ask", "token", "handle"}) =>
    \A p \in heard : ready[p] /\ buf[p] # NoReply

InMain == IF mpc \in {"token", "state", "reject", "store"} THEN {msg.reply.id} ELSE {}
Buffered == {buf[p].id : p \in Players} \ {0}

\* Every answer received has exactly one place: the main thread holds it, one
\* player's buffer holds it, it was deleted, or nobody points to it any more.
\* Two places mean a second delete to come.
RepliesOwnedOnce ==
  /\ Cardinality(InMain) + Cardinality(Buffered) + Cardinality(freed)
       + Cardinality(leaked) = received
  /\ \A p, q \in Players : p # q /\ buf[p] = buf[q] => buf[p] = NoReply
  /\ InMain \cap Buffered = {} /\ (InMain \cup Buffered) \cap (freed \cup leaked) = {}
  /\ freed \cap leaked = {}

\* The game thread does not sleep on the answer of a player who is there but was
\* never sent the request: either the wait is being interrupted, or the main
\* thread is about to do it.  Coming back and sending race in any order.
ReturningPlayerIsAsked ==
  \A p \in Players :
    (gpc = "asleep" /\ p \in Awaited /\ connected[p] /\ ~ready[p]) =>
      p \in askedTo \/ interrupted \/ (mpc = "interrupt" /\ msg.player = p)

\* No handler uses an answer that an earlier handler used: a buffer is not cleared when
\* it was read, only m_ready says that it is new.  There is one exception: of a player
\* who answers twice the handler may take the second answer on the m_ready of the first,
\* and the m_ready of the second is raised while the next question is being asked.
NoAnswerTwice ==
  [][(gpc \in {"handle", "timedOut"} /\ gpc' = "choose") =>
       \A p \in AnswersSeen : buf[p].id \notin taken]_vars

\* A wait comes to an end whatever the players do.
WaitEnds == gpc = "asleep" ~> gpc \in {"handle", "timedOut", "caught"}

\* What tryNotify is said to guarantee: an answer gets to a handler only if it
\* was for the state, at the step, that the handler serves.
AnswerFitsQuestion ==
  gpc \in {"handle", "timedOut"} => \A p \in AnswersSeen : buf[p].kind = top.kind
=============================================================================
