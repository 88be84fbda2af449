-------------------------- MODULE WaitNotify_proof --------------------------
(***************************************************************************)
(* Proofs about WaitNotify, for every number of players, of answers and of *)
(* kinds of states.  The game thread and the main thread share m_token,    *)
(* m_ready, interrupted and the buffers without a lock; what keeps them    *)
(* together is how far each of the two has got, so every part of the       *)
(* invariant says for a place of one thread what the fields hold whatever  *)
(* the other one does.                                                     *)
(***************************************************************************)
EXTENDS WaitNotify, FiniteSetTheorems, TLAPS

IsDraft == top.kind \in AllKinds

\* Only drafts are ever set; one that is not set has heard nobody, and one that has
\* gone past resetReady is set until it is popped.
Drafts ==
  /\ top.isSet => IsDraft
  /\ IsDraft /\ ~top.isSet => gpc \in {"ask", "clear", "reset"} /\ heard = {}
  /\ IsDraft /\ top.isSet => gpc \notin {"push", "clear", "reset"}

\* Whoever was heard is ready and has an answer, wherever the game thread is.
HeardIsReady == \A p \in heard : ready[p] /\ buf[p] # NoReply

\* While the game thread waits, m_token names whom it asks.
TokenIsSet == gpc \in {"send", "test", "asleep", "return"} => token = top.target

\* The sending loop has passed player p.
Passed(p) == gpc \in {"test", "asleep"} \/ (gpc = "send" /\ p < i)

\* Whom the loop has passed was sent the request, is not missing, or will interrupt.
PassedIsAsked ==
  /\ gpc # "send" => i = 0
  /\ \A p \in Players :
       (Passed(p) /\ p \in Awaited /\ connected[p] /\ ~ready[p]) =>
         p \in askedTo \/ interrupted \/ (mpc = "interrupt" /\ msg.player = p)

HasPacket == mpc \in {"token", "state", "reject", "store"}

\* What the main thread holds is a packet; once it is stored the buffer has it.
PacketInHand ==
  /\ HasPacket => msg.reply \in Reply
  /\ mpc = "ready" => msg.reply \in Reply /\ buf[msg.player] = msg.reply

\* Every answer received so far is in one place.
Owned ==
  /\ InMain \cup Buffered \cup freed \cup leaked = 1 .. received
  /\ \A p, q \in Players : p # q /\ buf[p].id = buf[q].id => buf[p].id = 0
  /\ InMain \cap Buffered = {}
  /\ (InMain \cup Buffered) \cap (freed \cup leaked) = {}
  /\ freed \cap leaked = {}

\* The game thread has marked those it asks as missing and has not got their answers yet.
Collects == \/ gpc \in {"token", "send", "test", "asleep", "return", "handle", "timedOut"}
            \/ IsDraft /\ top.isSet /\ gpc \in {"ask", "caught"}

\* An answer that was used is not in the main thread's hands, and does not count for
\* the question that is being asked.
UsedIsOld ==
  /\ taken \subseteq Buffered \cup freed
  /\ mpc = "ready" => msg.reply.id \notin taken
  /\ Collects => \A p \in Awaited : buf[p].id \in taken => ~ready[p]

IInv ==
  /\ TypeOK
  /\ Drafts
  /\ HeardIsReady
  /\ TokenIsSet
  /\ PassedIsAsked
  /\ PacketInHand
  /\ Owned
  /\ UsedIsOld
-----------------------------------------------------------------------------
LEMMA InitInv == Init => IInv
<1> SUFFICES ASSUME Init PROVE IInv
  OBVIOUS
<1> USE MaxPlayersAssumption, MaxReplyAssumption, KindsAssumption
    DEF MaxPlayersAssumption, MaxReplyAssumption, KindsAssumption, Init
<1>1. TypeOK
  <2>1. 0 \in Players /\ i \in 0 .. MaxPlayers /\ received \in 0 .. MaxReply
    BY DEF Players
  <2>2. msg \in Message
    BY <2>1 DEF Message, NoMessage
  <2>3. buf \in [Players -> Reply \cup {NoReply}] /\ connected \in [Players -> BOOLEAN]
    OBVIOUS
  <2>4. gpc \in GamePC /\ mpc \in MainPC
    BY DEF GamePC, MainPC
  <2> QED BY <2>1, <2>2, <2>3, <2>4 DEF TypeOK
<1>2. Drafts /\ HeardIsReady /\ TokenIsSet
  BY DEF Drafts, HeardIsReady, TokenIsSet, IsDraft, NoState, Kinds
<1>3. PassedIsAsked /\ PacketInHand
  BY DEF PassedIsAsked, Passed, PacketInHand, HasPacket
<1>4. InMain = {} /\ Buffered = {}
  BY DEF InMain, Buffered, NoReply
<1>5. Owned
  <2>1. InMain \cup Buffered \cup freed \cup leaked = 1 .. received
    BY <1>4
  <2>2. \A p, q \in Players : p # q /\ buf[p].id = buf[q].id => buf[p].id = 0
    BY DEF NoReply
  <2> QED BY <1>4, <2>1, <2>2 DEF Owned
<1>6. UsedIsOld
  BY DEF UsedIsOld, Collects, IsDraft, NoState, Kinds
<1> QED BY <1>1, <1>2, <1>3, <1>5, <1>6 DEF IInv
-----------------------------------------------------------------------------
(* What steps that leave some of the fields alone keep *)

\* The game thread never touches a buffer or the packet in the main thread's hands.
LEMMA OwnersStay ==
  ASSUME IInv, UNCHANGED <<replies, mpc, msg>>
  PROVE  PacketInHand' /\ Owned'
<1>1. PacketInHand'
  BY DEF IInv, PacketInHand, HasPacket, replies
<1>2. InMain' = InMain /\ Buffered' = Buffered
  BY DEF InMain, Buffered, replies
<1>3. Owned'
  BY <1>2 DEF IInv, Owned, replies
<1> QED BY <1>1, <1>3

\* Where the sending loop is and what it has achieved stays.
LEMMA AskedStays ==
  ASSUME IInv, UNCHANGED <<top, ready, interrupted, connected, i, gpc, askedTo, mpc, msg>>
  PROVE  PassedIsAsked'
BY DEF IInv, PassedIsAsked, Passed, Awaited

\* As long as the loop has passed nobody there is nothing to keep.
LEMMA NotSending ==
  ASSUME gpc' \notin {"send", "test", "asleep"}, i' = 0
  PROVE  PassedIsAsked'
BY DEF PassedIsAsked, Passed

LEMMA UsedStays ==
  ASSUME IInv, UNCHANGED <<replies, mpc, msg, taken, ready>>,
         Collects' => Collects /\ top'.target = top.target
  PROVE  UsedIsOld'
<1>1. Buffered' = Buffered
  BY DEF Buffered, replies
<1>2. Collects' => Awaited' = Awaited
  BY DEF Awaited
<1> QED BY <1>1, <1>2 DEF IInv, UsedIsOld, replies
-----------------------------------------------------------------------------
(* The game thread *)

LEMMA PopKeeps == IInv /\ Pop => IInv'
<1> SUFFICES ASSUME IInv, Pop PROVE IInv'
  OBVIOUS
<1> USE DEF IInv, Pop, question, waiting, ghosts
<1>1. TypeOK'
  BY DEF TypeOK, replies, GamePC, FreshState, State, Kinds, Players
<1>2. Drafts' /\ HeardIsReady' /\ TokenIsSet'
  <2>1. CASE top' = NoState /\ gpc' = "push"
    BY <2>1, KindsAssumption DEF Drafts, HeardIsReady, TokenIsSet, IsDraft, NoState, KindsAssumption, Kinds
  <2>2. CASE top' \in FreshState /\ top'.kind \notin AllKinds /\ gpc' = "ask"
    <3>1. top'.isSet = FALSE
      BY <2>2 DEF FreshState
    <3> QED BY <2>2, <3>1 DEF Drafts, HeardIsReady, TokenIsSet, IsDraft
  <2> QED BY <2>1, <2>2
<1>3. PassedIsAsked'
  BY NotSending DEF PassedIsAsked
<1>4. PacketInHand' /\ Owned'
  BY OwnersStay
<1>5. UsedIsOld'
  BY UsedStays, KindsAssumption DEF Collects, IsDraft, FreshState, NoState, KindsAssumption, Kinds
<1> QED BY <1>1, <1>2, <1>3, <1>4, <1>5

LEMMA PushKeeps == IInv /\ Push => IInv'
<1> SUFFICES ASSUME IInv, Push PROVE IInv'
  OBVIOUS
<1> USE DEF IInv, Push, question, waiting, ghosts
<1>1. TypeOK'
  BY DEF TypeOK, replies, GamePC, FreshState, State, Kinds, Players
<1>2. Drafts' /\ HeardIsReady' /\ TokenIsSet'
  BY KindsAssumption DEF Drafts, HeardIsReady, TokenIsSet, IsDraft, replies, FreshState, NoState, KindsAssumption, Kinds
<1>3. PassedIsAsked'
  BY NotSending DEF PassedIsAsked
<1>4. PacketInHand' /\ Owned'
  BY OwnersStay
<1>5. UsedIsOld'
  BY UsedStays DEF Collects, IsDraft, FreshState
<1> QED BY <1>1, <1>2, <1>3, <1>4, <1>5

LEMMA KeepKeeps == IInv /\ Keep => IInv'
<1> SUFFICES ASSUME IInv, Keep PROVE IInv'
  OBVIOUS
<1> USE DEF IInv, Keep, question, waiting, ghosts
<1>1. TypeOK'
  BY DEF TypeOK, replies, GamePC
<1>2. Drafts' /\ HeardIsReady' /\ TokenIsSet'
  BY DEF Drafts, HeardIsReady, TokenIsSet, IsDraft, replies
<1>3. PassedIsAsked'
  BY NotSending DEF PassedIsAsked
<1>4. PacketInHand' /\ Owned'
  BY OwnersStay
<1>5. UsedIsOld'
  BY UsedStays DEF Collects, IsDraft
<1> QED BY <1>1, <1>2, <1>3, <1>4, <1>5

LEMMA AskKeeps == IInv /\ Ask => IInv'
<1> SUFFICES ASSUME IInv, Ask PROVE IInv'
  OBVIOUS
<1> USE DEF IInv, Ask, question, waiting, ghosts
<1>1. TypeOK'
  BY DEF TypeOK, replies, GamePC
<1>2. Drafts' /\ HeardIsReady' /\ TokenIsSet'
  BY DEF Drafts, HeardIsReady, TokenIsSet, IsDraft, replies
<1>3. PassedIsAsked'
  BY NotSending DEF PassedIsAsked
<1>4. PacketInHand' /\ Owned'
  BY OwnersStay
<1>5. UsedIsOld'
  BY UsedStays DEF Collects, IsDraft, Drafts
<1> QED BY <1>1, <1>2, <1>3, <1>4, <1>5

LEMMA ClearInterruptedKeeps == IInv /\ ClearInterrupted => IInv'
<1> SUFFICES ASSUME IInv, ClearInterrupted PROVE IInv'
  OBVIOUS
<1> USE DEF IInv, ClearInterrupted, question, waiting, ghosts
<1>1. TypeOK'
  BY DEF TypeOK, replies, GamePC
<1>2. Drafts' /\ HeardIsReady' /\ TokenIsSet'
  BY DEF Drafts, HeardIsReady, TokenIsSet, IsDraft, replies
<1>3. PassedIsAsked'
  BY NotSending DEF PassedIsAsked
<1>4. PacketInHand' /\ Owned'
  BY OwnersStay
<1>5. UsedIsOld'
  BY UsedStays DEF Collects, IsDraft
<1> QED BY <1>1, <1>2, <1>3, <1>4, <1>5

LEMMA ResetReadyKeeps == IInv /\ ResetReady => IInv'
<1> SUFFICES ASSUME IInv, ResetReady PROVE IInv'
  OBVIOUS
<1> USE DEF IInv, ResetReady, question, waiting, ghosts
<1>1. TypeOK'
  <2>1. ready' \in [Players -> BOOLEAN] /\ heard' \subseteq Players
    BY DEF TypeOK
  <2>2. top' \in State \cup {NoState}
    <3>1. CASE top \in State
      <4>1. ASSUME NEW b \in BOOLEAN PROVE [top EXCEPT !.isSet = b] \in State
        BY <3>1 DEF State
      <4>2. (top.kind \in AllKinds) \in BOOLEAN
        OBVIOUS
      <4>3. top' = [top EXCEPT !.isSet = (top.kind \in AllKinds)]
        BY Zenon
      <4>4. top' \in State
        BY <4>1, <4>2, <4>3, Zenon
      <4> QED BY <4>4
    <3>2. CASE top = NoState
      <4>1. ~(NoKind \in AllKinds)
        BY KindsAssumption DEF KindsAssumption, Kinds
      <4>2. (top.kind \in AllKinds) = FALSE
        BY <3>2, <4>1 DEF NoState
      <4>3. top' = [top EXCEPT !.isSet = FALSE]
        BY <4>2, Zenon
      <4> QED BY <3>2, <4>3 DEF NoState
    <3> QED BY <3>1, <3>2 DEF TypeOK
  <2> QED BY <2>1, <2>2 DEF TypeOK, replies, GamePC
<1>2. Drafts' /\ HeardIsReady' /\ TokenIsSet'
  BY KindsAssumption DEF Drafts, HeardIsReady, TokenIsSet, IsDraft, replies, KindsAssumption, Kinds, TypeOK, State, NoState
<1>3. PassedIsAsked'
  BY NotSending DEF PassedIsAsked
<1>4. PacketInHand' /\ Owned'
  BY OwnersStay
<1>5. UsedIsOld'
  <2>1. Awaited' = Awaited /\ Buffered' = Buffered
    BY DEF Awaited, Buffered, replies, TypeOK, State, NoState
  <2>2. \A p \in Awaited : p \in Players => ~ready'[p]
    OBVIOUS
  <2>3. Awaited \subseteq Players
    BY DEF Awaited, TypeOK, State, NoState, Players, Everyone
  <2> QED BY <2>1, <2>2, <2>3 DEF UsedIsOld, replies
<1> QED BY <1>1, <1>2, <1>3, <1>4, <1>5

LEMMA SetTokenKeeps == IInv /\ SetToken => IInv'
<1> SUFFICES ASSUME IInv, SetToken PROVE IInv'
  OBVIOUS
<1> USE DEF IInv, SetToken, question, waiting, ghosts
<1>1. TypeOK'
  BY DEF TypeOK, replies, GamePC, State, NoState, Players, Everyone
<1>2. Drafts' /\ HeardIsReady' /\ TokenIsSet'
  BY DEF Drafts, HeardIsReady, TokenIsSet, IsDraft, replies, Waits
<1>3. PassedIsAsked'
  BY MaxPlayersAssumption DEF PassedIsAsked, Passed, MaxPlayersAssumption, Players
<1>4. PacketInHand' /\ Owned'
  BY OwnersStay
<1>5. UsedIsOld'
  BY UsedStays DEF Collects, IsDraft
<1> QED BY <1>1, <1>2, <1>3, <1>4, <1>5

LEMMA SendKeeps == IInv /\ Send => IInv'
<1> SUFFICES ASSUME IInv, Send PROVE IInv'
  OBVIOUS
<1> USE DEF IInv, Send, question, waiting, ghosts
<1>1. TypeOK'
  <2>1. i' \in 0 .. MaxPlayers /\ gpc' \in GamePC
    BY MaxPlayersAssumption DEF MaxPlayersAssumption, TypeOK, GamePC
  <2>2. i < MaxPlayers => i \in Players
    BY MaxPlayersAssumption DEF MaxPlayersAssumption, TypeOK, Players
  <2>3. askedTo' \subseteq Players
    BY <2>2 DEF TypeOK
  <2> QED BY <2>1, <2>3 DEF TypeOK, replies
<1>2. Drafts' /\ HeardIsReady' /\ TokenIsSet'
  BY DEF Drafts, HeardIsReady, TokenIsSet, IsDraft, replies
<1>3. PassedIsAsked'
  <2>1. CASE i < MaxPlayers
    <3> SUFFICES ASSUME NEW p \in Players, Passed(p)', p \in Awaited, connected[p], ~ready[p]
                 PROVE  p \in askedTo' \/ interrupted \/ (mpc = "interrupt" /\ msg.player = p)
      BY <2>1 DEF PassedIsAsked, Awaited
    <3>1. CASE p < i
      BY <2>1, <3>1 DEF PassedIsAsked, Passed
    <3>2. CASE p = i
      BY <2>1, <3>2
    <3> QED BY <2>1, <3>1, <3>2 DEF Passed, TypeOK, Players
  <2>2. CASE ~(i < MaxPlayers)
    <3>1. \A p \in Players : p < i
      BY <2>2, MaxPlayersAssumption DEF TypeOK, Players, MaxPlayersAssumption
    <3> QED BY <2>2, <3>1 DEF PassedIsAsked, Passed, Awaited
  <2> QED BY <2>1, <2>2
<1>4. PacketInHand' /\ Owned'
  BY OwnersStay
<1>5. UsedIsOld'
  BY UsedStays DEF Collects, IsDraft
<1> QED BY <1>1, <1>2, <1>3, <1>4, <1>5

LEMMA TestKeeps == IInv /\ Test => IInv'
<1> SUFFICES ASSUME IInv, Test PROVE IInv'
  OBVIOUS
<1> USE DEF IInv, Test, question, waiting, ghosts
<1>1. TypeOK'
  BY DEF TypeOK, replies, GamePC
<1>2. Drafts' /\ HeardIsReady' /\ TokenIsSet'
  BY DEF Drafts, HeardIsReady, TokenIsSet, IsDraft, replies
<1>3. PassedIsAsked'
  BY DEF PassedIsAsked, Passed, Awaited
<1>4. PacketInHand' /\ Owned'
  BY OwnersStay
<1>5. UsedIsOld'
  BY UsedStays DEF Collects, IsDraft
<1> QED BY <1>1, <1>2, <1>3, <1>4, <1>5

LEMMA TimeoutKeeps == IInv /\ Timeout => IInv'
<1> SUFFICES ASSUME IInv, Timeout PROVE IInv'
  OBVIOUS
<1> USE DEF IInv, Timeout, question, waiting, ghosts
<1>1. TypeOK'
  BY DEF TypeOK, replies, GamePC
<1>2. Drafts' /\ HeardIsReady' /\ TokenIsSet'
  BY DEF Drafts, HeardIsReady, TokenIsSet, IsDraft, replies
<1>3. PassedIsAsked'
  BY NotSending DEF PassedIsAsked
<1>4. PacketInHand' /\ Owned'
  BY OwnersStay
<1>5. UsedIsOld'
  BY UsedStays DEF Collects, IsDraft
<1> QED BY <1>1, <1>2, <1>3, <1>4, <1>5

LEMMA ReturnKeeps == IInv /\ Return => IInv'
<1> SUFFICES ASSUME IInv, Return PROVE IInv'
  OBVIOUS
<1> USE DEF IInv, Return, question, waiting, ghosts
<1>1. TypeOK'
  BY DEF TypeOK, replies, GamePC
<1>2. Drafts' /\ HeardIsReady' /\ TokenIsSet'
  BY DEF Drafts, HeardIsReady, TokenIsSet, IsDraft, replies
<1>3. PassedIsAsked'
  BY NotSending DEF PassedIsAsked
<1>4. PacketInHand' /\ Owned'
  BY OwnersStay
<1>5. UsedIsOld'
  BY UsedStays DEF Collects, IsDraft
<1> QED BY <1>1, <1>2, <1>3, <1>4, <1>5

LEMMA CaughtKeeps == IInv /\ Caught => IInv'
<1> SUFFICES ASSUME IInv, Caught PROVE IInv'
  OBVIOUS
<1> USE DEF IInv, Caught, question, waiting, ghosts
<1>1. TypeOK'
  BY DEF TypeOK, replies, GamePC
<1>2. Drafts' /\ HeardIsReady' /\ TokenIsSet'
  BY DEF Drafts, HeardIsReady, TokenIsSet, IsDraft, replies
<1>3. PassedIsAsked'
  BY NotSending DEF PassedIsAsked
<1>4. PacketInHand' /\ Owned'
  BY OwnersStay
<1>5. UsedIsOld'
  BY UsedStays DEF Collects, IsDraft, Drafts
<1> QED BY <1>1, <1>2, <1>3, <1>4, <1>5

LEMMA HandleKeeps == IInv /\ Handle => IInv'
<1> SUFFICES ASSUME IInv, Handle PROVE IInv'
  OBVIOUS
<1> USE DEF IInv, Handle, question, waiting, ghosts
<1>1. TypeOK'
  <2>1. AnswersSeen \subseteq Players
    BY DEF AnswersSeen, Awaited, TypeOK, State, NoState, Players, Everyone
  <2>2. \A p \in AnswersSeen : buf[p].id \in 1 .. MaxReply
    BY <2>1 DEF AnswersSeen, TypeOK, Reply
  <2> QED BY <2>2 DEF TypeOK, replies, GamePC
<1>2. Drafts' /\ HeardIsReady' /\ TokenIsSet'
  BY DEF Drafts, HeardIsReady, TokenIsSet, IsDraft, replies
<1>3. PassedIsAsked'
  BY NotSending DEF PassedIsAsked
<1>4. PacketInHand' /\ Owned'
  BY OwnersStay
<1>5. UsedIsOld'
  <2>1. Buffered' = Buffered
    BY DEF Buffered, replies
  <2>2. AnswersSeen \subseteq Players
    BY DEF AnswersSeen, Awaited, TypeOK, State, NoState, Players, Everyone
  <2>3. \A p \in AnswersSeen : buf[p] \in Reply
    BY <2>2 DEF AnswersSeen, TypeOK
  <2>4. {buf[p].id : p \in AnswersSeen} \subseteq Buffered
    BY <2>2, <2>3 DEF Buffered, Reply
  <2>5. taken' \subseteq Buffered' \cup freed'
    BY <2>1, <2>4 DEF UsedIsOld, replies
  <2>6. ASSUME mpc = "ready", NEW p \in AnswersSeen, ~IsLate(p) PROVE msg.reply.id # buf[p].id
    <3>1. msg.player \in Players /\ msg.player # p /\ buf[msg.player] = msg.reply
      BY <2>6 DEF IsLate, PacketInHand, TypeOK, Message
    <3> QED BY <2>2, <2>3, <2>6, <3>1 DEF Owned, Reply
  <2>7. mpc' = "ready" => msg'.reply.id \notin taken'
    BY <2>6 DEF UsedIsOld
  <2> QED BY <2>5, <2>7 DEF UsedIsOld, Collects
<1> QED BY <1>1, <1>2, <1>3, <1>4, <1>5
-----------------------------------------------------------------------------
(* The main thread *)

LEMMA ReceiveKeeps ==
  ASSUME NEW p \in Players, NEW k \in Kinds, IInv, Receive(p, k) PROVE IInv'
<1> USE DEF IInv, Receive, question, waiting, ghosts
<1>1. TypeOK'
  <2>1. received' \in 0 .. MaxReply /\ received + 1 \in 1 .. MaxReply
    BY MaxReplyAssumption DEF MaxReplyAssumption, TypeOK
  <2>2. msg' \in Message
    BY <2>1 DEF Message, Reply
  <2> QED BY <2>1, <2>2 DEF TypeOK, MainPC
<1>2. Drafts' /\ HeardIsReady' /\ TokenIsSet'
  BY DEF Drafts, HeardIsReady, TokenIsSet, IsDraft, replies
<1>3. PassedIsAsked'
  BY DEF PassedIsAsked, Passed, Awaited, replies
<1>4. PacketInHand'
  <2>1. received + 1 \in 1 .. MaxReply
    BY MaxReplyAssumption DEF MaxReplyAssumption, TypeOK
  <2> QED BY <2>1 DEF PacketInHand, HasPacket, Reply
<1>5. Owned'
  <2>1. InMain = {} /\ InMain' = {received + 1} /\ Buffered' = Buffered
    BY DEF InMain, Buffered
  <2>2. 1 .. received' = (1 .. received) \cup {received + 1} /\ received + 1 \notin 1 .. received
    BY DEF TypeOK
  <2> QED BY <2>1, <2>2 DEF Owned
<1>6. UsedIsOld'
  BY DEF UsedIsOld, Collects, IsDraft, Awaited, Buffered, replies
<1> QED BY <1>1, <1>2, <1>3, <1>4, <1>5, <1>6

LEMMA CheckTokenKeeps ==
  ASSUME IInv, CheckToken PROVE IInv'
<1> USE DEF IInv, CheckToken, question, waiting, ghosts
<1>1. TypeOK'
  BY DEF TypeOK, replies, MainPC, Message, NoMessage, Players
<1>2. Drafts' /\ HeardIsReady' /\ TokenIsSet'
  BY DEF Drafts, HeardIsReady, TokenIsSet, IsDraft, replies
<1>3. PassedIsAsked'
  BY DEF PassedIsAsked, Passed, Awaited, replies
<1>4. PacketInHand'
  BY DEF PacketInHand, HasPacket, replies
<1>5. Owned'
  <2>1. InMain' = InMain /\ Buffered' = Buffered
    BY DEF InMain, Buffered, replies
  <2> QED BY <2>1 DEF Owned, replies
<1>6. UsedIsOld'
  BY DEF UsedIsOld, Collects, IsDraft, Awaited, Buffered, replies
<1> QED BY <1>1, <1>2, <1>3, <1>4, <1>5, <1>6

LEMMA CheckStateKeeps ==
  ASSUME IInv, CheckState PROVE IInv'
<1> USE DEF IInv, CheckState, question, waiting, ghosts
<1>1. TypeOK'
  <2>1. 0 \in Players
    BY MaxPlayersAssumption DEF MaxPlayersAssumption, Players
  <2>2. msg' \in Message
    BY <2>1 DEF NoMessage, Message, TypeOK
  <2>3. mpc' \in MainPC
    BY DEF MainPC
  <2>4. leaked' \subseteq 1 .. MaxReply
    BY DEF TypeOK, PacketInHand, HasPacket, Reply
  <2> QED BY <2>2, <2>3, <2>4 DEF TypeOK
<1>2. Drafts' /\ HeardIsReady' /\ TokenIsSet'
  BY DEF Drafts, HeardIsReady, TokenIsSet, IsDraft, replies
<1>3. PassedIsAsked'
  <2>1. mpc' # "interrupt" /\ mpc # "interrupt"
    OBVIOUS
  <2> QED BY <2>1 DEF PassedIsAsked, Passed, Awaited
<1>4. PacketInHand'
  BY DEF PacketInHand, HasPacket, replies
<1>5. Owned'
  <2>1. Buffered' = Buffered /\ InMain = {msg.reply.id}
    BY DEF InMain, Buffered
  <2>2. CASE top = NoState
    <3>1. InMain' = {} /\ leaked' = leaked \cup InMain /\ freed' = freed /\ received' = received
      BY <2>1, <2>2 DEF InMain
    <3> QED BY <2>1, <3>1 DEF Owned
  <2>3. CASE top # NoState
    <3>1. InMain' = InMain /\ leaked' = leaked /\ freed' = freed /\ received' = received
      BY <2>1, <2>3 DEF InMain
    <3> QED BY <2>1, <3>1 DEF Owned
  <2> QED BY <2>2, <2>3
<1>6. UsedIsOld'
  <2>1. mpc' # "ready" /\ Buffered' = Buffered
    BY DEF Buffered
  <2> QED BY <2>1 DEF UsedIsOld, Collects, IsDraft, Awaited
<1> QED BY <1>1, <1>2, <1>3, <1>4, <1>5, <1>6

LEMMA RejectKeeps ==
  ASSUME IInv, Reject PROVE IInv'
<1> USE DEF IInv, Reject, question, waiting, ghosts
<1>1. TypeOK'
  <2>1. 0 \in Players
    BY MaxPlayersAssumption DEF MaxPlayersAssumption, Players
  <2>2. NoMessage \in Message
    BY <2>1 DEF NoMessage, Message
  <2>3. leaked' \subseteq 1 .. MaxReply /\ freed' \subseteq 1 .. MaxReply
    BY DEF TypeOK, PacketInHand, HasPacket, Reply
  <2> QED BY <2>2, <2>3 DEF TypeOK, MainPC
<1>2. Drafts' /\ HeardIsReady' /\ TokenIsSet'
  BY DEF Drafts, HeardIsReady, TokenIsSet, IsDraft, replies
<1>3. PassedIsAsked'
  BY DEF PassedIsAsked, Passed, Awaited, replies
<1>4. PacketInHand'
  BY DEF PacketInHand, HasPacket, replies
<1>5. Owned'
  <2>1. Buffered' = Buffered /\ InMain = {msg.reply.id} /\ InMain' = {}
    BY DEF InMain, Buffered
  <2>2. \/ leaked' = leaked \cup InMain /\ freed' = freed
        \/ freed' = freed \cup InMain /\ leaked' = leaked
    BY <2>1
  <2>3. CASE leaked' = leaked \cup InMain /\ freed' = freed
    BY <2>1, <2>3 DEF Owned
  <2>4. CASE freed' = freed \cup InMain /\ leaked' = leaked
    BY <2>1, <2>4 DEF Owned
  <2> QED BY <2>2, <2>3, <2>4
<1>6. UsedIsOld'
  <2>1. mpc' # "ready" /\ Buffered' = Buffered /\ freed \subseteq freed'
    BY DEF Buffered
  <2> QED BY <2>1 DEF UsedIsOld, Collects, IsDraft, Awaited
<1> QED BY <1>1, <1>2, <1>3, <1>4, <1>5, <1>6

\* The answer that setBuf replaces goes, and the new one takes its place.
LEMMA SetBufMoves ==
  ASSUME IInv, SetBuf
  PROVE  LET old == buf[msg.player].id
             new == msg.reply.id
         IN  /\ msg.player \in Players /\ msg.reply \in Reply
             /\ InMain = {new} /\ InMain' = {}
             /\ Buffered' = (Buffered \ {old}) \cup {new}
             /\ freed' = freed \cup ({old} \ {0})
             /\ {old} \ {0} \subseteq Buffered
<1> USE DEF IInv, SetBuf
<1>1. msg.player \in Players /\ msg.reply \in Reply
  BY DEF TypeOK, Message, PacketInHand, HasPacket
<1>2. InMain = {msg.reply.id} /\ InMain' = {}
  BY DEF InMain
<1>3. \A p \in Players : buf'[p] = IF p = msg.player THEN msg.reply ELSE buf[p]
  BY <1>1 DEF TypeOK
<1>4. msg.reply.id # 0
  BY <1>1 DEF Reply
<1>5. Buffered' = (Buffered \ {buf[msg.player].id}) \cup {msg.reply.id}
  <2>1. Buffered' \subseteq (Buffered \ {buf[msg.player].id}) \cup {msg.reply.id}
    BY <1>1, <1>3 DEF Buffered, Owned
  <2>2. (Buffered \ {buf[msg.player].id}) \cup {msg.reply.id} \subseteq Buffered'
    BY <1>1, <1>3, <1>4 DEF Buffered
  <2> QED BY <2>1, <2>2
<1>6. {buf[msg.player].id} \ {0} \subseteq Buffered
  BY <1>1 DEF Buffered
<1> QED BY <1>1, <1>2, <1>5, <1>6

LEMMA SetBufKeeps ==
  ASSUME IInv, SetBuf PROVE IInv'
<1> USE DEF IInv, SetBuf, question, waiting, ghosts
<1>1. TypeOK'
  <2>1. msg.player \in Players /\ msg.reply \in Reply
    BY SetBufMoves
  <2>2. {buf[msg.player].id} \ {0} \subseteq 1 .. MaxReply
    BY <2>1 DEF TypeOK, Reply, NoReply
  <2>3. freed' \subseteq 1 .. MaxReply
    BY <2>2 DEF TypeOK
  <2> QED BY <2>1, <2>3 DEF TypeOK, MainPC
<1>2. Drafts' /\ HeardIsReady' /\ TokenIsSet'
  <2>1. msg.reply \in Reply /\ \A p \in heard : p \in Players
    BY SetBufMoves DEF TypeOK
  <2>2. msg.reply # NoReply
    BY <2>1 DEF Reply, NoReply
  <2>3. HeardIsReady'
    BY <2>1, <2>2 DEF HeardIsReady, TypeOK
  <2> QED BY <2>3 DEF Drafts, TokenIsSet, IsDraft
<1>3. PassedIsAsked'
  BY DEF PassedIsAsked, Passed, Awaited, replies
<1>4. PacketInHand'
  BY SetBufMoves DEF PacketInHand, HasPacket, TypeOK
<1>5. Owned'
  <2> DEFINE old == buf[msg.player].id
             new == msg.reply.id
  <2> USE SetBufMoves
  <2>1. new \notin Buffered /\ new \notin freed \cup leaked /\ new # 0
    BY DEF Owned, Reply
  <2>2. InMain' \cup Buffered' \cup freed' \cup leaked' = 1 .. received'
    BY <2>1 DEF Owned, Buffered
  <2>3. ASSUME NEW p \in Players, NEW q \in Players, p # q, buf'[p].id = buf'[q].id
        PROVE  buf'[p].id = 0
    <3>1. \A r \in Players : buf'[r] = IF r = msg.player THEN msg.reply ELSE buf[r]
      BY DEF TypeOK
    <3>2. \A r \in Players : buf[r].id # new
      BY <2>1 DEF Buffered
    <3> QED BY <2>3, <3>1, <3>2 DEF Owned
  <2>4. /\ InMain' \cap Buffered' = {}
        /\ (InMain' \cup Buffered') \cap (freed' \cup leaked') = {}
        /\ freed' \cap leaked' = {}
    BY <2>1 DEF Owned
  <2> QED BY <2>2, <2>3, <2>4 DEF Owned
<1>6. UsedIsOld'
  <2> USE SetBufMoves
  <2>1. msg.reply.id \notin taken
    BY DEF UsedIsOld, Owned
  <2>2. taken' \subseteq Buffered' \cup freed'
    BY DEF UsedIsOld, Buffered
  <2>3. ASSUME Collects, NEW p \in Awaited, buf'[p].id \in taken PROVE ~ready[p]
    <3>1. p \in Players
      BY DEF Awaited, TypeOK, State, NoState, Players, Everyone
    <3>2. buf'[p] = buf[p]
      BY <2>1, <2>3, <3>1 DEF TypeOK
    <3> QED BY <2>3, <3>2 DEF UsedIsOld
  <2> QED BY <2>1, <2>2, <2>3 DEF UsedIsOld, Collects, IsDraft, Awaited
<1> QED BY <1>1, <1>2, <1>3, <1>4, <1>5, <1>6

LEMMA RaiseReadyKeeps ==
  ASSUME IInv, RaiseReady PROVE IInv'
<1> USE DEF IInv, RaiseReady, question, waiting, ghosts
<1>1. TypeOK'
  <2>1. msg.player \in Players
    BY DEF TypeOK, Message
  <2> QED BY <2>1 DEF TypeOK, replies, MainPC
<1>2. Drafts' /\ HeardIsReady' /\ TokenIsSet'
  <2>1. msg.player \in Players /\ msg.reply \in Reply /\ buf[msg.player] = msg.reply
    BY DEF TypeOK, Message, PacketInHand
  <2>2. msg.reply # NoReply
    BY <2>1 DEF Reply, NoReply
  <2>3. HeardIsReady'
    BY <2>1, <2>2 DEF HeardIsReady, TypeOK, replies
  <2>4. Drafts'
    BY DEF Drafts, IsDraft, Waits
  <2> QED BY <2>3, <2>4 DEF TokenIsSet
<1>3. PassedIsAsked'
  <2>1. \A p \in Players : ready[p] => ready'[p]
    BY DEF TypeOK
  <2>2. \A p \in Players : p \in Awaited' <=> p \in Awaited
    BY DEF Awaited
  <2>3. mpc # "interrupt"
    OBVIOUS
  <2> QED BY <2>1, <2>2, <2>3 DEF PassedIsAsked, Passed
<1>4. PacketInHand'
  BY DEF PacketInHand, HasPacket, replies
<1>5. Owned'
  <2>1. InMain' = InMain /\ Buffered' = Buffered
    BY DEF InMain, Buffered, replies
  <2> QED BY <2>1 DEF Owned, replies
<1>6. UsedIsOld'
  <2>1. Buffered' = Buffered
    BY DEF Buffered, replies
  <2>2. ASSUME Collects, NEW p \in Awaited, buf[p].id \in taken PROVE ~ready'[p]
    <3>1. p \in Players
      BY DEF Awaited, TypeOK, State, NoState, Players, Everyone
    <3>2. p # msg.player
      BY <2>2 DEF UsedIsOld, PacketInHand
    <3> QED BY <2>2, <3>1, <3>2 DEF UsedIsOld, TypeOK
  <2> QED BY <2>1, <2>2 DEF UsedIsOld, Collects, IsDraft, Awaited, replies
<1> QED BY <1>1, <1>2, <1>3, <1>4, <1>5, <1>6

LEMMA NotifyOneKeeps ==
  ASSUME IInv, NotifyOne PROVE IInv'
<1> USE DEF IInv, NotifyOne, question, waiting, ghosts
<1>1. TypeOK'
  <2>1. 0 \in Players
    BY MaxPlayersAssumption DEF MaxPlayersAssumption, Players
  <2>2. NoMessage \in Message
    BY <2>1 DEF NoMessage, Message
  <2> QED BY <2>2 DEF TypeOK, replies, MainPC, GamePC
<1>2. Drafts' /\ HeardIsReady' /\ TokenIsSet'
  BY DEF Drafts, HeardIsReady, TokenIsSet, IsDraft, replies
<1>3. PassedIsAsked'
  BY DEF PassedIsAsked, Passed, Awaited, replies
<1>4. PacketInHand'
  BY DEF PacketInHand, HasPacket, replies
<1>5. Owned'
  <2>1. InMain' = InMain /\ Buffered' = Buffered
    BY DEF InMain, Buffered, replies
  <2> QED BY <2>1 DEF Owned, replies
<1>6. UsedIsOld'
  BY DEF UsedIsOld, Collects, IsDraft, Awaited, Buffered, replies
<1> QED BY <1>1, <1>2, <1>3, <1>4, <1>5, <1>6

LEMMA LeaveKeeps ==
  ASSUME NEW p \in Players, IInv, Leave(p) PROVE IInv'
<1> USE DEF IInv, Leave, question, waiting, ghosts
<1>1. TypeOK'
  BY DEF TypeOK, replies, MainPC, Message
<1>2. Drafts' /\ HeardIsReady' /\ TokenIsSet'
  BY DEF Drafts, HeardIsReady, TokenIsSet, IsDraft, replies
<1>3. PassedIsAsked'
  <2>1. \A q \in Players : connected'[q] => connected[q]
    BY DEF TypeOK
  <2> QED BY <2>1 DEF PassedIsAsked, Passed, Awaited
<1>4. PacketInHand'
  BY DEF PacketInHand, HasPacket, replies
<1>5. Owned'
  <2>1. InMain' = InMain /\ Buffered' = Buffered
    BY DEF InMain, Buffered, replies
  <2> QED BY <2>1 DEF Owned, replies
<1>6. UsedIsOld'
  BY DEF UsedIsOld, Collects, IsDraft, Awaited, Buffered, replies
<1> QED BY <1>1, <1>2, <1>3, <1>4, <1>5, <1>6

LEMMA RejoinKeeps ==
  ASSUME NEW p \in Players, IInv, Rejoin(p) PROVE IInv'
<1> USE DEF IInv, Rejoin, question, waiting, ghosts
<1>1. TypeOK'
  BY DEF TypeOK, replies, MainPC, Message
<1>2. Drafts' /\ HeardIsReady' /\ TokenIsSet'
  BY DEF Drafts, HeardIsReady, TokenIsSet, IsDraft, replies
<1>3. PassedIsAsked'
  <2>1. \A q \in Players : q # p => connected'[q] = connected[q]
    BY DEF TypeOK
  <2>2. mpc' = "interrupt" /\ msg'.player = p /\ mpc # "interrupt"
    OBVIOUS
  <2> QED BY <2>1, <2>2 DEF PassedIsAsked, Passed, Awaited
<1>4. PacketInHand'
  BY DEF PacketInHand, HasPacket, replies
<1>5. Owned'
  <2>1. InMain' = InMain /\ Buffered' = Buffered
    BY DEF InMain, Buffered, replies
  <2> QED BY <2>1 DEF Owned, replies
<1>6. UsedIsOld'
  BY DEF UsedIsOld, Collects, IsDraft, Awaited, Buffered, replies
<1> QED BY <1>1, <1>2, <1>3, <1>4, <1>5, <1>6

LEMMA FalseNotifyKeeps ==
  ASSUME IInv, FalseNotify PROVE IInv'
<1> USE DEF IInv, FalseNotify, question, waiting, ghosts
<1>1. TypeOK'
  <2>1. 0 \in Players
    BY MaxPlayersAssumption DEF MaxPlayersAssumption, Players
  <2>2. NoMessage \in Message
    BY <2>1 DEF NoMessage, Message
  <2> QED BY <2>2 DEF TypeOK, replies, MainPC
<1>2. Drafts' /\ HeardIsReady' /\ TokenIsSet'
  BY DEF Drafts, HeardIsReady, TokenIsSet, IsDraft, replies
<1>3. PassedIsAsked'
  <2>1. CASE token \in {msg.player, Everyone}
    BY <2>1 DEF PassedIsAsked, Passed
  <2>2. CASE token \notin {msg.player, Everyone}
    <3>1. \A p \in Players : Passed(p) /\ p \in Awaited => p # msg.player
      BY <2>2 DEF Passed, Awaited, TokenIsSet
    <3> QED BY <2>2, <3>1 DEF PassedIsAsked, Passed, Awaited
  <2> QED BY <2>1, <2>2
<1>4. PacketInHand'
  BY DEF PacketInHand, HasPacket, replies
<1>5. Owned'
  <2>1. InMain' = InMain /\ Buffered' = Buffered
    BY DEF InMain, Buffered, replies
  <2> QED BY <2>1 DEF Owned, replies
<1>6. UsedIsOld'
  BY DEF UsedIsOld, Collects, IsDraft, Awaited, Buffered, replies
<1> QED BY <1>1, <1>2, <1>3, <1>4, <1>5, <1>6
-----------------------------------------------------------------------------
\* Every step of the game thread and of the main thread preserves the invariant.
LEMMA NextInv == IInv /\ [Next]_vars => IInv'
<1> SUFFICES ASSUME IInv, [Next]_vars PROVE IInv'
  OBVIOUS
<1>1. CASE GameStep
  BY <1>1, PopKeeps, PushKeeps, KeepKeeps, AskKeeps, ClearInterruptedKeeps, ResetReadyKeeps,
     SetTokenKeeps, SendKeeps, TestKeeps, ReturnKeeps, CaughtKeeps, HandleKeeps DEF GameStep
<1>2. CASE Timeout
  BY <1>2, TimeoutKeeps
<1>3. CASE MainStep
  BY <1>3, CheckTokenKeeps, CheckStateKeeps, RejectKeeps, SetBufKeeps, RaiseReadyKeeps,
     NotifyOneKeeps, FalseNotifyKeeps DEF MainStep
<1>4. ASSUME NEW p \in Players, Leave(p) \/ Rejoin(p) PROVE IInv'
  BY <1>4, LeaveKeeps, RejoinKeeps
<1>5. ASSUME NEW p \in Players, NEW k \in Kinds, Receive(p, k) PROVE IInv'
  BY <1>5, ReceiveKeeps
<1>6. CASE UNCHANGED vars
  <2> USE <1>6 DEF vars, IInv
  <2>1. TypeOK' /\ Drafts' /\ HeardIsReady' /\ TokenIsSet'
    BY DEF TypeOK, Drafts, HeardIsReady, TokenIsSet, IsDraft
  <2>2. PassedIsAsked'
    BY AskedStays
  <2>3. PacketInHand' /\ Owned'
    BY OwnersStay DEF replies
  <2>4. UsedIsOld'
    BY UsedStays DEF Collects, IsDraft, replies
  <2> QED BY <2>1, <2>2, <2>3, <2>4
<1> QED BY <1>1, <1>2, <1>3, <1>4, <1>5, <1>6 DEF Next

LEMMA Invariant == Spec => []IInv
BY InitInv, NextInv, PTL DEF Spec

\* The fields of the room keep their types: the loop index never passes the players
\* and the main thread holds a packet or a player.
THEOREM TypeCorrect == Spec => []TypeOK
<1>1. IInv => TypeOK
  BY DEF IInv
<1> QED BY <1>1, Invariant, PTL

\* An accepted answer to the present question stays until a handler has seen it, also
\* when the draft is interrupted and entered again.
THEOREM AnswersSurvive == Spec => []AnswersAreKept
<1>1. IInv => AnswersAreKept
  BY DEF IInv, HeardIsReady, AnswersAreKept
<1> QED BY <1>1, Invariant, PTL

\* The elements of two sets without a common one are counted one by one.
LEMMA DisjointUnion ==
  ASSUME NEW S, NEW T, IsFiniteSet(S), IsFiniteSet(T), S \cap T = {}
  PROVE  IsFiniteSet(S \cup T) /\ Cardinality(S \cup T) = Cardinality(S) + Cardinality(T)
<1>1. Cardinality(S \cap T) = 0
  BY FS_EmptySet
<1>2. Cardinality(S) \in Nat /\ Cardinality(T) \in Nat
  BY FS_CardinalityType
<1>3. /\ IsFiniteSet(S \cup T)
      /\ Cardinality(S \cup T) = Cardinality(S) + Cardinality(T) - Cardinality(S \cap T)
  BY FS_Union
<1> QED BY <1>1, <1>2, <1>3

\* Every answer received has exactly one place: none is deleted twice, none is in two
\* buffers, and those nobody points to any more are counted.
THEOREM OneOwner == Spec => []RepliesOwnedOnce
<1>1. ASSUME IInv PROVE RepliesOwnedOnce
  <2> USE <1>1 DEF IInv
  <2>1. received \in Nat
    BY DEF TypeOK
  <2>2. IsFiniteSet(1 .. received) /\ Cardinality(1 .. received) = received
    BY <2>1, FS_Interval
  <2>3. /\ IsFiniteSet(InMain) /\ IsFiniteSet(Buffered)
        /\ IsFiniteSet(freed) /\ IsFiniteSet(leaked)
    BY <2>2, FS_Subset DEF Owned
  <2>4. /\ Cardinality(InMain) \in Nat /\ Cardinality(Buffered) \in Nat
        /\ Cardinality(freed) \in Nat /\ Cardinality(leaked) \in Nat
    BY <2>3, FS_CardinalityType
  <2>5. /\ IsFiniteSet(InMain \cup Buffered)
        /\ Cardinality(InMain \cup Buffered) = Cardinality(InMain) + Cardinality(Buffered)
    BY <2>3, DisjointUnion DEF Owned
  <2>6. /\ IsFiniteSet(freed \cup leaked)
        /\ Cardinality(freed \cup leaked) = Cardinality(freed) + Cardinality(leaked)
    BY <2>3, DisjointUnion DEF Owned
  <2>7. Cardinality((InMain \cup Buffered) \cup (freed \cup leaked))
          = Cardinality(InMain \cup Buffered) + Cardinality(freed \cup leaked)
    BY <2>5, <2>6, DisjointUnion DEF Owned
  <2>8. (InMain \cup Buffered) \cup (freed \cup leaked) = 1 .. received
    BY DEF Owned
  <2>9. Cardinality(InMain) + Cardinality(Buffered) + Cardinality(freed) + Cardinality(leaked)
          = received
    <3>1. Cardinality((InMain \cup Buffered) \cup (freed \cup leaked)) = received
      BY <2>2, <2>8
    <3>2. received = Cardinality(InMain \cup Buffered) + Cardinality(freed \cup leaked)
      BY <2>7, <3>1, Zenon
    <3> QED BY <2>4, <2>5, <2>6, <3>2
  <2>10. \A p, q \in Players : p # q /\ buf[p] = buf[q] => buf[p] = NoReply
    BY DEF Owned, TypeOK, Reply
  <2> QED BY <2>9, <2>10 DEF Owned, RepliesOwnedOnce
<1> QED BY <1>1, Invariant, PTL

\* The game thread never sleeps on a player who is there and was not asked, in whatever
\* order coming back and sending race.
THEOREM WhoReturnsIsAsked == Spec => []ReturningPlayerIsAsked
<1>1. IInv => ReturningPlayerIsAsked
  BY DEF IInv, PassedIsAsked, Passed, ReturningPlayerIsAsked
<1> QED BY <1>1, Invariant, PTL

\* No handler uses an answer again that was ready when an earlier one used it.
THEOREM AnswersAreUsedOnce == Spec => NoAnswerTwice
<1>1. IInv => \A p \in AnswersSeen : gpc \in {"handle", "timedOut"} => buf[p].id \notin taken
  BY DEF IInv, UsedIsOld, Collects, AnswersSeen
<1>2. IInv /\ [Next]_vars =>
        [(gpc \in {"handle", "timedOut"} /\ gpc' = "choose") =>
           \A p \in AnswersSeen : buf[p].id \notin taken]_vars
  BY <1>1
<1> QED BY <1>2, Invariant, PTL DEF Spec, NoAnswerTwice
=============================================================================
