------------------------------ MODULE MsgQueue ------------------------------
(***************************************************************************)
(* MsgQueue (base/MessageQueue.h): the queue between the network thread    *)
(* that parses a session's packets (put) and the main thread that runs the *)
(* handlers (MessageQueue::doCmd: get, cmdMsgParse, erase).  A ring of     *)
(* slots, each with a full flag, and a spill-over std::queue that only the *)
(* network thread touches.  There is no lock: every read or write of a     *)
(* shared field is a step of its own, in program order (the build is x86,  *)
(* which keeps the order of stores).  Commands are numbered 1, 2, ... in   *)
(* the order of the calls of put; Free stands for no buffer.               *)
(***************************************************************************)
EXTENDS Naturals, Sequences, FiniteSets

CONSTANTS
  QueueSize,  \* slots of the ring
  MaxPut      \* bound: how many times put is called

ASSUME QueueSizeAssumption == QueueSize \in Nat \ {0}
ASSUME MaxPutAssumption == MaxPut \in Nat

VARIABLES
  full,        \* cmdQueue[i].first
  cmd,         \* cmdQueue[i].second, the command the slot points to
  queueCmd,    \* the spill-over queue
  queueWrite,  \* next slot to fill
  queueRead,   \* next slot to read
  sent,        \* the last command given to put
  handled,     \* the last command given to cmdMsgParse
  ppc,         \* where the network thread is in put (or the destructor in clear)
  cpc,         \* where the main thread is in doCmd
  closing      \* the destructor has started

ring == <<full, cmd, queueWrite, queueRead>>
vars == <<full, cmd, queueCmd, queueWrite, queueRead, sent, handled, ppc, cpc, closing>>

Free  == 0
Slots == 0 .. QueueSize - 1
After(i) == IF i + 1 = QueueSize THEN 0 ELSE i + 1   \* (++i) % QueueSize

ProducerPC == {"idle", "drain", "drainStore", "drainFlag", "test", "store", "flag",
               "push", "clearLoop", "clearTail", "gone"}
ConsumerPC == {"idle", "handle", "delete", "release"}

TypeOK ==
  /\ full \in [Slots -> BOOLEAN]
  /\ cmd \in [Slots -> Nat]
  /\ queueCmd \in Seq(Nat)
  /\ queueWrite \in Slots
  /\ queueRead \in Slots
  /\ sent \in Nat
  /\ handled \in Nat
  /\ ppc \in ProducerPC
  /\ cpc \in ConsumerPC
  /\ closing \in BOOLEAN

Init ==
  /\ full = [i \in Slots |-> FALSE]
  /\ cmd = [i \in Slots |-> Free]
  /\ queueCmd = <<>>
  /\ queueWrite = 0 /\ queueRead = 0
  /\ sent = 0 /\ handled = 0
  /\ ppc = "idle" /\ cpc = "idle"
  /\ closing = FALSE
-----------------------------------------------------------------------------
(* put, on the network thread *)

\* copy the packet, then putQueueToArray()
Put ==
  /\ ppc = "idle" /\ ~closing
  /\ sent < MaxPut
  /\ sent' = sent + 1
  /\ ppc' = "drain"
  /\ UNCHANGED <<ring, queueCmd, handled, cpc, closing>>

\* mutant: putQueueToArray never reports that something is left
Drain_NotLeft ==
  /\ ppc = "drain"
  /\ ppc' = IF queueCmd # <<>> /\ ~full[queueWrite] THEN "drainStore"
            ELSE IF closing THEN "clearTail" ELSE "test"
  /\ UNCHANGED <<ring, queueCmd, sent, handled, cpc, closing>>

\* head of the loop of putQueueToArray: where its result isLeft leads
Drain ==
  /\ ppc = "drain"
  /\ ppc' = CASE queueCmd = <<>> -> IF closing THEN "clearTail" ELSE "test"
              [] queueCmd # <<>> /\ ~full[queueWrite] -> "drainStore"
              [] queueCmd # <<>> /\ full[queueWrite] -> IF closing THEN "clearLoop" ELSE "push"
  /\ UNCHANGED <<ring, queueCmd, sent, handled, cpc, closing>>

StoreSlot(m) == cmd' = [cmd EXCEPT ![queueWrite] = m]

PublishSlot ==
  /\ full' = [full EXCEPT ![queueWrite] = TRUE]
  /\ queueWrite' = After(queueWrite)

DrainStore ==
  /\ ppc = "drainStore"
  /\ StoreSlot(Head(queueCmd))
  /\ ppc' = "drainFlag"
  /\ UNCHANGED <<full, queueCmd, queueWrite, queueRead, sent, handled, cpc, closing>>

DrainFlag ==
  /\ ppc = "drainFlag"
  /\ PublishSlot
  /\ queueCmd' = Tail(queueCmd)
  /\ ppc' = "drain"
  /\ UNCHANGED <<cmd, queueRead, sent, handled, cpc, closing>>

\* mutant: put does not look at the flag of the slot it fills
TestSlot_NoTest ==
  /\ ppc = "test"
  /\ ppc' = "store"
  /\ UNCHANGED <<ring, queueCmd, sent, handled, cpc, closing>>

TestSlot ==
  /\ ppc = "test"
  /\ ppc' = IF full[queueWrite] THEN "push" ELSE "store"
  /\ UNCHANGED <<ring, queueCmd, sent, handled, cpc, closing>>

Store ==
  /\ ppc = "store"
  /\ StoreSlot(sent)
  /\ ppc' = "flag"
  /\ UNCHANGED <<full, queueCmd, queueWrite, queueRead, sent, handled, cpc, closing>>

Flag ==
  /\ ppc = "flag"
  /\ PublishSlot
  /\ ppc' = "idle"
  /\ UNCHANGED <<cmd, queueCmd, queueRead, sent, handled, cpc, closing>>

\* mutant: the ring is full, the command is dropped
Push_Drop ==
  /\ ppc = "push"
  /\ ppc' = "idle"
  /\ UNCHANGED <<ring, queueCmd, sent, handled, cpc, closing>>

Push ==
  /\ ppc = "push"
  /\ queueCmd' = Append(queueCmd, sent)
  /\ ppc' = "idle"
  /\ UNCHANGED <<ring, sent, handled, cpc, closing>>

Producer == Put \/ Drain \/ DrainStore \/ DrainFlag \/ TestSlot \/ Store \/ Flag \/ Push
-----------------------------------------------------------------------------
(* doCmd, on the main thread, called again and again by UserSessionManager *)

Get ==
  /\ cpc = "idle" /\ ~closing
  /\ full[queueRead]
  /\ cpc' = "handle"
  /\ UNCHANGED <<ring, queueCmd, sent, handled, ppc, closing>>

\* cmdMsgParse reads the command through the pointer get returned
Handle ==
  /\ cpc = "handle"
  /\ handled' = cmd[queueRead]
  /\ cpc' = "delete"
  /\ UNCHANGED <<ring, queueCmd, sent, ppc, closing>>

EraseDelete ==
  /\ cpc = "delete"
  /\ cmd' = [cmd EXCEPT ![queueRead] = Free]
  /\ cpc' = "release"
  /\ UNCHANGED <<full, queueWrite, queueRead, queueCmd, sent, handled, ppc, closing>>

ReleaseSlot ==
  /\ full' = [full EXCEPT ![queueRead] = FALSE]
  /\ queueRead' = After(queueRead)

\* mutant: erase does not move on to the next slot
EraseRelease_Stay ==
  /\ cpc = "release"
  /\ full' = [full EXCEPT ![queueRead] = FALSE]
  /\ cpc' = "idle"
  /\ UNCHANGED <<cmd, queueWrite, queueRead, queueCmd, sent, handled, ppc, closing>>

EraseRelease ==
  /\ cpc = "release"
  /\ ReleaseSlot
  /\ cpc' = "idle"
  /\ UNCHANGED <<cmd, queueWrite, queueCmd, sent, handled, ppc, closing>>

Consumer == Get \/ Handle \/ EraseDelete \/ EraseRelease
-----------------------------------------------------------------------------
(* clear, from the destructor, when neither thread is inside the queue *)

Destroy ==
  /\ ppc = "idle" /\ cpc = "idle" /\ ~closing
  /\ closing' = TRUE
  /\ ppc' = "drain"
  /\ UNCHANGED <<ring, queueCmd, sent, handled, cpc>>

\* mutant: clear empties the ring once and does not look at the spill-over again
ClearErase_Once ==
  /\ ppc \in {"clearLoop", "clearTail"}
  /\ \/ /\ full[queueRead]
        /\ cmd' = [cmd EXCEPT ![queueRead] = Free]
        /\ ReleaseSlot
        /\ ppc' = ppc
     \/ /\ ~full[queueRead]
        /\ ppc' = "gone"
        /\ UNCHANGED <<full, cmd, queueRead>>
  /\ UNCHANGED <<queueWrite, queueCmd, sent, handled, cpc, closing>>

\* while (get()) erase(), in the loop of clear and once more after it
ClearErase ==
  /\ ppc \in {"clearLoop", "clearTail"}
  /\ \/ /\ full[queueRead]
        /\ cmd' = [cmd EXCEPT ![queueRead] = Free]
        /\ ReleaseSlot
        /\ ppc' = ppc
     \/ /\ ~full[queueRead]
        /\ ppc' = IF ppc = "clearLoop" THEN "drain" ELSE "gone"
        /\ UNCHANGED <<full, cmd, queueRead>>
  /\ UNCHANGED <<queueWrite, queueCmd, sent, handled, cpc, closing>>

Next == Producer \/ Consumer \/ Destroy \/ ClearErase

Spec == Init /\ [][Next]_vars
FairSpec == Spec /\ WF_vars(Consumer)
-----------------------------------------------------------------------------
(* Properties *)

\* The handler never runs on a slot whose buffer is not there yet or was
\* already deleted: get looks at the flag alone, so the flag has to be raised
\* after the payload and lowered only after the buffer is gone.
ReadsWholeCommand == cpc = "handle" => cmd[queueRead] # Free

\* The main thread handles every command put by the network thread, once, in
\* the order of the packets, whatever mixture of ring and spill-over they take.
HandledInOrder == [][handled' = handled + 1]_handled

\* When clear is done no buffer is left: neither in a slot nor spilled over.
\* One pass of the loop is not enough, the spill-over may be longer than the ring.
NothingLeaks == ppc = "gone" => queueCmd = <<>> /\ \A i \in Slots : cmd[i] = Free

\* A command in the ring reaches its handler as long as the main loop keeps
\* calling doCmd.  (A spilled-over one does not: only a later put moves it.)
RingIsServed ==
  \A n \in 1 .. MaxPut : (\E i \in Slots : full[i] /\ cmd[i] = n) ~> (handled >= n \/ closing)

\* What the ring holds for the main thread, oldest first: the full slots from
\* queueRead on, without one whose command was already handled.
RingContents ==
  LET n    == Cardinality({i \in Slots : full[i]})
      skip == IF cpc \in {"delete", "release"} THEN 1 ELSE 0
  IN  [k \in 1 .. n - skip |-> cmd[(queueRead + skip + k - 1) % QueueSize]]

\* number of puts that have taken effect
Accepted == IF ~closing /\ ppc # "idle" THEN sent - 1 ELSE sent

Abstract == INSTANCE Fifo WITH
  queue <- RingContents \o queueCmd, sent <- Accepted, open <- ~closing

\* The unlocked ring with its spill-over implements a FIFO queue.
ImplementsFifo == Abstract!Spec
=============================================================================
