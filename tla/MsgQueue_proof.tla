--------------------------- MODULE MsgQueue_proof ---------------------------
(***************************************************************************)
(* Proofs about MsgQueue, for every ring size and every number of puts.    *)
(* The inductive invariant says which commands are where: from queueRead   *)
(* on, the ring holds c consecutive commands b, b+1, ..., the spill-over   *)
(* continues them, and the command inside put comes last.                  *)
(***************************************************************************)
EXTENDS MsgQueue, FiniteSetTheorems, TLAPS

\* distance of slot i from slot r, going round the ring
Off(i, r) == IF i >= r THEN i - r ELSE i + QueueSize - r

InPut == ppc \in {"drain", "drainStore", "drainFlag", "test", "store", "flag", "push"} /\ ~closing

Window(c) ==
  /\ c \in 0 .. QueueSize
  /\ IF c = QueueSize THEN queueWrite = queueRead ELSE Off(queueWrite, queueRead) = c
  /\ \A i \in Slots : full[i] <=> Off(i, queueRead) < c
  /\ ppc \in {"drainStore", "drainFlag", "store", "flag"} => c < QueueSize

Payload(c, b) ==
  /\ b \in Nat \ {0}
  /\ \A i \in Slots :
       cmd[i] = IF \/ Off(i, queueRead) < c /\ ~(Off(i, queueRead) = 0 /\ cpc = "release")
                   \/ Off(i, queueRead) = c /\ ppc \in {"drainFlag", "flag"}
                THEN b + Off(i, queueRead) ELSE Free

SpillOver(c, b) ==
  /\ \A j \in 1 .. Len(queueCmd) : queueCmd[j] = b + c + j - 1
  /\ sent = b + c + Len(queueCmd) - (IF InPut THEN 0 ELSE 1)
  /\ ppc \in {"test", "store", "flag", "clearTail", "gone"} => queueCmd = <<>>
  /\ ppc \in {"drainStore", "drainFlag"} => queueCmd # <<>>

Reader(c, b) ==
  /\ ~closing => b = handled + (IF cpc \in {"delete", "release"} THEN 0 ELSE 1)
  /\ cpc # "idle" => c > 0 /\ ~closing
  /\ closing => ppc \in {"drain", "drainStore", "drainFlag", "clearLoop", "clearTail", "gone"}
  /\ ~closing => ppc \notin {"clearLoop", "clearTail", "gone"}
  /\ ppc = "gone" => c = 0

Shape(c, b) == Window(c) /\ Payload(c, b) /\ SpillOver(c, b) /\ Reader(c, b)

IInv == TypeOK /\ \E c \in Nat, b \in Nat : Shape(c, b)

-----------------------------------------------------------------------------
\* The arithmetic of the ring: distances are below the ring's size, differ for
\* different slots, and change by one when either end moves on by one slot.
LEMMA RingArithmetic ==
  ASSUME NEW r \in Slots
  PROVE  /\ After(r) \in Slots
         /\ \A i \in Slots : Off(i, r) \in 0 .. QueueSize - 1 /\ (Off(i, r) = 0 <=> i = r)
         /\ \A i, j \in Slots : Off(i, r) = Off(j, r) => i = j
         /\ \A i \in Slots : Off(i, After(r)) = IF i = r THEN QueueSize - 1 ELSE Off(i, r) - 1
         /\ \A i \in Slots : IF Off(i, r) + 1 = QueueSize THEN After(i) = r
                             ELSE Off(After(i), r) = Off(i, r) + 1
  BY QueueSizeAssumption DEF QueueSizeAssumption, Slots, After, Off

\* The part of Window that speaks of the ring alone.
RingWindow(c) ==
  /\ c \in 0 .. QueueSize
  /\ IF c = QueueSize THEN queueWrite = queueRead ELSE Off(queueWrite, queueRead) = c
  /\ \A i \in Slots : full[i] <=> Off(i, queueRead) < c

\* Publishing the slot at queueWrite makes the window one slot longer.
LEMMA WindowGrows ==
  ASSUME TypeOK, NEW c \in Nat, c < QueueSize, RingWindow(c), PublishSlot, UNCHANGED queueRead
  PROVE  RingWindow(c + 1)'
<1> USE QueueSizeAssumption DEF QueueSizeAssumption
<1>0. queueRead \in Slots /\ queueWrite \in Slots /\ full \in [Slots -> BOOLEAN]
  BY DEF TypeOK
<1>r. /\ \A i \in Slots : Off(i, queueRead) \in 0 .. QueueSize - 1
      /\ \A i, j \in Slots : Off(i, queueRead) = Off(j, queueRead) => i = j
      /\ \A i \in Slots : IF Off(i, queueRead) + 1 = QueueSize THEN After(i) = queueRead
                          ELSE Off(After(i), queueRead) = Off(i, queueRead) + 1
  BY ONLY <1>0, RingArithmetic
<1>1. Off(queueWrite, queueRead) = c /\ \A i \in Slots : full[i] <=> Off(i, queueRead) < c
  BY DEF RingWindow
<1>2. full' = [full EXCEPT ![queueWrite] = TRUE] /\ queueWrite' = After(queueWrite) /\ queueRead' = queueRead
  BY DEF PublishSlot
<1>3. IF c + 1 = QueueSize THEN queueWrite' = queueRead' ELSE Off(queueWrite', queueRead') = c + 1
  BY ONLY <1>0, <1>r, <1>1, <1>2
<1>4. \A i \in Slots : full'[i] <=> Off(i, queueRead') < c + 1
  <2>1. SUFFICES ASSUME NEW i \in Slots PROVE full'[i] <=> Off(i, queueRead) < c + 1
    BY <1>2
  <2>2. CASE i = queueWrite
    BY ONLY <1>0, <1>1, <1>2, <2>2, c \in Nat
  <2>3. CASE i # queueWrite
    <3>1. full'[i] = full[i] /\ Off(i, queueRead) # c /\ (full[i] <=> Off(i, queueRead) < c)
      BY ONLY <1>0, <1>r, <1>1, <1>2, <2>1, <2>3
    <3>2. Off(i, queueRead) \in Nat
      BY ONLY <1>r, <2>1
    <3> QED BY ONLY c \in Nat, <3>1, <3>2
  <2> QED BY <2>2, <2>3
<1>5. c + 1 \in 0 .. QueueSize
  OBVIOUS
<1> QED BY ONLY <1>3, <1>4, <1>5 DEF RingWindow

\* Releasing the slot at queueRead makes the window one slot shorter.
LEMMA WindowShrinks ==
  ASSUME TypeOK, NEW c \in Nat, c > 0, RingWindow(c), ReleaseSlot, UNCHANGED queueWrite
  PROVE  RingWindow(c - 1)'
<1> USE QueueSizeAssumption DEF QueueSizeAssumption
<1>0. queueRead \in Slots /\ queueWrite \in Slots /\ full \in [Slots -> BOOLEAN]
  BY DEF TypeOK
<1>r. /\ \A i \in Slots : Off(i, queueRead) \in 0 .. QueueSize - 1 /\ (Off(i, queueRead) = 0 <=> i = queueRead)
      /\ \A i \in Slots : Off(i, After(queueRead)) = IF i = queueRead THEN QueueSize - 1 ELSE Off(i, queueRead) - 1
  BY ONLY <1>0, RingArithmetic
<1>1. /\ c <= QueueSize
      /\ IF c = QueueSize THEN queueWrite = queueRead ELSE Off(queueWrite, queueRead) = c
      /\ \A i \in Slots : full[i] <=> Off(i, queueRead) < c
  BY DEF RingWindow
<1>2. full' = [full EXCEPT ![queueRead] = FALSE] /\ queueRead' = After(queueRead) /\ queueWrite' = queueWrite
  BY DEF ReleaseSlot
<1>3. IF c - 1 = QueueSize THEN queueWrite' = queueRead' ELSE Off(queueWrite', queueRead') = c - 1
  <2>1. Off(queueWrite, queueRead') = IF queueWrite = queueRead THEN QueueSize - 1 ELSE Off(queueWrite, queueRead) - 1
    BY ONLY <1>0, <1>r, <1>2
  <2>2. Off(queueWrite, queueRead) \in 0 .. QueueSize - 1 /\ (Off(queueWrite, queueRead) = 0 <=> queueWrite = queueRead)
    BY ONLY <1>0, <1>r
  <2> QED BY ONLY c \in Nat, c > 0, <1>1, <1>2, <2>1, <2>2, QueueSizeAssumption DEF QueueSizeAssumption
<1>4. \A i \in Slots : full'[i] <=> Off(i, queueRead') < c - 1
  <2>1. SUFFICES ASSUME NEW i \in Slots PROVE full'[i] <=> Off(i, queueRead') < c - 1
    OBVIOUS
  <2>2. Off(i, queueRead) \in Nat
    BY ONLY <1>r, <2>1
  <2>3. CASE i = queueRead
    <3>1. full'[i] = FALSE /\ Off(i, queueRead') = QueueSize - 1
      BY ONLY <1>0, <1>r, <1>2, <2>1, <2>3
    <3> QED BY ONLY <3>1, <1>1, c \in Nat, QueueSizeAssumption DEF QueueSizeAssumption
  <2>4. CASE i # queueRead
    <3>1. full'[i] = full[i] /\ Off(i, queueRead') = Off(i, queueRead) - 1 /\ (full[i] <=> Off(i, queueRead) < c)
      BY ONLY <1>0, <1>r, <1>1, <1>2, <2>1, <2>4
    <3> QED BY ONLY c \in Nat, <2>2, <3>1
  <2> QED BY ONLY <2>3, <2>4
<1>5. c - 1 \in 0 .. QueueSize
  BY ONLY c \in Nat, c > 0, <1>1, QueueSizeAssumption DEF QueueSizeAssumption
<1> QED BY ONLY <1>3, <1>4, <1>5 DEF RingWindow

LEMMA InitInv == Init => IInv
<1> SUFFICES ASSUME Init PROVE IInv
  OBVIOUS
<1> USE QueueSizeAssumption DEF QueueSizeAssumption
<1>1. TypeOK
  <2>1. queueCmd \in Seq(Nat)
    BY DEF Init
  <2>2. 0 \in Slots
    BY DEF Slots
  <2>3. full \in [Slots -> BOOLEAN] /\ cmd \in [Slots -> Nat]
    BY DEF Init, Free
  <2>4. queueWrite \in Slots /\ queueRead \in Slots /\ sent \in Nat /\ handled \in Nat
    BY <2>2 DEF Init
  <2>5. ppc \in ProducerPC /\ cpc \in ConsumerPC /\ closing \in BOOLEAN
    BY DEF Init, ProducerPC, ConsumerPC
  <2> QED BY <2>1, <2>3, <2>4, <2>5 DEF TypeOK
<1>2. Shape(0, 1)
  BY DEF Init, Shape, Window, Payload, SpillOver, Reader, Off, InPut, Slots, Free
<1> QED BY <1>1, <1>2 DEF IInv

\* Every step of either thread, and of the destructor, preserves the shape.
LEMMA NextInv == IInv /\ [Next]_vars => IInv'
<1> SUFFICES ASSUME IInv, [Next]_vars PROVE IInv'
  OBVIOUS
<1> USE QueueSizeAssumption DEF QueueSizeAssumption
<1> USE DEF TypeOK, ring
<1>0. TypeOK
  BY DEF IInv
<1>1. PICK c \in Nat, b \in Nat : Shape(c, b)
  BY DEF IInv
<1>n. c \in Nat /\ b \in Nat
  OBVIOUS
<1>r. /\ \A i \in Slots : Off(i, queueRead) \in 0 .. QueueSize - 1 /\ (Off(i, queueRead) = 0 <=> i = queueRead)
      /\ \A i, j \in Slots : Off(i, queueRead) = Off(j, queueRead) => i = j
      /\ \A i \in Slots : Off(i, After(queueRead)) = IF i = queueRead THEN QueueSize - 1 ELSE Off(i, queueRead) - 1
      /\ \A i \in Slots : IF Off(i, queueRead) + 1 = QueueSize THEN After(i) = queueRead
                          ELSE Off(After(i), queueRead) = Off(i, queueRead) + 1
  BY <1>0, RingArithmetic
<1>2. Window(c) /\ Payload(c, b) /\ SpillOver(c, b) /\ Reader(c, b)
  BY <1>1 DEF Shape
<1>3. SUFFICES TypeOK' /\ \E cc \in Nat, bb \in Nat : Shape(cc, bb)'
  BY DEF IInv
<1>4. CASE Put
  <2> USE <1>0, <1>2, <1>4 DEF Put, Slots
  <2>1. TypeOK'
    BY DEF ProducerPC, ConsumerPC, Free, Window, SpillOver
  <2>2. Window(c)'
    BY DEF Window, Off, SpillOver, Reader
  <2>3. Payload(c, b)'
    BY DEF Payload, Window, Off, SpillOver, Reader, Free
  <2>4. SpillOver(c, b)'
    BY DEF SpillOver, InPut, Window, Reader
  <2>5. Reader(c, b)'
    BY DEF Reader, SpillOver, Window, Payload, Off, Free
  <2>6. c \in Nat /\ b \in Nat
    BY DEF Window, Reader
  <2> QED BY ONLY <2>1, <2>2, <2>3, <2>4, <2>5, <2>6 DEF Shape
<1>5. CASE Drain
  <2> USE <1>0, <1>2, <1>5 DEF Drain, Slots
  <2>1. TypeOK'
    BY DEF ProducerPC, ConsumerPC, Free, Window, SpillOver
  <2>2. Window(c)'
    BY DEF Window, Off, SpillOver, Reader
  <2>3. Payload(c, b)'
    BY DEF Payload, Window, Off, SpillOver, Reader, Free
  <2>4. SpillOver(c, b)'
    BY DEF SpillOver, InPut, Window, Reader
  <2>5. Reader(c, b)'
    BY DEF Reader, SpillOver, Window, Payload, Off, Free
  <2>6. c \in Nat /\ b \in Nat
    BY DEF Window, Reader
  <2> QED BY ONLY <2>1, <2>2, <2>3, <2>4, <2>5, <2>6 DEF Shape
<1>6. CASE DrainStore
  <2> USE <1>0, <1>2, <1>6 DEF DrainStore, StoreSlot, Slots
  <2>0. queueCmd # <<>> /\ Head(queueCmd) = b + c /\ Head(queueCmd) \in Nat
    BY DEF SpillOver
  <2>1. TypeOK'
    BY <2>0 DEF ProducerPC, ConsumerPC, Free, Window, SpillOver
  <2>2. Window(c)'
    BY DEF Window, Off, SpillOver, Reader
  <2>3. Payload(c, b)'
    <3>1. cmd' = [cmd EXCEPT ![queueWrite] = b + c] /\ c < QueueSize /\ queueRead' = queueRead
      BY <2>0 DEF Window
    <3>2. \A i \in Slots : Off(i, queueRead) = c <=> i = queueWrite
      BY <3>1 DEF Window, Off
    <3>3. ppc' = "drainFlag" /\ cpc' = cpc /\ ppc = "drainStore"
      OBVIOUS
    <3> QED BY ONLY <1>0, <1>n, <1>2, <3>1, <3>2, <3>3 DEF Payload, Off, Slots, TypeOK, Free
  <2>4. SpillOver(c, b)'
    BY DEF SpillOver, InPut, Window, Reader
  <2>5. Reader(c, b)'
    BY DEF Reader, SpillOver, Window, Payload, Off, Free
  <2>6. c \in Nat /\ b \in Nat
    BY DEF Window, Reader
  <2> QED BY ONLY <2>1, <2>2, <2>3, <2>4, <2>5, <2>6 DEF Shape
<1>7. CASE DrainFlag
  <2> USE <1>0, <1>2, <1>7 DEF DrainFlag, PublishSlot, After, Slots
  <2>1. TypeOK'
    <3>1. full' \in [Slots -> BOOLEAN] /\ queueWrite' \in Slots
      BY ONLY <1>0, <1>7, QueueSizeAssumption DEF DrainFlag, PublishSlot, After, Slots, TypeOK
    <3>2. queueCmd' \in Seq(Nat)
      <4>1. queueCmd # <<>> /\ queueCmd \in Seq(Nat)
        BY ONLY <1>0, <1>2, <1>7 DEF DrainFlag, SpillOver, TypeOK
      <4> QED BY ONLY <4>1, <1>7 DEF DrainFlag
    <3>3. ppc' \in ProducerPC
      BY ONLY <1>7 DEF DrainFlag, ProducerPC
    <3> QED BY ONLY <1>0, <1>7, <3>1, <3>2, <3>3 DEF DrainFlag, TypeOK
  <2>2. Window(c + 1)'
    <3>1. c < QueueSize /\ RingWindow(c)
      BY ONLY <1>2, <1>7 DEF DrainFlag, Window, RingWindow
    <3>2. PublishSlot /\ queueRead' = queueRead /\ ppc' \notin {"drainStore", "drainFlag", "store", "flag"}
      BY ONLY <1>7 DEF DrainFlag
    <3>3. RingWindow(c + 1)'
      BY ONLY <1>0, <1>n, <3>1, <3>2, WindowGrows
    <3> QED BY ONLY <3>2, <3>3 DEF Window, RingWindow
  <2>3. Payload(c + 1, b)'
    <3>1. (cpc = "release" => c > 0) /\ b \in Nat \ {0}
      BY ONLY <1>2 DEF Reader, Payload
    <3>2. /\ ppc = "drainFlag" /\ ppc' \notin {"drainFlag", "flag"}
          /\ cmd' = cmd /\ cpc' = cpc /\ queueRead' = queueRead
      BY ONLY <1>7 DEF DrainFlag
    <3>3. ASSUME NEW i \in Slots
          PROVE  cmd[i] = IF Off(i, queueRead) < c + 1 /\ ~(Off(i, queueRead) = 0 /\ cpc = "release")
                          THEN b + Off(i, queueRead) ELSE Free
      <4>1. Off(i, queueRead) \in Nat
        BY ONLY <1>r, <3>3
      <4>2. cmd[i] = IF \/ Off(i, queueRead) < c /\ ~(Off(i, queueRead) = 0 /\ cpc = "release")
                        \/ Off(i, queueRead) = c
                     THEN b + Off(i, queueRead) ELSE Free
        BY ONLY <1>2, <3>2, <3>3 DEF Payload
      <4> QED BY ONLY <1>n, <3>1, <4>1, <4>2
    <3> QED BY ONLY <3>1, <3>2, <3>3 DEF Payload
  <2>4. SpillOver(c + 1, b)'
    BY DEF SpillOver, InPut, Window, Reader
  <2>5. Reader(c + 1, b)'
    BY DEF Reader, SpillOver, Window, Payload, Off, Free
  <2>6. c + 1 \in Nat /\ b \in Nat
    BY DEF Window, Reader
  <2> QED BY ONLY <2>1, <2>2, <2>3, <2>4, <2>5, <2>6 DEF Shape
<1>8. CASE TestSlot
  <2> USE <1>0, <1>2, <1>8 DEF TestSlot, Slots
  <2>1. TypeOK'
    BY DEF ProducerPC, ConsumerPC, Free, Window, SpillOver
  <2>2. Window(c)'
    BY DEF Window, Off, SpillOver, Reader
  <2>3. Payload(c, b)'
    BY DEF Payload, Window, Off, SpillOver, Reader, Free
  <2>4. SpillOver(c, b)'
    BY DEF SpillOver, InPut, Window, Reader
  <2>5. Reader(c, b)'
    BY DEF Reader, SpillOver, Window, Payload, Off, Free
  <2>6. c \in Nat /\ b \in Nat
    BY DEF Window, Reader
  <2> QED BY ONLY <2>1, <2>2, <2>3, <2>4, <2>5, <2>6 DEF Shape
<1>9. CASE Store
  <2> USE <1>0, <1>2, <1>9 DEF Store, StoreSlot, Slots
  <2>1. TypeOK'
    BY DEF ProducerPC, ConsumerPC, Free, Window, SpillOver
  <2>2. Window(c)'
    BY DEF Window, Off, SpillOver, Reader
  <2>3. Payload(c, b)'
    <3>0. queueCmd = <<>> /\ ~closing /\ sent = b + c + Len(queueCmd) /\ c < QueueSize
      BY DEF Window, SpillOver, InPut, Reader
    <3>1. cmd' = [cmd EXCEPT ![queueWrite] = b + c] /\ c < QueueSize /\ queueRead' = queueRead
      <4>1. Len(queueCmd) = 0
        BY <3>0
      <4> QED BY <3>0, <4>1
    <3>2. \A i \in Slots : Off(i, queueRead) = c <=> i = queueWrite
      BY <3>1 DEF Window, Off
    <3>3. ppc' = "flag" /\ cpc' = cpc /\ ppc = "store"
      OBVIOUS
    <3> QED BY ONLY <1>0, <1>n, <1>2, <3>1, <3>2, <3>3 DEF Payload, Off, Slots, TypeOK, Free
  <2>4. SpillOver(c, b)'
    BY DEF SpillOver, InPut, Window, Reader
  <2>5. Reader(c, b)'
    BY DEF Reader, SpillOver, Window, Payload, Off, Free
  <2>6. c \in Nat /\ b \in Nat
    BY DEF Window, Reader
  <2> QED BY ONLY <2>1, <2>2, <2>3, <2>4, <2>5, <2>6 DEF Shape
<1>10. CASE Flag
  <2> USE <1>0, <1>2, <1>10 DEF Flag, PublishSlot, After, Slots
  <2>1. TypeOK'
    BY DEF ProducerPC, ConsumerPC, Free, Window, SpillOver
  <2>2. Window(c + 1)'
    <3>1. c < QueueSize /\ RingWindow(c)
      BY ONLY <1>2, <1>10 DEF Flag, Window, RingWindow
    <3>2. PublishSlot /\ queueRead' = queueRead /\ ppc' \notin {"drainStore", "drainFlag", "store", "flag"}
      BY ONLY <1>10 DEF Flag
    <3>3. RingWindow(c + 1)'
      BY ONLY <1>0, <1>n, <3>1, <3>2, WindowGrows
    <3> QED BY ONLY <3>2, <3>3 DEF Window, RingWindow
  <2>3. Payload(c + 1, b)'
    <3>1. (cpc = "release" => c > 0) /\ b \in Nat \ {0}
      BY ONLY <1>2 DEF Reader, Payload
    <3>2. /\ ppc = "flag" /\ ppc' \notin {"drainFlag", "flag"}
          /\ cmd' = cmd /\ cpc' = cpc /\ queueRead' = queueRead
      BY ONLY <1>10 DEF Flag
    <3>3. ASSUME NEW i \in Slots
          PROVE  cmd[i] = IF Off(i, queueRead) < c + 1 /\ ~(Off(i, queueRead) = 0 /\ cpc = "release")
                          THEN b + Off(i, queueRead) ELSE Free
      <4>1. Off(i, queueRead) \in Nat
        BY ONLY <1>r, <3>3
      <4>2. cmd[i] = IF \/ Off(i, queueRead) < c /\ ~(Off(i, queueRead) = 0 /\ cpc = "release")
                        \/ Off(i, queueRead) = c
                     THEN b + Off(i, queueRead) ELSE Free
        BY ONLY <1>2, <3>2, <3>3 DEF Payload
      <4> QED BY ONLY <1>n, <3>1, <4>1, <4>2
    <3> QED BY ONLY <3>1, <3>2, <3>3 DEF Payload
  <2>4. SpillOver(c + 1, b)'
    BY DEF SpillOver, InPut, Window, Reader
  <2>5. Reader(c + 1, b)'
    BY DEF Reader, SpillOver, Window, Payload, Off, Free
  <2>6. c + 1 \in Nat /\ b \in Nat
    BY DEF Window, Reader
  <2> QED BY ONLY <2>1, <2>2, <2>3, <2>4, <2>5, <2>6 DEF Shape
<1>11. CASE Push
  <2> USE <1>0, <1>2, <1>11 DEF Push, Slots
  <2>1. TypeOK'
    BY DEF ProducerPC, ConsumerPC, Free, Window, SpillOver
  <2>2. Window(c)'
    BY DEF Window, Off, SpillOver, Reader
  <2>3. Payload(c, b)'
    BY DEF Payload, Window, Off, SpillOver, Reader, Free
  <2>4. SpillOver(c, b)'
    <3>1. Len(queueCmd') = Len(queueCmd) + 1 /\ queueCmd' = Append(queueCmd, sent)
      OBVIOUS
    <3>2. sent = b + c + Len(queueCmd) /\ ~closing
      BY DEF SpillOver, InPut, Reader
    <3>3. \A j \in 1 .. Len(queueCmd') : queueCmd'[j] = b + c + j - 1
      BY <3>1, <3>2 DEF SpillOver
    <3> QED BY <3>1, <3>2, <3>3 DEF SpillOver, InPut
  <2>5. Reader(c, b)'
    BY DEF Reader, SpillOver, Window, Payload, Off, Free
  <2>6. c \in Nat /\ b \in Nat
    BY DEF Window, Reader
  <2> QED BY ONLY <2>1, <2>2, <2>3, <2>4, <2>5, <2>6 DEF Shape
<1>12. CASE Get
  <2> USE <1>0, <1>2, <1>12 DEF Get, Slots
  <2>1. TypeOK'
    BY DEF ProducerPC, ConsumerPC, Free, Window, SpillOver
  <2>2. Window(c)'
    BY DEF Window, Off, SpillOver, Reader
  <2>3. Payload(c, b)'
    BY DEF Payload, Window, Off, SpillOver, Reader, Free
  <2>4. SpillOver(c, b)'
    BY DEF SpillOver, InPut, Window, Reader
  <2>5. Reader(c, b)'
    BY DEF Reader, SpillOver, Window, Payload, Off, Free
  <2>6. c \in Nat /\ b \in Nat
    BY DEF Window, Reader
  <2> QED BY ONLY <2>1, <2>2, <2>3, <2>4, <2>5, <2>6 DEF Shape
<1>13. CASE Handle
  <2> USE <1>0, <1>2, <1>13 DEF Handle, Slots
  <2>1. TypeOK'
    BY DEF ProducerPC, ConsumerPC, Free, Window, SpillOver
  <2>2. Window(c)'
    BY DEF Window, Off, SpillOver, Reader
  <2>3. Payload(c, b)'
    BY DEF Payload, Window, Off, SpillOver, Reader, Free
  <2>4. SpillOver(c, b)'
    BY DEF SpillOver, InPut, Window, Reader
  <2>5. Reader(c, b)'
    BY DEF Reader, SpillOver, Window, Payload, Off, Free
  <2>6. c \in Nat /\ b \in Nat
    BY DEF Window, Reader
  <2> QED BY ONLY <2>1, <2>2, <2>3, <2>4, <2>5, <2>6 DEF Shape
<1>14. CASE EraseDelete
  <2> USE <1>0, <1>2, <1>14 DEF EraseDelete, Slots
  <2>1. TypeOK'
    BY DEF ProducerPC, ConsumerPC, Free, Window, SpillOver
  <2>2. Window(c)'
    BY DEF Window, Off, SpillOver, Reader
  <2>3. Payload(c, b)'
    BY DEF Payload, Window, Off, SpillOver, Reader, Free
  <2>4. SpillOver(c, b)'
    BY DEF SpillOver, InPut, Window, Reader
  <2>5. Reader(c, b)'
    BY DEF Reader, SpillOver, Window, Payload, Off, Free
  <2>6. c \in Nat /\ b \in Nat
    BY DEF Window, Reader
  <2> QED BY ONLY <2>1, <2>2, <2>3, <2>4, <2>5, <2>6 DEF Shape
<1>15. CASE EraseRelease
  <2> USE <1>0, <1>2, <1>15 DEF EraseRelease, ReleaseSlot, After, Slots
  <2>0. \A i \in Slots : Off(i, queueRead') = IF i = queueRead THEN QueueSize - 1 ELSE Off(i, queueRead) - 1
    BY DEF Off
  <2>1. TypeOK'
    BY DEF ProducerPC, ConsumerPC, Free, Window, SpillOver
  <2>2. Window(c - 1)'
    <3>1. c > 0 /\ RingWindow(c)
      BY ONLY <1>2, <1>15 DEF EraseRelease, Window, RingWindow, Reader
    <3>2. ReleaseSlot /\ queueWrite' = queueWrite /\ ppc' = ppc
      BY ONLY <1>15 DEF EraseRelease
    <3>3. RingWindow(c - 1)'
      BY ONLY <1>0, <1>n, <3>1, <3>2, WindowShrinks
    <3>4. c < QueueSize => c - 1 < QueueSize
      BY ONLY <1>n, QueueSizeAssumption DEF QueueSizeAssumption
    <3>5. ppc \in {"drainStore", "drainFlag", "store", "flag"} => c < QueueSize
      BY ONLY <1>2 DEF Window
    <3> QED BY ONLY <3>2, <3>3, <3>4, <3>5 DEF Window, RingWindow
  <2>3. Payload(c - 1, b + 1)'
    <3>1. c > 0 /\ b \in Nat \ {0} /\ c <= QueueSize
      BY DEF Reader, Payload, Window
    <3>2. cpc = "release" /\ cpc' = "idle" /\ ppc' = ppc /\ cmd' = cmd
      OBVIOUS
    <3> DEFINE storing == ppc \in {"drainFlag", "flag"}
    <3>3. storing => c < QueueSize
      BY DEF Window
    <3>4. ASSUME NEW i \in Slots
          PROVE  cmd[i] = IF Off(i, queueRead') < c - 1 \/ (Off(i, queueRead') = c - 1 /\ storing)
                          THEN b + 1 + Off(i, queueRead') ELSE Free
      <4>1. Off(i, queueRead) \in 0 .. QueueSize - 1 /\ (Off(i, queueRead) = 0 <=> i = queueRead)
        BY ONLY <1>r, <3>4
      <4>2. Off(i, queueRead') = IF i = queueRead THEN QueueSize - 1 ELSE Off(i, queueRead) - 1
        BY ONLY <2>0, <3>4
      <4>3. cmd[i] = IF (Off(i, queueRead) < c /\ i # queueRead) \/ (Off(i, queueRead) = c /\ storing)
                     THEN b + Off(i, queueRead) ELSE Free
        BY ONLY <1>2, <3>2, <3>4, <4>1 DEF Payload
      <4> HIDE DEF storing
      <4>4. CASE i = queueRead
        BY ONLY <1>n, <3>1, <3>3, <4>1, <4>2, <4>3, <4>4, QueueSizeAssumption DEF QueueSizeAssumption
      <4>5. CASE i # queueRead
        BY ONLY <1>n, <3>1, <3>3, <4>1, <4>2, <4>3, <4>5, QueueSizeAssumption DEF QueueSizeAssumption
      <4> QED BY ONLY <4>4, <4>5
    <3>5. b + 1 \in Nat \ {0}
      BY ONLY <1>n
    <3> QED BY ONLY <3>2, <3>4, <3>5 DEF Payload
  <2>4. SpillOver(c - 1, b + 1)'
    BY DEF SpillOver, InPut, Window, Reader
  <2>5. Reader(c - 1, b + 1)'
    BY DEF Reader, SpillOver, Window, Payload, Off, Free
  <2>6. c - 1 \in Nat /\ b + 1 \in Nat
    BY DEF Window, Reader
  <2> QED BY ONLY <2>1, <2>2, <2>3, <2>4, <2>5, <2>6 DEF Shape
<1>16. CASE Destroy
  <2> USE <1>0, <1>2, <1>16 DEF Destroy, Slots
  <2>1. TypeOK'
    BY DEF ProducerPC, ConsumerPC, Free, Window, SpillOver
  <2>2. Window(c)'
    BY DEF Window, Off, SpillOver, Reader
  <2>3. Payload(c, b)'
    BY DEF Payload, Window, Off, SpillOver, Reader, Free
  <2>4. SpillOver(c, b)'
    BY DEF SpillOver, InPut, Window, Reader
  <2>5. Reader(c, b)'
    BY DEF Reader, SpillOver, Window, Payload, Off, Free
  <2>6. c \in Nat /\ b \in Nat
    BY DEF Window, Reader
  <2> QED BY ONLY <2>1, <2>2, <2>3, <2>4, <2>5, <2>6 DEF Shape
<1>17. CASE ClearErase /\ full[queueRead]
  <2> USE <1>0, <1>2, <1>17 DEF ClearErase, ReleaseSlot, After, Slots
  <2>a. /\ cmd' = [cmd EXCEPT ![queueRead] = Free]
        /\ full' = [full EXCEPT ![queueRead] = FALSE]
        /\ queueRead' = After(queueRead)
        /\ ppc' = ppc
        /\ UNCHANGED <<queueWrite, queueCmd, sent, handled, cpc, closing>>
    BY DEF Reader
  <2>b. ppc \in {"clearLoop", "clearTail"} /\ cpc = "idle" /\ closing /\ c > 0 /\ c <= QueueSize
    BY DEF Reader, Window, Off
  <2>0. \A i \in Slots : Off(i, queueRead') = IF i = queueRead THEN QueueSize - 1 ELSE Off(i, queueRead) - 1
    BY <2>a DEF Off
  <2>w. /\ \A i \in Slots : full[i] <=> Off(i, queueRead) < c
        /\ IF c = QueueSize THEN queueWrite = queueRead ELSE Off(queueWrite, queueRead) = c
    BY DEF Window
  <2>c. \A i \in Slots : Off(i, queueRead) \in 0 .. QueueSize - 1 /\ (Off(i, queueRead) = 0 <=> i = queueRead)
    BY DEF Off
  <2>1. TypeOK'
    BY ONLY <1>0, <1>n, <2>a, QueueSizeAssumption DEF TypeOK, Slots, After, Free, QueueSizeAssumption
  <2>2. Window(c - 1)'
    <3>1. RingWindow(c) /\ ReleaseSlot
      BY ONLY <1>2, <2>a DEF Window, RingWindow, ReleaseSlot
    <3>2. RingWindow(c - 1)'
      BY ONLY <1>0, <1>n, <2>a, <2>b, <3>1, WindowShrinks
    <3> QED BY ONLY <2>a, <2>b, <3>2 DEF Window, RingWindow
  <2>3. Payload(c - 1, b + 1)'
    <3>1. \A i \in Slots : cmd[i] = IF Off(i, queueRead) < c THEN b + Off(i, queueRead) ELSE Free
      BY ONLY <1>2, <1>n, <2>b DEF Payload
    <3>2. \A i \in Slots : cmd'[i] = IF Off(i, queueRead') < c - 1 THEN b + 1 + Off(i, queueRead') ELSE Free
      <4>1. SUFFICES ASSUME NEW i \in Slots
                     PROVE cmd'[i] = IF Off(i, queueRead') < c - 1 THEN b + 1 + Off(i, queueRead') ELSE Free
        OBVIOUS
      <4>2. CASE i = queueRead
        <5>1. cmd'[i] = Free /\ Off(i, queueRead') = QueueSize - 1
          BY <4>1, <4>2, <2>a, <2>0
        <5> QED BY ONLY <5>1, <1>n, <2>b, QueueSizeAssumption DEF QueueSizeAssumption
      <4>3. CASE i # queueRead
        <5>1. cmd'[i] = cmd[i] /\ Off(i, queueRead') = Off(i, queueRead) - 1
          BY <4>1, <4>3, <2>a, <2>0
        <5>2. Off(i, queueRead) \in Nat /\ cmd[i] = IF Off(i, queueRead) < c THEN b + Off(i, queueRead) ELSE Free
          BY ONLY <1>r, <3>1, <4>1
        <5> QED BY ONLY <1>n, <5>1, <5>2
      <4> QED BY <4>2, <4>3
    <3>3. b \in Nat \ {0}
      BY DEF Payload
    <3> QED BY ONLY <1>n, <2>a, <2>b, <3>2, <3>3 DEF Payload
  <2>4. SpillOver(c - 1, b + 1)'
    BY DEF SpillOver, InPut, Window, Reader
  <2>5. Reader(c - 1, b + 1)'
    BY DEF Reader, SpillOver, Window, Payload, Off, Free
  <2>6. c - 1 \in Nat /\ b + 1 \in Nat
    BY DEF Window, Reader, Off
  <2> QED BY ONLY <2>1, <2>2, <2>3, <2>4, <2>5, <2>6 DEF Shape
<1>18. CASE ClearErase /\ ~full[queueRead]
  <2> USE <1>0, <1>2, <1>18 DEF ClearErase, ReleaseSlot, After, Slots
  <2>1. TypeOK'
    BY DEF ProducerPC, ConsumerPC, Free, Window, SpillOver
  <2>2. Window(c)'
    BY DEF Window, Off, SpillOver, Reader
  <2>3. Payload(c, b)'
    BY DEF Payload, Window, Off, SpillOver, Reader, Free
  <2>4. SpillOver(c, b)'
    BY DEF SpillOver, InPut, Window, Reader
  <2>5. Reader(c, b)'
    BY DEF Reader, SpillOver, Window, Payload, Off, Free
  <2>6. c \in Nat /\ b \in Nat
    BY DEF Window, Reader, Off
  <2> QED BY ONLY <2>1, <2>2, <2>3, <2>4, <2>5, <2>6 DEF Shape
<1>19. CASE UNCHANGED vars
  <2> USE <1>0, <1>2, <1>19 DEF vars
  <2>1. TypeOK'
    OBVIOUS
  <2>2. Window(c)'
    BY DEF Window, Off
  <2>3. Payload(c, b)'
    BY DEF Payload, Off
  <2>4. SpillOver(c, b)' /\ Reader(c, b)'
    BY DEF SpillOver, InPut, Reader
  <2> QED BY ONLY <1>n, <2>1, <2>2, <2>3, <2>4 DEF Shape
<1> QED
  BY <1>4, <1>5, <1>6, <1>7, <1>8, <1>9, <1>10, <1>11, <1>12, <1>13, <1>14, <1>15, <1>16, <1>17, <1>18, <1>19 DEF Next, Producer, Consumer

LEMMA Invariance == Spec => []IInv
<1> QED BY InitInv, NextInv, PTL DEF Spec
-----------------------------------------------------------------------------
\* The fields keep their types: in particular both ends of the ring stay inside it.
THEOREM TypeCorrect == Spec => []TypeOK
<1>1. IInv => TypeOK
  BY DEF IInv
<1> QED BY <1>1, Invariance, PTL

\* doCmd never hands cmdMsgParse a slot without its buffer.
THEOREM WholeCommands == Spec => []ReadsWholeCommand
<1>1. IInv => ReadsWholeCommand
  <2> SUFFICES ASSUME IInv, cpc = "handle" PROVE cmd[queueRead] # Free
    BY DEF ReadsWholeCommand
  <2>1. PICK c \in Nat, b \in Nat : Shape(c, b)
    BY DEF IInv
  <2>2. queueRead \in Slots /\ Off(queueRead, queueRead) = 0
    BY QueueSizeAssumption DEF IInv, TypeOK, Off, Slots, QueueSizeAssumption
  <2> QED BY <2>1, <2>2 DEF Shape, Payload, Reader, Free
<1> QED BY <1>1, Invariance, PTL

\* The main thread handles the commands put by the network thread one by one,
\* in order, none twice and none skipped, for every ring size.
THEOREM InOrder == Spec => HandledInOrder
<1>1. IInv /\ [Next]_vars => [handled' = handled + 1]_handled
  <2> SUFFICES ASSUME IInv, [Next]_vars PROVE handled' = handled + 1 \/ UNCHANGED handled
    OBVIOUS
  <2>1. CASE Handle
    <3>1. PICK c \in Nat, b \in Nat : Shape(c, b)
      BY DEF IInv
    <3>2. queueRead \in Slots /\ Off(queueRead, queueRead) = 0 /\ handled \in Nat
      BY QueueSizeAssumption DEF IInv, TypeOK, Off, Slots, QueueSizeAssumption
    <3>3. cmd[queueRead] = b /\ b = handled + 1
      BY <2>1, <3>1, <3>2 DEF Shape, Payload, Reader, Handle
    <3> QED BY <2>1, <3>3 DEF Handle
  <2>2. CASE UNCHANGED vars
    BY <2>2 DEF vars
  <2>3. CASE Next /\ ~Handle
    BY <2>3 DEF Next, Producer, Consumer, Put, Drain, DrainStore, DrainFlag, TestSlot, Store, Flag,
      Push, Get, EraseDelete, EraseRelease, Destroy, ClearErase
  <2> QED BY <2>1, <2>2, <2>3
<1> QED BY <1>1, Invariance, PTL DEF Spec, HandledInOrder

\* Destroying the queue leaves no buffer behind, however much had spilled over.
THEOREM LeakFree == Spec => []NothingLeaks
<1>1. IInv => NothingLeaks
  <2> SUFFICES ASSUME IInv, ppc = "gone" PROVE queueCmd = <<>> /\ \A i \in Slots : cmd[i] = Free
    BY DEF NothingLeaks
  <2>1. PICK c \in Nat, b \in Nat : Shape(c, b)
    BY DEF IInv
  <2>2. c = 0 /\ queueCmd = <<>>
    BY <2>1 DEF Shape, Reader, SpillOver
  <2>3. \A i \in Slots : Off(i, queueRead) \in 0 .. QueueSize - 1
    BY RingArithmetic DEF IInv, TypeOK
  <2> QED BY <2>1, <2>2, <2>3 DEF Shape, Payload, Free
<1> QED BY <1>1, Invariance, PTL
-----------------------------------------------------------------------------
(* The refinement *)

\* The commands from m to n, as a queue.
Between(m, n) == [k \in 1 .. n + 1 - m |-> m + k - 1]

\* A queue is the function that its length and its entries say, and joined queues follow
\* each other.
LEMMA AsFunction ==
  ASSUME NEW s \in Seq(Nat)
  PROVE  s = [k \in 1 .. Len(s) |-> s[k]]
OBVIOUS

LEMMA Joined ==
  ASSUME NEW s \in Seq(Nat), NEW t \in Seq(Nat)
  PROVE  /\ s \o t \in Seq(Nat) /\ Len(s \o t) = Len(s) + Len(t)
         /\ \A k \in 1 .. Len(s \o t) :
              (s \o t)[k] = IF k =< Len(s) THEN s[k] ELSE t[k - Len(s)]
OBVIOUS

\* What put and take do to the commands from m to n.
LEMMA QueueEnds ==
  ASSUME NEW m \in Nat, NEW n \in Nat
  PROVE  /\ m =< n + 1 => Append(Between(m, n), n + 1) = Between(m, n + 1)
         /\ m =< n => /\ Between(m, n) # <<>>
                      /\ Head(Between(m, n)) = m
                      /\ Tail(Between(m, n)) = Between(m + 1, n)
         /\ m = n + 1 => Between(m, n) = <<>>
<1>1. ASSUME m =< n + 1 PROVE Append(Between(m, n), n + 1) = Between(m, n + 1)
  <2>1. Between(m, n) \in Seq(Nat) /\ Len(Between(m, n)) = n + 1 - m
    BY <1>1 DEF Between
  <2> QED BY <1>1, <2>1 DEF Between
<1>2. ASSUME m =< n
      PROVE  /\ Between(m, n) # <<>>
             /\ Head(Between(m, n)) = m
             /\ Tail(Between(m, n)) = Between(m + 1, n)
  <2>1. /\ Between(m, n) \in Seq(Nat) /\ Len(Between(m, n)) = n + 1 - m
        /\ \A k \in 1 .. n + 1 - m : Between(m, n)[k] = m + k - 1
    BY <1>2 DEF Between
  <2>2. Between(m, n) # <<>> /\ Head(Between(m, n)) = m
    BY <1>2, <2>1
  <2>3. Between(m + 1, n) = [k \in 1 .. n - m |-> m + k]
    BY DEF Between
  <2> DEFINE q == Between(m, n)
  <2> HIDE DEF q
  <2>4. Tail(q) = [k \in 1 .. n - m |-> m + k]
    <3>1. q \in Seq(Nat) /\ Len(q) = n + 1 - m /\ \A k \in 1 .. n + 1 - m : q[k] = m + k - 1
      BY <2>1 DEF q
    <3>2. Tail(q) \in Seq(Nat) /\ Len(Tail(q)) = n - m /\ \A k \in 1 .. n - m : Tail(q)[k] = q[k + 1]
      BY <1>2, <3>1
    <3>3. Tail(q) = [k \in 1 .. n - m |-> Tail(q)[k]]
      <4>1. Tail(q) = [k \in 1 .. Len(Tail(q)) |-> Tail(q)[k]]
        BY <3>2, AsFunction
      <4> QED BY <3>2, <4>1
    <3>4. \A k \in 1 .. n - m : Tail(q)[k] = m + k
      BY <3>1, <3>2
    <3> QED BY <3>3, <3>4
  <2> QED BY <2>2, <2>3, <2>4 DEF q
<1>3. ASSUME m = n + 1 PROVE Between(m, n) = <<>>
  BY <1>3 DEF Between
<1> QED BY <1>1, <1>2, <1>3

\* Going round the ring by less than its length.
LEMMA GoingRound ==
  ASSUME NEW r \in Slots, NEW d \in 0 .. QueueSize - 1
  PROVE  (r + d) % QueueSize \in Slots /\ Off((r + d) % QueueSize, r) = d
<1> USE QueueSizeAssumption DEF QueueSizeAssumption
<1>1. (r + d) % QueueSize = IF r + d >= QueueSize THEN r + d - QueueSize ELSE r + d
  BY DEF Slots
<1> QED BY <1>1 DEF Slots, Off

FullSlots == {i \in Slots : full[i]}

\* The window is as long as slots are full.
LEMMA FullCount ==
  ASSUME TypeOK, NEW c \in Nat, Window(c)
  PROVE  IsFiniteSet(FullSlots) /\ Cardinality(FullSlots) = c
<1>1. queueRead \in Slots /\ c =< QueueSize /\ \A i \in Slots : full[i] <=> Off(i, queueRead) < c
  BY DEF TypeOK, Window
<1> DEFINE f == [d \in 0 .. c - 1 |-> (queueRead + d) % QueueSize]
<1>2. \A d \in 0 .. c - 1 : /\ d \in 0 .. QueueSize - 1
                            /\ f[d] \in Slots /\ Off(f[d], queueRead) = d
  BY <1>1, GoingRound, QueueSizeAssumption DEF QueueSizeAssumption
<1>3. f \in [0 .. c - 1 -> FullSlots]
  BY <1>1, <1>2 DEF FullSlots
<1> HIDE DEF f
<1>r. \A i, j \in Slots : Off(i, queueRead) = Off(j, queueRead) => i = j
  BY <1>1, RingArithmetic
<1>4. \A i \in FullSlots : \E d \in 0 .. c - 1 : f[d] = i
  <2> SUFFICES ASSUME NEW i \in FullSlots PROVE \E d \in 0 .. c - 1 : f[d] = i
    OBVIOUS
  <2>1. i \in Slots /\ Off(i, queueRead) \in 0 .. QueueSize - 1 /\ Off(i, queueRead) < c
    BY <1>1, RingArithmetic DEF FullSlots
  <2>2. Off(i, queueRead) \in 0 .. c - 1
    BY <2>1
  <2>3. f[Off(i, queueRead)] \in Slots /\ Off(f[Off(i, queueRead)], queueRead) = Off(i, queueRead)
    BY <1>2, <2>2
  <2>4. f[Off(i, queueRead)] = i
    BY <1>r, <2>1, <2>3
  <2> QED BY <2>2, <2>4
<1>5. \A d, e \in 0 .. c - 1 : f[d] = f[e] => d = e
  BY <1>2
<1>6. f \in Bijection(0 .. c - 1, FullSlots)
  BY <1>3, <1>4, <1>5 DEF Bijection, Injection, Surjection, IsInjective
<1>7. IsFiniteSet(0 .. c - 1) /\ Cardinality(0 .. c - 1) = c
  BY FS_Interval
<1> QED BY <1>6, <1>7, FS_Bijection DEF ExistsBijection

\* The command that was handled and is not erased yet.
Skip == IF cpc \in {"delete", "release"} THEN 1 ELSE 0

\* What the ring and the spill-over hold for the main thread are all commands from the
\* next one it will handle to the last one that put has finished with.
LEMMA Queued ==
  ASSUME TypeOK, NEW c \in Nat, NEW b \in Nat, Shape(c, b)
  PROVE  /\ RingContents \o queueCmd = Between(b + Skip, Accepted)
         /\ Accepted = b + c + Len(queueCmd) - 1
         /\ Cardinality(FullSlots) = c /\ IsFiniteSet(FullSlots)
<1>1. Window(c) /\ Payload(c, b) /\ SpillOver(c, b) /\ Reader(c, b)
  BY DEF Shape
<1>2. Cardinality(FullSlots) = c /\ IsFiniteSet(FullSlots)
  BY <1>1, FullCount
<1>3. sent \in Nat /\ Len(queueCmd) \in Nat /\ queueCmd \in Seq(Nat) /\ b > 0 /\ queueRead \in Slots
  BY <1>1 DEF TypeOK, Payload
<1>4. Accepted = b + c + Len(queueCmd) - 1
  <2>1. ~closing /\ ppc # "idle" <=> InPut
    BY <1>1 DEF InPut, Reader, TypeOK, ProducerPC
  <2>2. sent = b + c + Len(queueCmd) - (IF InPut THEN 0 ELSE 1)
    BY <1>1 DEF SpillOver
  <2> QED BY ONLY <1>3, <2>1, <2>2, c \in Nat, b \in Nat DEF Accepted
<1>5. Skip \in {0, 1} /\ Skip =< c /\ c =< QueueSize
  BY <1>1 DEF Skip, Reader, Window
<1>6. RingContents = [k \in 1 .. c - Skip |-> cmd[(queueRead + Skip + k - 1) % QueueSize]]
  BY <1>2 DEF RingContents, Skip, FullSlots
<1>7. ASSUME NEW k \in 1 .. c - Skip
      PROVE  cmd[(queueRead + Skip + k - 1) % QueueSize] = b + Skip + k - 1
  <2>1. Skip + k - 1 \in 0 .. QueueSize - 1 /\ Skip + k - 1 < c /\ (Skip = 1 => Skip + k - 1 # 0)
    BY <1>5, QueueSizeAssumption DEF QueueSizeAssumption
  <2> DEFINE j == (queueRead + (Skip + k - 1)) % QueueSize
  <2>2. j \in Slots /\ Off(j, queueRead) = Skip + k - 1
    BY <1>3, <2>1, GoingRound
  <2>3. queueRead + Skip + k - 1 = queueRead + (Skip + k - 1)
    BY <1>3, <1>5 DEF Slots
  <2>4. cpc = "release" => Skip = 1
    BY DEF Skip
  <2> HIDE DEF j
  <2>5. cmd[j] = b + (Skip + k - 1)
    BY <1>1, <2>1, <2>2, <2>4 DEF Payload
  <2> QED BY <1>3, <1>5, <2>3, <2>5 DEF j
<1>8. RingContents = [k \in 1 .. c - Skip |-> b + Skip + k - 1]
  BY <1>6, <1>7
<1>9. RingContents \in Seq(Nat) /\ Len(RingContents) = c - Skip
  BY <1>3, <1>5, <1>8
<1>10. RingContents \o queueCmd = Between(b + Skip, Accepted)
  <2> DEFINE q == RingContents \o queueCmd
  <2>1. /\ q \in Seq(Nat) /\ Len(q) = c - Skip + Len(queueCmd)
        /\ \A k \in 1 .. Len(q) : q[k] = IF k =< c - Skip THEN RingContents[k]
                                         ELSE queueCmd[k - (c - Skip)]
    BY <1>3, <1>9, Joined
  <2>2. \A k \in 1 .. Len(queueCmd) : queueCmd[k] = b + c + k - 1
    BY <1>1 DEF SpillOver
  <2> HIDE DEF q
  <2>3. \A k \in 1 .. Len(q) : q[k] = b + Skip + k - 1
    BY <1>3, <1>5, <1>8, <2>1, <2>2
  <2>4. Len(q) = Accepted + 1 - (b + Skip)
    BY <1>3, <1>4, <1>5, <2>1
  <2>5. q = [k \in 1 .. Len(q) |-> q[k]]
    BY <2>1
  <2>6. q = Between(b + Skip, Accepted)
    BY <2>3, <2>4, <2>5 DEF Between
  <2> QED BY <2>6 DEF q
<1> QED BY <1>2, <1>4, <1>10

\* What is left to free.
Left == Cardinality(FullSlots) + Len(queueCmd)
AbstractQueue == RingContents \o queueCmd

\* Before the destructor the queue is what put has finished with and the main thread has
\* not begun; in the destructor it is as long as the ring and the spill-over together.
LEMMA QueueIs ==
  ASSUME IInv
  PROVE  /\ handled \in Nat /\ Accepted \in Nat /\ Left \in Nat /\ IsFiniteSet(FullSlots)
         /\ ~closing => handled =< Accepted /\ AbstractQueue = Between(handled + 1, Accepted)
         /\ closing => Left =< Accepted /\ AbstractQueue = Between(Accepted + 1 - Left, Accepted)
<1>1. PICK c \in Nat, b \in Nat : Shape(c, b)
  BY DEF IInv
<1>2. /\ AbstractQueue = Between(b + Skip, Accepted)
      /\ Accepted = b + c + Len(queueCmd) - 1
      /\ Cardinality(FullSlots) = c /\ IsFiniteSet(FullSlots)
  BY <1>1, Queued DEF IInv, AbstractQueue
<1>3. Len(queueCmd) \in Nat /\ b > 0 /\ handled \in Nat
  BY <1>1 DEF IInv, TypeOK, Shape, Payload
<1>4. ~closing => b + Skip = handled + 1 /\ Skip =< c
  BY <1>1, <1>3 DEF Shape, Reader, Skip
<1>5. closing => Skip = 0
  BY <1>1 DEF Shape, Reader, Skip
<1>6. Skip \in {0, 1}
  BY DEF Skip
<1>7. closing => Accepted + 1 - Left = b + Skip /\ Left =< Accepted
  BY <1>2, <1>3, <1>5 DEF Left
<1>8. ~closing => handled =< Accepted
  BY <1>2, <1>3, <1>4, <1>6
<1>9. Left \in Nat /\ Accepted \in Nat
  BY <1>2, <1>3 DEF Left
<1> QED BY <1>2, <1>3, <1>4, <1>7, <1>8, <1>9

\* Of the steps while the queue is open only those that leave put accept a command.
LEMMA OpenSteps ==
  ASSUME IInv, IInv', [Next]_vars, ~closing
  PROVE  \/ UNCHANGED <<Accepted, handled, closing>>
         \/ Accepted' = Accepted + 1 /\ UNCHANGED <<handled, closing>>
         \/ handled' = handled + 1 /\ UNCHANGED <<Accepted, closing>>
         \/ closing' /\ UNCHANGED <<Accepted, handled, AbstractQueue>>
<1>0. sent \in Nat /\ handled \in Nat
  BY DEF IInv, TypeOK
<1>1. CASE Flag \/ Push
  BY <1>0, <1>1 DEF Flag, Push, Accepted
<1>2. CASE Handle
  <2>1. handled' = handled + 1 \/ handled' = handled
    <3>1. PICK c \in Nat, b \in Nat : Shape(c, b)
      BY DEF IInv
    <3>2. queueRead \in Slots /\ Off(queueRead, queueRead) = 0 /\ handled \in Nat
      BY QueueSizeAssumption DEF IInv, TypeOK, Off, Slots, QueueSizeAssumption
    <3>3. cmd[queueRead] = b /\ b = handled + 1
      BY <1>2, <3>1, <3>2 DEF Shape, Payload, Reader, Handle
    <3> QED BY <1>2, <3>3 DEF Handle
  <2> QED BY <1>2, <2>1 DEF Handle, Accepted
<1>3. CASE Destroy
  BY <1>3 DEF Destroy, ring, Accepted, AbstractQueue, RingContents
<1>4. CASE Put
  BY <1>0, <1>4 DEF Put, Accepted
<1>5. CASE Drain \/ DrainStore \/ DrainFlag \/ TestSlot \/ Store
  BY <1>5 DEF Drain, DrainStore, DrainFlag, TestSlot, Store, Accepted
<1>6. CASE Get \/ EraseDelete \/ EraseRelease \/ UNCHANGED vars
  BY <1>6 DEF Get, EraseDelete, EraseRelease, vars, Accepted
<1>7. CASE ClearErase
  <2>1. ppc \notin {"clearLoop", "clearTail"}
    BY DEF IInv, Shape, Reader
  <2> QED BY <1>7, <2>1 DEF ClearErase
<1> QED BY <1>1, <1>2, <1>3, <1>4, <1>5, <1>6, <1>7 DEF Next, Producer, Consumer

\* In the destructor the queue stays or becomes shorter by one.
LEMMA ClosingSteps ==
  ASSUME IInv, IInv', [Next]_vars, closing
  PROVE  /\ UNCHANGED <<Accepted, handled, closing>>
         /\ Left' = Left \/ Left' = Left - 1
<1>1. /\ cpc = "idle" /\ ppc \notin {"test", "store", "flag", "push", "idle"}
      /\ ppc = "drainFlag" => queueCmd # <<>> /\ queueWrite \in Slots /\ queueWrite \notin FullSlots
  <2>1. PICK c \in Nat, b \in Nat : Shape(c, b)
    BY DEF IInv
  <2>2. ppc = "drainFlag" => c < QueueSize /\ Off(queueWrite, queueRead) = c
    BY <2>1 DEF Shape, Window
  <2>3. ppc = "drainFlag" => queueWrite \in Slots /\ ~full[queueWrite]
    BY <2>1, <2>2 DEF Shape, Window, IInv, TypeOK
  <2> QED BY <2>1, <2>3 DEF Shape, Reader, SpillOver, FullSlots
<1>2. IsFiniteSet(FullSlots) /\ Cardinality(FullSlots) \in Nat /\ Len(queueCmd) \in Nat
  <2>1. IsFiniteSet(FullSlots)
    BY QueueIs
  <2> QED BY <2>1, FS_CardinalityType DEF IInv, TypeOK
<1>3. CASE Drain \/ DrainStore \/ UNCHANGED vars
  BY <1>3 DEF Drain, DrainStore, vars, ring, Accepted, Left, FullSlots
<1>4. CASE DrainFlag
  <2>1. FullSlots' = FullSlots \cup {queueWrite}
    BY <1>1, <1>4 DEF DrainFlag, PublishSlot, FullSlots, IInv, TypeOK
  <2>2. Cardinality(FullSlots') = Cardinality(FullSlots) + 1
    BY <1>1, <1>2, <1>4, <2>1, FS_AddElement DEF DrainFlag
  <2>3. Len(queueCmd') = Len(queueCmd) - 1
    BY <1>1, <1>4 DEF DrainFlag, IInv, TypeOK
  <2> QED BY <1>2, <1>4, <2>2, <2>3 DEF DrainFlag, Accepted, Left
<1>5. CASE ClearErase /\ full[queueRead]
  <2>0. ReleaseSlot /\ UNCHANGED <<queueCmd, sent, handled, closing>>
    BY <1>5 DEF ClearErase
  <2>1. FullSlots' = FullSlots \ {queueRead} /\ queueRead \in FullSlots
    BY <1>5, <2>0 DEF ReleaseSlot, FullSlots, IInv, TypeOK
  <2>2. Cardinality(FullSlots') = Cardinality(FullSlots) - 1
    BY <1>2, <2>1, FS_RemoveElement
  <2> QED BY <1>2, <2>0, <2>2 DEF Accepted, Left
<1>6. CASE ClearErase /\ ~full[queueRead]
  BY <1>6 DEF ClearErase, Accepted, Left, FullSlots
<1>7. CASE Put \/ TestSlot \/ Store \/ Flag \/ Push \/ Consumer \/ Destroy
  BY <1>1, <1>7 DEF Put, TestSlot, Store, Flag, Push, Consumer, Get, Handle, EraseDelete,
    EraseRelease, Destroy
<1> QED BY <1>3, <1>4, <1>5, <1>6, <1>7 DEF Next, Producer

\* The unlocked ring with its spill-over is a FIFO queue to both threads: every step is a
\* put, a take, the closing, a drop of what is left, or nothing to anybody outside.
THEOREM IsFifo == Spec => ImplementsFifo
<1>1. Init => Abstract!Init
  <2> SUFFICES ASSUME Init PROVE Abstract!Init
    OBVIOUS
  <2>1. IInv
    BY InitInv
  <2>2. Accepted = 0 /\ handled = 0 /\ sent = 0 /\ ~closing
    BY DEF Init, Accepted
  <2>3. AbstractQueue = <<>>
    BY <2>1, <2>2, QueueIs, QueueEnds
  <2> QED BY <2>2, <2>3 DEF Abstract!Init, AbstractQueue
<1>2. IInv /\ IInv' /\ [Next]_vars => [Abstract!Next]_(Abstract!vars)
  <2> SUFFICES ASSUME IInv, IInv', [Next]_vars
               PROVE  Abstract!Next \/ UNCHANGED Abstract!vars
    OBVIOUS
  <2>1. /\ handled \in Nat /\ Accepted \in Nat /\ Left \in Nat
        /\ ~closing => handled =< Accepted /\ AbstractQueue = Between(handled + 1, Accepted)
        /\ closing => Left =< Accepted /\ AbstractQueue = Between(Accepted + 1 - Left, Accepted)
    BY QueueIs
  <2>2. /\ handled' \in Nat /\ Accepted' \in Nat /\ Left' \in Nat
        /\ ~closing' => handled' =< Accepted' /\ AbstractQueue' = Between(handled' + 1, Accepted')
        /\ closing' => Left' =< Accepted' /\ AbstractQueue' = Between(Accepted' + 1 - Left', Accepted')
    <3>1. IInv' => /\ (handled \in Nat /\ Accepted \in Nat /\ Left \in Nat)'
                   /\ (~closing => handled =< Accepted /\ AbstractQueue = Between(handled + 1, Accepted))'
                   /\ (closing => Left =< Accepted /\ AbstractQueue = Between(Accepted + 1 - Left, Accepted))'
      BY QueueIs, PTL
    <3> QED BY <3>1 DEF Between
  <2>3. CASE ~closing
    <3>1. CASE UNCHANGED <<Accepted, handled, closing>>
      <4>1. AbstractQueue' = AbstractQueue
        BY <2>1, <2>2, <2>3, <3>1
      <4> QED BY <3>1, <4>1 DEF Abstract!vars, AbstractQueue
    <3>2. CASE Accepted' = Accepted + 1 /\ UNCHANGED <<handled, closing>>
      <4>1. Between(handled + 1, Accepted + 1) = Append(Between(handled + 1, Accepted), Accepted + 1)
        BY <2>1, <2>3, QueueEnds
      <4>2. AbstractQueue' = Append(AbstractQueue, Accepted + 1)
        BY <2>1, <2>2, <2>3, <3>2, <4>1
      <4> QED BY <2>3, <3>2, <4>2 DEF Abstract!Next, Abstract!Put, AbstractQueue
    <3>3. CASE handled' = handled + 1 /\ UNCHANGED <<Accepted, closing>>
      <4>1. handled + 1 =< Accepted /\ handled + 1 \in Nat
        BY <2>1, <2>2, <2>3, <3>3
      <4>2. /\ Between(handled + 1, Accepted) # <<>>
            /\ Head(Between(handled + 1, Accepted)) = handled + 1
            /\ Tail(Between(handled + 1, Accepted)) = Between(handled + 1 + 1, Accepted)
        BY <2>1, <4>1, QueueEnds
      <4>3. /\ AbstractQueue # <<>> /\ Head(AbstractQueue) = handled + 1
            /\ AbstractQueue' = Tail(AbstractQueue)
        BY <2>1, <2>2, <2>3, <3>3, <4>2
      <4> QED BY <2>3, <3>3, <4>3 DEF Abstract!Next, Abstract!Take, AbstractQueue
    <3>4. CASE closing' /\ UNCHANGED <<Accepted, handled, AbstractQueue>>
      BY <2>3, <3>4 DEF Abstract!Next, Abstract!Close, AbstractQueue
    <3> QED BY <2>3, <3>1, <3>2, <3>3, <3>4, OpenSteps
  <2>4. CASE closing
    <3>1. UNCHANGED <<Accepted, handled, closing>>
      BY <2>4, ClosingSteps
    <3>2. CASE Left' = Left
      <4>1. AbstractQueue' = AbstractQueue
        BY <2>1, <2>2, <2>4, <3>1, <3>2
      <4> QED BY <3>1, <4>1 DEF Abstract!vars, AbstractQueue
    <3>3. CASE Left' = Left - 1
      <4> DEFINE m == Accepted + 1 - Left
      <4>1. m \in Nat /\ m =< Accepted /\ Accepted + 1 - (Left - 1) = m + 1
        BY <2>1, <2>2, <2>4, <3>3
      <4>2. AbstractQueue = Between(m, Accepted) /\ AbstractQueue' = Between(m + 1, Accepted)
        BY <2>1, <2>2, <2>4, <3>1, <3>3, <4>1
      <4> HIDE DEF m
      <4>3. AbstractQueue # <<>> /\ AbstractQueue' = Tail(AbstractQueue)
        BY <2>1, <4>1, <4>2, QueueEnds
      <4> QED BY <2>4, <3>1, <4>3 DEF Abstract!Next, Abstract!Drop, AbstractQueue
    <3> QED BY <2>4, <3>2, <3>3, ClosingSteps
  <2> QED BY <2>3, <2>4
<1> QED BY <1>1, <1>2, Invariance, PTL DEF Spec, ImplementsFifo, Abstract!Spec
=============================================================================
