-------------------------------- MODULE Fifo --------------------------------
(***************************************************************************)
(* What a session's command queue promises to the two threads that use it: *)
(* the network thread puts commands, the main thread takes them, in the    *)
(* same order, each exactly once, until the session is destroyed.  The     *)
(* n-th command put is the number n.                                       *)
(***************************************************************************)
EXTENDS Naturals, Sequences

VARIABLES
  queue,    \* the commands put and not yet taken, oldest first
  sent,     \* number of commands put so far
  handled,  \* the last command taken
  open      \* FALSE once the owner of the queue is being destroyed

vars == <<queue, sent, handled, open>>

Init == queue = <<>> /\ sent = 0 /\ handled = 0 /\ open = TRUE

Put == /\ open
       /\ sent' = sent + 1
       /\ queue' = Append(queue, sent')
       /\ UNCHANGED <<handled, open>>

Take == /\ open
        /\ queue # <<>>
        /\ handled' = Head(queue)
        /\ queue' = Tail(queue)
        /\ UNCHANGED <<sent, open>>

Close == open /\ open' = FALSE /\ UNCHANGED <<queue, sent, handled>>

\* a closed queue frees what nobody will take any more
Drop == /\ ~open
        /\ queue # <<>>
        /\ queue' = Tail(queue)
        /\ UNCHANGED <<sent, handled, open>>

Next == Put \/ Take \/ Close \/ Drop

Spec == Init /\ [][Next]_vars
=============================================================================
