----------------------------- MODULE MCRoleDraft ----------------------------
(* Model values for RoleDraft: six players, which every strategy allows, and  *)
(* the thirty roles of a game without extensions in their order and in the    *)
(* reverse.  Players want the first or, now and then, the last of what is     *)
(* left.  One of them sometimes sends another number: of a role that is taken *)
(* or not among the alternatives, of one of an extension, or of none.         *)
EXTENDS RoleDraft

MCOrder   == <<3, 0, 5, 1, 4, 2>>   \* the players by seat
MCSeating == [k \in 1 .. 6 |-> [id |-> MCOrder[k], team |-> IF k \in {1, 2, 5} THEN 1 ELSE 0]]
MCRoles   == 1 .. 30
MCCreated == MCRoles \cup {31}
MCNumbers == MCCreated \cup {100}
MCDecks   == {[k \in 1 .. 30 |-> k], [k \in 1 .. 30 |-> 31 - k]}

\* by how many are left: who chooses between two, and where player 0 sends another
MCWish(i, S) ==
  LET left  == Cardinality(S)
      other == (IF left = 5 THEN {6, 100} ELSE {3, 31, 100}) \ S
  IN  {Min(S)} \cup (IF left \in {16, 13, 8} \/ (left = 5 /\ i \in {0, 3}) THEN {Max(S)} ELSE {})
               \cup (IF i = 0 /\ left \in {30, 16, 12, 10, 5} THEN other ELSE {})
=============================================================================
