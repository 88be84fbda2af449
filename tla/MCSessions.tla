----------------------------- MODULE MCSessions -----------------------------
(* Model values for Sessions: two connections and two users.  Each session   *)
(* may log in again and again, so that it kicks the other and is kicked by   *)
(* it, under the name it has or one it has given up.                         *)
EXTENDS Sessions

CONSTANTS s1, s2, ann, bob

MCSessionIds == {s1, s2}
MCUsers      == {ann, bob}
=============================================================================
