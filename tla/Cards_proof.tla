---------------------------- MODULE Cards_proof ----------------------------
(***************************************************************************)
(* Proofs about Cards, for every deck, number of players, limits and       *)
(* bounds.  A state that moves cards is on the stack for a while before it *)
(* runs, so what is true of the cards is said of the zones and the stack   *)
(* together: a card that a state will take from a zone is not there any    *)
(* more as far as the other states go, and one that a state will put into  *)
(* a zone is nowhere else.                                                 *)
(***************************************************************************)
EXTENDS Cards, FiniteSetTheorems, TLAPS

Places == [area : Areas, player : Players]

Changes == [kind : {"change"}, at : Places, dir : {"add", "remove"},
            cards : SUBSET CardIds, set : BOOLEAN]
Harms         == [kind : {"harm"}, player : Players, point : Nat]
Weakens       == [kind : {"weaken"}, player : Players, point : Nat]
HandRequests  == [kind : {"requestHand"}, player : Players, point : Nat,
                  to : {x \in Places : x.area # "effect"} \cup {Discard},
                  giveUp : BOOLEAN, overLoad : BOOLEAN]
CoverRequests == [kind : {"requestCover"}, player : Players, point : Nat]
Morales       == [kind : {"morale"}, player : Players, point : Nat]
Starts        == [kind : {"start"}, left : SUBSET Players]
GameOvers     == [kind : {"gameover"}, loser : Colors]
States ==
  Changes \cup Harms \cup Weakens \cup HandRequests \cup CoverRequests \cup Morales
    \cup Starts \cup GameOvers \cup {Turn}

\* The turn, or the deal before it, is at the bottom of the stack and nowhere else.
Bottom(f) == f.kind \in {"turn", "start"}
BottomLast(s) == s # <<>> /\ \A i \in DOMAIN s : Bottom(s[i]) <=> i = Len(s)

Typed ==
  /\ TypeOK
  /\ stack \in Seq(States)
  /\ BottomLast(stack)
-----------------------------------------------------------------------------
(* Where the cards are *)

\* State f will put card c into zone x, or take it from there.
Unset(f, dir, x, c) ==
  f.kind = "change" /\ f.dir = dir /\ ~f.set /\ f.at = x /\ c \in f.cards

Pend(s, dir, x, c) == \E i \in DOMAIN s : Unset(s[i], dir, x, c)

\* No two states put the same card anywhere, or take it from the same zone.
AddOnce(s) ==
  \A i, j \in DOMAIN s : \A x, y \in Places : \A c \in CardIds :
    Unset(s[i], "add", x, c) /\ Unset(s[j], "add", y, c) => i = j
TakeOnce(s) ==
  \A i, j \in DOMAIN s : \A x \in Places : \A c \in CardIds :
    Unset(s[i], "remove", x, c) /\ Unset(s[j], "remove", x, c) => i = j

\* A hand or the covers give a card away before anything else happens.
FromTop(s) ==
  \A i \in DOMAIN s : \A x \in Places : \A c \in CardIds :
    Unset(s[i], "remove", x, c) => i = 1 \/ x.area = "effect"

Fit(s) == AddOnce(s) /\ TakeOnce(s) /\ FromTop(s)

InZone(x, c) == c \in zone[x.area][x.player]
\* Card c is in zone x, to stay for all that the stack says.
Held(x, c) == InZone(x, c) /\ ~Pend(stack, "remove", x, c)

In(a) == [area |-> a]
Locations == Places \cup {In("pile"), Discard, In("lost"), In("blown"), In("moving")}

IsAt(c, l) ==
  /\ c \in pile <=> l = In("pile")
  /\ c \in discard <=> l = Discard
  /\ c \in lost <=> l = In("lost")
  /\ c \in blown <=> l = In("blown")
  /\ (\E x \in Places : Pend(stack, "add", x, c)) <=> l = In("moving")
  /\ \A x \in Places : Held(x, c) <=> l = x

\* Each card is in exactly one place.
OnePlace == \A c \in CardIds : \E l \in Locations : IsAt(c, l)

\* What is going to be taken from a zone is there.
TakenIsThere ==
  \A x \in Places : \A c \in CardIds : Pend(stack, "remove", x, c) => InZone(x, c)

\* While basic effects wait to be taken off, none waits to be put on.
EffectsOneWay ==
  \A x, y \in Places : \A c, d \in CardIds :
    Pend(stack, "add", x, c) /\ Pend(stack, "remove", y, d) =>
      x.area # "effect" \/ y.area # "effect"

\* A player has one Weaken, the one that is on its way included.
WeakenOf(p, c) ==
  LET x == Place("effect", p) IN
  c \in Weaken /\ (InZone(x, c) \/ Pend(stack, "add", x, c))
OneWeaken == \A p \in Players : \A c, d \in CardIds : WeakenOf(p, c) /\ WeakenOf(p, d) => c = d

CardsInv ==
  /\ OnePlace
  /\ Fit(stack)
  /\ TakenIsThere
  /\ EffectsOneWay
  /\ OneWeaken
-----------------------------------------------------------------------------
(* What is owed for overload *)

\* Overload asks for cards that the player cannot keep.
Forced(s) == \A i \in DOMAIN s : s[i].kind = "requestHand" /\ s[i].overLoad => ~s[i].giveUp

Price(f, t) == IF f.kind = "morale" /\ Color[f.player] = t THEN f.point ELSE 0

\* The states of s will cost team t n morale: f adds them up from the bottom.
Owes(s, t, n) ==
  \E f \in [1 .. Len(s) + 1 -> Nat] :
    /\ f[1] = n /\ f[Len(s) + 1] = 0
    /\ \A i \in DOMAIN s : f[i] = f[i + 1] + Price(s[i], t)

MoraleInv ==
  Top.kind # "gameover" =>
    \A t \in Colors : /\ morale[t] > 0
                      /\ \E n \in Nat : Owes(stack, t, n) /\ morale[t] = InitMorale - over[t] + n
-----------------------------------------------------------------------------
(* The stack *)

\* What the fields of a state are, by its kind.
LEMMA StateFields ==
  ASSUME NEW f \in States
  PROVE  /\ f.kind = "change" => /\ f.at \in Places /\ f.dir \in {"add", "remove"}
                                 /\ f.cards \in SUBSET CardIds /\ f.set \in BOOLEAN
         /\ f.kind \in {"harm", "weaken", "requestHand", "requestCover", "morale"} =>
              f.player \in Players /\ f.point \in Nat
         /\ f.kind = "requestHand" => /\ f.to \in {x \in Places : x.area # "effect"} \cup {Discard}
                                      /\ f.giveUp \in BOOLEAN /\ f.overLoad \in BOOLEAN
         /\ f.kind = "start" => f \in Starts /\ f.left \in SUBSET Players
         /\ f.kind = "turn" => f = Turn
         /\ f.kind = "gameover" => f.loser \in Colors
<1>1. CASE f \in Changes BY <1>1 DEF Changes
<1>2. CASE f \in Harms BY <1>2 DEF Harms
<1>3. CASE f \in Weakens BY <1>3 DEF Weakens
<1>4. CASE f \in HandRequests BY <1>4 DEF HandRequests
<1>5. CASE f \in CoverRequests BY <1>5 DEF CoverRequests
<1>6. CASE f \in Morales BY <1>6 DEF Morales
<1>7. CASE f \in Starts BY <1>7 DEF Starts
<1>8. CASE f \in GameOvers BY <1>8 DEF GameOvers
<1>9. CASE f = Turn BY <1>9 DEF Turn
<1> QED BY <1>1, <1>2, <1>3, <1>4, <1>5, <1>6, <1>7, <1>8, <1>9 DEF States

\* The states that the handlers make.
LEMMA StatesMade ==
  /\ \A x \in Places : \A cs \in SUBSET CardIds :
       /\ Change(x, "add", cs) \in States
       /\ Change(x, "remove", cs) \in States
  /\ \A p \in Players : \A n \in Nat :
       /\ Harm(p, n) \in States /\ WeakenAsked(p, n) \in States
       /\ RequestCover(p, n) \in States /\ LoseMorale(p, n) \in States
       /\ \A to \in {x \in Places : x.area # "effect"} \cup {Discard} : \A g, o \in BOOLEAN :
            RequestHand(p, n, to, g, o) \in States
  /\ \A ps \in SUBSET Players : Start(ps) \in States
  /\ Turn \in States
  /\ \A t \in Colors : GameOver(t) \in States
<1>1. \A x \in Places : \A cs \in SUBSET CardIds :
        Change(x, "add", cs) \in Changes /\ Change(x, "remove", cs) \in Changes
  BY DEF Change, Changes
<1>2. \A p \in Players : \A n \in Nat :
        /\ Harm(p, n) \in Harms /\ WeakenAsked(p, n) \in Weakens
        /\ RequestCover(p, n) \in CoverRequests /\ LoseMorale(p, n) \in Morales
  BY DEF Harm, Harms, WeakenAsked, Weakens, RequestCover, CoverRequests, LoseMorale, Morales
<1>3. \A p \in Players : \A n \in Nat : \A g, o \in BOOLEAN :
        \A to \in {x \in Places : x.area # "effect"} \cup {Discard} :
          RequestHand(p, n, to, g, o) \in HandRequests
  BY DEF RequestHand, HandRequests
<1>4. /\ \A ps \in SUBSET Players : Start(ps) \in Starts
      /\ \A t \in Colors : GameOver(t) \in GameOvers
  BY DEF Start, Starts, GameOver, GameOvers
<1> QED BY <1>1, <1>2, <1>3, <1>4 DEF States

\* The stack is the state on top and the rest.
LEMMA TopAndTail ==
  ASSUME NEW s \in Seq(States), s # <<>>
  PROVE  /\ Head(s) \in States /\ Tail(s) \in Seq(States) /\ s = <<Head(s)>> \o Tail(s)
         /\ Head(s) = s[1] /\ Len(Tail(s)) = Len(s) - 1
         /\ \A i \in DOMAIN Tail(s) : Tail(s)[i] = s[i + 1]
  OBVIOUS

LEMMA Pushed ==
  ASSUME NEW a \in Seq(States), NEW b \in Seq(States)
  PROVE  /\ a \o b \in Seq(States) /\ Len(a \o b) = Len(a) + Len(b)
         /\ \A i \in DOMAIN a : i \in DOMAIN (a \o b) /\ (a \o b)[i] = a[i]
         /\ \A i \in DOMAIN b : Len(a) + i \in DOMAIN (a \o b) /\ (a \o b)[Len(a) + i] = b[i]
         /\ \A i \in DOMAIN (a \o b) :
              \/ i \in DOMAIN a /\ (a \o b)[i] = a[i]
              \/ i - Len(a) \in DOMAIN b /\ (a \o b)[i] = b[i - Len(a)]
  OBVIOUS

LEMMA OneByOne ==
  ASSUME NEW s \in Seq(States), Len(s) = 2
  PROVE  s = <<s[1], s[2]>>
OBVIOUS

LEMMA TwoStates ==
  ASSUME NEW f \in States, NEW g \in States
  PROVE  <<f>> \o <<g>> = <<f, g>>
<1>1. <<f>> \in Seq(States) /\ <<g>> \in Seq(States)
  OBVIOUS
<1>2. <<f>> \o <<g>> \in Seq(States)
  BY <1>1
<1>3. Len(<<f>> \o <<g>>) = 2
  BY <1>1
<1>4. (<<f>> \o <<g>>)[1] = f
  BY <1>1
<1>5. (<<f>> \o <<g>>)[2] = g
  BY <1>1
<1> QED BY <1>2, <1>3, <1>4, <1>5, OneByOne

LEMMA PushedAgain ==
  ASSUME NEW a \in Seq(States), NEW b \in Seq(States), NEW c \in Seq(States)
  PROVE  (a \o b) \o c = a \o (b \o c)
OBVIOUS

LEMMA PushedBottom ==
  ASSUME NEW a \in Seq(States), NEW b \in Seq(States), BottomLast(b),
         \A i \in DOMAIN a : ~Bottom(a[i])
  PROVE  BottomLast(a \o b)
<1>1. a \o b # <<>>
  BY DEF BottomLast
<1>2. ASSUME NEW i \in DOMAIN (a \o b)
      PROVE  Bottom((a \o b)[i]) <=> i = Len(a \o b)
  <2>1. CASE i \in DOMAIN a /\ (a \o b)[i] = a[i]
    <3>1. i =< Len(a) /\ Len(b) > 0
      BY <2>1 DEF BottomLast
    <3> QED BY <2>1, <3>1
  <2>2. CASE i - Len(a) \in DOMAIN b /\ (a \o b)[i] = b[i - Len(a)]
    BY <2>2 DEF BottomLast
  <2> QED BY <2>1, <2>2, Pushed
<1> QED BY <1>1, <1>2 DEF BottomLast

LEMMA BottomOfTail ==
  ASSUME NEW s \in Seq(States), BottomLast(s)
  PROVE  /\ Bottom(Head(s)) => s = <<Head(s)>> /\ Tail(s) = <<>>
         /\ ~Bottom(Head(s)) => BottomLast(Tail(s))
<1>1. s # <<>> /\ Len(s) >= 1 /\ 1 \in DOMAIN s /\ Head(s) = s[1] /\ Len(Tail(s)) = Len(s) - 1
  BY DEF BottomLast
<1>2. Bottom(s[1]) <=> 1 = Len(s)
  BY <1>1 DEF BottomLast
<1>3. ASSUME Bottom(Head(s)) PROVE s = <<Head(s)>> /\ Tail(s) = <<>>
  <2>1. Len(s) = 1
    BY <1>1, <1>2, <1>3
  <2>2. s = <<s[1]>>
    BY <2>1
  <2>3. Tail(<<s[1]>>) = <<>>
    OBVIOUS
  <2> QED BY <1>1, <2>2, <2>3
<1>4. ASSUME ~Bottom(Head(s)) PROVE BottomLast(Tail(s))
  <2>1. 1 # Len(s)
    BY <1>1, <1>2, <1>4
  <2>2. Len(Tail(s)) # 0
    BY <1>1, <2>1
  <2>3. Tail(s) # <<>>
    <3>1. Len(<<>>) = 0
      OBVIOUS
    <3> QED BY <2>2, <3>1
  <2>4. ASSUME NEW i \in DOMAIN Tail(s)
        PROVE  Bottom(Tail(s)[i]) <=> i = Len(Tail(s))
    <3>1. i + 1 \in DOMAIN s /\ Tail(s)[i] = s[i + 1] /\ (i = Len(Tail(s)) <=> i + 1 = Len(s))
      BY <1>1, TopAndTail
    <3> QED BY <3>1 DEF BottomLast
  <2> QED BY <2>3, <2>4 DEF BottomLast
<1> QED BY <1>3, <1>4

\* What states wait to do: pushing adds to it.
LEMMA PushedPend ==
  ASSUME NEW a \in Seq(States), NEW b \in Seq(States), NEW d, NEW x, NEW c
  PROVE  Pend(a \o b, d, x, c) <=> Pend(a, d, x, c) \/ Pend(b, d, x, c)
<1>1. ASSUME Pend(a \o b, d, x, c) PROVE Pend(a, d, x, c) \/ Pend(b, d, x, c)
  BY <1>1, Pushed DEF Pend
<1>2. ASSUME Pend(a, d, x, c) PROVE Pend(a \o b, d, x, c)
  BY <1>2, Pushed DEF Pend
<1>3. ASSUME Pend(b, d, x, c) PROVE Pend(a \o b, d, x, c)
  BY <1>3, Pushed DEF Pend
<1> QED BY <1>1, <1>2, <1>3

LEMMA PendOf ==
  ASSUME NEW d, NEW x, NEW c
  PROVE  /\ ~Pend(<<>>, d, x, c)
         /\ \A f : Pend(<<f>>, d, x, c) <=> Unset(f, d, x, c)
         /\ \A f, g : Pend(<<f, g>>, d, x, c) <=> Unset(f, d, x, c) \/ Unset(g, d, x, c)
<1>1. ~Pend(<<>>, d, x, c)
  BY DEF Pend
<1>2. ASSUME NEW f PROVE Pend(<<f>>, d, x, c) <=> Unset(f, d, x, c)
  <2>1. DOMAIN <<f>> = {1} /\ <<f>>[1] = f
    OBVIOUS
  <2> QED BY <2>1 DEF Pend
<1>3. ASSUME NEW f, NEW g PROVE Pend(<<f, g>>, d, x, c) <=> Unset(f, d, x, c) \/ Unset(g, d, x, c)
  <2>1. DOMAIN <<f, g>> = {1, 2} /\ <<f, g>>[1] = f /\ <<f, g>>[2] = g
    OBVIOUS
  <2> QED BY <2>1 DEF Pend
<1> QED BY <1>1, <1>2, <1>3

LEMMA PendTail ==
  ASSUME NEW s \in Seq(States), s # <<>>, NEW d, NEW x, NEW c
  PROVE  Pend(s, d, x, c) <=> Unset(Head(s), d, x, c) \/ Pend(Tail(s), d, x, c)
<1>1. /\ <<Head(s)>> \in Seq(States) /\ Tail(s) \in Seq(States) /\ s = <<Head(s)>> \o Tail(s)
  BY TopAndTail
<1>2. Pend(<<Head(s)>> \o Tail(s), d, x, c)
        <=> Pend(<<Head(s)>>, d, x, c) \/ Pend(Tail(s), d, x, c)
  BY <1>1, PushedPend
<1>3. Pend(<<Head(s)>>, d, x, c) <=> Unset(Head(s), d, x, c)
  BY PendOf
<1> QED BY <1>1, <1>2, <1>3

LEMMA PushedFit ==
  ASSUME NEW a \in Seq(States), NEW b \in Seq(States), Fit(a), Fit(b),
         \A x, y \in Places : \A c \in CardIds : Pend(a, "add", x, c) => ~Pend(b, "add", y, c),
         \A x \in Places : \A c \in CardIds :
           Pend(b, "remove", x, c) => x.area = "effect" /\ ~Pend(a, "remove", x, c)
  PROVE  Fit(a \o b)
<1>1. ASSUME NEW i \in DOMAIN (a \o b), NEW j \in DOMAIN (a \o b),
             NEW x \in Places, NEW y \in Places, NEW c \in CardIds,
             Unset((a \o b)[i], "add", x, c), Unset((a \o b)[j], "add", y, c)
      PROVE  i = j
  <2>1. CASE i \in DOMAIN a /\ (a \o b)[i] = a[i] /\ j \in DOMAIN a /\ (a \o b)[j] = a[j]
    BY <1>1, <2>1 DEF Fit, AddOnce
  <2>2. CASE /\ i - Len(a) \in DOMAIN b /\ (a \o b)[i] = b[i - Len(a)]
             /\ j - Len(a) \in DOMAIN b /\ (a \o b)[j] = b[j - Len(a)]
    <3>1. i - Len(a) = j - Len(a)
      BY <1>1, <2>2 DEF Fit, AddOnce
    <3> QED BY <3>1
  <2>3. CASE /\ i \in DOMAIN a /\ (a \o b)[i] = a[i]
             /\ j - Len(a) \in DOMAIN b /\ (a \o b)[j] = b[j - Len(a)]
    BY <1>1, <2>3 DEF Pend
  <2>4. CASE /\ j \in DOMAIN a /\ (a \o b)[j] = a[j]
             /\ i - Len(a) \in DOMAIN b /\ (a \o b)[i] = b[i - Len(a)]
    BY <1>1, <2>4 DEF Pend
  <2> QED BY <2>1, <2>2, <2>3, <2>4, Pushed
<1>2. ASSUME NEW i \in DOMAIN (a \o b), NEW j \in DOMAIN (a \o b),
             NEW x \in Places, NEW c \in CardIds,
             Unset((a \o b)[i], "remove", x, c), Unset((a \o b)[j], "remove", x, c)
      PROVE  i = j
  <2>1. CASE i \in DOMAIN a /\ (a \o b)[i] = a[i] /\ j \in DOMAIN a /\ (a \o b)[j] = a[j]
    BY <1>2, <2>1 DEF Fit, TakeOnce
  <2>2. CASE /\ i - Len(a) \in DOMAIN b /\ (a \o b)[i] = b[i - Len(a)]
             /\ j - Len(a) \in DOMAIN b /\ (a \o b)[j] = b[j - Len(a)]
    <3>1. i - Len(a) = j - Len(a)
      BY <1>2, <2>2 DEF Fit, TakeOnce
    <3> QED BY <3>1
  <2>3. CASE /\ i \in DOMAIN a /\ (a \o b)[i] = a[i]
             /\ j - Len(a) \in DOMAIN b /\ (a \o b)[j] = b[j - Len(a)]
    BY <1>2, <2>3 DEF Pend
  <2>4. CASE /\ j \in DOMAIN a /\ (a \o b)[j] = a[j]
             /\ i - Len(a) \in DOMAIN b /\ (a \o b)[i] = b[i - Len(a)]
    BY <1>2, <2>4 DEF Pend
  <2> QED BY <2>1, <2>2, <2>3, <2>4, Pushed
<1>3. ASSUME NEW i \in DOMAIN (a \o b), NEW x \in Places, NEW c \in CardIds,
             Unset((a \o b)[i], "remove", x, c)
      PROVE  i = 1 \/ x.area = "effect"
  <2>1. CASE i \in DOMAIN a /\ (a \o b)[i] = a[i]
    BY <1>3, <2>1 DEF Fit, FromTop
  <2>2. CASE i - Len(a) \in DOMAIN b /\ (a \o b)[i] = b[i - Len(a)]
    BY <1>3, <2>2 DEF Pend
  <2> QED BY <2>1, <2>2, Pushed
<1> QED BY <1>1, <1>2, <1>3 DEF Fit, AddOnce, TakeOnce, FromTop

\* The states below the one on top, when that one waits to move cards.
LEMMA FitTail ==
  ASSUME NEW s \in Seq(States), s # <<>>, Fit(s)
  PROVE  /\ Fit(Tail(s))
         /\ \A x \in Places : \A c \in CardIds :
              /\ Unset(Head(s), "add", x, c) => \A y \in Places : ~Pend(Tail(s), "add", y, c)
              /\ Unset(Head(s), "remove", x, c) => ~Pend(Tail(s), "remove", x, c)
              /\ Pend(Tail(s), "remove", x, c) => x.area = "effect"
<1>1. \A i \in DOMAIN Tail(s) : i + 1 \in DOMAIN s /\ i + 1 # 1 /\ Tail(s)[i] = s[i + 1]
  BY TopAndTail
<1>2. 1 \in DOMAIN s /\ Head(s) = s[1]
  OBVIOUS
<1>3. \A i, j \in DOMAIN Tail(s) : i + 1 = j + 1 => i = j
  OBVIOUS
<1>4. AddOnce(Tail(s))
  BY <1>1, <1>3 DEF Fit, AddOnce
<1>5. TakeOnce(Tail(s))
  BY <1>1, <1>3 DEF Fit, TakeOnce
<1>6. ASSUME NEW x \in Places, NEW c \in CardIds, Pend(Tail(s), "remove", x, c)
      PROVE  x.area = "effect"
  BY <1>1, <1>6 DEF Fit, FromTop, Pend
<1>7. FromTop(Tail(s))
  BY <1>6 DEF FromTop, Pend
<1>8. ASSUME NEW x \in Places, NEW y \in Places, NEW c \in CardIds,
             Unset(Head(s), "add", x, c), Pend(Tail(s), "add", y, c)
      PROVE  FALSE
  BY <1>1, <1>2, <1>8 DEF Fit, AddOnce, Pend
<1>9. ASSUME NEW x \in Places, NEW c \in CardIds,
             Unset(Head(s), "remove", x, c), Pend(Tail(s), "remove", x, c)
      PROVE  FALSE
  BY <1>1, <1>2, <1>9 DEF Fit, TakeOnce, Pend
<1> QED BY <1>4, <1>5, <1>6, <1>7, <1>8, <1>9 DEF Fit

LEMMA UnsetChange ==
  \A y, dir, cs, d, x, c : Unset(Change(y, dir, cs), d, x, c) <=> d = dir /\ x = y /\ c \in cs
BY DEF Unset, Change

\* States that move no cards, or have moved them already
Idle(f) == f.kind = "change" => f.set
AllIdle(s) == \A i \in DOMAIN s : Idle(s[i]) /\ ~Bottom(s[i])

LEMMA IdlePend ==
  ASSUME NEW s, AllIdle(s)
  PROVE  Fit(s) /\ \A d, x, c : ~Pend(s, d, x, c)
<1>1. \A d, x, c : \A i \in DOMAIN s : ~Unset(s[i], d, x, c)
  BY DEF AllIdle, Idle, Unset
<1> QED BY <1>1 DEF Fit, AddOnce, TakeOnce, FromTop, Pend

\* What a handler may push onto: as much is waiting as in the stack, and nothing
\* that has to be on top.
Below(s) ==
  /\ s \in Seq(States) /\ BottomLast(s) /\ Fit(s)
  /\ \A x \in Places : \A c \in CardIds :
       /\ Pend(s, "add", x, c) <=> Pend(stack, "add", x, c)
       /\ Pend(s, "remove", x, c) <=> Pend(stack, "remove", x, c)
       /\ Pend(s, "remove", x, c) => x.area = "effect"

LEMMA BelowTop ==
  ASSUME Typed, CardsInv, Idle(Top)
  PROVE  Below(stack) /\ (~Bottom(Top) => Below(Tail(stack)))
<1>1. stack \in Seq(States) /\ stack # <<>> /\ BottomLast(stack) /\ Fit(stack)
  BY DEF Typed, CardsInv, BottomLast
<1>2. \A d, x, c : ~Unset(Top, d, x, c)
  BY DEF Idle, Unset
<1>3. \A d, x, c : Pend(stack, d, x, c) <=> Pend(Tail(stack), d, x, c)
  BY <1>1, <1>2, PendTail DEF Top
<1>4. \A x \in Places : \A c \in CardIds : Pend(stack, "remove", x, c) => x.area = "effect"
  BY <1>1, <1>3, FitTail
<1>5. Fit(Tail(stack)) /\ Tail(stack) \in Seq(States)
  BY <1>1, FitTail, TopAndTail
<1>6. ~Bottom(Top) => BottomLast(Tail(stack))
  BY <1>1, BottomOfTail DEF Top
<1> QED BY <1>1, <1>3, <1>4, <1>5, <1>6 DEF Below

\* Only the turn, or the deal, is on the stack: nothing waits to be done.
LEMMA BelowBottom ==
  ASSUME Typed, CardsInv, Bottom(Top)
  PROVE  /\ \A d, x, c : ~Pend(stack, d, x, c)
         /\ stack = <<Top>>
         /\ Below(<<Turn>>) /\ \A ps \in SUBSET Players : Below(<<Start(ps)>>)
<1>1. stack = <<Top>>
  BY BottomOfTail DEF Typed, Top
<1>2. \A f : Bottom(f) => \A d, x, c : ~Pend(<<f>>, d, x, c) /\ ~Unset(f, d, x, c)
  BY PendOf DEF Bottom, Unset
<1>3. \A d, x, c : ~Pend(stack, d, x, c)
  BY <1>1, <1>2
<1>4. ASSUME NEW f \in States, Bottom(f) PROVE Below(<<f>>)
  <2>1. DOMAIN <<f>> = {1} /\ Len(<<f>>) = 1 /\ <<f>>[1] = f /\ <<f>> # <<>> /\ <<f>> \in Seq(States)
    OBVIOUS
  <2>2. BottomLast(<<f>>)
    BY <1>4, <2>1 DEF BottomLast
  <2>3. Fit(<<f>>)
    BY <1>2, <1>4, <2>1 DEF Fit, AddOnce, TakeOnce, FromTop
  <2> QED BY <1>2, <1>3, <1>4, <2>1, <2>2, <2>3 DEF Below
<1>5. Turn \in States /\ Bottom(Turn)
  BY StatesMade DEF Bottom, Turn
<1>6. \A ps \in SUBSET Players : Start(ps) \in States /\ Bottom(Start(ps))
  BY StatesMade DEF Bottom, Start
<1> QED BY <1>1, <1>3, <1>4, <1>5, <1>6

LEMMA BelowPushed ==
  ASSUME NEW s, Below(s), NEW a \in Seq(States), AllIdle(a)
  PROVE  Below(a \o s)
<1>1. a \o s \in Seq(States) /\ BottomLast(a \o s)
  BY Pushed, PushedBottom DEF Below, AllIdle
<1>2. Fit(a \o s)
  BY IdlePend, PushedFit DEF Below
<1>3. \A d, x, c : Pend(a \o s, d, x, c) <=> Pend(s, d, x, c)
  BY IdlePend, PushedPend DEF Below
<1> QED BY <1>1, <1>2, <1>3 DEF Below
-----------------------------------------------------------------------------
(* The places of a card *)

LEMMA Differ ==
  /\ In("pile") # Discard /\ In("pile") # In("lost") /\ In("pile") # In("blown")
  /\ In("pile") # In("moving") /\ Discard # In("lost") /\ Discard # In("blown")
  /\ Discard # In("moving") /\ In("lost") # In("blown") /\ In("lost") # In("moving")
  /\ In("blown") # In("moving")
  /\ \A x \in Places : /\ x # In("pile") /\ x # Discard /\ x # In("lost")
                       /\ x # In("blown") /\ x # In("moving")
<1>1. \A a : In(a).area = a
  BY DEF In
<1>2. Discard.area = "discard"
  BY DEF Discard
<1>3. \A x \in Places : x.area \in {"hand", "effect", "cover"}
  BY DEF Places, Areas
<1> QED BY <1>1, <1>2, <1>3

LEMMA WhereIs ==
  ASSUME OnePlace, NEW c \in CardIds
  PROVE  /\ c \in pile => /\ c \notin discard /\ c \notin lost /\ c \notin blown
                          /\ \A x \in Places : ~Pend(stack, "add", x, c) /\ ~Held(x, c)
         /\ c \in discard => /\ c \notin pile /\ c \notin lost /\ c \notin blown
                             /\ \A x \in Places : ~Pend(stack, "add", x, c) /\ ~Held(x, c)
         /\ \A x \in Places : Held(x, c) =>
              /\ c \notin pile /\ c \notin discard /\ c \notin lost /\ c \notin blown
              /\ \A y \in Places : ~Pend(stack, "add", y, c) /\ (Held(y, c) => y = x)
         /\ \A x \in Places : Pend(stack, "add", x, c) =>
              /\ c \notin pile /\ c \notin discard /\ c \notin lost /\ c \notin blown
              /\ \A y \in Places : ~Held(y, c)
<1>1. PICK l \in Locations : IsAt(c, l)
  BY DEF OnePlace
<1> QED BY <1>1, Differ DEF IsAt

\* A card that a step leaves alone stays where it is.
LEMMA Unmoved ==
  ASSUME OnePlace, NEW c \in CardIds,
         c \in pile' <=> c \in pile, c \in discard' <=> c \in discard,
         c \in lost' <=> c \in lost, c \in blown' <=> c \in blown,
         \A x \in Places : /\ Pend(stack', "add", x, c) <=> Pend(stack, "add", x, c)
                           /\ Held(x, c)' <=> Held(x, c)
  PROVE  \E l \in Locations : IsAt(c, l)'
<1>1. PICK l \in Locations : IsAt(c, l)
  BY DEF OnePlace
<1>2. IsAt(c, l)'
  BY <1>1 DEF IsAt, In, Discard
<1> QED BY <1>2

\* Pushing states that put or take cards
LEMMA PushKeeps ==
  ASSUME Typed, CardsInv, NEW s, Below(s), NEW a \in Seq(States), Fit(a),
         \A i \in DOMAIN a : ~Bottom(a[i]),
         \A x, y \in Places : \A c \in CardIds : Pend(a, "add", x, c) => ~Pend(stack, "add", y, c),
         \A x \in Places : \A c \in CardIds :
           Pend(a, "remove", x, c) => InZone(x, c) /\ ~Pend(stack, "remove", x, c),
         stack' = a \o s, zone' = zone
  PROVE  /\ stack' \in Seq(States) /\ BottomLast(stack') /\ Fit(stack')
         /\ TakenIsThere'
         /\ \A x \in Places : \A c \in CardIds :
              /\ Pend(stack', "add", x, c) <=> Pend(a, "add", x, c) \/ Pend(stack, "add", x, c)
              /\ Held(x, c)' <=> Held(x, c) /\ ~Pend(a, "remove", x, c)
<1>1. stack' \in Seq(States) /\ BottomLast(stack')
  BY Pushed, PushedBottom DEF Below
<1>2. Fit(stack')
  BY PushedFit DEF Below
<1>3. ASSUME NEW x \in Places, NEW c \in CardIds
      PROVE  /\ Pend(stack', "add", x, c) <=> Pend(a, "add", x, c) \/ Pend(stack, "add", x, c)
             /\ Pend(stack', "remove", x, c)
                  <=> Pend(a, "remove", x, c) \/ Pend(stack, "remove", x, c)
             /\ InZone(x, c)' <=> InZone(x, c)
  <2>1. InZone(x, c)' <=> InZone(x, c)
    BY DEF InZone
  <2> QED BY <2>1, PushedPend DEF Below
<1>4. TakenIsThere'
  BY <1>3 DEF TakenIsThere, CardsInv
<1> QED BY <1>1, <1>2, <1>3, <1>4 DEF Held

\* A state has run that moves no cards, or states that move none are pushed.
LEMMA QuietKeeps ==
  ASSUME Typed, CardsInv, Below(stack'), UNCHANGED <<pile, discard, zone, lost, blown>>
  PROVE  CardsInv'
<1>1. \A x \in Places : \A c \in CardIds :
        /\ Pend(stack', "add", x, c) <=> Pend(stack, "add", x, c)
        /\ Pend(stack', "remove", x, c) <=> Pend(stack, "remove", x, c)
        /\ InZone(x, c)' <=> InZone(x, c)
  BY DEF Below, InZone
<1>2. \A x \in Places : \A c \in CardIds : Held(x, c)' <=> Held(x, c)
  BY <1>1 DEF Held
<1>3. OnePlace'
  <2> SUFFICES ASSUME NEW c \in CardIds PROVE \E l \in Locations' : IsAt(c, l)'
    BY DEF OnePlace
  <2>1. \E l \in Locations : IsAt(c, l)'
    BY <1>1, <1>2, Unmoved DEF CardsInv
  <2> QED BY <2>1 DEF Locations, Places, In, Discard
<1>4. TakenIsThere' /\ EffectsOneWay'
  BY <1>1 DEF CardsInv, TakenIsThere, EffectsOneWay
<1>5. OneWeaken'
  <2>1. \A p \in Players : Place("effect", p) \in Places
    BY DEF Places, Place, Areas
  <2>2. \A p \in Players : \A c \in CardIds : WeakenOf(p, c)' <=> WeakenOf(p, c)
    BY <1>1, <2>1 DEF WeakenOf
  <2> QED BY <2>2 DEF CardsInv, OneWeaken
<1> QED BY <1>3, <1>4, <1>5 DEF CardsInv, Below

\* What is left of the pile and the discards, and the cards drawn, are what was there.
LEMMA DrawsDo ==
  ASSUME pile \subseteq CardIds, discard \subseteq CardIds, pile \cap discard = {},
         NEW n \in Nat, NEW d \in Draws(n)
  PROVE  /\ d.cards \subseteq CardIds /\ d.pile \subseteq CardIds /\ d.discard \subseteq CardIds
         /\ \A c : c \in d.cards \/ c \in d.pile \/ c \in d.discard <=> c \in pile \/ c \in discard
         /\ \A c : c \in d.cards => c \notin d.pile /\ c \notin d.discard
         /\ \A c : c \in d.pile => c \notin d.discard
<1>1. CASE n <= Cardinality(pile)
  <2>1. PICK S \in kSubset(n, pile) : d = [cards |-> S, pile |-> pile \ S, discard |-> discard]
    BY <1>1 DEF Draws
  <2>2. S \subseteq pile
    BY DEF kSubset
  <2> QED BY <2>1, <2>2
<1>2. CASE ~(n <= Cardinality(pile))
  <2>1. PICK S \in kSubset(n - Cardinality(pile), discard) :
          d = [cards |-> pile \cup S, pile |-> discard \ S, discard |-> {}]
    BY <1>2 DEF Draws
  <2>2. S \subseteq discard
    BY DEF kSubset
  <2> QED BY <2>1, <2>2
<1> QED BY <1>1, <1>2

LEMMA PileAndDiscards ==
  ASSUME Typed, CardsInv
  PROVE  pile \subseteq CardIds /\ discard \subseteq CardIds /\ pile \cap discard = {}
<1>1. pile \subseteq CardIds /\ discard \subseteq CardIds
  BY DEF Typed, TypeOK
<1> QED BY <1>1, WhereIs DEF CardsInv

\* drawCardsFromPile, with or without a reshuffle, and when it runs out of cards
LEMMA DrawKeeps ==
  ASSUME Typed, CardsInv, NEW s, Below(s), NEW at \in Places, at.area # "effect",
         NEW n \in Nat, DrawTo(at, n, s), zone' = zone, blown' = blown
  PROVE  CardsInv' /\ stack' \in Seq(States) /\ BottomLast(stack')
<1>1. CASE \E d \in Draws(n) : /\ pile' = d.pile /\ discard' = d.discard /\ lost' = lost
                               /\ stack' = <<Change(at, "add", d.cards)>> \o s
  <2>1. PICK d \in Draws(n) : /\ pile' = d.pile /\ discard' = d.discard /\ lost' = lost
                              /\ stack' = <<Change(at, "add", d.cards)>> \o s
    BY <1>1
  <2> DEFINE a == <<Change(at, "add", d.cards)>>
  <2>2. /\ d.cards \subseteq CardIds
        /\ \A c : c \in d.cards \/ c \in d.pile \/ c \in d.discard <=> c \in pile \/ c \in discard
        /\ \A c : c \in d.cards => c \notin d.pile /\ c \notin d.discard
        /\ \A c : c \in d.pile => c \notin d.discard
    BY PileAndDiscards, DrawsDo
  <2>3. Change(at, "add", d.cards) \in States
    BY <2>2, StatesMade
  <2>4. a \in Seq(States) /\ DOMAIN a = {1} /\ a[1] = Change(at, "add", d.cards)
    BY <2>3
  <2>5. \A i \in DOMAIN a : ~Bottom(a[i])
    BY <2>4 DEF Bottom, Change
  <2>6. \A x \in Places : \A c \in CardIds :
          /\ Pend(a, "add", x, c) <=> x = at /\ c \in d.cards
          /\ ~Pend(a, "remove", x, c)
    <3> DEFINE r == Change(at, "add", d.cards)
    <3>1. \A e, x, c : Unset(r, e, x, c) <=> e = "add" /\ x = at /\ c \in d.cards
      BY UnsetChange
    <3> HIDE DEF r
    <3>2. \A e, x, c : Pend(<<r>>, e, x, c) <=> Unset(r, e, x, c)
      BY PendOf
    <3>3. a = <<r>>
      BY DEF r
    <3> QED BY <3>1, <3>2, <3>3
  <2>7. Fit(a)
    BY <2>4 DEF Fit, AddOnce, TakeOnce, FromTop, Unset, Change
  <2>8. \A x, y \in Places : \A c \in CardIds : Pend(a, "add", x, c) => ~Pend(stack, "add", y, c)
    BY <2>2, <2>6, WhereIs DEF CardsInv
  <2>9. stack' = a \o s
    BY <2>1
  <2> HIDE DEF a
  <2>10. /\ stack' \in Seq(States) /\ BottomLast(stack') /\ Fit(stack') /\ TakenIsThere'
         /\ \A x \in Places : \A c \in CardIds :
              /\ Pend(stack', "add", x, c)
                   <=> (x = at /\ c \in d.cards) \/ Pend(stack, "add", x, c)
              /\ Held(x, c)' <=> Held(x, c)
    BY <2>4, <2>5, <2>6, <2>7, <2>8, <2>9, PushKeeps
  <2>11. ASSUME NEW c \in CardIds PROVE \E l \in Locations : IsAt(c, l)'
    <3>1. CASE c \in d.cards
      <4>1. IsAt(c, In("moving"))'
        <5>1. c \in pile \/ c \in discard
          BY <2>2, <3>1
        <5>2. c \notin pile' /\ c \notin discard' /\ c \notin lost' /\ c \notin blown'
          BY <2>1, <2>2, <3>1, <5>1, WhereIs DEF CardsInv
        <5>3. \A x \in Places : ~Held(x, c)'
          BY <2>10, <5>1, WhereIs DEF CardsInv
        <5>4. Pend(stack', "add", at, c)
          BY <2>10, <3>1
        <5> QED BY <5>2, <5>3, <5>4, Differ DEF IsAt, In, Discard
      <4> QED BY <4>1 DEF Locations
    <3>2. CASE c \in d.pile
      <4>1. IsAt(c, In("pile"))'
        <5>1. c \in pile \/ c \in discard
          BY <2>2, <3>2
        <5>2. c \in pile' /\ c \notin discard' /\ c \notin lost' /\ c \notin blown'
          BY <2>1, <2>2, <3>2, <5>1, WhereIs DEF CardsInv
        <5>3. \A x \in Places : ~Held(x, c)' /\ ~Pend(stack', "add", x, c)
          BY <2>2, <2>10, <3>2, <5>1, WhereIs DEF CardsInv
        <5> QED BY <5>2, <5>3, Differ DEF IsAt, In, Discard
      <4> QED BY <4>1 DEF Locations
    <3>3. CASE c \in d.discard
      <4>1. IsAt(c, Discard)'
        <5>1. c \in pile \/ c \in discard
          BY <2>2, <3>3
        <5>2. c \notin pile' /\ c \in discard' /\ c \notin lost' /\ c \notin blown'
          BY <2>1, <2>2, <3>3, <5>1, WhereIs DEF CardsInv
        <5>3. \A x \in Places : ~Held(x, c)' /\ ~Pend(stack', "add", x, c)
          BY <2>2, <2>10, <3>3, <5>1, WhereIs DEF CardsInv
        <5> QED BY <5>2, <5>3, Differ DEF IsAt, In, Discard
      <4> QED BY <4>1 DEF Locations
    <3>4. CASE c \notin d.cards /\ c \notin d.pile /\ c \notin d.discard
      BY <2>1, <2>2, <2>10, <3>4, Unmoved DEF CardsInv
    <3> QED BY <3>1, <3>2, <3>3, <3>4
  <2>12. OnePlace'
    BY <2>11 DEF OnePlace, Locations, Places, In, Discard
  <2>13. EffectsOneWay'
    <3>1. \A x \in Places : \A c \in CardIds :
            Pend(stack', "remove", x, c) => Pend(stack, "remove", x, c)
      BY <2>4, <2>6, <2>9, PushedPend DEF Below
    <3> QED BY <2>10, <3>1 DEF CardsInv, EffectsOneWay
  <2>14. OneWeaken'
    <3>1. \A p \in Players : Place("effect", p) \in Places /\ Place("effect", p) # at
      BY DEF Places, Place, Areas
    <3>2. \A p \in Players : \A c \in CardIds : WeakenOf(p, c)' <=> WeakenOf(p, c)
      BY <2>10, <3>1 DEF WeakenOf, InZone
    <3> QED BY <3>2 DEF CardsInv, OneWeaken
  <2> QED BY <2>10, <2>12, <2>13, <2>14 DEF CardsInv
<1>2. CASE /\ pile' = discard /\ discard' = {} /\ lost' = lost \cup pile
           /\ stack' = s
  <2>1. \A x \in Places : \A c \in CardIds :
          /\ Pend(stack', "add", x, c) <=> Pend(stack, "add", x, c)
          /\ Pend(stack', "remove", x, c) <=> Pend(stack, "remove", x, c)
          /\ InZone(x, c)' <=> InZone(x, c)
    BY <1>2 DEF Below, InZone
  <2>2. \A x \in Places : \A c \in CardIds : Held(x, c)' <=> Held(x, c)
    BY <2>1 DEF Held
  <2>3. ASSUME NEW c \in CardIds PROVE \E l \in Locations : IsAt(c, l)'
    <3>1. CASE c \in pile
      <4>1. IsAt(c, In("lost"))'
        BY <1>2, <2>1, <2>2, <3>1, WhereIs, Differ DEF CardsInv, IsAt, In, Discard
      <4> QED BY <4>1 DEF Locations
    <3>2. CASE c \in discard
      <4>1. IsAt(c, In("pile"))'
        BY <1>2, <2>1, <2>2, <3>2, WhereIs, Differ DEF CardsInv, IsAt, In, Discard
      <4> QED BY <4>1 DEF Locations
    <3>3. CASE c \notin pile /\ c \notin discard
      BY <1>2, <2>1, <2>2, <3>3, Unmoved DEF CardsInv
    <3> QED BY <3>1, <3>2, <3>3
  <2>4. OnePlace'
    BY <2>3 DEF OnePlace, Locations, Places, In, Discard
  <2>5. TakenIsThere' /\ EffectsOneWay'
    BY <2>1 DEF CardsInv, TakenIsThere, EffectsOneWay
  <2>6. OneWeaken'
    <3>1. \A p \in Players : Place("effect", p) \in Places
      BY DEF Places, Place, Areas
    <3>2. \A p \in Players : \A c \in CardIds : WeakenOf(p, c)' <=> WeakenOf(p, c)
      BY <2>1, <3>1 DEF WeakenOf
    <3> QED BY <3>2 DEF CardsInv, OneWeaken
  <2> QED BY <1>2, <2>4, <2>5, <2>6 DEF CardsInv, Below
<1> QED BY <1>1, <1>2 DEF DrawTo

\* An effect is put on or taken off only while nothing else waits, and no second Weaken
\* is put on.
NothingWaits == \A d \in {"add", "remove"} : \A x \in Places : \A c \in CardIds : ~Pend(stack, d, x, c)
Way(from, to, cs) ==
  /\ from.area = "effect" \/ to.area = "effect" => NothingWaits
  /\ to.area = "effect" =>
       /\ from.area # "effect"
       /\ \A c, d \in cs : c = d
       /\ cs \subseteq Weaken => zone["effect"][to.player] \cap Weaken = {}

\* The states a are those of such a move.
Carry(a, from, to, cs) ==
  /\ a \in Seq(States) /\ Fit(a)
  /\ \A i \in DOMAIN a : ~Bottom(a[i])
  /\ \A x \in Places : \A c \in CardIds :
       /\ Pend(a, "remove", x, c) <=> x = from /\ c \in cs
       /\ Pend(a, "add", x, c) <=> x = to /\ c \in cs

\* Cards go from one zone to another or to the discards.
LEMMA TakeKeeps ==
  ASSUME Typed, CardsInv, NEW from \in Places, NEW to \in Places \cup {Discard},
         NEW cs \in SUBSET CardIds, \A c \in cs : Held(from, c),
         Way(from, to, cs),
         NEW a, Carry(a, from, to, cs), NEW s, Below(s),
         stack' = a \o s, discard' = Received(to, cs),
         UNCHANGED <<pile, zone, lost, blown>>
  PROVE  CardsInv' /\ stack' \in Seq(States) /\ BottomLast(stack')
<1> USE DEF Carry
<1>1. \A x, y \in Places : \A c \in CardIds : Pend(a, "add", x, c) => ~Pend(stack, "add", y, c)
  BY WhereIs DEF CardsInv
<1>2. \A x \in Places : \A c \in CardIds :
        Pend(a, "remove", x, c) => InZone(x, c) /\ ~Pend(stack, "remove", x, c)
  BY DEF Held
<1>3. /\ stack' \in Seq(States) /\ BottomLast(stack') /\ Fit(stack') /\ TakenIsThere'
      /\ \A x \in Places : \A c \in CardIds :
           /\ Pend(stack', "add", x, c) <=> (x = to /\ c \in cs) \/ Pend(stack, "add", x, c)
           /\ Held(x, c)' <=> Held(x, c) /\ ~(x = from /\ c \in cs)
  BY <1>1, <1>2, PushKeeps
<1>4. \A x \in Places : \A c \in CardIds :
        Pend(stack', "remove", x, c) <=> (x = from /\ c \in cs) \/ Pend(stack, "remove", x, c)
  BY PushedPend DEF Below
<1>5. ASSUME NEW c \in CardIds PROVE \E l \in Locations : IsAt(c, l)'
  <2>1. CASE c \in cs /\ to = Discard
    <3>1. c \notin pile' /\ c \in discard' /\ c \notin lost' /\ c \notin blown'
      BY <2>1, WhereIs DEF CardsInv, Received
    <3>2. \A x \in Places : ~Pend(stack', "add", x, c) /\ ~Held(x, c)'
      BY <1>3, <2>1, WhereIs, Differ DEF CardsInv
    <3>3. IsAt(c, Discard)'
      BY <3>1, <3>2, Differ DEF IsAt, In, Discard
    <3> QED BY <3>3 DEF Locations
  <2>2. CASE c \in cs /\ to # Discard
    <3>1. c \notin pile' /\ c \notin discard' /\ c \notin lost' /\ c \notin blown'
      BY <2>2, WhereIs DEF CardsInv, Received
    <3>2. Pend(stack', "add", to, c) /\ \A x \in Places : ~Held(x, c)'
      BY <1>3, <2>2, WhereIs DEF CardsInv
    <3>3. IsAt(c, In("moving"))'
      BY <2>2, <3>1, <3>2, Differ DEF IsAt, In, Discard
    <3> QED BY <3>3 DEF Locations
  <2>3. CASE c \notin cs
    <3>1. c \in discard' <=> c \in discard
      BY <2>3 DEF Received
    <3> QED BY <1>3, <2>3, <3>1, Unmoved DEF CardsInv
  <2> QED BY <2>1, <2>2, <2>3
<1>6. OnePlace'
  BY <1>5 DEF OnePlace, Locations, Places, In, Discard
<1>7. EffectsOneWay'
  BY <1>3, <1>4 DEF CardsInv, EffectsOneWay, Way, NothingWaits
<1>8. OneWeaken'
  <2> SUFFICES ASSUME NEW p \in Players, NEW c \in CardIds, NEW d \in CardIds,
                      WeakenOf(p, c)', WeakenOf(p, d)'
               PROVE  c = d
    BY DEF OneWeaken
  <2> DEFINE x == Place("effect", p)
  <2>1. x \in Places /\ x.area = "effect" /\ x.player = p
    BY DEF Places, Place, Areas
  <2>2. \A b \in CardIds : WeakenOf(p, b)' <=>
          b \in Weaken /\ (InZone(x, b) \/ (x = to /\ b \in cs) \/ Pend(stack, "add", x, b))
    BY <1>3, <2>1 DEF WeakenOf, InZone, Place
  <2>3. CASE x # to
    BY <2>2, <2>3 DEF CardsInv, OneWeaken, WeakenOf
  <2>4. CASE x = to
    <3>1. c \in cs /\ c \in Weaken => cs \subseteq Weaken
      BY <2>1, <2>4 DEF Way
    <3>2. d \in cs /\ d \in Weaken => cs \subseteq Weaken
      BY <2>1, <2>4 DEF Way
    <3>3. \A b \in CardIds : ~Pend(stack, "add", x, b)
      BY <2>1, <2>4 DEF Way, NothingWaits
    <3>4. CASE cs \subseteq Weaken
      BY <2>1, <2>2, <2>4, <3>3, <3>4 DEF InZone, Way
    <3>5. CASE ~(cs \subseteq Weaken)
      BY <2>2, <3>1, <3>2, <3>3, <3>5 DEF CardsInv, OneWeaken, WeakenOf
    <3> QED BY <3>4, <3>5
  <2> QED BY <2>3, <2>4
<1> QED BY <1>3, <1>6, <1>7, <1>8 DEF CardsInv

\* The states of one move: what they take and give
LEMMA MoveStatesDo ==
  ASSUME NEW from \in Places, NEW to \in Places \cup {Discard}, NEW cs \in SUBSET CardIds
  PROVE  Carry(MoveStates(from, to, cs), from, to, cs)
<1> USE DEF Carry
<1> DEFINE r == Change(from, "remove", cs)
           t == Change(to, "add", cs)
<1>1. CASE cs = {}
  <2>1. MoveStates(from, to, cs) = <<>>
    BY <1>1 DEF MoveStates
  <2>2. AllIdle(<<>>)
    BY DEF AllIdle
  <2>3. Fit(<<>>) /\ <<>> \in Seq(States) /\ DOMAIN <<>> = {}
    BY <2>2, IdlePend
  <2>4. \A d, x, c : ~Pend(<<>>, d, x, c)
    BY <2>2, IdlePend
  <2> QED BY <1>1, <2>1, <2>3, <2>4
<1>2. CASE cs # {} /\ to = Discard
  <2>1. MoveStates(from, to, cs) = <<r>>
    BY <1>2 DEF MoveStates
  <2>2. r \in States
    BY StatesMade
  <2> HIDE DEF r
  <2>3. <<r>> \in Seq(States) /\ DOMAIN <<r>> = {1} /\ <<r>>[1] = r
    BY <2>2
  <2>4. \A d, x, c : Pend(<<r>>, d, x, c) <=> d = "remove" /\ x = from /\ c \in cs
    <3>1. \A d, x, c : Unset(r, d, x, c) <=> d = "remove" /\ x = from /\ c \in cs
      BY UnsetChange DEF r
    <3>2. \A d, x, c : Pend(<<r>>, d, x, c) <=> Unset(r, d, x, c)
      BY PendOf
    <3> QED BY <3>1, <3>2
  <2>5. ~Bottom(r)
    BY DEF r, Bottom, Change
  <2>6. Fit(<<r>>)
    BY <2>3, UnsetChange DEF r, Fit, AddOnce, TakeOnce, FromTop
  <2> QED BY <1>2, <2>1, <2>3, <2>4, <2>5, <2>6, Differ
<1>3. CASE cs # {} /\ to # Discard
  <2>1. MoveStates(from, to, cs) = <<r, t>>
    <3>1. MoveStates(from, to, cs) = <<r>> \o <<t>>
      BY <1>3 DEF MoveStates
    <3>2. r \in States /\ t \in States
      BY <1>3, StatesMade
    <3> HIDE DEF r, t
    <3>3. <<r>> \o <<t>> = <<r, t>>
      BY <3>2, TwoStates
    <3> QED BY <3>1, <3>3
  <2>2. r \in States /\ t \in States
    BY <1>3, StatesMade
  <2> HIDE DEF r, t
  <2>3. /\ <<r, t>> \in Seq(States) /\ DOMAIN <<r, t>> = {1, 2}
        /\ <<r, t>>[1] = r /\ <<r, t>>[2] = t
    BY <2>2
  <2>4. \A d, x, c : Pend(<<r, t>>, d, x, c) <=> /\ c \in cs
                                                 /\ \/ d = "remove" /\ x = from
                                                    \/ d = "add" /\ x = to
    <3>1. \A d, x, c : /\ Unset(r, d, x, c) <=> d = "remove" /\ x = from /\ c \in cs
                       /\ Unset(t, d, x, c) <=> d = "add" /\ x = to /\ c \in cs
      BY UnsetChange DEF r, t
    <3>2. \A d, x, c : Pend(<<r, t>>, d, x, c) <=> Unset(r, d, x, c) \/ Unset(t, d, x, c)
      BY PendOf
    <3> QED BY <3>1, <3>2
  <2>5. ~Bottom(r) /\ ~Bottom(t)
    BY DEF r, t, Bottom, Change
  <2>6. \A x, c : /\ ~Unset(r, "add", x, c) /\ ~Unset(t, "remove", x, c)
    BY UnsetChange DEF r, t
  <2>7. Fit(<<r, t>>)
    BY <2>3, <2>6 DEF Fit, AddOnce, TakeOnce, FromTop
  <2> QED BY <1>3, <2>1, <2>3, <2>4, <2>5, <2>7
<1> QED BY <1>1, <1>2, <1>3

\* A state that moves cards runs: StateHandChange, StateBasicEffectChange or
\* StateCoverChange, with whatever it pushes.
LEMMA ApplyKeeps ==
  ASSUME Typed, CardsInv, Top.kind = "change", NEW a \in Seq(States), AllIdle(a),
         stack' = a \o Tail(stack), zone' = Applied(Top),
         UNCHANGED <<pile, discard, lost, blown>>
  PROVE  CardsInv' /\ stack' \in Seq(States) /\ BottomLast(stack')
<1> DEFINE r == Tail(stack)
           y == Top.at
           cs == Top.cards
<1>1. /\ stack \in Seq(States) /\ stack # <<>> /\ BottomLast(stack) /\ Fit(stack)
      /\ Top \in States /\ r \in Seq(States)
  BY TopAndTail DEF Typed, CardsInv, BottomLast, Top
<1>2. y \in Places /\ Top.dir \in {"add", "remove"} /\ cs \in SUBSET CardIds /\ Top.set \in BOOLEAN
  BY <1>1, StateFields
<1>3. BottomLast(r)
  BY <1>1, BottomOfTail DEF Top, Bottom
<1>4. /\ Fit(r)
      /\ \A x \in Places : \A c \in CardIds :
           /\ Unset(Top, "add", x, c) => \A z \in Places : ~Pend(r, "add", z, c)
           /\ Unset(Top, "remove", x, c) => ~Pend(r, "remove", x, c)
           /\ Pend(r, "remove", x, c) => x.area = "effect"
  BY <1>1, FitTail DEF Top
<1>5. \A d, x, c : Pend(stack, d, x, c) <=> Unset(Top, d, x, c) \/ Pend(r, d, x, c)
  BY <1>1, PendTail DEF Top
<1>6. \A d, x, c : Pend(stack', d, x, c) <=> Pend(r, d, x, c)
  BY <1>1, IdlePend, PushedPend
<1>7. stack' \in Seq(States) /\ BottomLast(stack') /\ Fit(stack')
  <2>1. \A i \in DOMAIN a : ~Bottom(a[i])
    BY DEF AllIdle
  <2> QED BY <1>1, <1>3, <1>4, <2>1, IdlePend, Pushed, PushedBottom, PushedFit
<1>8. zone \in [Areas -> [Players -> SUBSET CardIds]]
  BY DEF Typed, TypeOK
<1>9. \A x \in Places : x.area \in Areas /\ x.player \in Players
  BY DEF Places
<1>10. \A x \in Places : x = y <=> x.area = y.area /\ x.player = y.player
  BY <1>2 DEF Places
<1>11. ASSUME NEW x \in Places, NEW c \in CardIds
       PROVE  InZone(x, c)' <=> \/ InZone(x, c) /\ ~Unset(Top, "remove", x, c)
                                \/ Unset(Top, "add", x, c)
  <2> DEFINE after == IF Top.dir = "add" THEN zone[y.area][y.player] \cup cs
                      ELSE zone[y.area][y.player] \ cs
  <2>1. CASE Top.set
    BY <2>1 DEF InZone, Applied, Unset
  <2>2. CASE ~Top.set
    <3>1. zone' = [zone EXCEPT ![y.area][y.player] = after]
      BY <2>2 DEF Applied
    <3>2. zone'[x.area][x.player] = IF x = y THEN after ELSE zone[x.area][x.player]
      BY <1>2, <1>8, <1>9, <1>10, <3>1
    <3>3. CASE x = y /\ Top.dir = "add"
      BY <2>2, <3>2, <3>3 DEF InZone, Unset
    <3>4. CASE x = y /\ Top.dir = "remove"
      BY <2>2, <3>2, <3>4 DEF InZone, Unset
    <3>5. CASE x # y
      BY <3>2, <3>5 DEF InZone, Unset
    <3> QED BY <1>2, <3>3, <3>4, <3>5
  <2> QED BY <1>2, <2>1, <2>2
<1>12. \A x \in Places : \A c \in CardIds :
         Unset(Top, "add", x, c) => x = y /\ ~Unset(Top, "remove", x, c)
  BY DEF Unset
<1> HIDE DEF r, y, cs
\* What is put into a zone is not going to be taken from it.
<1>13. ASSUME NEW c \in CardIds, Unset(Top, "add", y, c) PROVE ~Pend(r, "remove", y, c)
  <2>1. CASE y.area = "effect"
    BY <1>2, <1>5, <1>13, <2>1 DEF CardsInv, EffectsOneWay
  <2>2. CASE y.area # "effect"
    BY <1>2, <1>4, <2>2
  <2> QED BY <2>1, <2>2
<1>14. TakenIsThere'
  <2> SUFFICES ASSUME NEW x \in Places, NEW c \in CardIds, Pend(r, "remove", x, c)
               PROVE  InZone(x, c)'
    BY <1>6 DEF TakenIsThere, Places, Areas
  <2>1. InZone(x, c)
    BY <1>5 DEF CardsInv, TakenIsThere
  <2> QED BY <1>4, <1>11, <2>1
<1>15. ASSUME NEW c \in CardIds PROVE \E l \in Locations : IsAt(c, l)'
  <2>1. CASE Unset(Top, "add", y, c)
    <3>1. /\ c \notin pile' /\ c \notin discard' /\ c \notin lost' /\ c \notin blown'
          /\ \A x \in Places : ~Held(x, c)
      BY <1>2, <1>5, <2>1, WhereIs DEF CardsInv
    <3>2. \A x \in Places : ~Pend(stack', "add", x, c)
      BY <1>2, <1>4, <1>6, <2>1
    <3>3. ASSUME NEW x \in Places, x = y PROVE Held(x, c)'
      BY <3>3, <1>6, <1>11, <1>13, <2>1 DEF Held
    <3>4. ASSUME NEW x \in Places, x # y PROVE ~Held(x, c)'
      <4>1. ~Unset(Top, "add", x, c) /\ ~Unset(Top, "remove", x, c)
        BY <2>1, <3>4 DEF Unset
      <4> QED BY <1>5, <1>6, <1>11, <3>1, <4>1 DEF Held
    <3>5. ASSUME NEW x \in Places, x = y PROVE IsAt(c, x)'
      BY <3>5, <3>1, <3>2, <3>3, <3>4, Differ DEF IsAt, In, Discard
    <3> QED BY <1>2, <3>5 DEF Locations
  <2>2. CASE ~Unset(Top, "add", y, c)
    <3>1. \A x \in Places : ~Unset(Top, "add", x, c)
      BY <1>12, <2>2
    <3>2. ASSUME NEW x \in Places PROVE Held(x, c)' <=> Held(x, c)
      BY <1>4, <1>5, <1>6, <1>11, <3>1 DEF Held
    <3> QED BY <1>5, <1>6, <3>1, <3>2, Unmoved DEF CardsInv
  <2> QED BY <2>1, <2>2
<1>16. OnePlace'
  BY <1>15 DEF OnePlace, Locations, Places, In, Discard
<1>17. EffectsOneWay'
  BY <1>5, <1>6 DEF CardsInv, EffectsOneWay
<1>18. OneWeaken'
  <2>1. \A p \in Players : Place("effect", p) \in Places
    BY DEF Places, Place, Areas
  <2>2. \A p \in Players : \A c \in CardIds : WeakenOf(p, c)' => WeakenOf(p, c)
    BY <1>5, <1>6, <1>11, <2>1 DEF WeakenOf, Place
  <2> QED BY <2>2 DEF CardsInv, OneWeaken
<1> QED BY <1>7, <1>14, <1>16, <1>17, <1>18 DEF CardsInv
-----------------------------------------------------------------------------
(* The states that limits push *)

LEMMA CardsCounted ==
  ASSUME NEW S \in SUBSET CardIds
  PROVE  IsFiniteSet(S) /\ Cardinality(S) \in Nat
BY FiniteAssumption, FS_Subset, FS_CardinalityType DEF FiniteAssumption

LEMMA LimitsAreNumbers ==
  ASSUME NEW max \in [Players -> HandMaxes], NEW p \in Players
  PROVE  max[p] \in Nat
BY NumbersAssumption DEF NumbersAssumption

\* A player with hand cards over limit max is asked for all of them that are over it.
LEMMA OverLoadAsks ==
  ASSUME NEW p \in Players, NEW hand \in SUBSET CardIds, NEW max \in Nat, Cardinality(hand) > max
  PROVE  /\ OverLoad(p, hand, max) \in States
         /\ OverLoad(p, hand, max).kind = "requestHand" /\ OverLoad(p, hand, max).overLoad
         /\ ~OverLoad(p, hand, max).giveUp /\ OverLoad(p, hand, max).player = p
         /\ OverLoad(p, hand, max).point = Cardinality(hand) - max
<1>1. Cardinality(hand) - max \in Nat
  BY CardsCounted
<1>2. OverLoad(p, hand, max) \in States
  BY <1>1, StatesMade DEF OverLoad
<1> QED BY <1>2 DEF OverLoad, RequestHand

\* States that ask for what is over a limit: they move nothing yet.
Asking(s) ==
  \A i \in DOMAIN s : s[i].kind = "requestCover" \/ (s[i].kind = "requestHand" /\ ~s[i].giveUp)

LEMMA AskingIsIdle ==
  ASSUME NEW s, Asking(s) PROVE AllIdle(s) /\ Forced(s)
BY DEF Asking, AllIdle, Idle, Bottom, Forced

LEMMA HandOverLoadDoes ==
  ASSUME NEW p \in Players, NEW hand \in SUBSET CardIds, NEW max \in Nat
  PROVE  /\ HandOverLoad(p, hand, max) \in Seq(States) /\ Asking(HandOverLoad(p, hand, max))
         /\ Cardinality(hand) > max =>
              \E i \in DOMAIN HandOverLoad(p, hand, max) :
                HandOverLoad(p, hand, max)[i] = OverLoad(p, hand, max)
<1>1. CASE Cardinality(hand) > max
  <2> DEFINE f == OverLoad(p, hand, max)
  <2>1. f \in States /\ f.kind = "requestHand" /\ ~f.giveUp
    BY <1>1, OverLoadAsks
  <2>2. HandOverLoad(p, hand, max) = <<f>>
    BY <1>1 DEF HandOverLoad
  <2> HIDE DEF f
  <2>3. <<f>> \in Seq(States) /\ DOMAIN <<f>> = {1} /\ <<f>>[1] = f
    BY <2>1
  <2> QED BY <2>1, <2>2, <2>3 DEF Asking, f
<1>2. CASE ~(Cardinality(hand) > max)
  BY <1>2 DEF HandOverLoad, Asking
<1> QED BY <1>1, <1>2

LEMMA CoverOverLoadDoes ==
  ASSUME NEW p \in Players, NEW cover \in SUBSET CardIds
  PROVE  CoverOverLoad(p, cover) \in Seq(States) /\ Asking(CoverOverLoad(p, cover))
<1>1. CoverMax \in Nat /\ Cardinality(cover) \in Nat
  BY CardsCounted, NumbersAssumption DEF NumbersAssumption
<1>2. CASE Cardinality(cover) > CoverMax
  <2> DEFINE f == RequestCover(p, Cardinality(cover) - CoverMax)
  <2>1. f \in States
    BY <1>1, <1>2, StatesMade
  <2>2. f.kind = "requestCover"
    BY DEF RequestCover
  <2>3. CoverOverLoad(p, cover) = <<f>>
    BY <1>2 DEF CoverOverLoad
  <2> HIDE DEF f
  <2>4. <<f>> \in Seq(States) /\ DOMAIN <<f>> = {1} /\ <<f>>[1] = f
    BY <2>1
  <2>5. \A i \in DOMAIN <<f>> : <<f>>[i].kind = "requestCover"
    BY <2>2, <2>4
  <2>6. Asking(<<f>>)
    BY <2>5 DEF Asking
  <2> QED BY <2>3, <2>4, <2>6
<1>3. CASE ~(Cardinality(cover) > CoverMax)
  BY <1>3 DEF CoverOverLoad, Asking
<1> QED BY <1>2, <1>3

\* An ordering of a finite set misses none of its members.
LEMMA OrderHasAll ==
  ASSUME NEW S, IsFiniteSet(S), NEW order \in SetToSeqs(S)
  PROVE  /\ Cardinality(S) \in Nat /\ Len(order) = Cardinality(S) /\ order \in Seq(S)
         /\ DOMAIN order = 1 .. Cardinality(S)
         /\ \A x \in S : \E k \in DOMAIN order : order[k] = x
         /\ \A j, k \in DOMAIN order : order[j] = order[k] => j = k
<1> DEFINE n == Cardinality(S)
<1>1. n \in Nat
  BY FS_CardinalityType
<1>2. order \in [1 .. n -> S] /\ \A j, k \in 1 .. n : j # k => order[j] # order[k]
  BY DEF SetToSeqs
<1>3. order \in Injection(1 .. n, S)
  BY <1>2 DEF Injection, IsInjective
<1>4. Cardinality(1 .. n) = n /\ IsFiniteSet(1 .. n)
  BY <1>1, FS_Interval
<1>5. order \in Surjection(1 .. n, S)
  BY <1>3, <1>4, FS_Injection
<1>6. \A x \in S : \E k \in 1 .. n : order[k] = x
  BY <1>5 DEF Surjection
<1>7. order \in Seq(S) /\ Len(order) = n /\ DOMAIN order = 1 .. n
  BY <1>1, <1>2
<1> QED BY <1>1, <1>2, <1>6, <1>7

LEMMA OverLoadsDo ==
  ASSUME NEW ps \in SUBSET Players, NEW hands \in [Players -> SUBSET CardIds],
         NEW max \in [Players -> HandMaxes], NEW fs \in OverLoads(ps, hands, max)
  PROVE  /\ fs \in Seq(States) /\ Asking(fs)
         /\ \A p \in ps : Cardinality(hands[p]) > max[p] =>
              \E i \in DOMAIN fs : fs[i] = OverLoad(p, hands[p], max[p])
<1> DEFINE S == {p \in ps : Cardinality(hands[p]) > max[p]}
<1>1. PICK order \in SetToSeqs(S) :
        fs = [k \in DOMAIN order |-> OverLoad(order[k], hands[order[k]], max[order[k]])]
  BY DEF OverLoads
<1>2. S \in SUBSET Players /\ IsFiniteSet(S)
  BY FiniteAssumption, FS_Subset DEF FiniteAssumption
<1>3. \A p \in S : Cardinality(hands[p]) > max[p] /\ hands[p] \in SUBSET CardIds /\ max[p] \in Nat
  BY LimitsAreNumbers
<1>4. \A p \in ps : Cardinality(hands[p]) > max[p] => p \in S
  OBVIOUS
<1> HIDE DEF S
<1>5. /\ Cardinality(S) \in Nat /\ order \in Seq(S) /\ DOMAIN order = 1 .. Cardinality(S)
      /\ \A x \in S : \E k \in DOMAIN order : order[k] = x
  BY <1>2, OrderHasAll
<1>6. \A k \in DOMAIN order : order[k] \in S /\ order[k] \in Players
  BY <1>2, <1>5
<1>7. \A k \in DOMAIN order : fs[k] \in States /\ fs[k].kind = "requestHand" /\ ~fs[k].giveUp
  BY <1>1, <1>3, <1>6, OverLoadAsks
<1>8. fs \in Seq(States) /\ DOMAIN fs = DOMAIN order
  <2>1. fs \in [1 .. Cardinality(S) -> States]
    BY <1>1, <1>5, <1>7
  <2> QED BY <1>5, <2>1
<1>9. Asking(fs)
  BY <1>7, <1>8 DEF Asking
<1>10. ASSUME NEW p \in ps, Cardinality(hands[p]) > max[p]
       PROVE  \E i \in DOMAIN fs : fs[i] = OverLoad(p, hands[p], max[p])
  <2>1. PICK k \in DOMAIN order : order[k] = p
    BY <1>4, <1>5, <1>10
  <2> QED BY <1>1, <1>8, <2>1
<1> QED BY <1>8, <1>9, <1>10
-----------------------------------------------------------------------------
(* No card is lost: each step *)

LEMMA TypedZones ==
  ASSUME Typed
  PROVE  /\ stack \in Seq(States) /\ stack # <<>> /\ Top \in States
         /\ zone \in [Areas -> [Players -> SUBSET CardIds]]
         /\ \A p \in Players : /\ zone["hand"][p] \in SUBSET CardIds
                               /\ zone["effect"][p] \in SUBSET CardIds
                               /\ zone["cover"][p] \in SUBSET CardIds
                               /\ handMax[p] \in Nat
         /\ \A p \in Players : \A a \in Areas : Place(a, p) \in Places
<1>1. stack \in Seq(States) /\ stack # <<>> /\ Top \in States
  BY TopAndTail DEF Typed, BottomLast, Top
<1>2. zone \in [Areas -> [Players -> SUBSET CardIds]] /\ handMax \in [Players -> HandMaxes]
  BY DEF Typed, TypeOK
<1>3. \A p \in Players : /\ zone["hand"][p] \in SUBSET CardIds
                         /\ zone["effect"][p] \in SUBSET CardIds
                         /\ zone["cover"][p] \in SUBSET CardIds
  BY <1>2 DEF Areas
<1>4. \A p \in Players : \A a \in Areas : Place(a, p) \in Places
  BY DEF Place, Places
<1> QED BY <1>1, <1>2, <1>3, <1>4, LimitsAreNumbers

StackFits == stack \in Seq(States) /\ BottomLast(stack)

LEMMA QuietStep ==
  ASSUME Typed, CardsInv, Below(stack'), UNCHANGED <<pile, discard, zone, lost, blown>>
  PROVE  CardsInv' /\ StackFits'
BY QuietKeeps DEF Below, StackFits

LEMMA TurnOnTop ==
  ASSUME Typed, CardsInv, Top = Turn
  PROVE  /\ stack = <<Turn>> /\ Below(stack)
         /\ \A d, x, c : ~Pend(stack, d, x, c)
BY BelowBottom DEF Turn, Bottom

LEMMA PushOne ==
  ASSUME NEW f \in States, Idle(f), ~Bottom(f), NEW s, Below(s)
  PROVE  Below(<<f>> \o s)
<1>1. <<f>> \in Seq(States) /\ DOMAIN <<f>> = {1} /\ <<f>>[1] = f
  OBVIOUS
<1>2. AllIdle(<<f>>)
  BY <1>1 DEF AllIdle
<1> QED BY <1>1, <1>2, BelowPushed

LEMMA StartDealsKeepsCards ==
  ASSUME Typed, CardsInv, StartDeals PROVE CardsInv' /\ StackFits'
<1>1. Bottom(Top) /\ Top.left \in SUBSET Players
  BY TypedZones, StateFields DEF StartDeals, Bottom
<1>2. CASE Top.left = {}
  BY <1>1, <1>2, BelowBottom, QuietStep DEF StartDeals
<1>3. CASE Top.left # {}
  <2>1. PICK p \in Top.left : DrawTo(Place("hand", p), Deal, <<Start(Top.left \ {p})>>)
    BY <1>3 DEF StartDeals
  <2>2. Below(<<Start(Top.left \ {p})>>)
    BY <1>1, BelowBottom
  <2>3. Place("hand", p) \in Places /\ Place("hand", p).area = "hand" /\ Deal \in Nat
    BY <1>1, NumbersAssumption DEF Place, Places, Areas, NumbersAssumption
  <2> QED BY <2>1, <2>2, <2>3, DrawKeeps DEF StartDeals, StackFits
<1> QED BY <1>2, <1>3

LEMMA HarmDrawsKeepsCards ==
  ASSUME Typed, CardsInv, HarmDraws PROVE CardsInv' /\ StackFits'
<1>1. Below(Tail(stack)) /\ Top.player \in Players /\ Top.point \in Nat
  BY TypedZones, StateFields, BelowTop DEF HarmDraws, Idle, Bottom
<1>2. Place("hand", Top.player) \in Places /\ Place("hand", Top.player).area = "hand"
  BY <1>1 DEF Place, Places, Areas
<1> QED BY <1>1, <1>2, DrawKeeps DEF HarmDraws, StackFits

LEMMA WeakenAnsweredKeepsCards ==
  ASSUME Typed, CardsInv, WeakenAnswered PROVE CardsInv' /\ StackFits'
<1>1. Below(Tail(stack)) /\ Top.player \in Players /\ Top.point \in Nat
  BY TypedZones, StateFields, BelowTop DEF WeakenAnswered, Idle, Bottom
<1>2. Place("hand", Top.player) \in Places /\ Place("hand", Top.player).area = "hand"
  BY <1>1 DEF Place, Places, Areas
<1>3. CASE DrawTo(Place("hand", Top.player), Top.point, Tail(stack))
  BY <1>1, <1>2, <1>3, DrawKeeps DEF WeakenAnswered, StackFits
<1>4. CASE stack' = Tail(stack) /\ UNCHANGED <<pile, discard, lost>>
  BY <1>1, <1>4, QuietStep DEF WeakenAnswered
<1> QED BY <1>3, <1>4 DEF WeakenAnswered

\* The zones after a move are zones.
LEMMA AppliedZones ==
  ASSUME Typed, Top.kind = "change"
  PROVE  Applied(Top) \in [Areas -> [Players -> SUBSET CardIds]]
<1>1. /\ Top.at.area \in Areas /\ Top.at.player \in Players /\ Top.cards \in SUBSET CardIds
      /\ zone \in [Areas -> [Players -> SUBSET CardIds]]
  BY TypedZones, StateFields DEF Places
<1> DEFINE z == zone[Top.at.area][Top.at.player]
           after == IF Top.dir = "add" THEN z \cup Top.cards ELSE z \ Top.cards
<1>2. after \in SUBSET CardIds
  BY <1>1
<1>3. Applied(Top) = IF Top.set THEN zone ELSE [zone EXCEPT ![Top.at.area][Top.at.player] = after]
  BY DEF Applied
<1> HIDE DEF after
<1>4. [zone EXCEPT ![Top.at.area][Top.at.player] = after] \in [Areas -> [Players -> SUBSET CardIds]]
  BY <1>1, <1>2
<1> QED BY <1>1, <1>3, <1>4

\* The hook of a role after StateHandChange: the state is still on the stack, set.
LEMMA DoneState ==
  ASSUME NEW f \in States, f.kind = "change"
  PROVE  LET g == [f EXCEPT !.set = TRUE] IN
         /\ g \in States /\ g.kind = "change" /\ g.set /\ g.at = f.at /\ Idle(g) /\ ~Bottom(g)
<1>1. f \in Changes
  BY DEF States, Changes, Harms, Weakens, HandRequests, CoverRequests, Morales, Starts,
         GameOvers, Turn
<1>2. [f EXCEPT !.set = TRUE] \in Changes
  BY <1>1 DEF Changes
<1>3. [f EXCEPT !.set = TRUE].kind = "change"
  BY <1>1 DEF Changes
<1>4. [f EXCEPT !.set = TRUE].set
  BY <1>1 DEF Changes
<1>5. [f EXCEPT !.set = TRUE].at = f.at
  BY <1>1 DEF Changes
<1> QED BY <1>2, <1>3, <1>4, <1>5 DEF States, Idle, Bottom

LEMMA HandChangeKeepsCards ==
  ASSUME Typed, CardsInv, HandChange PROVE CardsInv' /\ StackFits'
<1> DEFINE p == Top.at.player
<1>1. /\ Top.kind = "change" /\ zone' = Applied(Top) /\ p \in Players /\ stack \in Seq(States)
      /\ UNCHANGED <<pile, discard, lost, blown>>
  BY TypedZones, StateFields DEF HandChange, Places
<1>2. zone' \in [Areas -> [Players -> SUBSET CardIds]] /\ zone'["hand"] \in [Players -> SUBSET CardIds]
  BY <1>1, AppliedZones DEF Areas
<1>3. CASE stack' = HandOverLoad(p, zone'["hand"][p], handMax[p]) \o Tail(stack)
  <2>1. zone'["hand"][p] \in SUBSET CardIds /\ handMax[p] \in Nat
    BY <1>1, <1>2, TypedZones
  <2> DEFINE a == HandOverLoad(p, zone'["hand"][p], handMax[p])
  <2>2. a \in Seq(States) /\ AllIdle(a)
    BY <1>1, <2>1, HandOverLoadDoes, AskingIsIdle
  <2>3. stack' = a \o Tail(stack)
    BY <1>3
  <2> HIDE DEF a, p
  <2> QED BY <1>1, <2>2, <2>3, ApplyKeeps DEF StackFits
<1>4. CASE HookChangesMax([Top EXCEPT !.set = TRUE], zone'["hand"])
  <2> DEFINE g == [Top EXCEPT !.set = TRUE]
  <2>1. PICK ps \in SUBSET Players \ {{}}, max \in [Players -> HandMaxes] :
          \E fs \in OverLoads(ps, zone'["hand"], max) : stack' = fs \o (<<g>> \o Tail(stack))
    BY <1>4 DEF HookChangesMax, ChangeMaxHand
  <2>2. PICK fs \in OverLoads(ps, zone'["hand"], max) : stack' = fs \o (<<g>> \o Tail(stack))
    BY <2>1
  <2>3. fs \in Seq(States) /\ AllIdle(fs)
    BY <1>2, OverLoadsDo, AskingIsIdle
  <2>4. g \in States /\ Idle(g) /\ ~Bottom(g)
    BY <1>1, TypedZones, DoneState
  <2> HIDE DEF g
  <2>5. <<g>> \in Seq(States) /\ DOMAIN <<g>> = {1} /\ <<g>>[1] = g /\ Tail(stack) \in Seq(States)
    BY <2>4, TypedZones, TopAndTail
  <2>6. stack' = (fs \o <<g>>) \o Tail(stack)
    BY <2>2, <2>3, <2>5, PushedAgain
  <2>7. fs \o <<g>> \in Seq(States) /\ AllIdle(fs \o <<g>>)
    <3>1. fs \o <<g>> \in Seq(States)
      BY <2>3, <2>5, Pushed
    <3>2. AllIdle(<<g>>)
      BY <2>4, <2>5 DEF AllIdle
    <3> QED BY <2>3, <2>5, <3>1, <3>2, Pushed DEF AllIdle
  <2> QED BY <1>1, <2>6, <2>7, ApplyKeeps DEF StackFits
<1> QED BY <1>3, <1>4 DEF HandChange

LEMMA BasicEffectChangeKeepsCards ==
  ASSUME Typed, CardsInv, BasicEffectChange PROVE CardsInv' /\ StackFits'
<1>1. <<>> \in Seq(States) /\ AllIdle(<<>>)
  BY DEF AllIdle
<1>2. stack' = <<>> \o Tail(stack)
  BY TypedZones, TopAndTail DEF BasicEffectChange
<1> QED BY <1>1, <1>2, ApplyKeeps DEF BasicEffectChange, StackFits

LEMMA CoverChangeKeepsCards ==
  ASSUME Typed, CardsInv, CoverChange PROVE CardsInv' /\ StackFits'
<1> DEFINE p == Top.at.player
           a == CoverOverLoad(p, zone'["cover"][p])
<1>1. /\ Top.kind = "change" /\ zone' = Applied(Top) /\ p \in Players
      /\ stack' = a \o Tail(stack) /\ UNCHANGED <<pile, discard, lost, blown>>
  BY TypedZones, StateFields DEF CoverChange, Places
<1>2. zone'["cover"][p] \in SUBSET CardIds
  BY <1>1, AppliedZones DEF Areas
<1>3. a \in Seq(States) /\ AllIdle(a)
  BY <1>1, <1>2, CoverOverLoadDoes, AskingIsIdle
<1> HIDE DEF a
<1> QED BY <1>1, <1>3, ApplyKeeps DEF StackFits

\* In a hand or among the covers, while no state on top is about to take it
LEMMA HeldInHand ==
  ASSUME Typed, CardsInv, Idle(Top), NEW x \in Places, x.area # "effect",
         NEW c \in zone[x.area][x.player]
  PROVE  Held(x, c)
<1>1. c \in CardIds
  BY TypedZones DEF Places
<1>2. ~Pend(stack, "remove", x, c)
  BY <1>1, BelowTop DEF Below
<1> QED BY <1>2 DEF Held, InZone

\* A state on top that asks a player for cards: they go on their way, and the states
\* a after them may follow.
LEMMA GivenAway ==
  ASSUME Typed, CardsInv, Idle(Top), ~Bottom(Top),
         NEW from \in Places, from.area # "effect",
         NEW to \in Places \cup {Discard}, to.area # "effect",
         NEW cs, cs \subseteq zone[from.area][from.player],
         NEW a \in Seq(States), AllIdle(a),
         stack' = MoveStates(from, to, cs) \o a \o Tail(stack), discard' = Received(to, cs),
         UNCHANGED <<pile, zone, lost, blown>>
  PROVE  CardsInv' /\ StackFits'
<1> DEFINE m == MoveStates(from, to, cs)
           s == a \o Tail(stack)
<1>1. cs \in SUBSET CardIds
  BY TypedZones DEF Places
<1>2. Carry(m, from, to, cs)
  BY <1>1, MoveStatesDo
<1>3. Below(Tail(stack)) /\ Tail(stack) \in Seq(States)
  BY BelowTop DEF Below
<1>4. Below(s)
  BY <1>3, BelowPushed
<1>5. stack' = m \o s
  BY <1>2, <1>3, PushedAgain DEF Carry
<1>6. \A c \in cs : Held(from, c)
  BY HeldInHand
<1>7. Way(from, to, cs)
  BY DEF Way
<1> HIDE DEF m, s
<1>8. CardsInv' /\ stack' \in Seq(States) /\ BottomLast(stack')
  BY <1>1, <1>2, <1>4, <1>5, <1>6, <1>7, TakeKeeps
<1> QED BY <1>8 DEF StackFits

LEMMA HandRequestedKeepsCards ==
  ASSUME Typed, CardsInv, HandRequested PROVE CardsInv' /\ StackFits'
<1> DEFINE p == Top.player
           n == AtMost(Top.point, Hand(p))
           price == IF Top.overLoad THEN <<LoseMorale(p, n)>> ELSE <<>>
           from == Place("hand", p)
<1>1. /\ Top.kind = "requestHand" /\ p \in Players /\ Top.point \in Nat
      /\ Top.to \in {x \in Places : x.area # "effect"} \cup {Discard}
      /\ Idle(Top) /\ ~Bottom(Top) /\ Hand(p) \in SUBSET CardIds
  BY TypedZones, StateFields DEF HandRequested, Idle, Bottom, Hand
<1>2. CASE stack' = Tail(stack) /\ UNCHANGED <<discard, over>>
  BY <1>1, <1>2, BelowTop, QuietStep DEF HandRequested
<1>3. CASE \E cs \in kSubset(n, Hand(p)) :
             /\ discard' = Received(Top.to, cs)
             /\ stack' = MoveStates(from, Top.to, cs) \o price \o Tail(stack)
  <2>1. PICK cs \in kSubset(n, Hand(p)) :
             /\ discard' = Received(Top.to, cs)
             /\ stack' = MoveStates(from, Top.to, cs) \o price \o Tail(stack)
    BY <1>3
  <2>2. /\ from \in Places /\ from.area = "hand" /\ from.player = p
        /\ cs \subseteq zone[from.area][from.player]
    BY <1>1 DEF kSubset, Place, Places, Areas, Hand
  <2>3. n \in Nat
    BY <1>1, CardsCounted DEF AtMost
  <2>4. price \in Seq(States) /\ AllIdle(price)
    <3> DEFINE f == LoseMorale(p, n)
    <3>1. f \in States /\ Idle(f) /\ ~Bottom(f)
      BY <1>1, <2>3, StatesMade DEF LoseMorale, Idle, Bottom
    <3>2. price = <<f>> \/ price = <<>>
      OBVIOUS
    <3> HIDE DEF f
    <3>3. <<f>> \in Seq(States) /\ DOMAIN <<f>> = {1} /\ <<f>>[1] = f
      BY <3>1
    <3>4. AllIdle(<<f>>) /\ AllIdle(<<>>) /\ <<>> \in Seq(States)
      BY <3>1, <3>3 DEF AllIdle
    <3> HIDE DEF price
    <3> QED BY <3>2, <3>3, <3>4
  <2>5. Top.to \in Places \cup {Discard} /\ Top.to.area # "effect"
    BY <1>1 DEF Discard
  <2>6. UNCHANGED <<pile, zone, lost, blown>>
    BY DEF HandRequested
  <2> HIDE DEF from, n, p, price
  <2> QED BY <1>1, <2>1, <2>2, <2>4, <2>5, <2>6, GivenAway
<1> QED BY <1>2, <1>3 DEF HandRequested

LEMMA PushedNothing ==
  ASSUME NEW a \in Seq(States)
  PROVE  a \o <<>> = a /\ <<>> \o a = a
OBVIOUS

LEMMA CoverRequestedKeepsCards ==
  ASSUME Typed, CardsInv, CoverRequested PROVE CardsInv' /\ StackFits'
<1> DEFINE p == Top.player
           from == Place("cover", p)
           n == AtMost(Top.point, zone["cover"][p])
<1>1. /\ Top.kind = "requestCover" /\ p \in Players /\ Idle(Top) /\ ~Bottom(Top)
      /\ zone["cover"][p] \in SUBSET CardIds /\ UNCHANGED <<pile, zone, lost, blown>>
  BY TypedZones, StateFields DEF CoverRequested, Idle, Bottom
<1>2. PICK cs \in kSubset(n, zone["cover"][p]) :
             /\ discard' = Received(Discard, cs)
             /\ stack' = MoveStates(from, Discard, cs) \o Tail(stack)
  BY DEF CoverRequested
<1>3. /\ from \in Places /\ from.area = "cover" /\ from.player = p
      /\ cs \subseteq zone[from.area][from.player] /\ cs \in SUBSET CardIds
  BY <1>1 DEF kSubset, Place, Places, Areas
<1>4. MoveStates(from, Discard, cs) \o <<>> = MoveStates(from, Discard, cs)
  BY <1>3, MoveStatesDo, PushedNothing DEF Carry
<1>5. <<>> \in Seq(States) /\ AllIdle(<<>>) /\ Discard.area # "effect"
  BY DEF AllIdle, Discard
<1> HIDE DEF from, p, n
<1>6. stack' = MoveStates(from, Discard, cs) \o <<>> \o Tail(stack)
  BY <1>2, <1>4
<1> QED BY <1>1, <1>2, <1>3, <1>5, <1>6, GivenAway

\* A hook changes limits while state f is on top.
LEMMA HookPushes ==
  ASSUME NEW f, NEW hands \in [Players -> SUBSET CardIds], HookChangesMax(f, hands)
  PROVE  \E fs \in Seq(States) : Asking(fs) /\ stack' = fs \o (<<f>> \o Tail(stack))
<1>1. PICK ps \in SUBSET Players \ {{}}, max \in [Players -> HandMaxes] :
        \E fs \in OverLoads(ps, hands, max) : stack' = fs \o (<<f>> \o Tail(stack))
  BY DEF HookChangesMax, ChangeMaxHand
<1>2. PICK fs \in OverLoads(ps, hands, max) : stack' = fs \o (<<f>> \o Tail(stack))
  BY <1>1
<1> QED BY <1>2, OverLoadsDo

LEMMA MoraleFallsKeepsCards ==
  ASSUME Typed, CardsInv, MoraleFalls PROVE CardsInv' /\ StackFits'
<1> DEFINE t == Color[Top.player]
           left == morale[t] - Top.point
<1>1. /\ Top.kind = "morale" /\ Top.player \in Players /\ Idle(Top) /\ ~Bottom(Top)
      /\ UNCHANGED <<pile, discard, zone, lost, blown>> /\ stack = <<Top>> \o Tail(stack)
  BY TypedZones, StateFields, TopAndTail DEF MoraleFalls, Idle, Bottom, Top
<1>2. Below(stack) /\ Below(Tail(stack))
  BY <1>1, BelowTop
<1>3. CASE stack' = (IF left <= 0 THEN <<GameOver(t)>> ELSE <<>>) \o Tail(stack)
  <2>1. GameOver(t) \in States /\ Idle(GameOver(t)) /\ ~Bottom(GameOver(t))
    <3>1. t \in Colors
      BY <1>1, CardsAssumption DEF CardsAssumption
    <3> QED BY <3>1, StatesMade DEF GameOver, Idle, Bottom
  <2>2. Below(<<GameOver(t)>> \o Tail(stack))
    BY <1>2, <2>1, PushOne
  <2>3. <<>> \o Tail(stack) = Tail(stack)
    BY <1>2, PushedNothing DEF Below
  <2>4. Below(stack')
    BY <1>2, <1>3, <2>2, <2>3
  <2> QED BY <1>1, <2>4, QuietStep
<1>4. CASE HookChangesMax(Top, zone["hand"])
  <2>1. zone["hand"] \in [Players -> SUBSET CardIds]
    BY TypedZones DEF Areas
  <2>2. PICK fs \in Seq(States) : Asking(fs) /\ stack' = fs \o (<<Top>> \o Tail(stack))
    BY <1>4, <2>1, HookPushes
  <2>3. Below(stack')
    BY <1>1, <1>2, <2>2, AskingIsIdle, BelowPushed
  <2> QED BY <1>1, <2>3, QuietStep
<1> QED BY <1>3, <1>4 DEF MoraleFalls

LEMMA HarmedKeepsCards ==
  ASSUME Typed, CardsInv, NEW p \in Players, NEW n \in Nat, Harmed(p, n)
  PROVE  CardsInv' /\ StackFits'
<1>1. Harm(p, n) \in States /\ Idle(Harm(p, n)) /\ ~Bottom(Harm(p, n))
  BY StatesMade DEF Harm, Idle, Bottom
<1>2. Below(stack')
  BY <1>1, TurnOnTop, PushOne DEF Harmed, Moves
<1> QED BY <1>2, QuietStep DEF Harmed

LEMMA AskedKeepsCards ==
  ASSUME Typed, CardsInv, NEW p \in Players, NEW n \in Nat, NEW giveUp \in BOOLEAN,
         NEW to \in {x \in Places : x.area # "effect"} \cup {Discard}, Asked(p, n, to, giveUp)
  PROVE  CardsInv' /\ StackFits'
<1> DEFINE f == RequestHand(p, n, to, giveUp, FALSE)
<1>1. f \in States /\ Idle(f) /\ ~Bottom(f)
  BY StatesMade DEF RequestHand, Idle, Bottom
<1>2. Below(stack')
  BY <1>1, TurnOnTop, PushOne DEF Asked, Moves
<1> QED BY <1>2, QuietStep DEF Asked

LEMMA DrawnKeepsCards ==
  ASSUME Typed, CardsInv, NEW p \in Players, NEW a \in {"hand", "cover"}, NEW n \in Nat,
         Drawn(Place(a, p), n)
  PROVE  CardsInv' /\ StackFits'
<1>1. Place(a, p) \in Places /\ Place(a, p).area # "effect"
  BY DEF Place, Places, Areas
<1> QED BY <1>1, TurnOnTop, DrawKeeps DEF Drawn, Moves, StackFits

LEMMA MovedKeepsCards ==
  ASSUME Typed, CardsInv, NEW from \in Places, NEW to \in Places \cup {Discard},
         NEW cs \in SUBSET CardIds, from.area = "effect" => to.area # "effect",
         Moved(from, to, cs)
  PROVE  CardsInv' /\ StackFits'
<1>1. NothingWaits /\ Below(stack)
  BY TurnOnTop DEF NothingWaits, Moved, Moves
<1>2. \A c \in cs : Held(from, c)
  BY <1>1 DEF Moved, Held, InZone, NothingWaits
<1>3. ASSUME to.area = "effect", NEW c \in cs, NEW d \in cs PROVE c = d
  <2>1. Cardinality(cs) = 1 /\ IsFiniteSet(cs)
    BY <1>3, CardsCounted DEF Moved
  <2>2. PICK b : cs = {b}
    BY <2>1, FS_Singleton
  <2> QED BY <2>2
<1>4. Way(from, to, cs)
  BY <1>1, <1>3 DEF Way, Moved
<1>5. Carry(MoveStates(from, to, cs), from, to, cs)
  BY MoveStatesDo
<1>6. /\ stack' = MoveStates(from, to, cs) \o stack /\ discard' = Received(to, cs)
      /\ UNCHANGED <<pile, zone, lost, blown>>
  BY DEF Moved
<1> QED BY <1>1, <1>2, <1>4, <1>5, <1>6, TakeKeeps DEF StackFits

LEMMA ChangedMaxHandKeepsCards ==
  ASSUME Typed, CardsInv, NEW ps \in SUBSET Players, ChangedMaxHand(ps)
  PROVE  CardsInv' /\ StackFits'
<1>1. zone["hand"] \in [Players -> SUBSET CardIds]
  BY TypedZones DEF Areas
<1>2. PICK max \in [Players -> HandMaxes] :
        \E fs \in OverLoads(ps, zone["hand"], max) : stack' = fs \o stack
  BY DEF ChangedMaxHand, ChangeMaxHand
<1>3. PICK fs \in OverLoads(ps, zone["hand"], max) : stack' = fs \o stack
  BY <1>2
<1>4. fs \in Seq(States) /\ AllIdle(fs)
  BY <1>1, OverLoadsDo, AskingIsIdle
<1>5. Below(stack')
  BY <1>3, <1>4, TurnOnTop, BelowPushed DEF ChangedMaxHand, Moves
<1> QED BY <1>5, QuietStep DEF ChangedMaxHand

\* StateActionPhase::unactional: the new cards are drawn before the hand is given up.
LEMMA RedrawKeepsCards ==
  ASSUME Typed, CardsInv, NEW p \in Players, Top = Turn,
         NEW d \in Draws(Cardinality(Hand(p))),
         pile' = d.pile, discard' = d.discard \cup Hand(p),
         stack' = <<Change(Place("hand", p), "remove", Hand(p)),
                    Change(Place("hand", p), "add", d.cards)>> \o stack,
         UNCHANGED <<zone, lost, blown>>
  PROVE  CardsInv' /\ StackFits'
<1> DEFINE h == Place("hand", p)
           r == Change(h, "remove", Hand(p))
           t == Change(h, "add", d.cards)
<1>1. /\ h \in Places /\ h.area = "hand" /\ h.player = p
      /\ Hand(p) \in SUBSET CardIds /\ Cardinality(Hand(p)) \in Nat
      /\ \A c : c \in Hand(p) <=> InZone(h, c)
  BY TypedZones, CardsCounted DEF Place, Places, Areas, Hand, InZone
<1>2. /\ d.cards \subseteq CardIds
      /\ \A c : c \in d.cards \/ c \in d.pile \/ c \in d.discard <=> c \in pile \/ c \in discard
      /\ \A c : c \in d.cards => c \notin d.pile /\ c \notin d.discard
      /\ \A c : c \in d.pile => c \notin d.discard
  BY <1>1, PileAndDiscards, DrawsDo
<1>3. r \in States /\ t \in States /\ ~Bottom(r) /\ ~Bottom(t)
  BY <1>1, <1>2, StatesMade DEF Bottom, Change
<1>4. /\ \A e, x, c : /\ Unset(r, e, x, c) <=> e = "remove" /\ x = h /\ c \in Hand(p)
                      /\ Unset(t, e, x, c) <=> e = "add" /\ x = h /\ c \in d.cards
  BY UnsetChange
<1> HIDE DEF r, t
<1>5. <<r, t>> \in Seq(States) /\ DOMAIN <<r, t>> = {1, 2} /\ <<r, t>>[1] = r /\ <<r, t>>[2] = t
  BY <1>3
<1>6. \A e, x, c : Pend(<<r, t>>, e, x, c) <=> \/ e = "remove" /\ x = h /\ c \in Hand(p)
                                               \/ e = "add" /\ x = h /\ c \in d.cards
  <2>1. \A e, x, c : Pend(<<r, t>>, e, x, c) <=> Unset(r, e, x, c) \/ Unset(t, e, x, c)
    BY PendOf
  <2> QED BY <1>4, <2>1
<1>7. Fit(<<r, t>>) /\ \A i \in DOMAIN <<r, t>> : ~Bottom(<<r, t>>[i])
  <2>1. \A x, c : ~Unset(r, "add", x, c) /\ ~Unset(t, "remove", x, c)
    BY <1>4
  <2> QED BY <1>3, <1>5, <2>1 DEF Fit, AddOnce, TakeOnce, FromTop
<1>8. Below(stack) /\ \A e, x, c : ~Pend(stack, e, x, c)
  BY TurnOnTop
<1>9. stack' = <<r, t>> \o stack
  BY DEF r, t
<1>10. PICK a : a = <<r, t>>
  OBVIOUS
<1>11. /\ stack' \in Seq(States) /\ BottomLast(stack') /\ Fit(stack') /\ TakenIsThere'
       /\ \A x \in Places : \A c \in CardIds :
            /\ Pend(stack', "add", x, c) <=> x = h /\ c \in d.cards
            /\ Held(x, c)' <=> Held(x, c) /\ ~(x = h /\ c \in Hand(p))
  <2>1. \A x, y \in Places : \A c \in CardIds : Pend(a, "add", x, c) => ~Pend(stack, "add", y, c)
    BY <1>8
  <2>2. \A x \in Places : \A c \in CardIds :
          Pend(a, "remove", x, c) => InZone(x, c) /\ ~Pend(stack, "remove", x, c)
    BY <1>1, <1>6, <1>8, <1>10
  <2>3. /\ a \in Seq(States) /\ Fit(a) /\ stack' = a \o stack
        /\ \A i \in DOMAIN a : ~Bottom(a[i])
    BY <1>5, <1>7, <1>9, <1>10
  <2>4. /\ stack' \in Seq(States) /\ BottomLast(stack') /\ Fit(stack') /\ TakenIsThere'
        /\ \A x \in Places : \A c \in CardIds :
             /\ Pend(stack', "add", x, c) <=> Pend(a, "add", x, c) \/ Pend(stack, "add", x, c)
             /\ Held(x, c)' <=> Held(x, c) /\ ~Pend(a, "remove", x, c)
    BY <1>8, <2>1, <2>2, <2>3, PushKeeps
  <2>5. \A x \in Places : \A c \in CardIds :
          /\ Pend(a, "add", x, c) <=> x = h /\ c \in d.cards
          /\ Pend(a, "remove", x, c) <=> x = h /\ c \in Hand(p)
    BY <1>6, <1>10
  <2> HIDE DEF h
  <2> QED BY <1>8, <2>4, <2>5
<1>12. \A c \in CardIds : c \in Hand(p) => Held(h, c)
  BY <1>1, <1>8 DEF Held
<1> HIDE DEF h
<1>13. ASSUME NEW c \in CardIds PROVE \E l \in Locations : IsAt(c, l)'
  <2>1. CASE c \in Hand(p)
    <3>1. /\ c \notin pile' /\ c \in discard' /\ c \notin lost' /\ c \notin blown'
          /\ c \notin d.cards
      BY <1>1, <1>2, <1>12, <2>1, WhereIs DEF CardsInv
    <3>2. \A x \in Places : ~Pend(stack', "add", x, c) /\ ~Held(x, c)'
      BY <1>1, <1>11, <1>12, <2>1, <3>1, WhereIs DEF CardsInv
    <3>3. IsAt(c, Discard)'
      BY <3>1, <3>2, Differ DEF IsAt, In, Discard
    <3> QED BY <3>3 DEF Locations
  <2>2. CASE c \in d.cards
    <3>1. c \in pile \/ c \in discard
      BY <1>2, <2>2
    <3>2. /\ c \notin pile' /\ c \notin discard' /\ c \notin lost' /\ c \notin blown'
          /\ \A x \in Places : ~Held(x, c)'
      BY <1>1, <1>2, <1>11, <1>12, <2>2, <3>1, WhereIs DEF CardsInv
    <3>3. Pend(stack', "add", h, c)
      BY <1>1, <1>11, <2>2
    <3>4. IsAt(c, In("moving"))'
      BY <1>1, <3>2, <3>3, Differ DEF IsAt, In, Discard
    <3> QED BY <3>4 DEF Locations
  <2>3. CASE c \in d.pile
    <3>1. c \in pile \/ c \in discard
      BY <1>2, <2>3
    <3>2. /\ c \in pile' /\ c \notin discard' /\ c \notin lost' /\ c \notin blown'
          /\ \A x \in Places : ~Held(x, c)' /\ ~Pend(stack', "add", x, c)
      BY <1>1, <1>2, <1>11, <1>12, <2>3, <3>1, WhereIs DEF CardsInv
    <3>3. IsAt(c, In("pile"))'
      BY <3>2, Differ DEF IsAt, In, Discard
    <3> QED BY <3>3 DEF Locations
  <2>4. CASE c \in d.discard
    <3>1. c \in pile \/ c \in discard
      BY <1>2, <2>4
    <3>2. /\ c \notin pile' /\ c \in discard' /\ c \notin lost' /\ c \notin blown'
          /\ \A x \in Places : ~Held(x, c)' /\ ~Pend(stack', "add", x, c)
      BY <1>1, <1>2, <1>11, <1>12, <2>4, <3>1, WhereIs DEF CardsInv
    <3>3. IsAt(c, Discard)'
      BY <3>2, Differ DEF IsAt, In, Discard
    <3> QED BY <3>3 DEF Locations
  <2>5. CASE c \notin Hand(p) /\ c \notin d.cards /\ c \notin d.pile /\ c \notin d.discard
    BY <1>2, <1>8, <1>11, <2>5, Unmoved DEF CardsInv
  <2> QED BY <2>1, <2>2, <2>3, <2>4, <2>5
<1>14. OnePlace'
  BY <1>13 DEF OnePlace, Locations, Places, In, Discard
<1>15. EffectsOneWay'
  BY <1>1, <1>11 DEF EffectsOneWay
<1>16. OneWeaken'
  <2>1. \A q \in Players : Place("effect", q) \in Places /\ Place("effect", q) # h
    BY <1>1 DEF Places, Place, Areas
  <2>2. \A q \in Players : \A c \in CardIds : WeakenOf(q, c)' => WeakenOf(q, c)
    BY <1>11, <2>1 DEF WeakenOf, InZone
  <2> QED BY <2>2 DEF CardsInv, OneWeaken
<1> QED BY <1>11, <1>14, <1>15, <1>16 DEF CardsInv, StackFits

LEMMA UnactionalKeepsCards ==
  ASSUME Typed, CardsInv, NEW p \in Players, Unactional(p)
  PROVE  CardsInv' /\ StackFits'
<1>1. Top = Turn /\ UNCHANGED <<zone, blown>>
  BY DEF Unactional, Moves
<1>2. ASSUME NEW d \in Draws(Cardinality(Hand(p))),
             pile' = d.pile, lost' = lost, discard' = d.discard \cup Hand(p),
             stack' = <<Change(Place("hand", p), "remove", Hand(p)),
                        Change(Place("hand", p), "add", d.cards)>> \o stack
      PROVE  CardsInv' /\ StackFits'
  BY <1>1, <1>2, RedrawKeepsCards
<1>3. ASSUME Draws(Cardinality(Hand(p))) = {},
             pile' = discard, discard' = {}, lost' = lost \cup pile, stack' = stack
      PROVE  CardsInv' /\ StackFits'
  <2>1. DrawTo(Place("hand", p), Cardinality(Hand(p)), stack)
    BY <1>3 DEF DrawTo
  <2>2. Place("hand", p) \in Places /\ Place("hand", p).area # "effect"
    BY DEF Place, Places, Areas
  <2>3. Cardinality(Hand(p)) \in Nat
    BY TypedZones, CardsCounted DEF Hand
  <2> QED BY <1>1, <2>1, <2>2, <2>3, TurnOnTop, DrawKeeps DEF StackFits
<1>4. ASSUME stack' = <<GameOver(Color[p])>> \o stack, UNCHANGED <<pile, discard, lost>>
      PROVE  CardsInv' /\ StackFits'
  <2>1. Color[p] \in Colors
    BY CardsAssumption DEF CardsAssumption
  <2>2. GameOver(Color[p]) \in States /\ Idle(GameOver(Color[p])) /\ ~Bottom(GameOver(Color[p]))
    BY <2>1, StatesMade DEF GameOver, Idle, Bottom
  <2>3. Below(stack')
    BY <1>1, <1>4, <2>2, TurnOnTop, PushOne
  <2> QED BY <1>1, <1>4, <2>3, QuietStep
<1> QED BY <1>2, <1>3, <1>4 DEF Unactional

\* The states that the Poison before a player pushes: an odd one takes a card off, the
\* one after it harms.
LEMMA PoisonsDo ==
  ASSUME NEW p \in Players, NEW S \in SUBSET CardIds, NEW order \in SetToSeqs(S)
  PROVE  Carry(Poisons(p, order), Place("effect", p), Discard, S)
<1> DEFINE n == Len(order)
           x == Place("effect", p)
           a == Poisons(p, order)
<1>1. /\ n \in Nat /\ order \in Seq(S) /\ DOMAIN order = 1 .. n
      /\ \A c \in S : \E k \in DOMAIN order : order[k] = c
      /\ \A j, k \in DOMAIN order : order[j] = order[k] => j = k
  BY CardsCounted, OrderHasAll
<1>2. x \in Places /\ x.area = "effect"
  BY DEF Place, Places, Areas
<1>3. ASSUME NEW k \in 1 .. n
      PROVE  order[k] \in S /\ {order[k]} \in SUBSET CardIds
  BY <1>1, <1>3
<1>4. ASSUME NEW k \in 1 .. 2 * n
      PROVE  \/ k % 2 = 1 /\ (k + 1) \div 2 \in 1 .. n /\ k = 2 * ((k + 1) \div 2) - 1
             \/ k % 2 = 0
  BY <1>1
<1>5. \A k \in 1 .. n : 2 * k - 1 \in 1 .. 2 * n /\ (2 * k - 1) % 2 = 1 /\ (2 * k - 1 + 1) \div 2 = k
  BY <1>1
<1>6. DOMAIN a = 1 .. 2 * n
  BY DEF Poisons
<1>7. ASSUME NEW k \in 1 .. 2 * n
      PROVE  /\ k % 2 = 1 => a[k] = Change(x, "remove", {order[(k + 1) \div 2]})
             /\ k % 2 # 1 => a[k] = Harm(p, 1)
  BY DEF Poisons
<1>8. \A k \in 1 .. 2 * n : a[k] \in States /\ ~Bottom(a[k])
  <2> SUFFICES ASSUME NEW k \in 1 .. 2 * n PROVE a[k] \in States /\ ~Bottom(a[k])
    OBVIOUS
  <2>1. CASE k % 2 = 1
    <3> DEFINE j == (k + 1) \div 2
               f == Change(x, "remove", {order[j]})
    <3>1. j \in 1 .. n
      BY <1>4, <2>1
    <3>2. f \in States /\ ~Bottom(f)
      BY <1>2, <1>3, <3>1, StatesMade DEF Bottom, Change
    <3>3. a[k] = f
      BY <1>7, <2>1
    <3> HIDE DEF a, f
    <3> QED BY <3>2, <3>3
  <2>2. CASE k % 2 # 1
    <3>1. Harm(p, 1) \in States /\ ~Bottom(Harm(p, 1))
      BY StatesMade DEF Bottom, Harm
    <3>2. a[k] = Harm(p, 1)
      BY <1>7, <2>2
    <3> HIDE DEF a
    <3> QED BY <3>1, <3>2
  <2> QED BY <2>1, <2>2
<1>9. a \in Seq(States)
  <2>1. a = [k \in 1 .. 2 * n |-> a[k]]
    BY DEF Poisons
  <2> HIDE DEF a
  <2>2. a \in [1 .. 2 * n -> States]
    BY <1>8, <2>1
  <2>3. 2 * n \in Nat
    BY <1>1
  <2> HIDE DEF n
  <2> QED BY <2>2, <2>3
<1> HIDE DEF a, x
<1>10. ASSUME NEW k \in 1 .. 2 * n, NEW d, NEW y, NEW c
       PROVE  Unset(a[k], d, y, c) <=> /\ k % 2 = 1 /\ d = "remove" /\ y = x
                                       /\ c = order[(k + 1) \div 2]
  <2>1. CASE k % 2 = 1
    <3> DEFINE cs == {order[(k + 1) \div 2]}
    <3>1. a[k] = Change(x, "remove", cs)
      BY <1>7, <2>1
    <3>2. c \in cs <=> c = order[(k + 1) \div 2]
      OBVIOUS
    <3> HIDE DEF cs
    <3>3. Unset(Change(x, "remove", cs), d, y, c) <=> d = "remove" /\ y = x /\ c \in cs
      BY UnsetChange
    <3> QED BY <2>1, <3>1, <3>2, <3>3
  <2>2. CASE k % 2 # 1
    <3>1. a[k] = Harm(p, 1)
      BY <1>7, <2>2
    <3>2. ~Unset(Harm(p, 1), d, y, c)
      BY DEF Unset, Harm
    <3> QED BY <2>2, <3>1, <3>2
  <2> QED BY <2>1, <2>2
<1>11. TakeOnce(a)
  <2> SUFFICES ASSUME NEW i \in 1 .. 2 * n, NEW j \in 1 .. 2 * n, NEW y, NEW c,
                      Unset(a[i], "remove", y, c), Unset(a[j], "remove", y, c)
               PROVE  i = j
    BY <1>6 DEF TakeOnce
  <2>1. order[(i + 1) \div 2] = order[(j + 1) \div 2] /\ i % 2 = 1 /\ j % 2 = 1
    <3>1. order[(i + 1) \div 2] = c /\ i % 2 = 1
      BY <1>10
    <3>2. order[(j + 1) \div 2] = c /\ j % 2 = 1
      BY <1>10
    <3> QED BY <3>1, <3>2
  <2>2. (i + 1) \div 2 = (j + 1) \div 2
    BY <1>1, <1>4, <2>1
  <2> QED BY <1>4, <2>1, <2>2
<1>12. Fit(a)
  BY <1>2, <1>6, <1>10, <1>11 DEF Fit, AddOnce, FromTop
<1>13. ASSUME NEW d, NEW y \in Places, NEW c \in CardIds
       PROVE  Pend(a, d, y, c) <=> d = "remove" /\ y = x /\ c \in S
  <2>1. ASSUME Pend(a, d, y, c) PROVE d = "remove" /\ y = x /\ c \in S
    <3>1. PICK k \in 1 .. 2 * n : Unset(a[k], d, y, c)
      BY <1>6, <2>1 DEF Pend
    <3>2. k % 2 = 1 /\ d = "remove" /\ y = x /\ c = order[(k + 1) \div 2]
      BY <1>10, <3>1
    <3>3. (k + 1) \div 2 \in 1 .. n
      BY <1>4, <3>2
    <3> QED BY <1>3, <3>2, <3>3
  <2>2. ASSUME d = "remove", y = x, c \in S PROVE Pend(a, d, y, c)
    <3>1. PICK k \in 1 .. n : order[k] = c
      BY <1>1, <2>2
    <3>2. Unset(a[2 * k - 1], d, y, c)
      BY <1>5, <1>10, <2>2, <3>1
    <3> QED BY <1>5, <1>6, <3>2 DEF Pend
  <2> QED BY <2>1, <2>2
<1> QED BY <1>6, <1>8, <1>9, <1>12, <1>13, Differ DEF Carry, a, x

LEMMA CarryBoth ==
  ASSUME NEW x \in Places, x.area = "effect", NEW cs \in SUBSET CardIds, NEW ds \in SUBSET CardIds,
         cs \cap ds = {}, NEW a, NEW b, Carry(a, x, Discard, cs), Carry(b, x, Discard, ds)
  PROVE  Carry(a \o b, x, Discard, cs \cup ds)
<1>1. a \in Seq(States) /\ b \in Seq(States) /\ Fit(a) /\ Fit(b)
  BY DEF Carry
<1>2. a \o b \in Seq(States) /\ \A i \in DOMAIN (a \o b) : ~Bottom((a \o b)[i])
  BY <1>1, Pushed DEF Carry
<1>3. \A y, z \in Places : \A c \in CardIds :
        /\ ~Pend(a, "add", y, c) /\ ~Pend(b, "add", z, c)
        /\ Pend(b, "remove", y, c) => y.area = "effect" /\ ~Pend(a, "remove", y, c)
  BY Differ DEF Carry
<1>4. Fit(a \o b)
  BY <1>1, <1>3, PushedFit
<1>5. \A y \in Places : \A c \in CardIds :
        /\ Pend(a \o b, "remove", y, c) <=> y = x /\ c \in cs \cup ds
        /\ Pend(a \o b, "add", y, c) <=> y = Discard /\ c \in cs \cup ds
  BY <1>1, PushedPend, Differ DEF Carry
<1> QED BY <1>2, <1>4, <1>5 DEF Carry

LEMMA CarryNothing ==
  ASSUME NEW x \in Places, NEW a \in Seq(States), AllIdle(a)
  PROVE  Carry(a, x, Discard, {})
BY IdlePend DEF Carry, AllIdle

\* setStateCheckBasicEffect
LEMMA CheckBasicEffectKeepsCards ==
  ASSUME Typed, CardsInv, NEW p \in Players, CheckBasicEffect(p)
  PROVE  CardsInv' /\ StackFits'
<1> DEFINE x == Place("effect", p)
           effect == zone["effect"][p]
           weaken == effect \cap Weaken
           poison == effect \cap Poison
           r == Change(x, "remove", {CHOOSE c \in weaken : TRUE})
<1>1. /\ x \in Places /\ x.area = "effect" /\ effect = zone[x.area][x.player]
      /\ effect \in SUBSET CardIds /\ weaken \in SUBSET CardIds /\ poison \in SUBSET CardIds
      /\ weaken \cap poison = {}
  BY TypedZones, CardsAssumption DEF Place, Places, Areas, CardsAssumption
<1>2. /\ Top = Turn /\ discard' = discard \cup weaken \cup poison
      /\ UNCHANGED <<pile, zone, lost, blown>>
  BY DEF CheckBasicEffect, Moves
<1>3. PICK order \in SetToSeqs(poison), more \in WuXiShuFu :
        stack' = Poisons(p, order)
                   \o (IF weaken # {} THEN <<r, WeakenAsked(p, WeakenDraw + more)>>
                      ELSE IF more > 0 THEN <<WeakenAsked(p, more)>> ELSE <<>>)
                   \o stack
  BY DEF CheckBasicEffect
<1> DEFINE n     == IF weaken # {} THEN WeakenDraw + more ELSE more
           f     == WeakenAsked(p, n)
           asked == IF weaken # {} THEN <<r, f>> ELSE IF more > 0 THEN <<f>> ELSE <<>>
<1>20. stack' = Poisons(p, order) \o asked \o stack
  BY <1>3
<1>21. f \in States /\ Idle(f) /\ ~Bottom(f)
  <2>1. n \in Nat
    BY NumbersAssumption DEF NumbersAssumption
  <2> HIDE DEF n
  <2>2. Idle(f) /\ ~Bottom(f)
    BY DEF Idle, Bottom, WeakenAsked
  <2> QED BY <2>1, <2>2, StatesMade
<1> HIDE DEF f
<1>22. Carry(<<f>>, x, Discard, {})
  <2>1. <<f>> \in Seq(States) /\ DOMAIN <<f>> = {1} /\ <<f>>[1] = f
    BY <1>21
  <2>2. AllIdle(<<f>>)
    BY <1>21, <2>1 DEF AllIdle
  <2> QED BY <1>1, <2>1, <2>2, CarryNothing
<1>4. NothingWaits /\ Below(stack)
  BY <1>2, TurnOnTop DEF NothingWaits
<1>5. Carry(Poisons(p, order), x, Discard, poison)
  BY <1>1, PoisonsDo
<1>6. Carry(asked, x, Discard, weaken)
  <2>1. CASE weaken = {}
    <3>1. AllIdle(<<>>) /\ <<>> \in Seq(States)
      BY DEF AllIdle
    <3>2. Carry(<<>>, x, Discard, {})
      BY <1>1, <3>1, CarryNothing
    <3>3. asked = <<f>> \/ asked = <<>>
      BY <2>1
    <3> QED BY <1>22, <2>1, <3>2, <3>3
  <2>2. CASE weaken # {}
    <3> DEFINE w == CHOOSE c \in weaken : TRUE
    <3>1. w \in weaken
      BY <2>2
    <3>2. weaken = {w}
      <4>1. ASSUME NEW c \in weaken PROVE c = w
        <5>1. WeakenOf(p, c) /\ WeakenOf(p, w)
          BY <1>1, <3>1 DEF WeakenOf, InZone
        <5> QED BY <1>1, <3>1, <5>1 DEF CardsInv, OneWeaken
      <4> QED BY <3>1, <4>1
    <3> HIDE DEF w
    <3>3. MoveStates(x, Discard, {w}) = <<Change(x, "remove", {w})>>
      BY <1>1, PushedNothing DEF MoveStates
    <3>4. Carry(<<Change(x, "remove", {w})>>, x, Discard, {w})
      BY <1>1, <3>1, <3>3, MoveStatesDo
    <3>5. Change(x, "remove", {w}) \in States
      BY <1>1, <3>1, StatesMade
    <3>7. <<Change(x, "remove", {w})>> \o <<f>> = asked
      BY <1>21, <2>2, <3>5, TwoStates DEF w
    <3>8. Carry(<<Change(x, "remove", {w})>> \o <<f>>, x, Discard, {w} \cup {})
      BY <1>1, <1>22, <3>1, <3>4, CarryBoth
    <3>9. {w} \cup {} = weaken
      BY <3>2
    <3> HIDE DEF asked, weaken, x
    <3> QED BY <3>7, <3>8, <3>9
  <2> QED BY <2>1, <2>2
<1>7. \A c \in effect : Held(x, c)
  BY <1>1, <1>4 DEF Held, InZone, NothingWaits
<1>8. poison \cup weaken \subseteq effect
  OBVIOUS
<1> HIDE DEF x, effect, weaken, poison, r, asked
<1>9. Carry(Poisons(p, order) \o asked, x, Discard, poison \cup weaken)
  BY <1>1, <1>5, <1>6, CarryBoth
<1>10. stack' = (Poisons(p, order) \o asked) \o stack
  BY <1>20
<1>11. Way(x, Discard, poison \cup weaken) /\ Discard \in Places \cup {Discard}
  <2>1. Discard.area # "effect"
    BY DEF Discard
  <2> QED BY <1>4, <2>1 DEF Way
<1>12. discard' = Received(Discard, poison \cup weaken)
  BY <1>2 DEF Received
<1>13. poison \cup weaken \in SUBSET CardIds
  BY <1>1
<1>14. \A c \in poison \cup weaken : Held(x, c)
  BY <1>7, <1>8
<1>15. CardsInv' /\ stack' \in Seq(States) /\ BottomLast(stack')
  BY <1>1, <1>2, <1>4, <1>9, <1>10, <1>11, <1>12, <1>13, <1>14, TakeKeeps
<1> QED BY <1>15 DEF StackFits

\* TianShi::FengZhiJieJing: the card of the skill goes to the discards, the basic effect
\* is taken off and goes nowhere.
LEMMA FengZhiJieJingKeepsCards ==
  ASSUME Typed, CardsInv, NEW p \in Players, NEW q \in Players, NEW c \in CardIds,
         NEW e \in CardIds, FengZhiJieJing(p, q, c, e)
  PROVE  CardsInv' /\ StackFits'
<1> DEFINE h == Place("hand", p)
           x == Place("effect", q)
           r == Change(x, "remove", {e})
           m == MoveStates(h, Discard, {c})
           a == m \o <<r>>
<1>1. /\ h \in Places /\ h.area = "hand" /\ h.player = p
      /\ x \in Places /\ x.area = "effect" /\ x.player = q /\ h # x
  BY DEF Place, Places, Areas
<1>2. /\ Top = Turn /\ InZone(h, c) /\ InZone(x, e) /\ discard' = discard \cup {c}
      /\ blown' = blown \cup {e} /\ UNCHANGED <<pile, zone, lost>>
  BY <1>1 DEF FengZhiJieJing, Moves, Hand, InZone, Received
<1>3. Below(stack) /\ \A d, y, b : ~Pend(stack, d, y, b)
  BY <1>2, TurnOnTop
<1>4. Carry(m, h, Discard, {c})
  BY <1>1, MoveStatesDo
<1>5. r \in States
  BY <1>1, StatesMade
<1>6. ~Bottom(r) /\ \A d, y, b : Unset(r, d, y, b) <=> d = "remove" /\ y = x /\ b = e
  BY UnsetChange DEF Bottom, Change
<1>7. stack' = a \o stack
  BY DEF FengZhiJieJing
<1> HIDE DEF r, m
<1>8. /\ <<r>> \in Seq(States) /\ DOMAIN <<r>> = {1} /\ <<r>>[1] = r
  BY <1>5
<1>9. \A d, y, b : Pend(<<r>>, d, y, b) <=> d = "remove" /\ y = x /\ b = e
  <2>1. \A d, y, b : Pend(<<r>>, d, y, b) <=> Unset(r, d, y, b)
    BY PendOf
  <2> QED BY <1>6, <2>1
<1>10. Fit(<<r>>)
  BY <1>6, <1>8 DEF Fit, AddOnce, TakeOnce, FromTop
<1>11. \A y \in Places : \A b \in CardIds :
         /\ ~Pend(a, "add", y, b)
         /\ Pend(a, "remove", y, b) <=> (y = h /\ b = c) \/ (y = x /\ b = e)
  <2>1. m \in Seq(States)
    BY <1>4 DEF Carry
  <2>2. \A d, y, b : Pend(a, d, y, b) <=> Pend(m, d, y, b) \/ Pend(<<r>>, d, y, b)
    BY <1>8, <2>1, PushedPend
  <2> HIDE DEF a, x, h
  <2>3. \A y \in Places : \A b \in CardIds :
          /\ ~Pend(m, "add", y, b)
          /\ Pend(m, "remove", y, b) <=> y = h /\ b = c
    BY <1>4, Differ DEF Carry
  <2> QED BY <1>9, <2>2, <2>3
<1>12. a \in Seq(States) /\ Fit(a) /\ \A i \in DOMAIN a : ~Bottom(a[i])
  <2>1. m \in Seq(States) /\ Fit(m) /\ \A i \in DOMAIN m : ~Bottom(m[i])
    BY <1>4 DEF Carry
  <2>2. Fit(a)
    BY <1>1, <1>4, <1>8, <1>9, <1>10, <2>1, PushedFit, Differ DEF Carry
  <2> QED BY <1>6, <1>8, <2>1, <2>2, Pushed
<1>13. \A y \in Places : \A b \in CardIds :
         Pend(a, "remove", y, b) => InZone(y, b) /\ ~Pend(stack, "remove", y, b)
  BY <1>2, <1>3, <1>11
<1> HIDE DEF a, h, x
<1>14. /\ stack' \in Seq(States) /\ BottomLast(stack') /\ Fit(stack') /\ TakenIsThere'
       /\ \A y \in Places : \A b \in CardIds :
            /\ ~Pend(stack', "add", y, b)
            /\ Held(y, b)' <=> Held(y, b) /\ ~(y = h /\ b = c) /\ ~(y = x /\ b = e)
  BY <1>2, <1>3, <1>7, <1>11, <1>12, <1>13, PushKeeps
<1>15. Held(h, c) /\ Held(x, e) /\ c # e
  <2>1. Held(h, c) /\ Held(x, e)
    BY <1>2, <1>3 DEF Held
  <2> QED BY <1>1, <2>1, WhereIs DEF CardsInv
<1>16. ASSUME NEW b \in CardIds PROVE \E l \in Locations : IsAt(b, l)'
  <2>1. CASE b = c
    <3>1. b \notin pile' /\ b \in discard' /\ b \notin lost' /\ b \notin blown'
      BY <1>1, <1>2, <1>15, <2>1, WhereIs DEF CardsInv
    <3>2. \A y \in Places : ~Pend(stack', "add", y, b) /\ ~Held(y, b)'
      BY <1>1, <1>14, <1>15, <2>1, WhereIs DEF CardsInv
    <3>3. IsAt(b, Discard)'
      BY <3>1, <3>2, Differ DEF IsAt, In, Discard
    <3> QED BY <3>3 DEF Locations
  <2>2. CASE b = e
    <3>1. b \notin pile' /\ b \notin discard' /\ b \notin lost' /\ b \in blown'
      BY <1>1, <1>2, <1>15, <2>2, WhereIs DEF CardsInv
    <3>2. \A y \in Places : ~Pend(stack', "add", y, b) /\ ~Held(y, b)'
      BY <1>1, <1>14, <1>15, <2>2, WhereIs DEF CardsInv
    <3>3. IsAt(b, In("blown"))'
      BY <3>1, <3>2, Differ DEF IsAt, In, Discard
    <3> QED BY <3>3 DEF Locations
  <2>3. CASE b # c /\ b # e
    BY <1>2, <1>3, <1>14, <2>3, Unmoved DEF CardsInv
  <2> QED BY <2>1, <2>2, <2>3
<1>17. OnePlace'
  BY <1>16 DEF OnePlace, Locations, Places, In, Discard
<1>18. EffectsOneWay'
  BY <1>14 DEF EffectsOneWay
<1>19. OneWeaken'
  <2>1. \A u \in Players : Place("effect", u) \in Places
    BY DEF Places, Place, Areas
  <2>2. \A u \in Players : \A b \in CardIds : WeakenOf(u, b)' => WeakenOf(u, b)
    BY <1>2, <1>14, <2>1 DEF WeakenOf, InZone
  <2> QED BY <2>2 DEF CardsInv, OneWeaken
<1> QED BY <1>14, <1>17, <1>18, <1>19 DEF CardsInv, StackFits
-----------------------------------------------------------------------------
(* The types *)

LEMMA DrawTypes ==
  ASSUME Typed, CardsInv, NEW at, NEW n \in Nat, NEW s, DrawTo(at, n, s)
  PROVE  {pile', discard', lost'} \subseteq SUBSET CardIds
<1>1. lost \subseteq CardIds /\ pile \subseteq CardIds /\ discard \subseteq CardIds
  BY DEF Typed, TypeOK
<1>2. ASSUME NEW d \in Draws(n), pile' = d.pile, discard' = d.discard, lost' = lost
      PROVE  {pile', discard', lost'} \subseteq SUBSET CardIds
  BY <1>1, <1>2, PileAndDiscards, DrawsDo
<1>3. ASSUME pile' = discard, discard' = {}, lost' = lost \cup pile
      PROVE  {pile', discard', lost'} \subseteq SUBSET CardIds
  BY <1>1, <1>3
<1> QED BY <1>2, <1>3 DEF DrawTo

LEMMA MovesCounted ==
  ASSUME Typed, moves < MaxMoves, moves' = moves + 1
  PROVE  moves' \in 0 .. MaxMoves
BY NumbersAssumption DEF NumbersAssumption, Typed, TypeOK

LEMMA HookTypes ==
  ASSUME Typed, NEW f, NEW hands, HookChangesMax(f, hands)
  PROVE  handMax' \in [Players -> HandMaxes] /\ moves' \in 0 .. MaxMoves
BY MovesCounted DEF HookChangesMax, ChangeMaxHand

LEMMA ReceivedTypes ==
  ASSUME Typed, NEW to, NEW cs \in SUBSET CardIds
  PROVE  Received(to, cs) \subseteq CardIds
BY DEF Typed, TypeOK, Received

LEMMA HandleTypes ==
  ASSUME Typed, CardsInv, Handle, StackFits' PROVE TypeOK'
<1> USE DEF Typed, TypeOK
<1>1. stack' # <<>>
  BY DEF StackFits, BottomLast
<1>2. CASE StartDeals
  <2>1. CASE Top.left = {}
    BY <1>1, <1>2, <2>1 DEF StartDeals
  <2>2. CASE Top.left # {}
    <3>1. \E at, s : DrawTo(at, Deal, s)
      BY <1>2, <2>2 DEF StartDeals
    <3>2. Deal \in Nat
      BY NumbersAssumption DEF NumbersAssumption
    <3>3. {pile', discard', lost'} \subseteq SUBSET CardIds
      BY <3>1, <3>2, DrawTypes
    <3> QED BY <1>1, <1>2, <3>3 DEF StartDeals
  <2> QED BY <2>1, <2>2
<1>3. CASE HarmDraws
  <2>1. Top.point \in Nat
    BY <1>3, TypedZones, StateFields DEF HarmDraws
  <2>2. {pile', discard', lost'} \subseteq SUBSET CardIds
    BY <1>3, <2>1, DrawTypes DEF HarmDraws
  <2> QED BY <1>1, <1>3, <2>2 DEF HarmDraws
<1>4. CASE WeakenAnswered
  <2>1. Top.point \in Nat
    BY <1>4, TypedZones, StateFields DEF WeakenAnswered
  <2>2. {pile', discard', lost'} \subseteq SUBSET CardIds
    <3>1. CASE DrawTo(Place("hand", Top.player), Top.point, Tail(stack))
      BY <2>1, <3>1, DrawTypes
    <3>2. CASE UNCHANGED <<pile, discard, lost>>
      BY <3>2
    <3> QED BY <1>4, <3>1, <3>2 DEF WeakenAnswered
  <2> QED BY <1>1, <1>4, <2>2 DEF WeakenAnswered
<1>5. CASE HandChange
  <2>1. zone' \in [Areas -> [Players -> SUBSET CardIds]]
    BY <1>5, AppliedZones DEF HandChange
  <2>2. handMax' \in [Players -> HandMaxes] /\ moves' \in 0 .. MaxMoves
    <3>1. CASE UNCHANGED <<handMax, moves>>
      BY <3>1
    <3>2. CASE HookChangesMax([Top EXCEPT !.set = TRUE], zone'["hand"])
      BY <3>2, HookTypes
    <3> QED BY <1>5, <3>1, <3>2 DEF HandChange
  <2> QED BY <1>1, <1>5, <2>1, <2>2 DEF HandChange
<1>6. CASE BasicEffectChange
  <2>1. zone' \in [Areas -> [Players -> SUBSET CardIds]]
    BY <1>6, AppliedZones DEF BasicEffectChange
  <2> QED BY <1>1, <1>6, <2>1 DEF BasicEffectChange
<1>7. CASE CoverChange
  <2>1. zone' \in [Areas -> [Players -> SUBSET CardIds]]
    BY <1>7, AppliedZones DEF CoverChange
  <2> QED BY <1>1, <1>7, <2>1 DEF CoverChange
<1>8. CASE HandRequested
  <2> DEFINE p == Top.player
             n == AtMost(Top.point, Hand(p))
  <2>1. /\ p \in Players /\ Top.point \in Nat /\ Hand(p) \in SUBSET CardIds
    BY <1>8, TypedZones, StateFields DEF HandRequested, Hand
  <2>2. n \in Nat
    BY <2>1, CardsCounted DEF AtMost
  <2>3. discard' \subseteq CardIds
    <3>1. CASE \E cs \in kSubset(n, Hand(p)) : discard' = Received(Top.to, cs)
      BY <2>1, <3>1, ReceivedTypes DEF kSubset
    <3>2. CASE UNCHANGED <<discard, over>>
      BY <3>2
    <3> QED BY <1>8, <3>1, <3>2 DEF HandRequested
  <2>4. over' \in [Colors -> Nat]
    <3>1. over' = over \/ over' = [over EXCEPT ![Color[p]] = @ + n]
      BY <1>8 DEF HandRequested
    <3> HIDE DEF n
    <3> QED BY <2>2, <3>1
  <2> QED BY <1>1, <1>8, <2>3, <2>4 DEF HandRequested
<1>9. CASE CoverRequested
  <2>1. Top.player \in Players
    BY <1>9, TypedZones, StateFields DEF CoverRequested
  <2>2. zone["cover"][Top.player] \in SUBSET CardIds
    BY <2>1, TypedZones
  <2>3. discard' \subseteq CardIds
    BY <1>9, <2>2, ReceivedTypes DEF CoverRequested, kSubset
  <2> QED BY <1>1, <1>9, <2>3 DEF CoverRequested
<1>10. CASE MoraleFalls
  <2> DEFINE t == Color[Top.player]
             left == morale[t] - Top.point
  <2>1. Top.player \in Players /\ Top.point \in Nat /\ InitMorale \in Nat
    BY <1>10, TypedZones, StateFields, NumbersAssumption DEF MoraleFalls, NumbersAssumption
  <2>2. t \in Colors
    BY <2>1, CardsAssumption DEF CardsAssumption
  <2>3. CASE /\ morale' = [morale EXCEPT ![t] = IF left < 0 THEN 0 ELSE left]
             /\ UNCHANGED <<handMax, moves>>
    <3>1. (IF left < 0 THEN 0 ELSE left) \in 0 .. InitMorale
      BY <2>1, <2>2
    <3>2. morale' \in [Colors -> 0 .. InitMorale]
      BY <2>3, <3>1
    <3> QED BY <1>1, <1>10, <2>3, <3>2 DEF MoraleFalls
  <2>4. CASE HookChangesMax(Top, zone["hand"]) /\ morale' = morale
    <3>1. handMax' \in [Players -> HandMaxes] /\ moves' \in 0 .. MaxMoves
      BY <2>4, HookTypes
    <3> QED BY <1>1, <1>10, <2>4, <3>1 DEF MoraleFalls
  <2> QED BY <1>10, <2>3, <2>4 DEF MoraleFalls
<1> QED BY <1>2, <1>3, <1>4, <1>5, <1>6, <1>7, <1>8, <1>9, <1>10 DEF Handle

\* The zones of a move are zones, and numbers are numbers.
LEMMA TurnTypes ==
  ASSUME Typed, CardsInv, StackFits', TurnMoves \/ (\E ps \in SUBSET Players \ {{}} : ChangedMaxHand(ps))
  PROVE  TypeOK'
<1> USE DEF Typed, TypeOK, Moves
<1>1. stack' # <<>>
  BY DEF StackFits, BottomLast
<1>2. ASSUME NEW p \in Players, NEW n, Harmed(p, n) PROVE TypeOK'
  BY <1>1, <1>2, MovesCounted DEF Harmed
<1>3. ASSUME NEW at, NEW n \in Nat, Drawn(at, n) PROVE TypeOK'
  <2>1. {pile', discard', lost'} \subseteq SUBSET CardIds
    BY <1>3, DrawTypes DEF Drawn
  <2> QED BY <1>1, <1>3, <2>1, MovesCounted DEF Drawn
<1>4. ASSUME NEW p, NEW n, NEW to, NEW g, Asked(p, n, to, g) PROVE TypeOK'
  BY <1>1, <1>4, MovesCounted DEF Asked
<1>5. ASSUME NEW from, NEW to, NEW cs \in SUBSET CardIds, Moved(from, to, cs) PROVE TypeOK'
  <2>1. discard' \subseteq CardIds /\ moves' \in 0 .. MaxMoves
    BY <1>5, MovesCounted, ReceivedTypes DEF Moved
  <2> QED BY <1>1, <1>5, <2>1 DEF Moved
<1>6. ASSUME NEW p \in Players, Unactional(p) PROVE TypeOK'
  <2>1. Hand(p) \in SUBSET CardIds /\ Cardinality(Hand(p)) \in Nat
    BY TypedZones, CardsCounted DEF Hand
  <2>2. {pile', discard', lost'} \subseteq SUBSET CardIds
    <3>1. ASSUME NEW d \in Draws(Cardinality(Hand(p))), pile' = d.pile, lost' = lost,
                 discard' = d.discard \cup Hand(p)
          PROVE  {pile', discard', lost'} \subseteq SUBSET CardIds
      BY <2>1, <3>1, PileAndDiscards, DrawsDo
    <3>2. ASSUME pile' = discard, discard' = {}, lost' = lost \cup pile
          PROVE  {pile', discard', lost'} \subseteq SUBSET CardIds
      BY <3>2
    <3>3. ASSUME UNCHANGED <<pile, discard, lost>>
          PROVE  {pile', discard', lost'} \subseteq SUBSET CardIds
      BY <3>3
    <3> QED BY <1>6, <3>1, <3>2, <3>3 DEF Unactional
  <2>3. morale' \in [Colors -> 0 .. InitMorale]
    <3>1. morale' = morale \/ morale' = [morale EXCEPT ![Color[p]] = 0]
      BY <1>6 DEF Unactional
    <3>2. morale \in [Colors -> 0 .. InitMorale] /\ 0 \in 0 .. InitMorale
      BY NumbersAssumption DEF NumbersAssumption
    <3> HIDE DEF Typed, TypeOK, Moves
    <3>3. [morale EXCEPT ![Color[p]] = 0] \in [Colors -> 0 .. InitMorale]
      BY <3>2
    <3> QED BY <3>1, <3>2, <3>3
  <2>4. moves' \in 0 .. MaxMoves /\ UNCHANGED <<zone, handMax, blown, over>>
    BY <1>6, MovesCounted DEF Unactional
  <2> QED BY <1>1, <2>2, <2>3, <2>4
<1>7. ASSUME NEW p \in Players, CheckBasicEffect(p) PROVE TypeOK'
  <2>1. discard' \subseteq CardIds /\ moves' \in 0 .. MaxMoves
    BY <1>7, TypedZones, MovesCounted DEF CheckBasicEffect
  <2> QED BY <1>1, <1>7, <2>1 DEF CheckBasicEffect
<1>8. ASSUME NEW p, NEW q, NEW c \in CardIds, NEW e \in CardIds, FengZhiJieJing(p, q, c, e)
      PROVE  TypeOK'
  <2>1. discard' \subseteq CardIds /\ moves' \in 0 .. MaxMoves /\ blown' \subseteq CardIds
    BY <1>8, MovesCounted, ReceivedTypes DEF FengZhiJieJing
  <2> QED BY <1>1, <1>8, <2>1 DEF FengZhiJieJing
<1>9. ASSUME NEW ps, ChangedMaxHand(ps) PROVE TypeOK'
  BY <1>1, <1>9, MovesCounted DEF ChangedMaxHand, ChangeMaxHand
<1>10. \A n \in 1 .. MaxDraw : n \in Nat
  OBVIOUS
<1> HIDE DEF Typed, TypeOK, Moves
<1> QED BY <1>2, <1>3, <1>4, <1>5, <1>6, <1>7, <1>8, <1>9, <1>10 DEF TurnMoves

LEMMA TurnMovesKeepCards ==
  ASSUME Typed, CardsInv, TurnMoves PROVE CardsInv' /\ StackFits'
<1> PICK p \in Players :
      \/ \E n \in 1 .. MaxDraw :
           \/ Harmed(p, n)
           \/ \E a \in {"hand", "cover"} : Drawn(Place(a, p), n)
           \/ \E to \in {Discard, Place("cover", p)} \cup {Place("hand", q) : q \in Players \ {p}},
                giveUp \in BOOLEAN : Asked(p, n, to, giveUp)
      \/ \E cs \in SUBSET CardIds :
           \/ \E a \in Areas : Moved(Place(a, p), Discard, cs)
           \/ \E q \in Players : Moved(Place("hand", p), Place("effect", q), cs)
           \/ \E q \in Players \ {p} : Moved(Place("hand", p), Place("hand", q), cs)
           \/ Moved(Place("hand", p), Place("cover", p), cs)
           \/ \E q \in Players : Moved(Place("effect", p), Place("hand", q), cs)
      \/ Unactional(p)
      \/ CheckBasicEffect(p)
      \/ \E q \in Players, c, e \in CardIds : FengZhiJieJing(p, q, c, e)
  BY DEF TurnMoves
<1>1. /\ \A a \in Areas : \A q \in Players : Place(a, q) \in Places /\ Place(a, q).area = a
      /\ {"hand", "effect", "cover"} = Areas /\ Discard.area = "discard"
  BY DEF Place, Places, Areas, Discard
<1>2. CASE \E n \in 1 .. MaxDraw : Harmed(p, n)
  BY <1>2, HarmedKeepsCards
<1>3. CASE \E n \in 1 .. MaxDraw : \E a \in {"hand", "cover"} : Drawn(Place(a, p), n)
  BY <1>3, DrawnKeepsCards
<1>4. CASE \E n \in 1 .. MaxDraw :
             \E to \in {Discard, Place("cover", p)} \cup {Place("hand", q) : q \in Players \ {p}},
                giveUp \in BOOLEAN : Asked(p, n, to, giveUp)
  <2>1. PICK n \in 1 .. MaxDraw,
             to \in {Discard, Place("cover", p)} \cup {Place("hand", q) : q \in Players \ {p}},
             giveUp \in BOOLEAN : Asked(p, n, to, giveUp)
    BY <1>4
  <2>2. to \in {x \in Places : x.area # "effect"} \cup {Discard}
    BY <1>1
  <2> QED BY <2>1, <2>2, AskedKeepsCards
<1>5. ASSUME NEW cs \in SUBSET CardIds, NEW from \in Places, NEW to \in Places \cup {Discard},
             from.area = "effect" => to.area # "effect", Moved(from, to, cs)
      PROVE  CardsInv' /\ StackFits'
  BY <1>5, MovedKeepsCards
<1>6. CASE \E cs \in SUBSET CardIds :
             \/ \E a \in Areas : Moved(Place(a, p), Discard, cs)
             \/ \E q \in Players : Moved(Place("hand", p), Place("effect", q), cs)
             \/ \E q \in Players \ {p} : Moved(Place("hand", p), Place("hand", q), cs)
             \/ Moved(Place("hand", p), Place("cover", p), cs)
             \/ \E q \in Players : Moved(Place("effect", p), Place("hand", q), cs)
  <2> PICK cs \in SUBSET CardIds :
             \/ \E a \in Areas : Moved(Place(a, p), Discard, cs)
             \/ \E q \in Players : Moved(Place("hand", p), Place("effect", q), cs)
             \/ \E q \in Players \ {p} : Moved(Place("hand", p), Place("hand", q), cs)
             \/ Moved(Place("hand", p), Place("cover", p), cs)
             \/ \E q \in Players : Moved(Place("effect", p), Place("hand", q), cs)
    BY <1>6
  <2>1. CASE \E a \in Areas : Moved(Place(a, p), Discard, cs)
    BY <1>1, <1>5, <2>1
  <2>2. CASE \E q \in Players : Moved(Place("hand", p), Place("effect", q), cs)
    BY <1>1, <1>5, <2>2
  <2>3. CASE \E q \in Players \ {p} : Moved(Place("hand", p), Place("hand", q), cs)
    BY <1>1, <1>5, <2>3
  <2>4. CASE Moved(Place("hand", p), Place("cover", p), cs)
    BY <1>1, <1>5, <2>4
  <2>5. CASE \E q \in Players : Moved(Place("effect", p), Place("hand", q), cs)
    BY <1>1, <1>5, <2>5
  <2> QED BY <2>1, <2>2, <2>3, <2>4, <2>5
<1>7. CASE Unactional(p)
  BY <1>7, UnactionalKeepsCards
<1>8. CASE CheckBasicEffect(p)
  BY <1>8, CheckBasicEffectKeepsCards
<1>9. CASE \E q \in Players, c, e \in CardIds : FengZhiJieJing(p, q, c, e)
  BY <1>9, FengZhiJieJingKeepsCards
<1> QED BY <1>2, <1>3, <1>4, <1>6, <1>7, <1>8, <1>9

LEMMA CardsStep ==
  ASSUME Typed, CardsInv, [Next]_vars PROVE Typed' /\ CardsInv'
<1>1. CASE Handle
  <2>1. CardsInv' /\ StackFits'
    BY <1>1, StartDealsKeepsCards, HarmDrawsKeepsCards, WeakenAnsweredKeepsCards,
       HandChangeKeepsCards, BasicEffectChangeKeepsCards, CoverChangeKeepsCards,
       HandRequestedKeepsCards, CoverRequestedKeepsCards, MoraleFallsKeepsCards DEF Handle
  <2> QED BY <1>1, <2>1, HandleTypes DEF Typed, StackFits
<1>2. CASE TurnMoves
  <2>1. CardsInv' /\ StackFits'
    BY <1>2, TurnMovesKeepCards
  <2> QED BY <1>2, <2>1, TurnTypes DEF Typed, StackFits
<1>3. CASE \E ps \in SUBSET Players \ {{}} : ChangedMaxHand(ps)
  <2>1. CardsInv' /\ StackFits'
    BY <1>3, ChangedMaxHandKeepsCards
  <2> QED BY <1>3, <2>1, TurnTypes DEF Typed, StackFits
<1>4. CASE UNCHANGED vars
  <2>1. Typed'
    BY <1>4 DEF vars, Typed, TypeOK, States, Changes, Harms, Weakens, HandRequests,
                CoverRequests, Morales, Starts, GameOvers, Turn, Places, Discard, BottomLast, Bottom
  <2>2. CardsInv'
    BY <1>4 DEF vars, CardsInv, OnePlace, Locations, Places, In, Discard, IsAt, Held, InZone,
                Pend, Unset, TakenIsThere, EffectsOneWay, OneWeaken, WeakenOf, Place,
                Fit, AddOnce, TakeOnce, FromTop
  <2> QED BY <2>1, <2>2
<1> QED BY <1>1, <1>2, <1>3, <1>4 DEF Next

LEMMA CardsStart ==
  ASSUME Init PROVE Typed /\ CardsInv
<1> DEFINE f == Start(Players)
<1>1. f \in States /\ f.kind = "start" /\ stack = <<f>>
  BY StatesMade DEF Init, Start
<1> HIDE DEF f
<1>2. stack \in Seq(States) /\ stack # <<>> /\ DOMAIN stack = {1} /\ Len(stack) = 1 /\ stack[1] = f
  BY <1>1
<1>3. BottomLast(stack)
  BY <1>1, <1>2 DEF BottomLast, Bottom
<1>4. TypeOK
  BY <1>2, NumbersAssumption DEF Init, TypeOK, NumbersAssumption
<1>5. \A d, x, c : ~Pend(stack, d, x, c)
  BY <1>1, <1>2 DEF Pend, Unset
<1>6. \A x \in Places : \A c : ~InZone(x, c)
  BY DEF Init, InZone, Places
<1>7. OnePlace
  <2> SUFFICES ASSUME NEW c \in CardIds PROVE IsAt(c, In("pile"))
    BY DEF OnePlace, Locations
  <2>1. c \in pile /\ c \notin discard /\ c \notin lost /\ c \notin blown
    BY DEF Init
  <2> QED BY <1>5, <1>6, <2>1, Differ DEF IsAt, Held
<1>8. Fit(stack)
  BY <1>1, <1>2 DEF Fit, AddOnce, TakeOnce, FromTop, Unset
<1> QED BY <1>2, <1>3, <1>4, <1>5, <1>6, <1>7, <1>8
      DEF Typed, CardsInv, TakenIsThere, EffectsOneWay, OneWeaken, WeakenOf, Place, Places, Areas
-----------------------------------------------------------------------------
(* Each card is counted once *)

\* The places of the stack where a state waits to put card c down or to take it away
Waiting(dir, c) == {i \in DOMAIN stack : \E x \in Places : Unset(stack[i], dir, x, c)}
Zones(c) == {x \in Areas \X Players : c \in zone[x[1]][x[2]]}
KeptIn(c) == {x \in Areas \X Players : Held(Place(x[1], x[2]), c)}
TakenFrom(c) == {x \in Areas \X Players : Pend(stack, "remove", Place(x[1], x[2]), c)}

LEMMA PlacesAndPairs ==
  /\ \A x \in Areas \X Players : /\ Place(x[1], x[2]) \in Places /\ x = <<x[1], x[2]>>
                                 /\ Place(x[1], x[2]).area = x[1]
                                 /\ Place(x[1], x[2]).player = x[2]
  /\ \A y \in Places : /\ <<y.area, y.player>> \in Areas \X Players
                       /\ Place(y.area, y.player) = y
BY DEF Place, Places

LEMMA PendingCounts ==
  ASSUME Typed, NEW c, NEW dir
  PROVE  Pending(dir, c) = Cardinality(Waiting(dir, c))
<1>1. \A i \in DOMAIN stack : stack[i] \in States
  BY DEF Typed
<1>2. ASSUME NEW i \in DOMAIN stack
      PROVE  (/\ stack[i].kind = "change" /\ stack[i].dir = dir /\ ~stack[i].set
              /\ c \in stack[i].cards)
             <=> \E x \in Places : Unset(stack[i], dir, x, c)
  BY <1>1, StateFields DEF Unset
<1>3. {i \in DOMAIN stack : /\ stack[i].kind = "change"
                            /\ stack[i].dir = dir /\ ~stack[i].set
                            /\ c \in stack[i].cards} = Waiting(dir, c)
  BY <1>2 DEF Waiting
<1> QED BY <1>3 DEF Pending

LEMMA AddedOnce ==
  ASSUME Typed, CardsInv, NEW c \in CardIds
  PROVE  Pending("add", c) = IF \E x \in Places : Pend(stack, "add", x, c) THEN 1 ELSE 0
<1>1. CASE \E x \in Places : Pend(stack, "add", x, c)
  <2>1. PICK i \in DOMAIN stack, x \in Places : Unset(stack[i], "add", x, c)
    BY <1>1 DEF Pend
  <2>2. \A j \in Waiting("add", c) : j = i
    BY <2>1 DEF Waiting, CardsInv, Fit, AddOnce
  <2>3. Waiting("add", c) = {i}
    BY <2>1, <2>2 DEF Waiting
  <2> QED BY <1>1, <2>3, PendingCounts, FS_Singleton
<1>2. CASE ~\E x \in Places : Pend(stack, "add", x, c)
  <2>1. Waiting("add", c) = {}
    BY <1>2 DEF Waiting, Pend
  <2> QED BY <1>2, <2>1, PendingCounts, FS_EmptySet
<1> QED BY <1>1, <1>2

\* As many states take a card away as zones hold it besides the one it stays in.
LEMMA TakenOnce ==
  ASSUME Typed, CardsInv, NEW c \in CardIds
  PROVE  /\ IsFiniteSet(TakenFrom(c)) /\ Pending("remove", c) = Cardinality(TakenFrom(c))
         /\ Pending("remove", c) \in Nat
<1> DEFINE W == Waiting("remove", c)
           g == [i \in W |-> <<stack[i].at.area, stack[i].at.player>>]
<1>1. IsFiniteSet(W)
  <2>1. W \in SUBSET (1 .. Len(stack)) /\ Len(stack) \in Int
    BY DEF Waiting, Typed
  <2>2. IsFiniteSet(1 .. Len(stack))
    BY <2>1, FS_Interval
  <2> QED BY <2>1, <2>2, FS_Subset
<1>2. \A i \in W : /\ i \in DOMAIN stack /\ stack[i].at \in Places
                   /\ Unset(stack[i], "remove", stack[i].at, c)
  BY DEF Waiting, Unset
<1>3. ASSUME NEW i \in W PROVE g[i] \in TakenFrom(c)
  <2>1. g[i] \in Areas \X Players /\ Place(g[i][1], g[i][2]) = stack[i].at
    BY <1>2, PlacesAndPairs
  <2> QED BY <1>2, <2>1 DEF TakenFrom, Pend
<1>4. ASSUME NEW i \in W, NEW j \in W, g[i] = g[j] PROVE i = j
  <2>1. stack[i].at = stack[j].at
    <3>1. /\ stack[i].at = Place(stack[i].at.area, stack[i].at.player)
          /\ stack[j].at = Place(stack[j].at.area, stack[j].at.player)
      BY <1>2, PlacesAndPairs
    <3>2. stack[i].at.area = stack[j].at.area /\ stack[i].at.player = stack[j].at.player
      BY <1>4
    <3> QED BY <3>1, <3>2
  <2> QED BY <1>2, <2>1 DEF CardsInv, Fit, TakeOnce
<1>5. ASSUME NEW x \in TakenFrom(c) PROVE \E i \in W : g[i] = x
  <2>1. x \in Areas \X Players /\ Place(x[1], x[2]) \in Places /\ x = <<x[1], x[2]>>
    BY PlacesAndPairs DEF TakenFrom
  <2>2. PICK i \in DOMAIN stack : Unset(stack[i], "remove", Place(x[1], x[2]), c)
    BY DEF TakenFrom, Pend
  <2>3. i \in W /\ stack[i].at = Place(x[1], x[2])
    BY <2>1, <2>2 DEF Waiting, Unset
  <2> QED BY <2>1, <2>3, PlacesAndPairs
<1>6. g \in [W -> TakenFrom(c)]
  BY <1>3
<1>7. g \in Bijection(W, TakenFrom(c))
  <2> HIDE DEF g, W
  <2>1. g \in Injection(W, TakenFrom(c))
    BY <1>4, <1>6 DEF Injection, IsInjective
  <2>2. g \in Surjection(W, TakenFrom(c))
    BY <1>5, <1>6 DEF Surjection
  <2> QED BY <2>1, <2>2 DEF Bijection
<1>8. IsFiniteSet(TakenFrom(c)) /\ Cardinality(TakenFrom(c)) = Cardinality(W)
  BY <1>1, <1>7, FS_Bijection DEF ExistsBijection
<1> QED BY <1>1, <1>8, PendingCounts, FS_CardinalityType

LEMMA ZonesSplit ==
  ASSUME Typed, CardsInv, NEW c \in CardIds, NEW l \in Locations, IsAt(c, l)
  PROVE  Cardinality(Zones(c)) = (IF l \in Places THEN 1 ELSE 0) + Pending("remove", c)
<1>1. \A x \in Areas \X Players :
        /\ x \in Zones(c) <=> InZone(Place(x[1], x[2]), c)
        /\ Place(x[1], x[2]) \in Places
  BY PlacesAndPairs DEF Zones, InZone
<1>2. Zones(c) = KeptIn(c) \cup TakenFrom(c)
  <2>1. \A x \in Areas \X Players :
          x \in Zones(c) <=> (x \in KeptIn(c) \/ x \in TakenFrom(c))
    BY <1>1 DEF KeptIn, TakenFrom, Held, CardsInv, TakenIsThere
  <2>2. /\ Zones(c) \subseteq Areas \X Players /\ KeptIn(c) \subseteq Areas \X Players
        /\ TakenFrom(c) \subseteq Areas \X Players
    BY DEF Zones, KeptIn, TakenFrom
  <2> QED BY <2>1, <2>2
<1>3. KeptIn(c) \cap TakenFrom(c) = {}
  BY DEF KeptIn, TakenFrom, Held
<1>4. KeptIn(c) = IF l \in Places THEN {<<l.area, l.player>>} ELSE {}
  <2>1. \A x \in Areas \X Players : x \in KeptIn(c) <=> Place(x[1], x[2]) = l
    BY <1>1 DEF KeptIn, IsAt
  <2>2. KeptIn(c) \subseteq Areas \X Players
    BY DEF KeptIn
  <2>3. CASE l \in Places
    <3>1. \A x \in Areas \X Players : Place(x[1], x[2]) = l <=> x = <<l.area, l.player>>
      BY <2>3, PlacesAndPairs
    <3>2. <<l.area, l.player>> \in Areas \X Players
      BY <2>3, PlacesAndPairs
    <3> QED BY <2>1, <2>2, <2>3, <3>1, <3>2
  <2>4. CASE l \notin Places
    BY <1>1, <2>1, <2>2, <2>4
  <2> QED BY <2>3, <2>4
<1>5. IsFiniteSet(KeptIn(c)) /\ Cardinality(KeptIn(c)) = IF l \in Places THEN 1 ELSE 0
  BY <1>4, FS_Singleton, FS_EmptySet
<1>6. /\ IsFiniteSet(TakenFrom(c)) /\ Pending("remove", c) = Cardinality(TakenFrom(c))
      /\ Pending("remove", c) \in Nat
  BY TakenOnce
<1> QED BY <1>2, <1>3, <1>5, <1>6, FS_Union, FS_EmptySet

LEMMA PilesHold ==
  ASSUME NEW c \in CardIds, NEW l \in Locations, IsAt(c, l)
  PROVE  Cardinality({S \in {"pile", "discard", "lost"} :
                        c \in [pile |-> pile, discard |-> discard, lost |-> lost][S]})
           = IF l \in {In("pile"), Discard, In("lost")} THEN 1 ELSE 0
<1> DEFINE P == {S \in {"pile", "discard", "lost"} :
                   c \in [pile |-> pile, discard |-> discard, lost |-> lost][S]}
<1>1. /\ "pile" \in P <=> l = In("pile")
      /\ "discard" \in P <=> l = Discard
      /\ "lost" \in P <=> l = In("lost")
      /\ P \subseteq {"pile", "discard", "lost"}
  BY DEF IsAt
<1> HIDE DEF P
<1>2. CASE l = In("pile")
  <2>1. P = {"pile"}
    BY <1>1, <1>2, Differ
  <2> QED BY <1>2, <2>1, FS_Singleton DEF P
<1>3. CASE l = Discard
  <2>1. P = {"discard"}
    BY <1>1, <1>3, Differ
  <2> QED BY <1>3, <2>1, FS_Singleton DEF P
<1>4. CASE l = In("lost")
  <2>1. P = {"lost"}
    BY <1>1, <1>4, Differ
  <2> QED BY <1>4, <2>1, FS_Singleton DEF P
<1>5. CASE l \notin {In("pile"), Discard, In("lost")}
  <2>1. P = {}
    BY <1>1, <1>5
  <2> QED BY <1>5, <2>1, FS_EmptySet DEF P
<1> QED BY <1>2, <1>3, <1>4, <1>5

LEMMA EachCardOnce ==
  ASSUME Typed, CardsInv PROVE CardsAreConserved
<1> SUFFICES ASSUME NEW c \in CardIds PROVE Lies(c) = IF c \in blown THEN 0 ELSE 1
  BY DEF CardsAreConserved
<1>1. PICK l \in Locations : IsAt(c, l)
  BY DEF CardsInv, OnePlace
<1> DEFINE P == Cardinality({S \in {"pile", "discard", "lost"} :
                               c \in [pile |-> pile, discard |-> discard, lost |-> lost][S]})
<1>2. Lies(c) = P + Cardinality(Zones(c)) + Pending("add", c) - Pending("remove", c)
  BY DEF Lies, Zones
<1>3. P = IF l \in {In("pile"), Discard, In("lost")} THEN 1 ELSE 0
  BY <1>1, PilesHold
<1>4. Cardinality(Zones(c)) = (IF l \in Places THEN 1 ELSE 0) + Pending("remove", c)
  BY <1>1, ZonesSplit
<1>5. Pending("add", c) = IF l = In("moving") THEN 1 ELSE 0
  BY <1>1, AddedOnce DEF IsAt
<1>6. c \in blown <=> l = In("blown")
  BY <1>1 DEF IsAt
<1>7. Pending("remove", c) \in Nat
  BY TakenOnce
<1> HIDE DEF P
<1>8. CASE l \in {In("pile"), Discard, In("lost")}
  BY <1>2, <1>3, <1>4, <1>5, <1>6, <1>7, <1>8, Differ
<1>9. CASE l \in Places
  BY <1>2, <1>3, <1>4, <1>5, <1>6, <1>7, <1>9, Differ
<1>10. CASE l \in {In("moving"), In("blown")}
  BY <1>2, <1>3, <1>4, <1>5, <1>6, <1>7, <1>10, Differ
<1> QED BY <1>8, <1>9, <1>10 DEF Locations
-----------------------------------------------------------------------------
(* Who is asked, and what overload costs *)

\* State f will deal with n cards over the limit of p.
Serves(f, p, n) ==
  \/ f.kind = "change" /\ f.at = Place("hand", p)
  \/ f.kind = "requestHand" /\ f.overLoad /\ f.player = p /\ f.point >= n
Served(s, p, n) == \E i \in DOMAIN s : Serves(s[i], p, n)

LEMMA LimitMeans ==
  /\ HandLimitKept <=> \A p \in Players : Cardinality(zone["hand"][p]) > handMax[p] =>
                         Served(stack, p, Cardinality(zone["hand"][p]) - handMax[p])
  /\ HandLimitKept' <=> \A p \in Players : Cardinality(zone'["hand"][p]) > handMax'[p] =>
                          Served(stack', p, Cardinality(zone'["hand"][p]) - handMax'[p])
BY DEF HandLimitKept, Hand, Served, Serves

\* States that cost no morale and that nobody can refuse for his own overload
Mild(f) == f.kind # "morale" /\ (f.kind = "requestHand" /\ f.overLoad => ~f.giveUp)
AllMild(s) == s \in Seq(States) /\ \A i \in DOMAIN s : Mild(s[i])

LEMMA MildOne ==
  ASSUME NEW f \in States, Mild(f) PROVE AllMild(<<f>>)
<1>1. <<f>> \in Seq(States) /\ DOMAIN <<f>> = {1} /\ <<f>>[1] = f
  OBVIOUS
<1> QED BY <1>1 DEF AllMild

LEMMA MildBoth ==
  ASSUME NEW a, NEW b, AllMild(a), AllMild(b) PROVE AllMild(a \o b)
BY Pushed DEF AllMild

LEMMA MildNothing == AllMild(<<>>)
BY DEF AllMild

LEMMA MildAsking ==
  ASSUME NEW a \in Seq(States), Asking(a) PROVE AllMild(a)
BY DEF Asking, AllMild, Mild

LEMMA MildChange ==
  ASSUME NEW x \in Places, NEW cs \in SUBSET CardIds
  PROVE  AllMild(<<Change(x, "add", cs)>>) /\ AllMild(<<Change(x, "remove", cs)>>)
<1>1. ASSUME NEW f \in States, f.kind = "change" PROVE AllMild(<<f>>)
  BY <1>1, MildOne DEF Mild
<1>2. /\ Change(x, "add", cs) \in States /\ Change(x, "add", cs).kind = "change"
      /\ Change(x, "remove", cs) \in States /\ Change(x, "remove", cs).kind = "change"
  BY StatesMade DEF Change
<1> QED BY <1>1, <1>2

LEMMA MildMoves ==
  ASSUME NEW from \in Places, NEW to \in Places \cup {Discard}, NEW cs \in SUBSET CardIds
  PROVE  AllMild(MoveStates(from, to, cs))
<1> DEFINE r == Change(from, "remove", cs)
           t == Change(to, "add", cs)
<1>1. AllMild(<<r>>)
  BY MildChange
<1>2. to # Discard => AllMild(<<t>>)
  BY MildChange
<1>3. MoveStates(from, to, cs) = IF cs = {} THEN <<>>
                                 ELSE <<r>> \o IF to = Discard THEN <<>> ELSE <<t>>
  BY DEF MoveStates
<1> HIDE DEF r, t
<1> QED BY <1>1, <1>2, <1>3, MildBoth, MildNothing

\* A draw pushes at most the state that puts the cards down.
LEMMA MildDraw ==
  ASSUME Typed, CardsInv, NEW at \in Places, NEW n \in Nat, NEW s \in Seq(States), DrawTo(at, n, s)
  PROVE  \E a : AllMild(a) /\ stack' = a \o s
<1>1. CASE \E d \in Draws(n) : stack' = <<Change(at, "add", d.cards)>> \o s
  BY <1>1, DrawsDo, PileAndDiscards, MildChange
<1>2. CASE stack' = s
  BY <1>2, MildNothing, PushedNothing
<1> QED BY <1>1, <1>2 DEF DrawTo

LEMMA ForcedPushed ==
  ASSUME NEW a, AllMild(a), NEW b \in Seq(States), Forced(b)
  PROVE  Forced(a \o b)
BY Pushed DEF AllMild, Mild, Forced

LEMMA ForcedTail ==
  ASSUME NEW s \in Seq(States), s # <<>>, Forced(s)
  PROVE  /\ Forced(Tail(s))
         /\ Head(s).kind = "requestHand" /\ Head(s).overLoad => ~Head(s).giveUp
<1>1. /\ Tail(s) \in Seq(States) /\ Head(s) = s[1] /\ 1 \in DOMAIN s
      /\ \A i \in DOMAIN Tail(s) : i + 1 \in DOMAIN s /\ Tail(s)[i] = s[i + 1]
  OBVIOUS
<1> QED BY <1>1 DEF Forced

LEMMA ServedPushed ==
  ASSUME NEW a \in Seq(States), NEW b \in Seq(States), NEW p, NEW n
  PROVE  /\ Served(a, p, n) => Served(a \o b, p, n)
         /\ Served(b, p, n) => Served(a \o b, p, n)
BY Pushed DEF Served

LEMMA ServedTop ==
  ASSUME NEW s \in Seq(States), s # <<>>, NEW p, NEW n
  PROVE  Served(s, p, n) => Serves(Head(s), p, n) \/ Served(Tail(s), p, n)
<1> SUFFICES ASSUME NEW i \in DOMAIN s, Serves(s[i], p, n), ~Serves(Head(s), p, n)
             PROVE  Served(Tail(s), p, n)
  BY DEF Served
<1>1. i # 1
  <2>1. Head(s) = s[1]
    OBVIOUS
  <2> QED BY <2>1
<1>2. i - 1 \in DOMAIN Tail(s) /\ Tail(s)[i - 1] = s[i]
  BY <1>1
<1> QED BY <1>2 DEF Served

LEMMA ServedOne ==
  ASSUME NEW f \in States, NEW p, NEW n, Serves(f, p, n)
  PROVE  Served(<<f>>, p, n)
<1>1. DOMAIN <<f>> = {1} /\ <<f>>[1] = f
  OBVIOUS
<1> QED BY <1>1 DEF Served

\* While the turn or the deal is on top, nobody has too many cards.
LEMMA NobodyOver ==
  ASSUME Typed, HandLimitKept, Bottom(Top), NEW p \in Players
  PROVE  ~(Cardinality(zone["hand"][p]) > handMax[p])
<1>1. stack \in Seq(States) /\ stack = <<Top>>
  BY BottomOfTail, TypedZones DEF Typed, Top
<1>2. DOMAIN stack = {1} /\ stack[1] = Top
  BY <1>1
<1>3. \A n : ~Served(stack, p, n)
  BY <1>2 DEF Served, Serves, Bottom
<1> QED BY <1>3, LimitMeans

LEMMA PriceIsNat ==
  ASSUME NEW f \in States, NEW t PROVE Price(f, t) \in Nat
BY StateFields DEF Price

\* What the stack costs: mild states cost nothing, ...
LEMMA OwesPushed ==
  ASSUME NEW a, AllMild(a), NEW b \in Seq(States), NEW t, NEW n \in Nat, Owes(b, t, n)
  PROVE  Owes(a \o b, t, n)
<1>1. PICK f \in [1 .. Len(b) + 1 -> Nat] :
        /\ f[1] = n /\ f[Len(b) + 1] = 0
        /\ \A i \in DOMAIN b : f[i] = f[i + 1] + Price(b[i], t)
  BY DEF Owes
<1>2. a \in Seq(States) /\ \A i \in DOMAIN a : Price(a[i], t) = 0
  BY DEF AllMild, Mild, Price
<1>3. /\ a \o b \in Seq(States) /\ Len(a \o b) = Len(a) + Len(b) /\ Len(a) \in Nat /\ Len(b) \in Nat
      /\ DOMAIN (a \o b) = 1 .. Len(a) + Len(b) /\ DOMAIN b = 1 .. Len(b) /\ DOMAIN a = 1 .. Len(a)
      /\ \A i \in DOMAIN (a \o b) :
           \/ i \in DOMAIN a /\ (a \o b)[i] = a[i]
           \/ i - Len(a) \in DOMAIN b /\ (a \o b)[i] = b[i - Len(a)]
  BY <1>2
<1> DEFINE s == a \o b
           g == [i \in 1 .. Len(s) + 1 |-> IF i =< Len(a) THEN n ELSE f[i - Len(a)]]
<1>4. g \in [1 .. Len(s) + 1 -> Nat]
  BY <1>1, <1>3
<1>5. g[1] = n /\ g[Len(s) + 1] = 0
  BY <1>1, <1>3
<1>6. ASSUME NEW i \in DOMAIN s PROVE g[i] = g[i + 1] + Price(s[i], t)
  <2>1. i \in 1 .. Len(s) /\ i + 1 \in 1 .. Len(s) + 1 /\ i \in 1 .. Len(s) + 1
    BY <1>3
  <2>2. \/ i \in DOMAIN a /\ s[i] = a[i]
        \/ i - Len(a) \in DOMAIN b /\ s[i] = b[i - Len(a)]
    BY <1>3
  <2>3. CASE i \in DOMAIN a /\ s[i] = a[i]
    <3>1. g[i] = n /\ g[i + 1] = n
      BY <1>1, <1>3, <2>1, <2>3
    <3> QED BY <1>2, <2>3, <3>1
  <2>4. CASE i - Len(a) \in DOMAIN b /\ s[i] = b[i - Len(a)]
    <3>1. g[i] = f[i - Len(a)] /\ g[i + 1] = f[i - Len(a) + 1]
      BY <1>3, <2>1, <2>4
    <3> QED BY <1>1, <2>4, <3>1
  <2> HIDE DEF g, s
  <2> QED BY <2>2, <2>3, <2>4
<1> HIDE DEF g, s
<1>7. Owes(s, t, n)
  BY <1>4, <1>5, <1>6 DEF Owes
<1> QED BY <1>7 DEF s

\* ... a state costs its price, ...
LEMMA OwesOne ==
  ASSUME NEW f \in States, NEW b \in Seq(States), NEW t, NEW n \in Nat, Owes(b, t, n)
  PROVE  Owes(<<f>> \o b, t, n + Price(f, t))
<1>1. PICK h \in [1 .. Len(b) + 1 -> Nat] :
        /\ h[1] = n /\ h[Len(b) + 1] = 0
        /\ \A i \in DOMAIN b : h[i] = h[i + 1] + Price(b[i], t)
  BY DEF Owes
<1> DEFINE s == <<f>> \o b
           g == [i \in 1 .. Len(s) + 1 |-> IF i = 1 THEN n + Price(f, t) ELSE h[i - 1]]
<1>2. /\ s \in Seq(States) /\ Len(s) = Len(b) + 1 /\ Len(b) \in Nat /\ s[1] = f
      /\ DOMAIN s = 1 .. Len(b) + 1 /\ DOMAIN b = 1 .. Len(b)
      /\ \A i \in DOMAIN s : i # 1 => i - 1 \in DOMAIN b /\ s[i] = b[i - 1]
  OBVIOUS
<1>3. n + Price(f, t) \in Nat
  BY PriceIsNat
<1> HIDE DEF s
<1>4. g \in [1 .. Len(s) + 1 -> Nat]
  BY <1>1, <1>2, <1>3
<1>5. g[1] = n + Price(f, t) /\ g[Len(s) + 1] = 0
  BY <1>1, <1>2
<1>6. ASSUME NEW i \in DOMAIN s PROVE g[i] = g[i + 1] + Price(s[i], t)
  <2>1. i \in 1 .. Len(s) + 1 /\ i + 1 \in 1 .. Len(s) + 1 /\ g[i + 1] = h[i]
    BY <1>2
  <2>2. CASE i = 1
    BY <1>1, <1>2, <2>1, <2>2
  <2>3. CASE i # 1
    <3>1. i - 1 \in DOMAIN b /\ s[i] = b[i - 1] /\ g[i] = h[i - 1] /\ i - 1 + 1 = i
      BY <1>2, <2>1, <2>3
    <3>2. h[i - 1] = h[i] + Price(b[i - 1], t)
      BY <1>1, <3>1
    <3> QED BY <2>1, <3>1, <3>2
  <2> QED BY <2>2, <2>3
<1> HIDE DEF g
<1>7. Owes(s, t, n + Price(f, t))
  BY <1>4, <1>5, <1>6 DEF Owes
<1> QED BY <1>7 DEF s

\* ... and it is paid once the state is off.
LEMMA OwesTail ==
  ASSUME NEW s \in Seq(States), s # <<>>, NEW t, NEW n \in Nat, Owes(s, t, n)
  PROVE  \E m \in Nat : n = m + Price(Head(s), t) /\ Owes(Tail(s), t, m)
<1>1. PICK f \in [1 .. Len(s) + 1 -> Nat] :
        /\ f[1] = n /\ f[Len(s) + 1] = 0
        /\ \A i \in DOMAIN s : f[i] = f[i + 1] + Price(s[i], t)
  BY DEF Owes
<1> DEFINE r == Tail(s)
           g == [i \in 1 .. Len(r) + 1 |-> f[i + 1]]
<1>2. /\ r \in Seq(States) /\ Len(r) = Len(s) - 1 /\ Len(r) \in Nat /\ Len(s) \in Nat
      /\ Head(s) = s[1] /\ 1 \in DOMAIN s /\ DOMAIN r = 1 .. Len(r) /\ DOMAIN s = 1 .. Len(s)
      /\ \A i \in DOMAIN r : r[i] = s[i + 1]
  OBVIOUS
<1> HIDE DEF r
<1>3. g \in [1 .. Len(r) + 1 -> Nat]
  BY <1>1, <1>2
<1>4. g[1] = f[2] /\ g[Len(r) + 1] = 0 /\ f[2] \in Nat /\ n = f[2] + Price(Head(s), t)
  BY <1>1, <1>2
<1>5. \A i \in DOMAIN r : g[i] = g[i + 1] + Price(r[i], t)
  BY <1>1, <1>2
<1> HIDE DEF g
<1>6. Owes(r, t, f[2])
  BY <1>3, <1>4, <1>5 DEF Owes
<1> QED BY <1>4, <1>6 DEF r

LEMMA OwesNothing ==
  ASSUME NEW t, NEW n \in Nat, NEW f \in States, Price(f, t) = 0
  PROVE  Owes(<<f>>, t, n) <=> n = 0
<1>1. DOMAIN <<f>> = {1} /\ <<f>>[1] = f /\ Len(<<f>>) = 1
  OBVIOUS
<1>2. ASSUME Owes(<<f>>, t, n) PROVE n = 0
  BY <1>1, <1>2 DEF Owes
<1>3. ASSUME n = 0 PROVE Owes(<<f>>, t, n)
  <2>1. [i \in 1 .. 2 |-> 0] \in [1 .. Len(<<f>>) + 1 -> Nat]
    BY <1>1
  <2>2. /\ [i \in 1 .. 2 |-> 0][1] = n /\ [i \in 1 .. 2 |-> 0][Len(<<f>>) + 1] = 0
        /\ \A i \in DOMAIN <<f>> : [j \in 1 .. 2 |-> 0][i] = [j \in 1 .. 2 |-> 0][i + 1] + Price(<<f>>[i], t)
    BY <1>1, <1>3
  <2> QED BY <2>1, <2>2 DEF Owes
<1> QED BY <1>2, <1>3
-----------------------------------------------------------------------------
(* Hands within their limits, and morale for overload: each step *)

LimitsInv == Forced(stack) /\ HandLimitKept /\ MoraleInv

LEMMA CostsStay ==
  ASSUME LimitsInv, Top.kind # "gameover", UNCHANGED <<morale, over>>,
         NEW a, AllMild(a), NEW s \in Seq(States), Forced(s), stack' = a \o s,
         \A t \in Colors : \A n \in Nat : Owes(stack, t, n) => Owes(s, t, n)
  PROVE  Forced(stack)' /\ MoraleInv'
<1>1. Forced(stack')
  BY ForcedPushed
<1>2. ASSUME NEW t \in Colors
      PROVE  /\ morale'[t] > 0
             /\ \E n \in Nat : Owes(stack', t, n) /\ morale'[t] = InitMorale - over'[t] + n
  <2>1. morale[t] > 0
    BY DEF LimitsInv, MoraleInv
  <2>2. PICK n \in Nat : Owes(stack, t, n) /\ morale[t] = InitMorale - over[t] + n
    BY DEF LimitsInv, MoraleInv
  <2>3. Owes(stack', t, n)
    BY <2>2, OwesPushed
  <2> QED BY <2>1, <2>2, <2>3
<1> QED BY <1>1, <1>2 DEF MoraleInv, Owes, Forced

LEMMA LimitStays ==
  ASSUME HandLimitKept, zone'["hand"] = zone["hand"], handMax' = handMax,
         \A p \in Players : \A n : Served(stack, p, n) => Served(stack', p, n)
  PROVE  HandLimitKept'
BY LimitMeans

\* A state runs that is no move of hand cards, no request of them and no loss of morale.
LEMMA PopStep ==
  ASSUME Typed, LimitsInv, NEW a, AllMild(a), stack' = a \o Tail(stack),
         Top.kind \in {"harm", "weaken", "requestCover", "change"},
         Top.kind = "change" => Top.at.area # "hand",
         zone'["hand"] = zone["hand"], UNCHANGED <<handMax, morale, over>>
  PROVE  LimitsInv'
<1>1. /\ stack \in Seq(States) /\ stack # <<>> /\ Tail(stack) \in Seq(States) /\ Top = Head(stack)
      /\ a \in Seq(States)
  BY TypedZones, TopAndTail DEF Top, AllMild
<1>2. ASSUME NEW p \in Players, NEW n, Served(stack, p, n) PROVE Served(stack', p, n)
  <2>1. ~Serves(Top, p, n)
    BY DEF Serves, Place
  <2> QED BY <1>1, <1>2, <2>1, ServedTop, ServedPushed
<1>3. HandLimitKept'
  BY <1>2, LimitStays DEF LimitsInv
<1>4. ASSUME NEW t \in Colors, NEW n \in Nat, Owes(stack, t, n) PROVE Owes(Tail(stack), t, n)
  <2>1. Price(Top, t) = 0
    BY DEF Price
  <2>2. PICK m \in Nat : n = m + Price(Top, t) /\ Owes(Tail(stack), t, m)
    BY <1>1, <1>4, OwesTail
  <2> QED BY <2>1, <2>2
<1>5. Forced(Tail(stack))
  BY <1>1, ForcedTail DEF LimitsInv
<1>6. Forced(stack)' /\ MoraleInv'
  BY <1>1, <1>4, <1>5, CostsStay
<1> QED BY <1>3, <1>6 DEF LimitsInv

\* Mild states are pushed, and no hand or limit changes.
LEMMA PushStep ==
  ASSUME Typed, LimitsInv, NEW a, AllMild(a), stack' = a \o stack, Top.kind # "gameover",
         UNCHANGED <<zone, handMax, morale, over>>
  PROVE  LimitsInv'
<1>1. stack \in Seq(States) /\ a \in Seq(States) /\ Forced(stack)
  BY DEF Typed, AllMild, LimitsInv
<1>2. \A p \in Players : \A n : Served(stack, p, n) => Served(stack', p, n)
  BY <1>1, ServedPushed
<1>3. HandLimitKept'
  BY <1>2, LimitStays DEF LimitsInv
<1>4. Forced(stack)' /\ MoraleInv'
  BY <1>1, CostsStay
<1> QED BY <1>3, <1>4 DEF LimitsInv

LEMMA StartDealsKeepsLimits ==
  ASSUME Typed, CardsInv, LimitsInv, StartDeals PROVE LimitsInv'
<1>1. Bottom(Top) /\ Top.kind = "start" /\ Top.left \in SUBSET Players /\ Top \in States
  BY TypedZones, StateFields DEF StartDeals, Bottom
<1>2. stack = <<Top>>
  BY <1>1, BottomOfTail, TypedZones DEF Typed, Top
<1>3. UNCHANGED <<zone, handMax, morale, over>>
  BY DEF StartDeals
<1>4. HandLimitKept'
  BY <1>1, <1>3, NobodyOver, LimitMeans DEF LimitsInv
<1>5. ASSUME NEW f \in States, f.kind \in {"turn", "start"}, NEW a, AllMild(a), stack' = a \o <<f>>
      PROVE  Forced(stack)' /\ MoraleInv'
  <2>1. <<f>> \in Seq(States) /\ DOMAIN <<f>> = {1} /\ <<f>>[1] = f
    OBVIOUS
  <2>2. Forced(<<f>>)
    BY <1>5, <2>1 DEF Forced
  <2>3. ASSUME NEW t \in Colors, NEW n \in Nat, Owes(stack, t, n) PROVE Owes(<<f>>, t, n)
    <3>1. Price(Top, t) = 0 /\ Price(f, t) = 0
      BY <1>1, <1>5 DEF Price
    <3>2. Owes(<<Top>>, t, n)
      BY <1>2, <2>3
    <3> HIDE DEF Top
    <3> QED BY <1>1, <3>1, <3>2, OwesNothing
  <2> QED BY <1>1, <1>3, <1>5, <2>1, <2>2, <2>3, CostsStay
<1>6. CASE Top.left = {}
  <2>1. stack' = <<Turn>> /\ Turn \in States /\ Turn.kind = "turn"
    BY <1>6, StatesMade DEF StartDeals, Turn
  <2>2. <<Turn>> = <<>> \o <<Turn>>
    BY <2>1, PushedNothing
  <2>3. Forced(stack)' /\ MoraleInv'
    BY <1>5, <2>1, <2>2, MildNothing
  <2> QED BY <1>4, <2>3 DEF LimitsInv
<1>7. CASE Top.left # {}
  <2>1. PICK p \in Top.left : DrawTo(Place("hand", p), Deal, <<Start(Top.left \ {p})>>)
    BY <1>7 DEF StartDeals
  <2> DEFINE f == Start(Top.left \ {p})
  <2>2. f \in States /\ f.kind = "start"
    BY <1>1, StatesMade DEF Start
  <2> HIDE DEF f
  <2>3. Place("hand", p) \in Places /\ Deal \in Nat /\ <<f>> \in Seq(States)
    BY <1>1, <2>2, NumbersAssumption DEF Place, Places, Areas, NumbersAssumption
  <2>4. PICK a : AllMild(a) /\ stack' = a \o <<f>>
    BY <2>1, <2>3, MildDraw DEF f
  <2>5. Forced(stack)' /\ MoraleInv'
    BY <1>5, <2>2, <2>4
  <2> QED BY <1>4, <2>5 DEF LimitsInv
<1> QED BY <1>6, <1>7

LEMMA HarmDrawsKeepsLimits ==
  ASSUME Typed, CardsInv, LimitsInv, HarmDraws PROVE LimitsInv'
<1>1. Place("hand", Top.player) \in Places /\ Top.point \in Nat /\ Tail(stack) \in Seq(States)
  BY TypedZones, StateFields, TopAndTail DEF HarmDraws, Areas
<1>2. \E a : AllMild(a) /\ stack' = a \o Tail(stack)
  BY <1>1, MildDraw DEF HarmDraws
<1> QED BY <1>2, PopStep DEF HarmDraws

LEMMA WeakenAnsweredKeepsLimits ==
  ASSUME Typed, CardsInv, LimitsInv, WeakenAnswered PROVE LimitsInv'
<1>1. /\ Place("hand", Top.player) \in Places /\ Top.point \in Nat /\ Tail(stack) \in Seq(States)
  BY TypedZones, StateFields, TopAndTail DEF WeakenAnswered, Areas
<1>2. \E a : AllMild(a) /\ stack' = a \o Tail(stack)
  <2>1. CASE DrawTo(Place("hand", Top.player), Top.point, Tail(stack))
    BY <1>1, <2>1, MildDraw
  <2>2. CASE stack' = Tail(stack)
    BY <1>1, <2>2, MildNothing, PushedNothing
  <2> QED BY <2>1, <2>2 DEF WeakenAnswered
<1> QED BY <1>2, PopStep DEF WeakenAnswered

\* A state that does not move hand cards leaves the hands alone.
LEMMA OtherHands ==
  ASSUME Typed, Top.kind = "change", zone' = Applied(Top)
  PROVE  /\ Top.at.area # "hand" => zone'["hand"] = zone["hand"]
         /\ \A q \in Players : q # Top.at.player => zone'["hand"][q] = zone["hand"][q]
<1>1. /\ Top.at.area \in Areas /\ Top.at.player \in Players
      /\ zone \in [Areas -> [Players -> SUBSET CardIds]] /\ "hand" \in Areas
  BY TypedZones, StateFields DEF Places, Areas
<1> DEFINE z == zone[Top.at.area][Top.at.player]
           after == IF Top.dir = "add" THEN z \cup Top.cards ELSE z \ Top.cards
<1>2. zone' = IF Top.set THEN zone ELSE [zone EXCEPT ![Top.at.area][Top.at.player] = after]
  BY DEF Applied
<1> HIDE DEF after
<1>3. CASE zone' = zone
  BY <1>3
<1>4. CASE zone' = [zone EXCEPT ![Top.at.area][Top.at.player] = after]
  BY <1>1, <1>4
<1> QED BY <1>2, <1>3, <1>4

LEMMA BasicEffectChangeKeepsLimits ==
  ASSUME Typed, CardsInv, LimitsInv, BasicEffectChange PROVE LimitsInv'
<1>1. Tail(stack) \in Seq(States)
  BY TypedZones, TopAndTail
<1>2. stack' = <<>> \o Tail(stack)
  BY <1>1, PushedNothing DEF BasicEffectChange
<1>3. zone'["hand"] = zone["hand"]
  BY OtherHands DEF BasicEffectChange
<1> QED BY <1>2, <1>3, PopStep, MildNothing DEF BasicEffectChange

LEMMA CoverChangeKeepsLimits ==
  ASSUME Typed, CardsInv, LimitsInv, CoverChange PROVE LimitsInv'
<1>1. Top.at.player \in Players /\ zone' \in [Areas -> [Players -> SUBSET CardIds]]
  BY TypedZones, StateFields, AppliedZones DEF CoverChange, Places
<1>2. zone'["cover"][Top.at.player] \in SUBSET CardIds
  BY <1>1 DEF Areas
<1>3. AllMild(CoverOverLoad(Top.at.player, zone'["cover"][Top.at.player]))
  BY <1>1, <1>2, CoverOverLoadDoes, MildAsking
<1>4. zone'["hand"] = zone["hand"]
  BY OtherHands DEF CoverChange
<1> QED BY <1>3, <1>4, PopStep DEF CoverChange

LEMMA CoverRequestedKeepsLimits ==
  ASSUME Typed, CardsInv, LimitsInv, CoverRequested PROVE LimitsInv'
<1>1. Top.player \in Players /\ zone["cover"][Top.player] \in SUBSET CardIds
  BY TypedZones, StateFields DEF CoverRequested
<1>2. PICK cs \in SUBSET zone["cover"][Top.player] :
        stack' = MoveStates(Place("cover", Top.player), Discard, cs) \o Tail(stack)
  BY DEF CoverRequested, kSubset
<1>3. AllMild(MoveStates(Place("cover", Top.player), Discard, cs))
  BY <1>1, MildMoves DEF Place, Places, Areas
<1> QED BY <1>2, <1>3, PopStep DEF CoverRequested

\* A role that changes limits asks the players it changes them of for what is over.
LEMMA LimitsChange ==
  ASSUME Typed, NEW ps \in SUBSET Players, NEW hands \in [Players -> SUBSET CardIds],
         NEW below \in Seq(States), ChangeMaxHand(ps, hands, below),
         \A p \in Players : Cardinality(hands[p]) > handMax[p] =>
           Served(below, p, Cardinality(hands[p]) - handMax[p])
  PROVE  \E a : /\ AllMild(a) /\ stack' = a \o below
                /\ \A p \in Players : Cardinality(hands[p]) > handMax'[p] =>
                     Served(stack', p, Cardinality(hands[p]) - handMax'[p])
<1>1. PICK max \in [Players -> HandMaxes] :
        /\ \A p \in Players : p \in ps <=> max[p] # handMax[p]
        /\ handMax' = max
        /\ \E fs \in OverLoads(ps, hands, max) : stack' = fs \o below
  BY DEF ChangeMaxHand
<1>2. PICK a \in OverLoads(ps, hands, max) : stack' = a \o below
  BY <1>1
<1>3. a \in Seq(States) /\ AllMild(a)
  BY OverLoadsDo, MildAsking
<1>4. ASSUME NEW p \in Players, Cardinality(hands[p]) > max[p]
      PROVE  Served(stack', p, Cardinality(hands[p]) - max[p])
  <2>1. CASE p \in ps
    <3>1. PICK i \in DOMAIN a : a[i] = OverLoad(p, hands[p], max[p])
      BY <1>4, <2>1, OverLoadsDo
    <3>2. hands[p] \in SUBSET CardIds /\ max[p] \in Nat /\ Cardinality(hands[p]) - max[p] \in Nat
      BY <1>4, CardsCounted, LimitsAreNumbers
    <3>3. Serves(a[i], p, Cardinality(hands[p]) - max[p])
      BY <1>4, <3>1, <3>2, OverLoadAsks DEF Serves
    <3>4. Served(a, p, Cardinality(hands[p]) - max[p])
      BY <3>3 DEF Served
    <3> QED BY <1>2, <1>3, <3>4, ServedPushed
  <2>2. CASE p \notin ps
    <3>1. max[p] = handMax[p]
      BY <1>1, <2>2
    <3>2. Served(below, p, Cardinality(hands[p]) - max[p])
      BY <1>4, <3>1
    <3> QED BY <1>2, <1>3, <3>2, ServedPushed
  <2> QED BY <2>1, <2>2
<1> QED BY <1>1, <1>2, <1>3, <1>4

LEMMA ChangedMaxHandKeepsLimits ==
  ASSUME Typed, CardsInv, LimitsInv, NEW ps \in SUBSET Players, ChangedMaxHand(ps)
  PROVE  LimitsInv'
<1>1. /\ zone["hand"] \in [Players -> SUBSET CardIds] /\ stack \in Seq(States) /\ Forced(stack)
      /\ UNCHANGED <<zone, morale, over>> /\ Top.kind = "turn"
  BY TypedZones DEF Areas, LimitsInv, ChangedMaxHand, Moves, Turn
<1>2. \A p \in Players : Cardinality(zone["hand"][p]) > handMax[p] =>
        Served(stack, p, Cardinality(zone["hand"][p]) - handMax[p])
  BY LimitMeans DEF LimitsInv
<1>3. PICK a : /\ AllMild(a) /\ stack' = a \o stack
               /\ \A p \in Players : Cardinality(zone["hand"][p]) > handMax'[p] =>
                    Served(stack', p, Cardinality(zone["hand"][p]) - handMax'[p])
  BY <1>1, <1>2, LimitsChange DEF ChangedMaxHand
<1>4. HandLimitKept'
  BY <1>1, <1>3, LimitMeans
<1>5. Forced(stack)' /\ MoraleInv'
  BY <1>1, <1>3, CostsStay
<1> QED BY <1>4, <1>5 DEF LimitsInv

LEMMA HandChangeKeepsLimits ==
  ASSUME Typed, CardsInv, LimitsInv, HandChange PROVE LimitsInv'
<1> DEFINE q == Top.at.player
           s == Tail(stack)
           hands == zone'["hand"]
<1>1. /\ Top.kind = "change" /\ zone' = Applied(Top) /\ q \in Players /\ Top \in States
      /\ Top.at = Place("hand", q) /\ UNCHANGED <<morale, over>>
  BY TypedZones, StateFields DEF HandChange, Places, Place
<1>2. /\ stack \in Seq(States) /\ stack # <<>> /\ s \in Seq(States) /\ Top = Head(stack)
      /\ Forced(s)
  BY TypedZones, TopAndTail, ForcedTail DEF Top, LimitsInv
<1>3. hands \in [Players -> SUBSET CardIds]
  BY <1>1, AppliedZones DEF Areas
<1>4. ASSUME NEW t \in Colors, NEW n \in Nat, Owes(stack, t, n) PROVE Owes(s, t, n)
  <2>1. Price(Top, t) = 0
    BY <1>1 DEF Price
  <2>2. PICK m \in Nat : n = m + Price(Top, t) /\ Owes(s, t, m)
    BY <1>2, <1>4, OwesTail
  <2> QED BY <2>1, <2>2
<1>5. ASSUME NEW p \in Players, p # q, Cardinality(hands[p]) > handMax[p]
      PROVE  Served(s, p, Cardinality(hands[p]) - handMax[p])
  <2>1. hands[p] = zone["hand"][p]
    BY <1>1, <1>5, OtherHands
  <2>2. Served(stack, p, Cardinality(hands[p]) - handMax[p])
    BY <1>5, <2>1, LimitMeans DEF LimitsInv
  <2>3. ~Serves(Top, p, Cardinality(hands[p]) - handMax[p])
    BY <1>1, <1>5 DEF Serves, Place
  <2> QED BY <1>2, <2>2, <2>3, ServedTop
<1>6. CASE /\ stack' = HandOverLoad(q, hands[q], handMax[q]) \o s
           /\ handMax' = handMax
  <2> DEFINE a == HandOverLoad(q, hands[q], handMax[q])
  <2>1. hands[q] \in SUBSET CardIds /\ handMax[q] \in Nat
    BY <1>1, <1>3, TypedZones
  <2>2. a \in Seq(States) /\ AllMild(a)
    BY <1>1, <2>1, HandOverLoadDoes, MildAsking
  <2>3. ASSUME NEW p \in Players, Cardinality(hands[p]) > handMax'[p]
        PROVE  Served(stack', p, Cardinality(hands[p]) - handMax'[p])
    <3>1. CASE p = q
      <4>1. PICK i \in DOMAIN a : a[i] = OverLoad(q, hands[q], handMax[q])
        BY <1>1, <1>6, <2>1, <2>3, <3>1, HandOverLoadDoes
      <4>2. Cardinality(hands[q]) - handMax[q] \in Nat
        BY <1>6, <2>1, <2>3, <3>1, CardsCounted
      <4>3. Serves(a[i], q, Cardinality(hands[q]) - handMax[q])
        BY <1>1, <1>6, <2>1, <2>3, <3>1, <4>1, <4>2, OverLoadAsks DEF Serves
      <4>4. Served(a, q, Cardinality(hands[q]) - handMax[q])
        BY <4>3 DEF Served
      <4> HIDE DEF a, hands
      <4> QED BY <1>2, <1>6, <2>2, <3>1, <4>4, ServedPushed DEF a
    <3>2. CASE p # q
      <4>1. Served(s, p, Cardinality(hands[p]) - handMax[p])
        BY <1>5, <1>6, <2>3, <3>2
      <4> HIDE DEF a, hands, s
      <4> QED BY <1>2, <1>6, <2>2, <4>1, ServedPushed DEF a
    <3> QED BY <3>1, <3>2
  <2>4. HandLimitKept'
    BY <2>3, LimitMeans
  <2>5. Forced(stack)' /\ MoraleInv'
    <3>1. stack' = a \o s
      BY <1>6
    <3> HIDE DEF a, s
    <3> QED BY <1>1, <1>2, <1>4, <2>2, <3>1, CostsStay
  <2> QED BY <2>4, <2>5 DEF LimitsInv
<1>7. CASE HookChangesMax([Top EXCEPT !.set = TRUE], hands)
  <2> DEFINE g == [Top EXCEPT !.set = TRUE]
             below == <<g>> \o s
  <2>1. g \in States /\ g.kind = "change" /\ g.at = Place("hand", q)
    BY <1>1, DoneState
  <2> HIDE DEF g, q, s
  <2>2. <<g>> \in Seq(States) /\ AllMild(<<g>>) /\ below \in Seq(States)
    BY <1>2, <2>1, MildOne DEF Mild
  <2>3. ASSUME NEW p \in Players, Cardinality(hands[p]) > handMax[p]
        PROVE  Served(below, p, Cardinality(hands[p]) - handMax[p])
    <3>1. CASE p = q
      <4>1. Serves(g, p, Cardinality(hands[p]) - handMax[p])
        BY <2>1, <3>1 DEF Serves
      <4>2. Served(<<g>>, p, Cardinality(hands[p]) - handMax[p])
        BY <2>1, <4>1, ServedOne
      <4> QED BY <1>2, <2>2, <4>2, ServedPushed
    <3>2. CASE p # q
      <4>1. Served(s, p, Cardinality(hands[p]) - handMax[p])
        BY <1>5, <2>3, <3>2
      <4> QED BY <1>2, <2>2, <4>1, ServedPushed
    <3> QED BY <3>1, <3>2
  <2>4. PICK ps \in SUBSET Players : ChangeMaxHand(ps, hands, below)
    BY <1>7 DEF HookChangesMax, g, s
  <2> HIDE DEF below
  <2>5. PICK a : /\ AllMild(a) /\ stack' = a \o below
                 /\ \A p \in Players : Cardinality(hands[p]) > handMax'[p] =>
                      Served(stack', p, Cardinality(hands[p]) - handMax'[p])
    BY <1>3, <2>2, <2>3, <2>4, LimitsChange
  <2>6. HandLimitKept'
    BY <2>5, LimitMeans
  <2>7. Forced(below)
    BY <1>2, <2>2, ForcedPushed DEF below
  <2>8. \A t \in Colors : \A n \in Nat : Owes(stack, t, n) => Owes(below, t, n)
    BY <1>2, <1>4, <2>2, OwesPushed DEF below
  <2>9. Forced(stack)' /\ MoraleInv'
    BY <1>1, <2>2, <2>5, <2>7, <2>8, CostsStay
  <2> QED BY <2>6, <2>9 DEF LimitsInv
<1> QED BY <1>6, <1>7 DEF HandChange

LEMMA MoraleFallsKeepsLimits ==
  ASSUME Typed, CardsInv, LimitsInv, MoraleFalls PROVE LimitsInv'
<1> DEFINE c == Color[Top.player]
           left == morale[c] - Top.point
           s == Tail(stack)
<1>1. /\ Top.kind = "morale" /\ Top.point \in Nat /\ Top \in States
      /\ c \in Colors /\ UNCHANGED <<zone, over>>
  BY TypedZones, StateFields, CardsAssumption DEF MoraleFalls, CardsAssumption
<1>2. /\ stack \in Seq(States) /\ stack # <<>> /\ s \in Seq(States) /\ Top = Head(stack)
      /\ Forced(s) /\ Forced(stack) /\ stack = <<Top>> \o s
  BY TypedZones, TopAndTail, ForcedTail DEF Top, LimitsInv
<1>3. ASSUME NEW p \in Players, NEW n, Served(stack, p, n) PROVE Served(s, p, n)
  <2>1. ~Serves(Top, p, n)
    BY <1>1 DEF Serves
  <2> QED BY <1>2, <1>3, <2>1, ServedTop
<1>4. CASE /\ morale' = [morale EXCEPT ![c] = IF left < 0 THEN 0 ELSE left]
           /\ stack' = (IF left =< 0 THEN <<GameOver(c)>> ELSE <<>>) \o s
           /\ handMax' = handMax
  <2>1. CASE left =< 0
    <3> DEFINE f == GameOver(c)
    <3>1. f \in States /\ f.kind = "gameover"
      BY <1>1, StatesMade DEF GameOver
    <3>2. stack' = <<f>> \o s
      BY <1>4, <2>1
    <3> HIDE DEF f, s, c, left
    <3>3. <<f>> \in Seq(States) /\ AllMild(<<f>>) /\ Head(stack') = f
      BY <1>2, <3>1, <3>2, MildOne DEF Mild
    <3>4. HandLimitKept'
      BY <1>1, <1>2, <1>3, <1>4, <3>2, <3>3, ServedPushed, LimitStays DEF LimitsInv
    <3>5. Forced(stack')
      BY <1>2, <3>2, <3>3, ForcedPushed
    <3>6. MoraleInv'
      BY <3>1, <3>3 DEF MoraleInv, Top
    <3> QED BY <3>4, <3>5, <3>6 DEF LimitsInv, Forced
  <2>2. CASE left > 0
    <3>1. stack' = s /\ morale' = [morale EXCEPT ![c] = left]
      <4>1. <<>> \o s = s
        BY <1>2, PushedNothing
      <4>2. left \in Int
        BY <1>1 DEF Typed, TypeOK
      <4> HIDE DEF left, s, c
      <4>3. ~(left =< 0) /\ ~(left < 0)
        BY <2>2, <4>2
      <4> QED BY <1>4, <4>1, <4>3
    <3>2. HandLimitKept'
      BY <1>1, <1>3, <1>4, <3>1, LimitStays DEF LimitsInv
    <3>3. ASSUME NEW t \in Colors
          PROVE  /\ morale'[t] > 0
                 /\ \E n \in Nat : Owes(stack', t, n) /\ morale'[t] = InitMorale - over'[t] + n
      <4>1. morale[t] > 0 /\ morale \in [Colors -> 0 .. InitMorale] /\ over[t] \in Nat
        BY <1>1 DEF LimitsInv, MoraleInv, Typed, TypeOK
      <4>2. PICK n \in Nat : Owes(stack, t, n) /\ morale[t] = InitMorale - over[t] + n
        BY <1>1 DEF LimitsInv, MoraleInv
      <4>3. PICK m \in Nat : n = m + Price(Top, t) /\ Owes(s, t, m)
        BY <1>2, <4>2, OwesTail
      <4>4. Price(Top, t) = IF t = c THEN Top.point ELSE 0
        BY <1>1 DEF Price
      <4>5. CASE t = c
        <5>1. morale'[t] = left
          BY <3>1, <4>1, <4>5
        <5>2. left = InitMorale - over[t] + m
          BY <1>1, <4>1, <4>2, <4>3, <4>4, <4>5, NumbersAssumption DEF NumbersAssumption
        <5>3. over'[t] = over[t]
          BY <1>1
        <5> HIDE DEF left, s
        <5> QED BY <2>2, <3>1, <4>3, <5>1, <5>2, <5>3
      <4>6. CASE t # c
        <5>1. morale'[t] = morale[t] /\ n = m
          BY <3>1, <4>1, <4>3, <4>4, <4>6
        <5> HIDE DEF left, s
        <5> QED BY <1>1, <3>1, <4>1, <4>2, <4>3, <5>1
      <4> QED BY <4>5, <4>6
    <3>4. MoraleInv'
      BY <3>3 DEF MoraleInv, Owes
    <3> QED BY <1>2, <3>1, <3>2, <3>4 DEF LimitsInv, Forced
  <2>3. left \in Int
    BY <1>1 DEF Typed, TypeOK
  <2> HIDE DEF left
  <2> QED BY <2>1, <2>2, <2>3
<1>5. CASE HookChangesMax(Top, zone["hand"]) /\ morale' = morale
  <2>1. PICK ps \in SUBSET Players : ChangeMaxHand(ps, zone["hand"], stack)
    BY <1>2, <1>5 DEF HookChangesMax
  <2>2. zone["hand"] \in [Players -> SUBSET CardIds]
    BY TypedZones DEF Areas
  <2>3. \A p \in Players : Cardinality(zone["hand"][p]) > handMax[p] =>
          Served(stack, p, Cardinality(zone["hand"][p]) - handMax[p])
    BY LimitMeans DEF LimitsInv
  <2>4. PICK a : /\ AllMild(a) /\ stack' = a \o stack
                 /\ \A p \in Players : Cardinality(zone["hand"][p]) > handMax'[p] =>
                      Served(stack', p, Cardinality(zone["hand"][p]) - handMax'[p])
    BY <1>2, <2>1, <2>2, <2>3, LimitsChange
  <2>5. HandLimitKept'
    BY <1>1, <2>4, LimitMeans
  <2>6. Forced(stack)' /\ MoraleInv'
    BY <1>1, <1>2, <1>5, <2>4, CostsStay
  <2> QED BY <2>5, <2>6 DEF LimitsInv
<1> QED BY <1>4, <1>5 DEF MoraleFalls

LEMMA HandRequestedKeepsLimits ==
  ASSUME Typed, CardsInv, LimitsInv, HandRequested PROVE LimitsInv'
<1> DEFINE q == Top.player
           n == AtMost(Top.point, Hand(q))
           s == Tail(stack)
           price == IF Top.overLoad THEN <<LoseMorale(q, n)>> ELSE <<>>
<1>1. /\ Top.kind = "requestHand" /\ Top.point \in Nat /\ Top \in States /\ q \in Players
      /\ Top.to \in Places \cup {Discard} /\ Hand(q) = zone["hand"][q]
      /\ Hand(q) \in SUBSET CardIds /\ UNCHANGED <<zone, handMax, morale>>
  BY TypedZones, StateFields DEF HandRequested, Hand
<1>2. /\ stack \in Seq(States) /\ stack # <<>> /\ s \in Seq(States) /\ Top = Head(stack)
      /\ Forced(s) /\ (Top.overLoad => ~Top.giveUp)
  BY <1>1, TypedZones, TopAndTail, ForcedTail DEF Top, LimitsInv
<1>3. n \in Nat /\ Cardinality(Hand(q)) \in Nat
  BY <1>1, CardsCounted DEF AtMost
<1>4. ASSUME NEW t \in Colors, NEW m \in Nat, Owes(stack, t, m) PROVE Owes(s, t, m)
  <2>1. Price(Top, t) = 0
    BY <1>1 DEF Price
  <2>2. PICK k \in Nat : m = k + Price(Top, t) /\ Owes(s, t, k)
    BY <1>2, <1>4, OwesTail
  <2> QED BY <2>1, <2>2
<1>5. ASSUME NEW p \in Players, Cardinality(zone["hand"][p]) > handMax[p]
      PROVE  \/ Served(s, p, Cardinality(zone["hand"][p]) - handMax[p])
             \/ p = q /\ Top.overLoad /\ n >= 1
  <2>1. Served(stack, p, Cardinality(zone["hand"][p]) - handMax[p])
    BY <1>5, LimitMeans DEF LimitsInv
  <2>2. ASSUME Serves(Top, p, Cardinality(zone["hand"][p]) - handMax[p])
        PROVE  p = q /\ Top.overLoad /\ n >= 1
    <3>1. p = q /\ Top.overLoad /\ Top.point >= Cardinality(zone["hand"][p]) - handMax[p]
      BY <1>1, <2>2 DEF Serves
    <3>2. handMax[q] \in Nat
      BY <1>1, TypedZones
    <3> QED BY <1>1, <1>3, <1>5, <3>1, <3>2 DEF AtMost
  <2> QED BY <1>2, <2>1, <2>2, ServedTop
<1>6. ASSUME n >= 1, NEW cs \in kSubset(n, Hand(q)),
             stack' = MoveStates(Place("hand", q), Top.to, cs) \o price \o s,
             over' = IF Top.overLoad THEN [over EXCEPT ![Color[q]] = @ + n] ELSE over
      PROVE  LimitsInv'
  <2> DEFINE m == MoveStates(Place("hand", q), Top.to, cs)
             r == Change(Place("hand", q), "remove", cs)
             below == price \o s
  <2>1. /\ cs \in SUBSET CardIds /\ Cardinality(cs) = n /\ cs # {}
        /\ Place("hand", q) \in Places
    <3>1. cs \in SUBSET CardIds /\ Cardinality(cs) = n
      BY <1>1 DEF kSubset
    <3>2. cs # {}
      <4>1. Cardinality({}) = 0
        BY FS_EmptySet
      <4> HIDE DEF n
      <4>2. n # 0
        BY <1>3, <1>6
      <4> QED BY <3>1, <4>1, <4>2
    <3> QED BY <1>1, <3>1, <3>2, TypedZones DEF Areas
  <2>2. AllMild(m) /\ m \in Seq(States)
    BY <1>1, <2>1, MildMoves DEF AllMild
  <2>3. LoseMorale(q, n) \in States /\ LoseMorale(q, n).kind = "morale"
    BY <1>1, <1>3, StatesMade DEF LoseMorale
  <2>4. price \in Seq(States) /\ below \in Seq(States)
    <3> DEFINE f == LoseMorale(q, n)
    <3>1. f \in States
      BY <2>3
    <3> HIDE DEF f, s
    <3>2. <<f>> \in Seq(States)
      BY <3>1
    <3>3. price \in Seq(States)
      BY <3>2 DEF f
    <3> QED BY <1>2, <3>3
  <2>5. Forced(below)
    <3>1. ASSUME NEW f \in States, f.kind = "morale" PROVE Forced(<<f>> \o s)
      <4>1. /\ <<f>> \in Seq(States) /\ DOMAIN <<f>> = {1} /\ <<f>>[1] = f
        OBVIOUS
      <4> HIDE DEF s
      <4> QED BY <1>2, <3>1, <4>1, Pushed DEF Forced
    <3>2. <<>> \o s = s
      BY <1>2, PushedNothing
    <3> QED BY <1>2, <2>3, <3>1, <3>2
  <2>6. stack' = m \o below
    <3>1. stack' = m \o price \o s
      BY <1>6
    <3> HIDE DEF m, price, s
    <3>2. (m \o price) \o s = m \o (price \o s)
      BY <1>2, <2>2, <2>4, PushedAgain
    <3> QED BY <3>1, <3>2
  <2>7. Forced(stack')
    BY <2>2, <2>4, <2>5, <2>6, ForcedPushed
  <2>8. \A k : Served(m, q, k)
    <3>1. r \in States /\ \A k : Serves(r, q, k)
      BY <2>1, StatesMade DEF Serves, Change
    <3>2. \E a \in Seq(States) : m = <<r>> \o a
      <4>1. m = <<r>> \o IF Top.to = Discard THEN <<>> ELSE <<Change(Top.to, "add", cs)>>
        BY <2>1 DEF MoveStates
      <4>2. Top.to # Discard => <<Change(Top.to, "add", cs)>> \in Seq(States)
        <5>1. Top.to # Discard => Change(Top.to, "add", cs) \in States
          BY <1>1, <2>1, StatesMade
        <5> QED BY <5>1
      <4> HIDE DEF m, r
      <4>3. CASE Top.to = Discard
        <5>1. <<>> \in Seq(States)
          OBVIOUS
        <5> QED BY <4>1, <4>3, <5>1
      <4>4. CASE Top.to # Discard
        BY <4>1, <4>2, <4>4
      <4> QED BY <4>3, <4>4
    <3> HIDE DEF m, r, q
    <3>3. <<r>> \in Seq(States) /\ \A k : Served(<<r>>, q, k)
      BY <3>1, ServedOne
    <3> QED BY <3>2, <3>3, ServedPushed
  <2>9. HandLimitKept'
    <3>1. ASSUME NEW p \in Players, Cardinality(zone["hand"][p]) > handMax[p]
          PROVE  Served(stack', p, Cardinality(zone["hand"][p]) - handMax[p])
      <4>1. CASE Served(s, p, Cardinality(zone["hand"][p]) - handMax[p])
        <5> HIDE DEF s, price, m
        <5>1. Served(below, p, Cardinality(zone["hand"][p]) - handMax[p])
          BY <1>2, <2>4, <4>1, ServedPushed
        <5> HIDE DEF below
        <5> QED BY <2>2, <2>4, <2>6, <5>1, ServedPushed
      <4>2. CASE p = q
        <5> HIDE DEF s, price, m, below
        <5> QED BY <2>2, <2>4, <2>6, <2>8, <4>2, ServedPushed
      <4> QED BY <1>5, <3>1, <4>1, <4>2
    <3> QED BY <1>1, <3>1, LimitMeans
  <2>10. ASSUME NEW t \in Colors
         PROVE  /\ morale'[t] > 0
                /\ \E k \in Nat : Owes(stack', t, k) /\ morale'[t] = InitMorale - over'[t] + k
    <3>1. morale[t] > 0 /\ morale[t] \in Nat /\ InitMorale \in Nat /\ over \in [Colors -> Nat]
      BY <1>1, NumbersAssumption DEF LimitsInv, MoraleInv, Typed, TypeOK, NumbersAssumption
    <3>2. PICK k \in Nat : Owes(stack, t, k) /\ morale[t] = InitMorale - over[t] + k
      BY <1>1 DEF LimitsInv, MoraleInv
    <3>3. Owes(s, t, k)
      BY <1>4, <3>2
    <3>4. CASE Top.overLoad
      <4> DEFINE f == LoseMorale(q, n)
      <4>1. f \in States /\ Price(f, t) = IF Color[q] = t THEN n ELSE 0
        BY <2>3 DEF Price, LoseMorale
      <4>2. below = <<f>> \o s
        BY <3>4
      <4>3. over'[t] = over[t] + Price(f, t)
        BY <1>3, <1>6, <3>1, <3>4, <4>1
      <4> HIDE DEF f, s, below, m, n, q
      <4>4. k + Price(f, t) \in Nat /\ Owes(below, t, k + Price(f, t))
        BY <1>2, <3>2, <3>3, <4>1, <4>2, OwesOne, PriceIsNat
      <4>5. Owes(stack', t, k + Price(f, t))
        BY <2>2, <2>4, <2>6, <4>4, OwesPushed
      <4>6. morale[t] = InitMorale - over'[t] + (k + Price(f, t))
        BY <3>1, <3>2, <4>1, <4>3, PriceIsNat
      <4>7. morale' = morale
        BY <1>1
      <4> QED BY <3>1, <4>4, <4>5, <4>6, <4>7
    <3>5. CASE ~Top.overLoad
      <4>1. below = s
        BY <1>2, <3>5, PushedNothing
      <4> HIDE DEF below, m, n, q, s
      <4>2. Owes(stack', t, k)
        BY <2>2, <2>4, <2>6, <3>2, <3>3, <4>1, OwesPushed
      <4>3. over' = over /\ morale' = morale
        BY <1>1, <1>6, <3>5
      <4> QED BY <3>1, <3>2, <4>2, <4>3
    <3> QED BY <3>4, <3>5
  <2>11. MoraleInv'
    BY <2>10 DEF MoraleInv, Owes
  <2> QED BY <2>7, <2>9, <2>11 DEF LimitsInv, Forced
<1>7. ASSUME n < 1 \/ Top.giveUp, stack' = s, over' = over
      PROVE  LimitsInv'
  <2>1. ~(Top.overLoad /\ n >= 1)
    BY <1>2, <1>3, <1>7
  <2>2. HandLimitKept'
    BY <1>1, <1>5, <1>7, <2>1, LimitMeans
  <2>3. Forced(stack)' /\ MoraleInv'
    <3>1. stack' = <<>> \o s
      BY <1>2, <1>7, PushedNothing
    <3> HIDE DEF s
    <3> QED BY <1>1, <1>2, <1>4, <1>7, <3>1, MildNothing, CostsStay
  <2> QED BY <2>2, <2>3 DEF LimitsInv
<1> QED BY <1>6, <1>7 DEF HandRequested

\* What a turn asks for costs no morale by itself, but for a player who cannot act at all.
LEMMA TurnPushes ==
  ASSUME Typed, CardsInv, TurnMoves
  PROVE  /\ \E a : AllMild(a) /\ stack' = a \o stack
         /\ UNCHANGED <<zone, handMax, over>>
         /\ morale' = morale \/ Head(stack').kind = "gameover"
         /\ Top = Turn
<1> DEFINE Goal ==
      /\ \E a : AllMild(a) /\ stack' = a \o stack
      /\ UNCHANGED <<zone, handMax, over>>
      /\ morale' = morale \/ Head(stack').kind = "gameover"
      /\ Top = Turn
<1>1. /\ stack \in Seq(States)
      /\ \A a \in Areas : \A p \in Players : Place(a, p) \in Places
      /\ {"hand", "effect", "cover"} = Areas
  BY TypedZones DEF Areas
<1>2. ASSUME NEW p \in Players, NEW n \in 1 .. MaxDraw, Harmed(p, n) PROVE Goal
  <2>1. AllMild(<<Harm(p, n)>>)
    BY StatesMade, MildOne DEF Mild, Harm
  <2> QED BY <1>2, <2>1 DEF Harmed, Moves
<1>3. ASSUME NEW p \in Players, NEW n \in 1 .. MaxDraw, NEW a \in {"hand", "cover"},
             Drawn(Place(a, p), n)
      PROVE  Goal
  <2>1. Place(a, p) \in Places /\ n \in Nat
    <3>1. a \in Areas /\ n \in Nat
      BY <1>1
    <3> QED BY <1>1, <3>1
  <2>2. DrawTo(Place(a, p), n, stack)
    BY <1>3 DEF Drawn
  <2>3. \E b : AllMild(b) /\ stack' = b \o stack
    BY <1>1, <2>1, <2>2, MildDraw
  <2> QED BY <1>3, <2>3 DEF Drawn, Moves
<1>4. ASSUME NEW p \in Players, NEW n \in 1 .. MaxDraw, NEW giveUp \in BOOLEAN,
             NEW to \in {Discard, Place("cover", p)} \cup {Place("hand", q) : q \in Players \ {p}},
             Asked(p, n, to, giveUp)
      PROVE  Goal
  <2> DEFINE f == RequestHand(p, n, to, giveUp, FALSE)
  <2>1. to \in {x \in Places : x.area # "effect"} \cup {Discard} /\ n \in Nat
    BY <1>1 DEF Place
  <2>2. f \in States
    BY <2>1, StatesMade
  <2>3. Mild(f)
    BY DEF Mild, RequestHand
  <2>4. AllMild(<<f>>)
    BY <2>2, <2>3, MildOne
  <2> QED BY <1>4, <2>4 DEF Asked, Moves
<1>5. ASSUME NEW cs \in SUBSET CardIds, NEW from \in Places, NEW to \in Places \cup {Discard},
             Moved(from, to, cs)
      PROVE  Goal
  BY <1>5, MildMoves DEF Moved, Moves
<1>6. ASSUME NEW p \in Players, Unactional(p) PROVE Goal
  <2> DEFINE h == Place("hand", p)
  <2>1. Hand(p) \in SUBSET CardIds /\ Cardinality(Hand(p)) \in Nat /\ h \in Places
    BY <1>1, TypedZones, CardsCounted DEF Hand
  <2>2. UNCHANGED <<zone, handMax, over>> /\ Top = Turn
    BY <1>6 DEF Unactional, Moves
  <2>3. ASSUME NEW d \in Draws(Cardinality(Hand(p))), morale' = morale,
               stack' = <<Change(h, "remove", Hand(p)), Change(h, "add", d.cards)>> \o stack
        PROVE  Goal
    <3>1. d.cards \in SUBSET CardIds
      BY <2>1, DrawsDo, PileAndDiscards
    <3>2. AllMild(<<Change(h, "remove", Hand(p))>>) /\ AllMild(<<Change(h, "add", d.cards)>>)
      BY <2>1, <3>1, MildChange
    <3>3. Change(h, "remove", Hand(p)) \in States /\ Change(h, "add", d.cards) \in States
      BY <2>1, <3>1, StatesMade
    <3>4. <<Change(h, "remove", Hand(p))>> \o <<Change(h, "add", d.cards)>>
            = <<Change(h, "remove", Hand(p)), Change(h, "add", d.cards)>>
      BY <3>3, TwoStates
    <3>5. AllMild(<<Change(h, "remove", Hand(p)), Change(h, "add", d.cards)>>)
      BY <3>2, <3>4, MildBoth
    <3> QED BY <2>2, <2>3, <3>5
  <2>4. ASSUME stack' = stack, morale' = morale PROVE Goal
    <3>1. stack' = <<>> \o stack
      BY <1>1, <2>4, PushedNothing
    <3> QED BY <2>2, <2>4, <3>1, MildNothing
  <2>5. ASSUME stack' = <<GameOver(Color[p])>> \o stack PROVE Goal
    <3> DEFINE f == GameOver(Color[p])
    <3>1. f \in States /\ f.kind = "gameover"
      BY StatesMade, CardsAssumption DEF CardsAssumption, GameOver
    <3> HIDE DEF f
    <3>2. AllMild(<<f>>)
      BY <3>1, MildOne DEF Mild
    <3>3. Head(<<f>> \o stack) = f
      BY <1>1, <3>1
    <3> QED BY <2>2, <2>5, <3>1, <3>2, <3>3 DEF f
  <2> HIDE DEF Goal
  <2> QED BY <1>6, <2>3, <2>4, <2>5 DEF Unactional
<1>7. ASSUME NEW p \in Players, CheckBasicEffect(p) PROVE Goal
  <2> DEFINE x == Place("effect", p)
             effect == zone["effect"][p]
             w == CHOOSE c \in effect \cap Weaken : TRUE
  <2>1. x \in Places /\ effect \in SUBSET CardIds
    BY <1>1, TypedZones
  <2>2. PICK order \in SetToSeqs(effect \cap Poison), more \in WuXiShuFu :
          stack' = Poisons(p, order)
                     \o (IF effect \cap Weaken # {}
                        THEN <<Change(x, "remove", {w}), WeakenAsked(p, WeakenDraw + more)>>
                        ELSE IF more > 0 THEN <<WeakenAsked(p, more)>> ELSE <<>>)
                     \o stack
    BY <1>7 DEF CheckBasicEffect
  <2> DEFINE n     == IF effect \cap Weaken # {} THEN WeakenDraw + more ELSE more
             f     == WeakenAsked(p, n)
             asked == IF effect \cap Weaken # {} THEN <<Change(x, "remove", {w}), f>>
                      ELSE IF more > 0 THEN <<f>> ELSE <<>>
  <2>8. stack' = Poisons(p, order) \o asked \o stack
    BY <2>2
  <2>9. f \in States /\ AllMild(<<f>>)
    <3>1. n \in Nat
      BY NumbersAssumption DEF NumbersAssumption
    <3> HIDE DEF n
    <3>2. f \in States
      BY <3>1, StatesMade
    <3> QED BY <3>2, MildOne DEF Mild, WeakenAsked
  <2> HIDE DEF f
  <2>3. AllMild(asked)
    <3>1. CASE effect \cap Weaken = {}
      BY <2>9, <3>1, MildNothing
    <3>2. CASE effect \cap Weaken # {}
      <4>1. {w} \in SUBSET CardIds
        BY <2>1, <3>2
      <4> HIDE DEF w
      <4>2. AllMild(<<Change(x, "remove", {w})>>) /\ Change(x, "remove", {w}) \in States
        BY <2>1, <4>1, MildChange, StatesMade
      <4>4. <<Change(x, "remove", {w})>> \o <<f>> = <<Change(x, "remove", {w}), f>>
        BY <2>9, <4>2, TwoStates
      <4>5. AllMild(<<Change(x, "remove", {w}), f>>)
        BY <2>9, <4>2, <4>4, MildBoth
      <4> QED BY <3>2, <4>5
    <3> QED BY <3>1, <3>2
  <2>4. AllMild(Poisons(p, order))
    <3>1. effect \cap Poison \in SUBSET CardIds
      BY <2>1
    <3>2. Poisons(p, order) \in Seq(States)
      BY <3>1, PoisonsDo DEF Carry
    <3>3. \A k \in DOMAIN Poisons(p, order) : Poisons(p, order)[k].kind \in {"change", "harm"}
      BY DEF Poisons, Change, Harm
    <3> QED BY <3>2, <3>3 DEF AllMild, Mild
  <2> HIDE DEF asked, effect
  <2>5. stack' = (Poisons(p, order) \o asked) \o stack
    BY <2>8
  <2>6. UNCHANGED <<zone, handMax, over, morale>> /\ Top = Turn
    BY <1>7 DEF CheckBasicEffect, Moves
  <2>7. AllMild(Poisons(p, order) \o asked)
    BY <2>3, <2>4, MildBoth
  <2> QED BY <2>5, <2>6, <2>7
<1>8. ASSUME NEW p \in Players, NEW q \in Players, NEW c \in CardIds, NEW e \in CardIds,
             FengZhiJieJing(p, q, c, e)
      PROVE  Goal
  <2> DEFINE m == MoveStates(Place("hand", p), Discard, {c})
             r == Change(Place("effect", q), "remove", {e})
  <2>1. AllMild(m) /\ AllMild(<<r>>)
    BY <1>1, MildMoves, MildChange
  <2>2. AllMild(m \o <<r>>)
    <3> HIDE DEF m, r
    <3> QED BY <2>1, MildBoth
  <2>3. stack' = (m \o <<r>>) \o stack
    BY <1>8 DEF FengZhiJieJing
  <2>4. UNCHANGED <<zone, handMax, over, morale>> /\ Top = Turn
    BY <1>8 DEF FengZhiJieJing, Moves
  <2> HIDE DEF m, r
  <2> QED BY <2>2, <2>3, <2>4
<1> HIDE DEF Goal
<1>9. Goal
  BY <1>1, <1>2, <1>3, <1>4, <1>5, <1>6, <1>7, <1>8 DEF TurnMoves
<1> QED BY <1>9 DEF Goal

LEMMA TurnMovesKeepLimits ==
  ASSUME Typed, CardsInv, LimitsInv, TurnMoves PROVE LimitsInv'
<1>1. PICK a : AllMild(a) /\ stack' = a \o stack
  BY TurnPushes
<1>2. UNCHANGED <<zone, handMax, over>> /\ Top.kind = "turn" /\ stack \in Seq(States)
  BY TurnPushes, TypedZones DEF Turn
<1>3. CASE morale' = morale
  BY <1>1, <1>2, <1>3, PushStep
<1>4. CASE Head(stack').kind = "gameover"
  <2>1. \A p \in Players : \A n : Served(stack, p, n) => Served(stack', p, n)
    BY <1>1, <1>2, ServedPushed DEF AllMild
  <2>2. HandLimitKept'
    BY <1>2, <2>1, LimitStays DEF LimitsInv
  <2>3. Forced(stack')
    BY <1>1, <1>2, ForcedPushed DEF LimitsInv
  <2>4. MoraleInv'
    BY <1>4 DEF MoraleInv, Top
  <2> QED BY <2>2, <2>3, <2>4 DEF LimitsInv, Forced
<1> QED BY <1>3, <1>4, TurnPushes

LEMMA LimitsStart ==
  ASSUME Init PROVE LimitsInv
<1> DEFINE f == Start(Players)
<1>1. f \in States /\ f.kind = "start" /\ stack = <<f>>
  BY StatesMade DEF Init, Start
<1> HIDE DEF f
<1>2. stack \in Seq(States) /\ DOMAIN stack = {1} /\ stack[1] = f
  BY <1>1
<1>3. Forced(stack)
  BY <1>1, <1>2 DEF Forced
<1>4. HandLimitKept
  <2>1. HandMax \in Nat
    BY NumbersAssumption DEF NumbersAssumption
  <2>2. \A p \in Players : Hand(p) = {} /\ handMax[p] = HandMax
    BY DEF Init, Hand, Areas
  <2> QED BY <2>1, <2>2, FS_EmptySet DEF HandLimitKept
<1>5. MoraleInv
  <2>1. ASSUME NEW t \in Colors PROVE Owes(stack, t, 0)
    <3>1. Price(f, t) = 0
      BY <1>1 DEF Price
    <3> QED BY <1>1, <3>1, OwesNothing
  <2>2. \A t \in Colors : morale[t] = InitMorale /\ over[t] = 0 /\ InitMorale \in Nat \ {0}
    BY NumbersAssumption DEF Init, NumbersAssumption
  <2> QED BY <2>1, <2>2 DEF MoraleInv
<1> QED BY <1>3, <1>4, <1>5 DEF LimitsInv

LEMMA LimitsStep ==
  ASSUME Typed, CardsInv, LimitsInv, [Next]_vars PROVE LimitsInv'
<1>1. CASE Handle
  BY <1>1, StartDealsKeepsLimits, HarmDrawsKeepsLimits, WeakenAnsweredKeepsLimits,
     HandChangeKeepsLimits, BasicEffectChangeKeepsLimits, CoverChangeKeepsLimits,
     HandRequestedKeepsLimits, CoverRequestedKeepsLimits, MoraleFallsKeepsLimits DEF Handle
<1>2. CASE TurnMoves
  BY <1>2, TurnMovesKeepLimits
<1>3. CASE \E ps \in SUBSET Players \ {{}} : ChangedMaxHand(ps)
  BY <1>3, ChangedMaxHandKeepsLimits
<1>4. CASE UNCHANGED vars
  BY <1>4 DEF vars, LimitsInv, Forced, HandLimitKept, Hand, MoraleInv, Top
<1> QED BY <1>1, <1>2, <1>3, <1>4 DEF Next

\* When the turn is on top nothing else is on the stack, so nothing is owed.
LEMMA NothingOwed ==
  ASSUME Typed, MoraleInv PROVE MoralePaysForOverload
<1> SUFFICES ASSUME Top = Turn, NEW t \in Colors
             PROVE  morale[t] = InitMorale - over[t] /\ morale[t] > 0
  BY DEF MoralePaysForOverload
<1>1. stack = <<Turn>> /\ Turn \in States /\ Turn.kind = "turn"
  BY BottomOfTail, TypedZones, StatesMade DEF Typed, Top, Turn, Bottom
<1>2. Top.kind # "gameover"
  BY <1>1 DEF Turn
<1>3. PICK n \in Nat : Owes(stack, t, n) /\ morale[t] = InitMorale - over[t] + n
  BY <1>2 DEF MoraleInv
<1>4. n = 0
  <2>1. Price(Turn, t) = 0
    BY <1>1 DEF Price
  <2>2. Owes(<<Turn>>, t, n)
    BY <1>1, <1>3
  <2> QED BY <1>1, <2>1, <2>2, OwesNothing
<1>5. over[t] \in Nat /\ InitMorale \in Nat
  BY NumbersAssumption DEF Typed, TypeOK, NumbersAssumption
<1>6. morale[t] > 0
  BY <1>2 DEF MoraleInv
<1> QED BY <1>3, <1>4, <1>5, <1>6
-----------------------------------------------------------------------------
(* The theorems *)

IInv == Typed /\ CardsInv /\ LimitsInv

LEMMA InvariantHolds == Spec => []IInv
<1>1. Init => IInv
  BY CardsStart, LimitsStart DEF IInv
<1>2. IInv /\ [Next]_vars => IInv'
  BY CardsStep, LimitsStep DEF IInv
<1> QED BY <1>1, <1>2, PTL DEF Spec

\* Cards, hands, limits and morale are what they are declared to be; the stack is
\* never empty, so that the game thread always has a state to handle.
THEOREM TypeCorrect == Spec => []TypeOK
<1>1. IInv => TypeOK
  BY DEF IInv, Typed
<1> QED BY <1>1, InvariantHolds, PTL

\* No card is duplicated and none disappears between setStateMoveCards and the states
\* that carry the move out, however many states lie between them and whenever the
\* discards are shuffled; but for the effects that FengZhiJieJing takes off.
THEOREM CardsConserved == Spec => []CardsAreConserved
<1>1. IInv => CardsAreConserved
  BY EachCardOnce DEF IInv
<1> QED BY <1>1, InvariantHolds, PTL

\* Whenever a hand is over its limit, a state on the stack is going to check it, or asks
\* for at least as many cards as are over: StateHandChange and setStateChangeMaxHand
\* leave no way around it.
THEOREM HandsAreLimited == Spec => []HandLimitKept
<1>1. IInv => HandLimitKept
  BY DEF IInv, LimitsInv
<1> QED BY <1>1, InvariantHolds, PTL

\* When a turn goes on, a team has lost exactly one morale for each card that overload
\* made it discard, and has some left: no loss is forgotten or charged twice by the
\* hooks that run again while the loss is on the stack.
THEOREM MoraleIsPaid == Spec => []MoralePaysForOverload
<1>1. IInv => MoralePaysForOverload
  BY NothingOwed DEF IInv, LimitsInv
<1> QED BY <1>1, InvariantHolds, PTL
=============================================================================
