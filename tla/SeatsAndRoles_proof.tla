------------------------ MODULE SeatsAndRoles_proof ------------------------
(***************************************************************************)
(* Proofs about SeatArrange and RoleDraft, for every number of players     *)
(* they are written for.                                                   *)
(*                                                                         *)
(* Seats: whatever is chosen in the lobby while the game thread copies the *)
(* lists, they run out of players only in a mode that is not for so many,  *)
(* the sides are even when all are seated, and who chose a team in time    *)
(* sits with it.  The proof follows the players of a team from the lists   *)
(* of the lobby to the lists red and blue and from there to the seats.     *)
(* What SeatArrange leaves is then shown to be what RoleDraft assumes of   *)
(* the seats.                                                              *)
(*                                                                         *)
(* Roles: nothing that is sent is looked at before it counts, so what is   *)
(* shown of roles, bans and picks is shown of the players who have only    *)
(* sent what they were offered, whatever the others send.  The proof       *)
(* counts the seats of a side, matches every player with the one step in   *)
(* which he picks, and then reads the marks of the alternatives as the     *)
(* steps that are over, of which no mark is more than one.                 *)
(***************************************************************************)
EXTENDS SeatArrange, RoleDraft, FunctionTheorems, FiniteSetTheorems, SequenceTheorems, TLAPS

-----------------------------------------------------------------------------
(* The invariant *)

\* In the lobby nobody is on both lists, no list is too long, and whom setTeam has
\* just taken off is on neither.
LobbyLists ==
  /\ teamA \cap teamB = {}
  /\ Cardinality(teamA) <= Half /\ Cardinality(teamB) <= Half
  /\ \A s \in setting : s.id \notin teamA \cup teamB

\* Who is not on the move while the lists are copied is where he was before.
Stayed == Ids \ moved

CopiedLists ==
  /\ pc = "copyB" =>
       /\ \A s \in setting : s.id \in moved
       /\ Cardinality(red) <= Half
       /\ \A i \in Ids : i \in red <=> atStart[i] = "A"
       /\ \A i \in Stayed : (i \in teamA <=> atStart[i] = "A") /\ (i \in teamB <=> atStart[i] = "B")
  /\ pc = "fill" =>
       /\ Cardinality(red) <= Half /\ Cardinality(blue) <= Half
       /\ \A i \in Stayed : (i \in red <=> atStart[i] = "A") /\ (i \in blue <=> atStart[i] = "B")

Sitting == pc \in {"seat", "done"}

\* The seats of colour c that are taken.
Taken(c) == {k \in 1 .. Len(seated) : seated[k].team = c}

\* Every player of a list has left it for a seat of its colour or is still on it.
Enough ==
  /\ pc = "broken" => mode \notin ModesFor(MaxPlayers)
  /\ ~Sitting /\ pc # "broken" => seated = <<>>
  /\ pc = "color" => Cardinality(red) = Half /\ Cardinality(blue) = Half
  /\ Sitting =>
       /\ colors \in AssignColor(mode, MaxPlayers)
       /\ \A k \in 1 .. Len(seated) : seated[k].team = colors[k]
       /\ \A c \in {0, 1} : Cardinality(ListOf(c)) + Cardinality(Taken(c)) = Half
  /\ pc = "seat" => Len(seated) < MaxPlayers
  /\ pc = "done" => Len(seated) = MaxPlayers

\* Who sits on a red seat, or will.
RedSide  == red \cup {seated[k].id : k \in {j \in 1 .. Len(seated) : seated[j].team = 1}}
BlueSide == blue \cup {seated[k].id : k \in {j \in 1 .. Len(seated) : seated[j].team = 0}}

SitApart(t, u) ==
  \A i \in Stayed :
    /\ atStart[i] = t => i \in RedSide \ BlueSide
    /\ atStart[i] = u => i \in BlueSide \ RedSide

\* One side is that of team A.
Sides == pc = "color" \/ Sitting => SitApart("A", "B") \/ SitApart("B", "A")

\* If nobody was on the move everybody is on one list or has one seat.
Once ==
  (pc = "color" \/ Sitting) /\ moved = {} =>
    /\ red \cap blue = {}
    /\ \A i \in Ids : i \in red \cup blue <=> SeatsOf(i) = {}
    /\ \A j, k \in 1 .. Len(seated) : seated[j].id = seated[k].id => j = k

IInv == TypeOK /\ LobbyLists /\ CopiedLists /\ Enough /\ Sides /\ Once
-----------------------------------------------------------------------------
(* Sizes *)

LEMMA Sizes ==
  /\ IsFiniteSet(Ids) /\ MaxPlayers \in {4, 6, 8}
  /\ Half \in {2, 3, 4} /\ MaxPlayers = Half + Half
BY IdsAssumption DEF Half

LEMMA PartsOfIds == \A S \in SUBSET Ids : IsFiniteSet(S) /\ Cardinality(S) \in Nat
BY Sizes, FS_Subset, FS_CardinalityType

LEMMA OneMore ==
  ASSUME NEW S, IsFiniteSet(S), NEW n \in Nat, Cardinality(S) = n, NEW x, x \notin S
  PROVE  IsFiniteSet(S \cup {x}) /\ Cardinality(S \cup {x}) = n + 1
BY FS_AddElement

LEMMA TwoElements ==
  ASSUME NEW S, NEW a \in S, NEW b \in S, a # b, \A x \in S : x = a \/ x = b
  PROVE  IsFiniteSet(S) /\ Cardinality(S) = 2
<1>1. IsFiniteSet({a}) /\ Cardinality({a}) = 1 /\ b \notin {a} /\ S = {a} \cup {b}
  BY FS_Singleton
<1>2. IsFiniteSet({a} \cup {b}) /\ Cardinality({a} \cup {b}) = 1 + 1
  BY <1>1, OneMore
<1> QED BY <1>1, <1>2

LEMMA ThreeElements ==
  ASSUME NEW S, NEW a \in S, NEW b \in S, NEW c \in S, a # b, a # c, b # c,
         \A x \in S : x = a \/ x = b \/ x = c
  PROVE  IsFiniteSet(S) /\ Cardinality(S) = 3
<1>1. IsFiniteSet(S \ {c}) /\ Cardinality(S \ {c}) = 2
  <2>1. a \in S \ {c} /\ b \in S \ {c} /\ \A x \in S \ {c} : x = a \/ x = b
    OBVIOUS
  <2> QED BY <2>1, TwoElements
<1>2. S = (S \ {c}) \cup {c} /\ c \notin S \ {c}
  OBVIOUS
<1>3. IsFiniteSet((S \ {c}) \cup {c}) /\ Cardinality((S \ {c}) \cup {c}) = 2 + 1
  BY <1>1, <1>2, OneMore
<1> QED BY <1>2, <1>3

LEMMA FourElements ==
  ASSUME NEW S, NEW a \in S, NEW b \in S, NEW c \in S, NEW d \in S,
         a # b, a # c, a # d, b # c, b # d, c # d,
         \A x \in S : x = a \/ x = b \/ x = c \/ x = d
  PROVE  IsFiniteSet(S) /\ Cardinality(S) = 4
<1>1. IsFiniteSet(S \ {d}) /\ Cardinality(S \ {d}) = 3
  <2>1. /\ a \in S \ {d} /\ b \in S \ {d} /\ c \in S \ {d}
        /\ \A x \in S \ {d} : x = a \/ x = b \/ x = c
    OBVIOUS
  <2> QED BY <2>1, ThreeElements
<1>2. S = (S \ {d}) \cup {d} /\ d \notin S \ {d}
  OBVIOUS
<1>3. IsFiniteSet((S \ {d}) \cup {d}) /\ Cardinality((S \ {d}) \cup {d}) = 3 + 1
  BY <1>1, <1>2, OneMore
<1> QED BY <1>2, <1>3

\* As many as wanted are drawn where there are as many.
LEMMA AtMostDraws ==
  ASSUME NEW n \in Nat, NEW S, IsFiniteSet(S), NEW T \in AtMost(n, S)
  PROVE  T \subseteq S /\ (n <= Cardinality(S) => Cardinality(T) = n)
<1>1. Cardinality(S) \in Nat
  BY FS_CardinalityType
<1>2. ASSUME n <= Cardinality(S)
      PROVE  Max({0, Min({n, Cardinality(S)})}) = n
  <2>1. Min({n, Cardinality(S)}) = n
    BY <1>1, <1>2 DEF Min
  <2>2. Max({0, n}) = n
    BY DEF Max
  <2> QED BY <2>1, <2>2
<1> QED BY <1>2 DEF AtMost, kSubset

\* When both lists are short the players without a team fill them exactly.
LEMMA ListsFill ==
  ASSUME NEW r \in SUBSET Ids, NEW b \in SUBSET Ids,
         Cardinality(r) <= Half, Cardinality(b) <= Half,
         NEW toRed, toRed \in AtMost(Half - Cardinality(r), NoTeam(r, b)),
         NEW toBlue, toBlue \in AtMost(Half - Cardinality(b), NoTeam(r, b) \ toRed)
  PROVE  /\ toRed \subseteq NoTeam(r, b) /\ toBlue \subseteq NoTeam(r, b) \ toRed
         /\ Cardinality(r \cup toRed) = Half /\ Cardinality(b \cup toBlue) = Half
<1> DEFINE rest == NoTeam(r, b)
           left == NoTeam(r, b) \ toRed
<1>1. /\ Half \in Nat /\ Cardinality(Ids) = Half + Half
      /\ Cardinality(r) \in Nat /\ Cardinality(b) \in Nat
  BY Sizes, PartsOfIds DEF MaxPlayers
<1>2. IsFiniteSet(r) /\ IsFiniteSet(b) /\ IsFiniteSet(rest) /\ IsFiniteSet(left)
  BY PartsOfIds DEF NoTeam
<1>3. /\ Cardinality(r \cup b) \in Nat
      /\ Cardinality(r \cup b) <= Cardinality(r) + Cardinality(b)
  <2>1. Cardinality(r \cap b) \in Nat /\ Cardinality(r \cup b) \in Nat
    BY PartsOfIds
  <2>2. Cardinality(r \cup b) = Cardinality(r) + Cardinality(b) - Cardinality(r \cap b)
    BY <1>2, FS_Union
  <2> QED BY <1>1, <2>1, <2>2
<1>4. Cardinality(rest) = Half + Half - Cardinality(r \cup b)
  <2> DEFINE both == r \cup b
  <2>1. Ids \cap both = both /\ rest = Ids \ both /\ Cardinality(both) \in Nat
    BY <1>3 DEF NoTeam
  <2> HIDE DEF both, rest
  <2>2. Cardinality(Ids \ both) = Cardinality(Ids) - Cardinality(Ids \cap both)
    BY Sizes, FS_Difference
  <2>3. Cardinality(rest) = Cardinality(Ids) - Cardinality(both)
    BY <2>1, <2>2, Zenon
  <2>4. Cardinality(rest) = Half + Half - Cardinality(both)
    BY <1>1, <2>1, <2>3
  <2> QED BY <2>4 DEF both
<1>5. toRed \subseteq rest /\ Cardinality(toRed) = Half - Cardinality(r)
  BY <1>1, <1>2, <1>3, <1>4, AtMostDraws
<1>6. Cardinality(left) = Cardinality(rest) - Cardinality(toRed)
  <2>1. rest \cap toRed = toRed
    BY <1>5
  <2> QED BY <1>2, <2>1, FS_Difference
<1>7. toBlue \subseteq left /\ Cardinality(toBlue) = Half - Cardinality(b)
  BY <1>1, <1>2, <1>3, <1>4, <1>5, <1>6, AtMostDraws
<1>8. ASSUME NEW S \in SUBSET Ids, NEW T \in SUBSET Ids, S \cap T = {},
             Cardinality(T) = Half - Cardinality(S)
      PROVE  Cardinality(S \cup T) = Half
  <2>1. IsFiniteSet(S) /\ IsFiniteSet(T) /\ Cardinality(S) \in Nat
    BY <1>8, PartsOfIds
  <2>2. Cardinality(S \cup T) = Cardinality(S) + Cardinality(T) - Cardinality(S \cap T)
    BY <2>1, FS_Union
  <2>3. Cardinality({}) = 0
    BY FS_EmptySet
  <2>4. Cardinality(S \cap T) = 0
    BY <1>8, <2>3
  <2> HIDE DEF Half
  <2> QED BY <1>1, <1>8, <2>1, <2>2, <2>4
<1>9. /\ toRed \in SUBSET Ids /\ r \cap toRed = {}
      /\ toBlue \in SUBSET Ids /\ b \cap toBlue = {}
  BY <1>5, <1>7 DEF NoTeam
<1> QED BY <1>5, <1>7, <1>8, <1>9
-----------------------------------------------------------------------------
(* The modes *)

Reds(n, c) == {i \in 1 .. n : c[i] = 1}

\* What assignColor draws for n seats in a mode that is for n players.
Fits(n, c) == c[1] = 1 /\ IsEven(n, c)

\* Two, three or four seats are half of them.
LEMMA HalfIsEven ==
  ASSUME NEW n \in {4, 6, 8}, NEW c, Len(c) >= n, c[1] = 1,
         Cardinality(Reds(n, c)) * 2 = n
  PROVE  Fits(n, c)
BY DEF Fits, IsEven, Reds

LEMMA RedsAreFinite ==
  ASSUME NEW n \in Nat, NEW c
  PROVE  IsFiniteSet(Reds(n, c)) /\ Cardinality(Reds(n, c)) \in Nat
<1>1. Reds(n, c) \in SUBSET (1 .. n)
  BY DEF Reds
<1>2. IsFiniteSet(1 .. n)
  BY FS_Interval
<1>3. IsFiniteSet(Reds(n, c))
  BY <1>1, <1>2, FS_Subset
<1> QED BY <1>3, FS_CardinalityType

LEMMA InterlaceFits ==
  ASSUME NEW n \in {4, 6, 8}
  PROVE  Fits(n, Interlace(n)) /\ Interlace(n) \in [1 .. n -> {0, 1}]
<1>1. Interlace(n) \in [1 .. n -> {0, 1}] /\ Interlace(n)[1] = 1
  BY DEF Interlace
<1> DEFINE S == Reds(n, Interlace(n))
<1>2. S = {i \in 1 .. n : i % 2 = 1}
  BY DEF Reds, Interlace
<1> HIDE DEF S
<1>3. ASSUME n = 4
      PROVE  Cardinality(S) = 2
  <2>1. 1 \in S /\ 3 \in S /\ \A x \in S : x = 1 \/ x = 3
    BY <1>2, <1>3
  <2> QED BY <2>1, TwoElements
<1>4. ASSUME n = 6
      PROVE  Cardinality(S) = 3
  <2>1. 1 \in S /\ 3 \in S /\ 5 \in S /\ \A x \in S : x = 1 \/ x = 3 \/ x = 5
    BY <1>2, <1>4
  <2> QED BY <2>1, ThreeElements
<1>5. ASSUME n = 8
      PROVE  Cardinality(S) = 4
  <2>1. /\ 1 \in S /\ 3 \in S /\ 5 \in S /\ 7 \in S
        /\ \A x \in S : x = 1 \/ x = 3 \/ x = 5 \/ x = 7
    BY <1>2, <1>5
  <2> QED BY <2>1, FourElements
<1>6. Cardinality(S) * 2 = n
  BY <1>3, <1>4, <1>5
<1>7. Cardinality(Reds(n, Interlace(n))) * 2 = n
  BY <1>6 DEF S
<1> HIDE DEF Interlace
<1>8. Len(Interlace(n)) = n
  BY <1>1
<1> QED BY <1>1, <1>7, <1>8, HalfIsEven

\* The swap of two seats next to each other takes one odd seat for an even one.
LEMMA Combo2Fits ==
  ASSUME NEW n \in {4, 6, 8}, NEW c \in Combo2(n)
  PROVE  Fits(n, c) /\ \E i \in 1 .. n - 1 : c[i] = c[i + 1]
<1> DEFINE plain == Interlace(n)
<1>1. PICK i \in 3 .. n : c = [plain EXCEPT ![i] = 1 - @, ![i - 1] = 1 - @]
  BY DEF Combo2
<1>2. /\ plain \in [1 .. n -> {0, 1}]
      /\ \A j \in 1 .. n : plain[j] = j % 2
      /\ Fits(n, plain)
  BY InterlaceFits DEF Interlace
<1> HIDE DEF plain
<1>3. i \in Int /\ 3 <= i /\ i <= n /\ n \in Nat
  OBVIOUS
<1>4. /\ c \in [1 .. n -> {0, 1}]
      /\ c[i] = 1 - plain[i] /\ c[i - 1] = 1 - plain[i - 1]
      /\ \A j \in 1 .. n : j # i /\ j # i - 1 => c[j] = plain[j]
  BY <1>1, <1>2, <1>3
<1>5. plain[i] = i % 2 /\ plain[i - 1] = (i - 1) % 2 /\ plain[i - 2] = (i - 2) % 2
  BY <1>2, <1>3
<1>6. /\ (i % 2 = 0 /\ (i - 1) % 2 = 1) \/ (i % 2 = 1 /\ (i - 1) % 2 = 0)
      /\ (i - 2) % 2 = i % 2
  BY <1>3
<1>7. c[i - 2] = c[i - 1] /\ c[1] = 1
  <2>1. c[i - 2] = i % 2 /\ c[i - 1] = i % 2
    BY <1>3, <1>4, <1>5, <1>6
  <2>2. c[1] = 1
    BY <1>2, <1>3, <1>4
  <2> QED BY <2>1, <2>2
<1>8. PICK x \in {i, i - 1}, y \in {i, i - 1} :
        x # y /\ plain[x] = 1 /\ plain[y] = 0 /\ c[x] = 0 /\ c[y] = 1
  BY <1>3, <1>4, <1>5, <1>6
<1>9. Reds(n, c) = (Reds(n, plain) \ {x}) \cup {y} /\ x \in Reds(n, plain) /\ y \notin Reds(n, plain)
  <2>1. x \in 1 .. n /\ y \in 1 .. n
    BY <1>3
  <2>2. \A j \in 1 .. n : j = x \/ j = y \/ c[j] = plain[j]
    BY <1>4, <1>8
  <2> QED BY <1>8, <2>1, <2>2 DEF Reds
<1>10. Cardinality(Reds(n, c)) = Cardinality(Reds(n, plain)) /\ Cardinality(Reds(n, plain)) * 2 = n
  <2>1. /\ IsFiniteSet(Reds(n, plain)) /\ Cardinality(Reds(n, plain)) \in Nat
        /\ Cardinality(Reds(n, plain)) * 2 = n
    BY <1>2, <1>3, RedsAreFinite DEF Fits, IsEven, Reds
  <2>2. /\ IsFiniteSet(Reds(n, plain) \ {x})
        /\ Cardinality(Reds(n, plain) \ {x}) = Cardinality(Reds(n, plain)) - 1
    BY <1>9, <2>1, FS_RemoveElement
  <2>3. y \notin Reds(n, plain) \ {x}
    BY <1>9
  <2>4. Cardinality(Reds(n, c)) = (Cardinality(Reds(n, plain)) - 1) + 1
    BY <1>9, <2>2, <2>3, FS_AddElement
  <2> QED BY <2>1, <2>4
<1>11. Fits(n, c)
  <2>1. Len(c) = n
    BY <1>3, <1>4
  <2>2. c[1] = 1 /\ Cardinality(Reds(n, c)) * 2 = n
    BY <1>7, <1>10
  <2> HIDE DEF Fits
  <2> QED BY <1>3, <2>1, <2>2, HalfIsEven
<1>12. i - 2 \in 1 .. n - 1 /\ c[i - 2] = c[(i - 2) + 1]
  BY <1>3, <1>7
<1> QED BY <1>11, <1>12

LEMMA Combo3Fits == \A c \in AssignColor("3COMBO", 6) : Fits(6, c)
<1> SUFFICES ASSUME NEW k \in 0 .. 2,
                    NEW c, c = [i \in 1 .. 6 |-> IF (i - 1 + k) % 6 < 3 THEN 1 ELSE 0]
             PROVE  Fits(6, c)
  BY DEF AssignColor
<1>1. c \in [1 .. 6 -> {0, 1}] /\ c[1] = 1
  OBVIOUS
<1> DEFINE S == Reds(6, c)
<1>2. S = {i \in 1 .. 6 : (i - 1 + k) % 6 < 3}
  BY DEF Reds
<1> HIDE DEF S
<1>3. ASSUME k = 0
      PROVE  Cardinality(S) = 3
  <2>1. 1 \in S /\ 2 \in S /\ 3 \in S /\ \A x \in S : x = 1 \/ x = 2 \/ x = 3
    BY <1>2, <1>3
  <2> QED BY <2>1, ThreeElements
<1>4. ASSUME k = 1
      PROVE  Cardinality(S) = 3
  <2>1. 1 \in S /\ 2 \in S /\ 6 \in S /\ \A x \in S : x = 1 \/ x = 2 \/ x = 6
    BY <1>2, <1>4
  <2> QED BY <2>1, ThreeElements
<1>5. ASSUME k = 2
      PROVE  Cardinality(S) = 3
  <2>1. 1 \in S /\ 5 \in S /\ 6 \in S /\ \A x \in S : x = 1 \/ x = 5 \/ x = 6
    BY <1>2, <1>5
  <2> QED BY <2>1, ThreeElements
<1>6. Cardinality(S) = 3
  BY <1>3, <1>4, <1>5
<1>7. Cardinality(Reds(6, c)) * 2 = 6
  BY <1>6 DEF S
<1>8. Len(c) >= 6 /\ c[1] = 1 /\ 6 \in {4, 6, 8}
  BY <1>1
<1> QED BY <1>7, <1>8, HalfIsEven, Zenon

\* The first four of the pairs are even, too.
LEMMA PairsFit ==
  ASSUME NEW n \in {4, 6}, NEW c, c = <<1, 0, 0, 1, 1, 0>>
  PROVE  Fits(n, c)
<1>1. Len(c) = 6 /\ c[1] = 1
  OBVIOUS
<1> DEFINE S == Reds(n, c)
<1>2. CASE n = 4
  <2>1. 1 \in S /\ 4 \in S /\ \A x \in S : x = 1 \/ x = 4
    BY <1>2 DEF Reds
  <2> HIDE DEF S
  <2>2. Cardinality(S) = 2
    BY <2>1, TwoElements
  <2>3. Cardinality(Reds(n, c)) * 2 = n /\ Len(c) >= n /\ n \in {4, 6, 8}
    BY <1>1, <1>2, <2>2 DEF S
  <2> QED BY <1>1, <2>3, HalfIsEven, Zenon
<1>3. CASE n = 6
  <2>1. 1 \in S /\ 4 \in S /\ 5 \in S /\ \A x \in S : x = 1 \/ x = 4 \/ x = 5
    BY <1>3 DEF Reds
  <2> HIDE DEF S
  <2>2. Cardinality(S) = 3
    BY <2>1, ThreeElements
  <2>3. Cardinality(Reds(n, c)) * 2 = n /\ Len(c) >= n /\ n \in {4, 6, 8}
    BY <1>1, <1>3, <2>2 DEF S
  <2> QED BY <1>1, <2>3, HalfIsEven, Zenon
<1> QED BY <1>2, <1>3

\* Three in a row: four players may get three seats of red, and eight find no seventh
\* colour; neither do eight in pairs.
LEMMA OthersAreNotEven ==
  ASSUME NEW n \in {4, 8}, NEW m \in {"3COMBO", "RBBRRB"}, m = "RBBRRB" => n = 8
  PROVE  \E c \in AssignColor(m, n) : ~IsEven(n, c)
<1>1. CASE m = "3COMBO"
  <2> DEFINE c == [i \in 1 .. 6 |-> IF (i - 1 + 0) % 6 < 3 THEN 1 ELSE 0]
  <2>1. c \in AssignColor(m, n)
    BY <1>1 DEF AssignColor
  <2>2. c \in [1 .. 6 -> {0, 1}] /\ Len(c) = 6
    OBVIOUS
  <2>3. \A i \in 1 .. 6 : c[i] = 1 <=> i < 4
    OBVIOUS
  <2> HIDE DEF c
  <2>4. n = 4 => Cardinality({i \in 1 .. n : c[i] = 1}) = 3
    <3> SUFFICES ASSUME n = 4
                 PROVE  Cardinality({i \in 1 .. n : c[i] = 1}) = 3
      OBVIOUS
    <3> DEFINE S == {i \in 1 .. n : c[i] = 1}
    <3>1. 1 \in S /\ 2 \in S /\ 3 \in S /\ \A x \in S : x = 1 \/ x = 2 \/ x = 3
      BY <2>3
    <3> HIDE DEF S
    <3>2. Cardinality(S) = 3
      BY <3>1, ThreeElements
    <3> QED BY <3>2 DEF S
  <2>5. ~IsEven(n, c)
    BY <2>2, <2>4 DEF IsEven
  <2> QED BY <2>1, <2>5
<1>2. CASE m = "RBBRRB"
  <2>1. <<1, 0, 0, 1, 1, 0>> \in AssignColor(m, n)
    BY <1>2 DEF AssignColor
  <2>2. n = 8 /\ Len(<<1, 0, 0, 1, 1, 0>>) = 6
    BY <1>2
  <2>3. ~IsEven(n, <<1, 0, 0, 1, 1, 0>>)
    BY <2>2 DEF IsEven
  <2> QED BY <2>1, <2>3
<1> QED BY <1>1, <1>2

\* Every mode draws zeros and ones, the first a one.
LEMMA ColoursOfModes ==
  ASSUME NEW n \in {4, 6, 8}, NEW m \in SeatModes, NEW c \in AssignColor(m, n)
  PROVE  /\ c \in Seq({0, 1}) /\ c[1] = 1
         /\ m = "2COMBO" => \E i \in 1 .. n - 1 : c[i] = c[i + 1]
<1>1. CASE m = "RANDOM"
  <2>1. c \in [1 .. n -> {0, 1}] /\ c[1] = 1
    BY <1>1 DEF AssignColor
  <2> QED BY <1>1, <2>1
<1>2. CASE m = "2COMBO"
  <2>1. c \in Combo2(n)
    BY <1>2 DEF AssignColor
  <2>2. Fits(n, c) /\ \E i \in 1 .. n - 1 : c[i] = c[i + 1]
    BY <2>1, Combo2Fits
  <2>3. c \in [1 .. n -> {0, 1}]
    <3>1. Interlace(n) \in [1 .. n -> {0, 1}]
      BY InterlaceFits
    <3> HIDE DEF Interlace
    <3>2. PICK i \in 3 .. n : c = [Interlace(n) EXCEPT ![i] = 1 - @, ![i - 1] = 1 - @]
      BY <2>1 DEF Combo2
    <3> QED BY <3>1, <3>2
  <2> QED BY <2>2, <2>3 DEF Fits
<1>3. CASE m = "3COMBO"
  <2>1. PICK k \in 0 .. 2 : c = [i \in 1 .. 6 |-> IF (i - 1 + k) % 6 < 3 THEN 1 ELSE 0]
    BY <1>3 DEF AssignColor
  <2> QED BY <1>3, <2>1
<1>4. CASE m = "INTERLACE"
  <2>1. Fits(n, c) /\ c \in [1 .. n -> {0, 1}]
    BY <1>4, InterlaceFits DEF AssignColor
  <2> QED BY <1>4, <2>1 DEF Fits
<1>5. CASE m = "RBBRRB"
  <2>1. c = <<1, 0, 0, 1, 1, 0>>
    BY <1>5 DEF AssignColor
  <2> QED BY <1>5, <2>1
<1> QED BY <1>1, <1>2, <1>3, <1>4, <1>5 DEF SeatModes

LEMMA EveryModeFits ==
  ASSUME NEW n \in {4, 6, 8}, NEW m \in ModesFor(n), NEW c \in AssignColor(m, n)
  PROVE  Fits(n, c)
<1>1. CASE m = "RANDOM"
  <2>1. c \in [1 .. n -> {0, 1}] /\ c[1] = 1 /\ Cardinality({i \in 1 .. n : c[i] = 1}) = n \div 2
    BY <1>1 DEF AssignColor
  <2>2. Cardinality(Reds(n, c)) * 2 = n /\ Len(c) = n
    BY <2>1 DEF Reds
  <2> QED BY <2>1, <2>2, HalfIsEven
<1>2. CASE m = "2COMBO"
  BY <1>2, Combo2Fits DEF AssignColor
<1>3. CASE m = "3COMBO"
  <2>1. n = 6
    BY <1>3 DEF ModesFor
  <2> QED BY <1>3, <2>1, Combo3Fits
<1>4. CASE m = "INTERLACE"
  BY <1>4, InterlaceFits DEF AssignColor
<1>5. CASE m = "RBBRRB"
  <2>1. n \in {4, 6}
    BY <1>5 DEF ModesFor
  <2> QED BY <1>5, <2>1, PairsFit DEF AssignColor
<1> QED BY <1>1, <1>2, <1>3, <1>4, <1>5 DEF ModesFor, SeatModes
-----------------------------------------------------------------------------
(* The lobby and the copies *)

Seats  == Seq([id : Ids, team : {0, 1}])
TeamChoices  == [id : Ids, team : {"A", "B", "RANDOM"}]

LEMMA InitHolds == Init => IInv
<1> SUFFICES ASSUME Init
             PROVE  IInv
  OBVIOUS
<1>1. TypeOK
  BY MovesAssumption DEF Init, TypeOK, Idle
<1>2. LobbyLists
  BY Sizes, FS_EmptySet DEF Init, LobbyLists, Idle
<1>3. CopiedLists /\ Enough /\ Sides /\ Once
  BY DEF Init, CopiedLists, Enough, Sides, Once, Sitting
<1> QED BY <1>1, <1>2, <1>3 DEF IInv

\* A list that loses somebody does not grow.
LEMMA ListShrinks ==
  ASSUME NEW S \in SUBSET Ids, NEW i
  PROVE  Cardinality(S \ {i}) <= Cardinality(S)
BY PartsOfIds, FS_Subset

LEMMA ListGrows ==
  ASSUME NEW S \in SUBSET Ids, NEW i, Cardinality(S) < Half
  PROVE  Cardinality(S \cup {i}) <= Half
<1>1. IsFiniteSet(S) /\ Cardinality(S) \in Nat /\ Half \in Nat
  BY PartsOfIds, Sizes
<1>2. Cardinality(S \cup {i}) = Cardinality(S) \/ Cardinality(S \cup {i}) = Cardinality(S) + 1
  BY <1>1, FS_AddElement
<1> QED BY <1>1, <1>2

\* Only the lists of the lobby change before they are copied: nothing else is said of
\* what comes later.
LEMMA LobbyStep ==
  ASSUME TypeOK', LobbyLists', CopiedLists', Enough, UNCHANGED <<red, blue, seated>>,
         pc' \in {"lobby", "arrange", "copyA", "copyB"},
         pc \in {"lobby", "arrange", "copyA", "copyB"}
  PROVE  IInv'
<1>1. Enough'
  BY DEF Enough, Sitting
<1>2. Sides' /\ Once'
  BY DEF Sides, Once, Sitting
<1> QED BY <1>1, <1>2 DEF IInv

LEMMA SetTeamStep ==
  ASSUME IInv, NEW i \in Ids, NEW t \in {"A", "B", "RANDOM"}, SetTeam(i, t)
  PROVE  IInv'
<1> USE DEF SetTeam
<1>1. /\ TypeOK /\ LobbyLists /\ CopiedLists /\ Enough
      /\ pc \in {"lobby", "arrange", "copyA", "copyB"}
  BY DEF IInv, MayMove
<1>2. setting' \in {{[id |-> j, team |-> u]} : j \in Ids, u \in {"A", "B", "RANDOM"}}
  OBVIOUS
<1>3. TypeOK'
  <2>1. moves' \in 0 .. MaxMoves /\ moved' \subseteq Ids
    BY <1>1, MovesAssumption DEF TypeOK, MayMove, Moving
  <2> QED BY <1>1, <1>2, <2>1 DEF TypeOK, game
<1>4. LobbyLists'
  <2>1. teamA \in SUBSET Ids /\ teamB \in SUBSET Ids
    BY <1>1 DEF TypeOK
  <2>2. Cardinality(teamA') <= Half /\ Cardinality(teamB') <= Half
    <3>1. /\ Cardinality(teamA) \in Nat /\ Cardinality(teamB) \in Nat /\ Half \in Nat
          /\ Cardinality(teamA') \in Nat /\ Cardinality(teamB') \in Nat
      BY <2>1, Sizes, PartsOfIds
    <3>2. Cardinality(teamA') <= Cardinality(teamA) /\ Cardinality(teamB') <= Cardinality(teamB)
      BY <2>1, ListShrinks
    <3> QED BY <1>1, <3>1, <3>2 DEF LobbyLists
  <2> QED BY <1>1, <2>2 DEF LobbyLists
<1>5. CopiedLists'
  BY <1>1 DEF CopiedLists, Stayed, Moving, Copying, game, TypeOK
<1> QED BY <1>1, <1>3, <1>4, <1>5, LobbyStep DEF game

LEMMA JoinTeamStep ==
  ASSUME IInv, JoinTeam
  PROVE  IInv'
<1>1. TypeOK /\ LobbyLists /\ CopiedLists /\ Enough /\ Sides /\ Once
  BY DEF IInv
<1>2. PICK s \in setting :
        /\ teamA' = IF s.team = "A" /\ Cardinality(teamA) < Half
                    THEN teamA \cup {s.id} ELSE teamA
        /\ teamB' = IF s.team = "B" /\ Cardinality(teamB) < Half
                    THEN teamB \cup {s.id} ELSE teamB
  BY DEF JoinTeam, Joined
<1>3. s \in TeamChoices /\ setting = {s} /\ s.id \in Ids
  BY <1>1, <1>2 DEF TypeOK, TeamChoices, Idle
<1>4. /\ moved' = IF pc = "copyB" THEN moved \cup {s.id} ELSE moved
      /\ setting' = {}
      /\ UNCHANGED <<moves, mode, pc, red, blue, colors, seated, atStart>>
  BY <1>2 DEF JoinTeam, Moving, Copying, game, Idle
<1>5. TypeOK'
  BY <1>1, <1>2, <1>3, <1>4 DEF TypeOK, Idle
<1>6. LobbyLists'
  <2>1. teamA \in SUBSET Ids /\ teamB \in SUBSET Ids
    BY <1>1 DEF TypeOK
  <2>2. Cardinality(teamA') <= Half /\ Cardinality(teamB') <= Half
    BY <1>1, <1>2, <2>1, ListGrows DEF LobbyLists
  <2>3. teamA' \cap teamB' = {}
    BY <1>1, <1>2, <1>3 DEF LobbyLists
  <2> QED BY <1>4, <2>2, <2>3 DEF LobbyLists
<1>7. CopiedLists'
  BY <1>1, <1>2, <1>3, <1>4 DEF CopiedLists, Stayed
<1>8. Enough'
  BY <1>1, <1>4 DEF Enough, Sitting, Taken, ListOf
<1>9. pc # "copyB" => UNCHANGED <<moved, red, blue, seated, pc, atStart>>
  BY <1>4
<1>10. Sides'
  BY <1>1, <1>4, <1>9 DEF Sides, Sitting, SitApart, RedSide, BlueSide, Stayed
<1>11. Once'
  BY <1>1, <1>4, <1>9 DEF Once, Sitting, SeatsOf
<1> QED BY <1>5, <1>6, <1>7, <1>8, <1>10, <1>11 DEF IInv

LEMMA LeaveStep ==
  ASSUME IInv, NEW i \in Ids, Leave(i)
  PROVE  IInv'
<1> USE DEF Leave
<1>1. /\ TypeOK /\ LobbyLists /\ CopiedLists /\ Enough
      /\ pc \in {"lobby", "arrange"}
  BY DEF IInv, Playing
<1>2. TypeOK'
  <2>1. moves' \in 0 .. MaxMoves
    BY <1>1, MovesAssumption DEF TypeOK, MayMove
  <2> QED BY <1>1, <2>1 DEF TypeOK, game
<1>3. LobbyLists'
  <2>1. teamA \in SUBSET Ids /\ teamB \in SUBSET Ids
    BY <1>1 DEF TypeOK
  <2>2. Cardinality(teamA') <= Half /\ Cardinality(teamB') <= Half
    <3>1. /\ Cardinality(teamA) \in Nat /\ Cardinality(teamB) \in Nat /\ Half \in Nat
          /\ Cardinality(teamA') \in Nat /\ Cardinality(teamB') \in Nat
      BY <2>1, Sizes, PartsOfIds
    <3>2. Cardinality(teamA') <= Cardinality(teamA) /\ Cardinality(teamB') <= Cardinality(teamB)
      BY <2>1, ListShrinks
    <3> QED BY <1>1, <3>1, <3>2 DEF LobbyLists
  <2> QED BY <1>1, <2>2 DEF LobbyLists
<1>4. CopiedLists'
  BY <1>1 DEF CopiedLists
<1> QED BY <1>1, <1>2, <1>3, <1>4, LobbyStep DEF game

LEMMA ReadyStep ==
  ASSUME IInv, AllReady \/ StartPlaying
  PROVE  IInv'
<1>1. /\ TypeOK /\ LobbyLists /\ Enough
      /\ pc \in {"lobby", "arrange"} /\ pc' \in {"arrange", "copyA"}
      /\ UNCHANGED <<lists, setting, moves, mode, game, atStart, moved>>
  BY DEF IInv, AllReady, StartPlaying
<1>2. TypeOK' /\ LobbyLists' /\ CopiedLists'
  BY <1>1 DEF TypeOK, LobbyLists, CopiedLists, lists, game
<1> QED BY <1>1, <1>2, LobbyStep DEF game

\* When the first list is copied both are as they are remembered.
LEMMA CopyAStep ==
  ASSUME IInv, CopyA
  PROVE  IInv'
<1> USE DEF CopyA
<1>1. TypeOK /\ LobbyLists /\ Enough
  BY DEF IInv
<1>2. setting \subseteq TeamChoices /\ moved' = {s.id : s \in setting}
  BY <1>1 DEF TypeOK, TeamChoices, Idle
<1>3. moved' \subseteq Ids
  BY <1>2 DEF TeamChoices
<1>4. TypeOK'
  BY <1>1, <1>3 DEF TypeOK, lists
<1>5. LobbyLists'
  BY <1>1 DEF LobbyLists, lists
<1>6. CopiedLists'
  BY <1>1 DEF CopiedLists, Stayed, LobbyLists, lists, TypeOK
<1> QED BY <1>1, <1>4, <1>5, <1>6 DEF IInv, Enough, Sides, Once, Sitting

LEMMA CopyBStep ==
  ASSUME IInv, CopyB
  PROVE  IInv'
<1> USE DEF CopyB
<1>1. TypeOK /\ LobbyLists /\ CopiedLists /\ Enough
  BY DEF IInv
<1>2. TypeOK'
  BY <1>1 DEF TypeOK, lists
<1>3. LobbyLists'
  BY <1>1 DEF LobbyLists, lists
<1>4. CopiedLists'
  BY <1>1 DEF CopiedLists, Stayed, LobbyLists, lists, TypeOK
<1> QED BY <1>1, <1>2, <1>3, <1>4 DEF IInv, Enough, Sides, Once, Sitting
-----------------------------------------------------------------------------
(* The sides *)

\* Who has a team is in its list already, so filling the lists takes nobody over.
LEMMA FillStep ==
  ASSUME IInv, Fill
  PROVE  IInv'
<1>1. TypeOK /\ LobbyLists /\ CopiedLists /\ Enough /\ pc = "fill" /\ pc' = "color"
  BY DEF IInv, Fill
<1>2. UNCHANGED <<teamA, teamB, setting, moves, mode, colors, seated, atStart, moved>>
  BY DEF Fill, lists
<1>3. PICK r \in SUBSET Ids, b \in SUBSET Ids :
        /\ (r = red /\ b = blue) \/ (r = blue /\ b = red)
        /\ \E toRed \in AtMost(Half - Cardinality(r), NoTeam(r, b)) :
           \E toBlue \in AtMost(Half - Cardinality(b), NoTeam(r, b) \ toRed) :
             red' = r \cup toRed /\ blue' = b \cup toBlue
  <2>1. red \in SUBSET Ids /\ blue \in SUBSET Ids
    BY <1>1 DEF TypeOK
  <2> QED BY <2>1 DEF Fill
<1>4. PICK toRed \in AtMost(Half - Cardinality(r), NoTeam(r, b)) :
        \E toBlue \in AtMost(Half - Cardinality(b), NoTeam(r, b) \ toRed) :
          red' = r \cup toRed /\ blue' = b \cup toBlue
  BY <1>3
<1>5. PICK toBlue \in AtMost(Half - Cardinality(b), NoTeam(r, b) \ toRed) :
        red' = r \cup toRed /\ blue' = b \cup toBlue
  BY <1>4
<1>6. /\ r \in SUBSET Ids /\ b \in SUBSET Ids
      /\ Cardinality(r) <= Half /\ Cardinality(b) <= Half
  BY <1>1, <1>3 DEF TypeOK, CopiedLists
<1>7. /\ toRed \subseteq Ids \ (r \cup b) /\ toBlue \subseteq (Ids \ (r \cup b)) \ toRed
      /\ Cardinality(red') = Half /\ Cardinality(blue') = Half
  <2>1. /\ toRed \subseteq NoTeam(r, b) /\ toBlue \subseteq NoTeam(r, b) \ toRed
        /\ Cardinality(r \cup toRed) = Half /\ Cardinality(b \cup toBlue) = Half
    <3>1. /\ toRed \in AtMost(Half - Cardinality(r), NoTeam(r, b))
          /\ toBlue \in AtMost(Half - Cardinality(b), NoTeam(r, b) \ toRed)
      OBVIOUS
    <3>2. r \in SUBSET Ids /\ b \in SUBSET Ids
      BY <1>6
    <3>3. Cardinality(r) <= Half /\ Cardinality(b) <= Half
      BY <1>6
    <3> QED BY <3>1, <3>2, <3>3, ListsFill
  <2> QED BY <1>5, <2>1 DEF NoTeam
<1>8. seated = <<>> /\ seated' = <<>>
  BY <1>1, <1>2 DEF Enough, Sitting
<1>9. TypeOK' /\ LobbyLists' /\ CopiedLists' /\ Enough'
  <2>1. TypeOK'
    BY <1>1, <1>2, <1>5, <1>6, <1>7 DEF TypeOK
  <2>2. LobbyLists' /\ CopiedLists'
    BY <1>1, <1>2 DEF LobbyLists, CopiedLists
  <2>3. Enough'
    BY <1>1, <1>7, <1>8 DEF Enough, Sitting
  <2> QED BY <2>1, <2>2, <2>3
<1>10. \A i \in Stayed : (i \in red <=> atStart[i] = "A") /\ (i \in blue <=> atStart[i] = "B")
  BY <1>1 DEF CopiedLists
<1>11. Stayed' = Stayed /\ RedSide' = red' /\ BlueSide' = blue' /\ atStart' = atStart
  BY <1>2, <1>8 DEF Stayed, RedSide, BlueSide
<1>12. Sides'
  <2>1. CASE r = red /\ b = blue
    <3>1. \A i \in Stayed :
            /\ atStart[i] = "A" => i \in red' \ blue'
            /\ atStart[i] = "B" => i \in blue' \ red'
      BY <1>5, <1>7, <1>10, <2>1
    <3> QED BY <1>11, <3>1 DEF Sides, SitApart
  <2>2. CASE r = blue /\ b = red
    <3>1. \A i \in Stayed :
            /\ atStart[i] = "B" => i \in red' \ blue'
            /\ atStart[i] = "A" => i \in blue' \ red'
      BY <1>5, <1>7, <1>10, <2>2
    <3> QED BY <1>11, <3>1 DEF Sides, SitApart
  <2> QED BY <1>3, <2>1, <2>2
<1>13. Once'
  <2> SUFFICES ASSUME moved' = {}
               PROVE  /\ red' \cap blue' = {}
                      /\ \A i \in Ids : i \in red' \cup blue' <=> SeatsOf(i)' = {}
                      /\ \A j, k \in 1 .. Len(seated') : seated'[j].id = seated'[k].id => j = k
    BY DEF Once
  <2>1. r \cap b = {}
    <3>1. Stayed = Ids
      BY <1>2 DEF Stayed
    <3> QED BY <1>3, <1>6, <1>10, <3>1
  <2>2. red' \cap blue' = {}
    BY <1>5, <1>7, <2>1
  <2>3. red' \cup blue' = Ids
    <3>1. red' \in SUBSET Ids /\ blue' \in SUBSET Ids /\ red' \cup blue' \in SUBSET Ids
      BY <1>5, <1>6, <1>7
    <3>2. Cardinality(red' \cup blue')
            = Cardinality(red') + Cardinality(blue') - Cardinality(red' \cap blue')
      BY <3>1, PartsOfIds, FS_Union
    <3>3. Cardinality(red' \cap blue') = 0
      BY <2>2, FS_EmptySet
    <3>4. Cardinality(Ids) = Half + Half /\ Half \in Nat
      BY Sizes DEF MaxPlayers
    <3>5. Cardinality(red' \cup blue') = Cardinality(Ids)
      BY <1>7, <3>2, <3>3, <3>4
    <3> QED BY <3>1, <3>5, Sizes, FS_Subset
  <2>4. SeatsOf(0)' = {} /\ \A i : SeatsOf(i)' = {}
    BY <1>8 DEF SeatsOf
  <2> QED BY <1>8, <2>2, <2>3, <2>4
<1> QED BY <1>9, <1>12, <1>13 DEF IInv

LEMMA ColorStep ==
  ASSUME IInv, Color
  PROVE  IInv'
<1>1. /\ TypeOK /\ LobbyLists /\ CopiedLists /\ Enough /\ Sides /\ Once
      /\ pc = "color" /\ pc' = "seat" /\ colors' \in AssignColor(mode, MaxPlayers)
      /\ UNCHANGED <<teamA, teamB, setting, moves, mode, red, blue, seated, atStart, moved>>
  BY DEF IInv, Color, lists
<1>2. mode \in SeatModes
  BY <1>1, ModesAssumption DEF TypeOK
<1>3. colors' \in Seq({0, 1})
  BY <1>1, <1>2, Sizes, ColoursOfModes
<1>4. seated = <<>> /\ Len(seated') = 0
  BY <1>1 DEF Enough, Sitting
<1>5. TypeOK' /\ LobbyLists' /\ CopiedLists'
  BY <1>1, <1>3 DEF TypeOK, LobbyLists, CopiedLists
<1>6. Enough'
  <2>1. Cardinality(red') = Half /\ Cardinality(blue') = Half
    BY <1>1 DEF Enough
  <2>2. Cardinality(Taken(1)') = 0 /\ Cardinality(Taken(0)') = 0
    BY <1>4, FS_EmptySet DEF Taken
  <2>3. /\ Cardinality(ListOf(1)') + Cardinality(Taken(1)') = Half
        /\ Cardinality(ListOf(0)') + Cardinality(Taken(0)') = Half
    BY <2>1, <2>2, Sizes DEF ListOf
  <2>4. \A c \in {0, 1} : Cardinality(ListOf(c)') + Cardinality(Taken(c)') = Half
    BY <2>3 DEF ListOf, Taken
  <2>5. \A k \in 1 .. Len(seated') : seated'[k].team = colors'[k]
    BY <1>4
  <2> QED BY <1>1, <1>4, <2>4, <2>5, Sizes DEF Enough, Sitting
<1>7. Sides' /\ Once'
  <2>1. RedSide' = RedSide /\ BlueSide' = BlueSide /\ Stayed' = Stayed /\ atStart' = atStart
    BY <1>1 DEF RedSide, BlueSide, Stayed
  <2>2. Sides'
    BY <1>1, <2>1 DEF Sides, SitApart, Sitting
  <2>3. Once'
    BY <1>1 DEF Once, Sitting, SeatsOf
  <2> QED BY <2>2, <2>3
<1> QED BY <1>5, <1>6, <1>7 DEF IInv

\* Seats that are taken are seats of the room.
LEMMA TakenAreFinite ==
  ASSUME NEW c, Len(seated) \in Nat
  PROVE  IsFiniteSet(Taken(c)) /\ Cardinality(Taken(c)) \in Nat
<1>1. Taken(c) \in SUBSET (1 .. Len(seated))
  BY DEF Taken
<1>2. IsFiniteSet(1 .. Len(seated))
  BY FS_Interval
<1>3. IsFiniteSet(Taken(c))
  BY <1>1, <1>2, FS_Subset
<1> QED BY <1>3, FS_CardinalityType

\* Of an even number of seats half are blue, too.
LEMMA HalfOfEach ==
  ASSUME NEW c, c \in Seq({0, 1}), Fits(MaxPlayers, c), NEW d \in {0, 1}
  PROVE  Cardinality({j \in 1 .. MaxPlayers : c[j] = d}) = Half
<1> DEFINE ones  == Reds(MaxPlayers, c)
           zeros == {j \in 1 .. MaxPlayers : c[j] = 0}
<1>1. Cardinality(ones) \in Nat /\ Cardinality(ones) * 2 = MaxPlayers
  BY Sizes, RedsAreFinite DEF Fits, IsEven, Reds
<1>2. Cardinality(ones) = Half
  BY <1>1, Sizes
<1>3. \A j \in 1 .. MaxPlayers : c[j] \in {0, 1}
  BY Sizes, ElementOfSeq DEF Fits, IsEven
<1>4. zeros = (1 .. MaxPlayers) \ ones /\ (1 .. MaxPlayers) \cap ones = ones
  BY <1>3 DEF Reds
<1>5. IsFiniteSet(1 .. MaxPlayers) /\ Cardinality(1 .. MaxPlayers) = MaxPlayers
  BY Sizes, FS_Interval
<1>6. ones = {j \in 1 .. MaxPlayers : c[j] = 1}
  BY DEF Reds
<1> HIDE DEF ones, zeros
<1>7. Cardinality((1 .. MaxPlayers) \ ones)
        = Cardinality(1 .. MaxPlayers) - Cardinality((1 .. MaxPlayers) \cap ones)
  BY <1>5, FS_Difference
<1>8. Cardinality(zeros) = Half
  <2>1. Cardinality(zeros) = MaxPlayers - Half
    BY <1>2, <1>4, <1>5, <1>7
  <2> QED BY <2>1, Sizes
<1>9. CASE d = 1
  BY <1>2, <1>6, <1>9
<1>10. CASE d = 0
  BY <1>8, <1>10 DEF zeros
<1> QED BY <1>9, <1>10

\* In a mode that is for so many players there is a colour for the next seat, and
\* somebody on its list.
LEMMA NeverRunsOut ==
  ASSUME IInv, pc = "seat", mode \in ModesFor(MaxPlayers)
  PROVE  ~RunsOut
<1>1. /\ TypeOK /\ Len(seated) \in Nat /\ Len(seated) < MaxPlayers
      /\ colors \in Seq({0, 1}) /\ colors \in AssignColor(mode, MaxPlayers)
      /\ \A k \in 1 .. Len(seated) : seated[k].team = colors[k]
      /\ \A c \in {0, 1} : Cardinality(ListOf(c)) + Cardinality(Taken(c)) = Half
  BY DEF IInv, TypeOK, Enough, Sitting
<1>2. Fits(MaxPlayers, colors)
  BY <1>1, Sizes, EveryModeFits
<1>3. PICK n \in 1 .. MaxPlayers : n = Len(seated) + 1
  BY <1>1, Sizes
<1>4. n <= Len(colors) /\ Len(colors) \in Nat
  BY <1>1, <1>2, Sizes DEF Fits, IsEven
<1>5. PICK c \in {0, 1} : c = colors[n]
  <2>1. n \in 1 .. Len(colors)
    BY <1>4, Sizes
  <2> QED BY <1>1, <2>1, ElementOfSeq
<1>6. ListOf(c) # {}
  <2> DEFINE all == {j \in 1 .. MaxPlayers : colors[j] = c}
  <2>1. Cardinality(all) = Half
    BY <1>1, <1>2, HalfOfEach
  <2>2. IsFiniteSet(all)
    <3>1. all \in SUBSET (1 .. MaxPlayers) /\ IsFiniteSet(1 .. MaxPlayers)
      BY Sizes, FS_Interval
    <3> QED BY <3>1, FS_Subset
  <2>3. n \in all /\ Taken(c) \subseteq all \ {n}
    BY <1>1, <1>3, <1>5, Sizes DEF Taken
  <2> HIDE DEF all
  <2>4. IsFiniteSet(all \ {n}) /\ Cardinality(all \ {n}) = Half - 1
    BY <2>1, <2>2, <2>3, FS_RemoveElement
  <2>5. Cardinality(Taken(c)) <= Half - 1
    BY <2>3, <2>4, FS_Subset
  <2>6. Cardinality(ListOf(c)) # 0
    <3>1. Cardinality(ListOf(c)) + Cardinality(Taken(c)) = Half
      BY <1>1
    <3>2. Cardinality(Taken(c)) \in Nat
      BY <1>1, TakenAreFinite
    <3> QED BY <2>5, <3>1, <3>2, Sizes
  <2> QED BY <2>6, FS_EmptySet
<1>7. ~(n > Len(colors)) /\ ListOf(colors[n]) # {}
  BY <1>4, <1>5, <1>6, Sizes
<1> QED BY <1>3, <1>7 DEF RunsOut

\* Who sits down leaves his list for a seat of its colour, and stays on the side.
LEMMA SitDownStep ==
  ASSUME IInv, Sit, ~RunsOut
  PROVE  IInv'
<1>1. /\ TypeOK /\ LobbyLists /\ CopiedLists /\ Enough /\ Sides /\ Once /\ pc = "seat"
      /\ UNCHANGED <<teamA, teamB, setting, moves, mode, colors, atStart, moved>>
  BY DEF IInv, Sit, lists
<1>2. seated \in Seats /\ Len(seated) \in Nat /\ Len(seated) < MaxPlayers
  BY <1>1 DEF TypeOK, Enough, Seats
<1>3. PICK n \in Nat : n = Len(seated) + 1
  BY <1>2
<1>4. n \in 1 .. MaxPlayers /\ Len(seated) = n - 1
  BY <1>2, <1>3, Sizes
<1>5. PICK c \in {0, 1} : c = colors[n]
  <2>1. colors \in Seq({0, 1}) /\ n \in 1 .. Len(colors)
    BY <1>1, <1>3, <1>4, Sizes DEF TypeOK, RunsOut
  <2> QED BY <2>1, ElementOfSeq
<1>6. /\ \A d \in {0, 1} : Cardinality(ListOf(d)) + Cardinality(Taken(d)) = Half
      /\ \A k \in 1 .. Len(seated) : seated[k].team = colors[k]
      /\ colors \in AssignColor(mode, MaxPlayers)
  BY <1>1 DEF Enough, Sitting
<1>7. red \in SUBSET Ids /\ blue \in SUBSET Ids /\ \A d : ListOf(d) \in SUBSET Ids
  BY <1>1 DEF TypeOK, ListOf
<1>9. PICK i \in ListOf(c) :
        /\ red' = IF c = 1 THEN red \ {i} ELSE red
        /\ blue' = IF c = 1 THEN blue ELSE blue \ {i}
        /\ seated' = Append(seated, [id |-> i, team |-> c])
        /\ pc' = IF Len(seated) + 1 = MaxPlayers THEN "done" ELSE "seat"
  BY <1>3, <1>5 DEF Sit
<1>10. i \in Ids /\ [id |-> i, team |-> c] \in [id : Ids, team : {0, 1}]
  BY <1>7
<1>11. /\ seated' \in Seats /\ Len(seated') = n
       /\ \A k \in 1 .. n - 1 : seated'[k] = seated[k]
       /\ seated'[n].id = i /\ seated'[n].team = c
  <2>1. /\ seated' \in Seats /\ Len(seated') = Len(seated) + 1
        /\ \A k \in 1 .. Len(seated) : seated'[k] = seated[k]
        /\ seated'[Len(seated) + 1] = [id |-> i, team |-> c]
    BY <1>2, <1>9, <1>10, AppendProperties DEF Seats
  <2> QED BY <1>3, <1>4, <2>1
<1>12. /\ pc' \in {"seat", "done"}
       /\ (pc' = "seat" => n < MaxPlayers) /\ (pc' = "done" => n = MaxPlayers)
  BY <1>3, <1>4, <1>9, Sizes
<1>13. TypeOK' /\ LobbyLists' /\ CopiedLists'
  <2>1. TypeOK'
    BY <1>1, <1>7, <1>9, <1>11, <1>12 DEF TypeOK, Seats
  <2> QED BY <1>1, <1>12, <2>1 DEF LobbyLists, CopiedLists
<1>14. Enough'
  <2>1. IsFiniteSet(red) /\ Cardinality(red) \in Nat /\ IsFiniteSet(blue) /\ Cardinality(blue) \in Nat
    BY <1>7, PartsOfIds
  <2>2. /\ Cardinality(red) + Cardinality(Taken(1)) = Half
        /\ Cardinality(blue) + Cardinality(Taken(0)) = Half
    BY <1>6 DEF ListOf
  <2>3. /\ IsFiniteSet(Taken(1)) /\ Cardinality(Taken(1)) \in Nat
        /\ IsFiniteSet(Taken(0)) /\ Cardinality(Taken(0)) \in Nat
    BY <1>2, TakenAreFinite
  <2>4. \A k \in 1 .. n : k = n \/ k \in 1 .. n - 1
    BY <1>4
  <2>5. /\ n \notin Taken(1) /\ n \notin Taken(0)
        /\ c = 1 => Taken(1)' = Taken(1) \cup {n} /\ Taken(0)' = Taken(0)
        /\ c = 0 => Taken(0)' = Taken(0) \cup {n} /\ Taken(1)' = Taken(1)
    BY <1>4, <1>11, <2>4 DEF Taken
  <2>6. /\ Cardinality(red') + Cardinality(Taken(1)') = Half
        /\ Cardinality(blue') + Cardinality(Taken(0)') = Half
    <3>1. CASE c = 1
      <4>1. i \in red /\ red' = red \ {i} /\ blue' = blue
        BY <1>9, <3>1 DEF ListOf
      <4>2. Cardinality(red') = Cardinality(red) - 1
        BY <2>1, <4>1, FS_RemoveElement
      <4>3. Taken(1)' = Taken(1) \cup {n} /\ Taken(0)' = Taken(0)
        BY <2>5, <3>1
      <4>4. Cardinality(Taken(1)') = Cardinality(Taken(1)) + 1
        BY <2>3, <2>5, <4>3, FS_AddElement
      <4> QED BY <2>1, <2>2, <2>3, <4>1, <4>2, <4>3, <4>4
    <3>2. CASE c = 0
      <4>1. i \in blue /\ blue' = blue \ {i} /\ red' = red
        BY <1>9, <3>2 DEF ListOf
      <4>2. Cardinality(blue') = Cardinality(blue) - 1
        BY <2>1, <4>1, FS_RemoveElement
      <4>3. Taken(0)' = Taken(0) \cup {n} /\ Taken(1)' = Taken(1)
        BY <2>5, <3>2
      <4>4. Cardinality(Taken(0)') = Cardinality(Taken(0)) + 1
        BY <2>3, <2>5, <4>3, FS_AddElement
      <4> QED BY <2>1, <2>2, <2>3, <4>1, <4>2, <4>3, <4>4
    <3> QED BY <3>1, <3>2
  <2>7. /\ Cardinality(ListOf(1)') + Cardinality(Taken(1)') = Half
        /\ Cardinality(ListOf(0)') + Cardinality(Taken(0)') = Half
    BY <2>6 DEF ListOf
  <2>8. \A d \in {0, 1} : Cardinality(ListOf(d)') + Cardinality(Taken(d)') = Half
    BY <2>7 DEF ListOf, Taken
  <2>9. /\ \A k \in 1 .. Len(seated') : seated'[k].team = colors'[k]
        /\ colors' \in AssignColor(mode', MaxPlayers)
    BY <1>1, <1>4, <1>5, <1>6, <1>11
  <2> QED BY <1>11, <1>12, <2>8, <2>9 DEF Enough, Sitting
<1>15. Sides'
  <2>1. \A k \in 1 .. n : k = n \/ k \in 1 .. n - 1
    BY <1>4
  <2>2. RedSide' = RedSide /\ BlueSide' = BlueSide
    <3>1. \A x : (\E k \in 1 .. n : seated'[k].team = 1 /\ x = seated'[k].id)
                <=> (c = 1 /\ x = i) \/ \E k \in 1 .. n - 1 : seated[k].team = 1 /\ x = seated[k].id
      BY <1>4, <1>11, <2>1
    <3>2. \A x : (\E k \in 1 .. n : seated'[k].team = 0 /\ x = seated'[k].id)
                <=> (c = 0 /\ x = i) \/ \E k \in 1 .. n - 1 : seated[k].team = 0 /\ x = seated[k].id
      BY <1>4, <1>11, <2>1
    <3>3. /\ \A x : x \in RedSide <=> x \in red \/ \E k \in 1 .. n - 1 : seated[k].team = 1 /\ x = seated[k].id
          /\ \A x : x \in BlueSide <=> x \in blue \/ \E k \in 1 .. n - 1 : seated[k].team = 0 /\ x = seated[k].id
      BY <1>4 DEF RedSide, BlueSide
    <3>4. /\ \A x : x \in RedSide' <=> x \in red' \/ \E k \in 1 .. n : seated'[k].team = 1 /\ x = seated'[k].id
          /\ \A x : x \in BlueSide' <=> x \in blue' \/ \E k \in 1 .. n : seated'[k].team = 0 /\ x = seated'[k].id
      BY <1>11 DEF RedSide, BlueSide
    <3>5. (c = 1 /\ i \in red /\ red' = red \ {i} /\ blue' = blue)
          \/ (c = 0 /\ i \in blue /\ blue' = blue \ {i} /\ red' = red)
      BY <1>9 DEF ListOf
    <3>6. \A x : (x \in RedSide' <=> x \in RedSide) /\ (x \in BlueSide' <=> x \in BlueSide)
      BY <3>1, <3>2, <3>3, <3>4, <3>5
    <3> QED BY <3>6 DEF RedSide, BlueSide
  <2>3. Stayed' = Stayed /\ atStart' = atStart
    BY <1>1 DEF Stayed
  <2> QED BY <1>1, <2>2, <2>3 DEF Sides, SitApart, Sitting
<1>16. Once'
  <2> SUFFICES ASSUME moved' = {}
               PROVE  /\ red' \cap blue' = {}
                      /\ \A x \in Ids : x \in red' \cup blue' <=> SeatsOf(x)' = {}
                      /\ \A j, k \in 1 .. Len(seated') : seated'[j].id = seated'[k].id => j = k
    BY DEF Once
  <2>1. /\ red \cap blue = {}
        /\ \A x \in Ids : x \in red \cup blue <=> SeatsOf(x) = {}
        /\ \A j, k \in 1 .. Len(seated) : seated[j].id = seated[k].id => j = k
    BY <1>1 DEF Once, Sitting
  <2>2. i \in red \cup blue /\ red' \cup blue' = (red \cup blue) \ {i} /\ red' \cap blue' = {}
    BY <1>9, <2>1 DEF ListOf
  <2>3. \A k \in 1 .. n - 1 : seated[k].id # i
    <3>1. SeatsOf(i) = {}
      BY <1>10, <2>1, <2>2
    <3> QED BY <1>4, <3>1 DEF SeatsOf
  <2>4. \A k \in 1 .. n : k = n \/ k \in 1 .. n - 1
    BY <1>4
  <2>5. \A j, k \in 1 .. Len(seated') : seated'[j].id = seated'[k].id => j = k
    BY <1>4, <1>11, <2>1, <2>3, <2>4
  <2>6. ASSUME NEW x \in Ids
        PROVE  x \in red' \cup blue' <=> SeatsOf(x)' = {}
    <3>1. SeatsOf(x)' = {} <=> x # i /\ SeatsOf(x) = {}
      <4>1. SeatsOf(x) = {k \in 1 .. n - 1 : seated[k].id = x} /\ SeatsOf(x)' = {k \in 1 .. n : seated'[k].id = x}
        BY <1>4, <1>11 DEF SeatsOf
      <4> QED BY <1>4, <1>11, <2>4, <4>1
    <3> QED BY <2>1, <2>2, <3>1
  <2> QED BY <2>2, <2>5, <2>6
<1> QED BY <1>13, <1>14, <1>15, <1>16 DEF IInv

\* Who sits down stays on the side.
LEMMA SitStep ==
  ASSUME IInv, Sit
  PROVE  IInv'
<1>1. /\ TypeOK /\ LobbyLists /\ CopiedLists /\ Enough /\ Sides /\ Once /\ pc = "seat"
      /\ UNCHANGED <<teamA, teamB, setting, moves, mode, colors, atStart, moved>>
  BY DEF IInv, Sit, lists
<1>2. CASE RunsOut
  <2>1. pc' = "broken" /\ UNCHANGED <<red, blue, seated>>
    BY <1>2 DEF Sit
  <2>2. TypeOK' /\ LobbyLists' /\ CopiedLists'
    BY <1>1, <2>1 DEF TypeOK, LobbyLists, CopiedLists
  <2>3. mode' \notin ModesFor(MaxPlayers)
    BY <1>1, <1>2, NeverRunsOut
  <2>4. Enough' /\ Sides' /\ Once'
    BY <2>1, <2>3 DEF Enough, Sides, Once, Sitting
  <2> QED BY <2>2, <2>4 DEF IInv
<1>3. CASE ~RunsOut
  BY <1>1, <1>3, SitDownStep DEF Sit
<1> QED BY <1>2, <1>3

LEMMA StepKeeps == IInv /\ [Next]_vars => IInv'
<1> SUFFICES ASSUME IInv, [Next]_vars
             PROVE  IInv'
  OBVIOUS
<1>1. CASE \E i \in Ids : Leave(i)
  BY <1>1, LeaveStep
<1>2. CASE \E i \in Ids : \E t \in {"A", "B", "RANDOM"} : SetTeam(i, t)
  BY <1>2, SetTeamStep
<1>3. CASE JoinTeam
  BY <1>3, JoinTeamStep
<1>4. CASE AllReady \/ StartPlaying
  BY <1>4, ReadyStep
<1>5. CASE CopyA
  BY <1>5, CopyAStep
<1>6. CASE CopyB
  BY <1>6, CopyBStep
<1>7. CASE Fill
  BY <1>7, FillStep
<1>8. CASE Color
  BY <1>8, ColorStep
<1>9. CASE Sit
  BY <1>9, SitStep
<1>10. CASE UNCHANGED vars
  BY <1>10 DEF vars, lists, game, IInv, TypeOK, LobbyLists, CopiedLists, Stayed, Enough,
    Sitting, Taken, ListOf, Sides, SitApart, RedSide, BlueSide, Once, SeatsOf
<1> QED BY <1>1, <1>2, <1>3, <1>4, <1>5, <1>6, <1>7, <1>8, <1>9, <1>10 DEF Next

LEMMA Invariance == Spec => []IInv
BY InitHolds, StepKeeps, PTL DEF Spec

\* Lists, colours and seats stay in their ranges.
THEOREM TypeCorrect == Spec => []TypeOK
<1>1. IInv => TypeOK
  BY DEF IInv
<1> QED BY <1>1, Invariance, PTL

\* Nobody is left on a list when the last seat is taken.
LEMMA AllSeated ==
  ASSUME IInv, pc = "done"
  PROVE  /\ red = {} /\ blue = {} /\ Len(seated) = MaxPlayers
         /\ Cardinality(Taken(1)) = Half
<1>1. /\ TypeOK /\ Len(seated) = MaxPlayers
      /\ \A c \in {0, 1} : Cardinality(ListOf(c)) + Cardinality(Taken(c)) = Half
  BY DEF IInv, Enough, Sitting
<1>2. /\ Cardinality(red) + Cardinality(Taken(1)) = Half
      /\ Cardinality(blue) + Cardinality(Taken(0)) = Half
  BY <1>1 DEF ListOf
<1>3. /\ IsFiniteSet(Taken(1)) /\ Cardinality(Taken(1)) \in Nat
      /\ IsFiniteSet(Taken(0)) /\ Cardinality(Taken(0)) \in Nat
  BY <1>1, Sizes, TakenAreFinite
<1>4. Cardinality(Taken(1)) + Cardinality(Taken(0)) = MaxPlayers
  <2>1. \A k \in 1 .. Len(seated) : seated[k] \in [id : Ids, team : {0, 1}]
    <3>1. seated \in Seats
      BY <1>1 DEF TypeOK, Seats
    <3> QED BY <3>1, ElementOfSeq DEF Seats
  <2>2. Taken(1) \cup Taken(0) = 1 .. MaxPlayers /\ Taken(1) \cap Taken(0) = {}
    BY <1>1, <2>1 DEF Taken
  <2>3. Cardinality(1 .. MaxPlayers) = MaxPlayers /\ Cardinality({}) = 0
    BY Sizes, FS_Interval, FS_EmptySet
  <2>4. Cardinality(Taken(1) \cup Taken(0))
          = Cardinality(Taken(1)) + Cardinality(Taken(0)) - Cardinality(Taken(1) \cap Taken(0))
    BY <1>3, FS_Union
  <2>5. MaxPlayers = Cardinality(Taken(1)) + Cardinality(Taken(0)) - 0
    BY <2>2, <2>3, <2>4
  <2> QED BY <1>3, <2>5
<1>5. /\ IsFiniteSet(red) /\ Cardinality(red) \in Nat
      /\ IsFiniteSet(blue) /\ Cardinality(blue) \in Nat
  BY <1>1, PartsOfIds DEF TypeOK
<1>6. Cardinality(red) = 0 /\ Cardinality(blue) = 0 /\ Cardinality(Taken(1)) = Half
  BY <1>2, <1>3, <1>4, <1>5, Sizes
<1> QED BY <1>1, <1>5, <1>6, FS_EmptySet

LEMMA InvariantGivesSeats == IInv => EverybodySits
<1> SUFFICES ASSUME IInv, pc = "done"
             PROVE  /\ Cardinality({k \in 1 .. MaxPlayers : seated[k].team = 1}) = Half
                    /\ moved = {} => \A i \in Ids : Cardinality(SeatsOf(i)) = 1
  BY DEF IInv, Enough, EverybodySits
<1>1. red = {} /\ blue = {} /\ Len(seated) = MaxPlayers /\ Cardinality(Taken(1)) = Half
  BY AllSeated
<1>2. {k \in 1 .. MaxPlayers : seated[k].team = 1} = Taken(1)
  BY <1>1 DEF Taken
<1>3. ASSUME moved = {}, NEW i \in Ids
      PROVE  Cardinality(SeatsOf(i)) = 1
  <2>1. /\ SeatsOf(i) # {}
        /\ \A j, k \in 1 .. Len(seated) : seated[j].id = seated[k].id => j = k
    BY <1>1, <1>3 DEF IInv, Once, Sitting
  <2>2. PICK k \in SeatsOf(i) : SeatsOf(i) = {k}
    BY <2>1 DEF SeatsOf
  <2> QED BY <2>2, FS_Singleton
<1> QED BY <1>1, <1>2, <1>3

\* In any mode the list of a colour runs out only if the mode is not for so many
\* players; once all seats are taken both sides have as many, and everybody sits once
\* unless somebody changed teams while the lists were copied.
THEOREM EverybodyHasSeat == Spec => []EverybodySits
BY InvariantGivesSeats, Invariance, PTL

\* Who had chosen a team and stayed in it sits with it, and not with the other one.
THEOREM TeamsSitTogether == Spec => []TeamsAreKept
<1>1. IInv => TeamsAreKept
  <2> SUFFICES ASSUME IInv, pc = "done",
                      NEW i \in {k \in Ids \ moved : atStart[k] # "none"},
                      NEW j \in {k \in Ids \ moved : atStart[k] # "none"}
               PROVE  /\ SeatsOf(i) # {}
                      /\ \A k \in SeatsOf(i), l \in SeatsOf(j) :
                           (seated[k].team = seated[l].team) <=> (atStart[i] = atStart[j])
    BY DEF TeamsAreKept
  <2>1. red = {} /\ blue = {} /\ TypeOK /\ (SitApart("A", "B") \/ SitApart("B", "A"))
    BY AllSeated DEF IInv, Sides, Sitting
  <2>2. atStart[i] \in {"A", "B"} /\ atStart[j] \in {"A", "B"} /\ i \in Stayed /\ j \in Stayed
    BY <2>1 DEF TypeOK, Stayed
  <2>3. SeatsOf(i) # {}
    <3>1. i \in RedSide \/ i \in BlueSide
      BY <2>1, <2>2 DEF SitApart
    <3> QED BY <2>1, <3>1 DEF RedSide, BlueSide, SeatsOf
  <2>4. ASSUME NEW k \in SeatsOf(i), NEW l \in SeatsOf(j)
        PROVE  (seated[k].team = seated[l].team) <=> (atStart[i] = atStart[j])
    <3>1. /\ k \in 1 .. Len(seated) /\ seated[k].id = i
          /\ l \in 1 .. Len(seated) /\ seated[l].id = j
      BY DEF SeatsOf
    <3>2. seated[k].team \in {0, 1} /\ seated[l].team \in {0, 1}
      <4>1. seated \in Seats
        BY <2>1 DEF TypeOK, Seats
      <4>2. seated[k] \in [id : Ids, team : {0, 1}] /\ seated[l] \in [id : Ids, team : {0, 1}]
        BY <3>1, <4>1, ElementOfSeq DEF Seats
      <4> QED BY <4>2
    <3>3. /\ seated[k].team = 1 => i \in RedSide
          /\ seated[k].team = 0 => i \in BlueSide
          /\ seated[l].team = 1 => j \in RedSide
          /\ seated[l].team = 0 => j \in BlueSide
      BY <3>1 DEF RedSide, BlueSide
    <3> QED BY <2>1, <2>2, <3>2, <3>3 DEF SitApart
  <2> QED BY <2>3, <2>4
<1> QED BY <1>1, Invariance, PTL

\* The modes whose colours are even, whatever is drawn: all five for six players, four
\* of them for four and three for eight.
THEOREM ModesAreFair == Spec => []ModesFit
<1>1. ASSUME NEW n \in {4, 6, 8}, NEW m \in SeatModes
      PROVE  (m \in ModesFor(n)) <=> (\A c \in AssignColor(m, n) : IsEven(n, c))
  <2>1. CASE m \in ModesFor(n)
    <3>1. \A c \in AssignColor(m, n) : IsEven(n, c)
      BY <2>1, EveryModeFits DEF Fits
    <3> QED BY <2>1, <3>1
  <2>2. CASE m \notin ModesFor(n)
    <3>1. n \in {4, 8} /\ m \in {"3COMBO", "RBBRRB"} /\ (m = "RBBRRB" => n = 8)
      BY <2>2 DEF ModesFor, SeatModes
    <3>2. \E c \in AssignColor(m, n) : ~IsEven(n, c)
      BY <3>1, OthersAreNotEven
    <3> QED BY <2>2, <3>2
  <2> QED BY <2>1, <2>2
<1>2. ASSUME IInv, pc \in {"seat", "done"}, mode \in ModesFor(MaxPlayers)
      PROVE  IsEven(MaxPlayers, colors)
  <2>1. mode \in SeatModes /\ colors \in AssignColor(mode, MaxPlayers) /\ MaxPlayers \in {4, 6, 8}
    BY <1>2, IdsAssumption, ModesAssumption DEF IInv, TypeOK, Enough, Sitting
  <2> QED BY <1>1, <1>2, <2>1
<1>3. IInv => ModesFit
  BY <1>1, <1>2, ColoursOfModes DEF ModesFit
<1> QED BY <1>3, Invariance, PTL
-----------------------------------------------------------------------------
(* From the seats to the roles *)

\* When the last seat is taken, and nobody changed teams between the copies of the two
\* lists, the seats are what the drafts assume: every player on one, half of them red.
SeatsFitDraft == pc = "done" /\ moved = {} => FairSeating(seated, Ids)

THEOREM SeatsAreFair == Spec => []SeatsFitDraft
<1>1. IInv => EverybodySits
  BY InvariantGivesSeats
<1>2. IInv => SeatsFitDraft
  <2> SUFFICES ASSUME IInv, pc = "done", moved = {}
               PROVE  FairSeating(seated, Ids)
    BY DEF SeatsFitDraft
  <2>1. /\ Len(seated) = MaxPlayers /\ MaxPlayers \in {4, 6, 8} /\ MaxPlayers = Half + Half
        /\ Half \in {2, 3, 4}
    BY AllSeated, Sizes
  <2>2. seated \in Seq([id : Ids, team : Colors])
    <3>1. Colors = {0, 1}
      BY DEF Colors, RED, BLUE
    <3> QED BY <3>1 DEF IInv, TypeOK
  <2>3. {seated[k].id : k \in 1 .. Len(seated)} = Ids
    <3>1. \A k \in 1 .. Len(seated) : seated[k] \in [id : Ids, team : Colors]
      BY <2>2, ElementOfSeq
    <3>2. \A i \in Ids : SeatsOf(i) # {}
      <4>1. red = {} /\ blue = {}
        BY AllSeated
      <4>2. \A i \in Ids : i \in red \cup blue <=> SeatsOf(i) = {}
        BY DEF IInv, Once, Sitting
      <4> QED BY <4>1, <4>2
    <3> QED BY <3>1, <3>2 DEF SeatsOf
  <2>4. Cardinality({k \in 1 .. Len(seated) : seated[k].team = RED}) * 2 = Len(seated)
    <3>1. Cardinality({k \in 1 .. MaxPlayers : seated[k].team = 1}) = Half
      BY <1>1 DEF EverybodySits
    <3> QED BY <2>1, <3>1 DEF RED
  <2> QED BY <2>1, <2>2, <2>3, <2>4 DEF FairSeating
<1> QED BY <1>2, Invariance, PTL
-----------------------------------------------------------------------------
(* The invariant of the drafts *)

\* Who has only sent what he was offered has, or gets, a role of the game.
AnswersFit ==
  /\ top = "election" => strategy = "CM"
  /\ strategy \in {"31", "ANY"} =>
       \A i \in Players : answers[i] # NoAnswer => answers[i] \in Numbers
  /\ (strategy = "ANY" /\ top = "strategy") =>
       \A i \in Players \ stray : answers[i] # NoAnswer => answers[i] \in Roles
  /\ (strategy = "ANY" /\ top = "start") => \A i \in Players \ stray : role[i] \in Roles
  /\ (strategy = "RANDOM" /\ top = "start") =>
       /\ \A i \in Players : role[i] \in Roles
       /\ \A i, j \in Players : i # j => role[i] # role[j]

\* Five roles for each, and none for two.
Dealt(opts) ==
  /\ \A i \in Players : opts[i] \in Seq(Roles) /\ Len(opts[i]) = OptionNum
  /\ \A i, j \in Players : i # j => Range(opts[i]) \cap Range(opts[j]) = {}

\* The options are dealt before anybody answers, and are not dealt again.
OptionsStay ==
  strategy = "31" =>
    /\ (top = "strategy" /\ ~isSet) => answers = Nobody /\ phase = "handle"
    /\ (top = "strategy" => isSet) => Dealt(options)
    /\ top = "strategy" =>
         \A i \in Players \ stray : answers[i] # NoAnswer => answers[i] \in Range(options[i])
    /\ top = "start" => \A i \in Players \ stray : role[i] \in Range(options[i])

\* The steps of BP, who is asked in each, and the steps that are picks.
StepsOfBP == 1 .. 2 * NumPlayers
Turn      == [s \in StepsOfBP |-> BPSeat(s)]
Picks     == {s \in StepsOfBP : IsPick(s)}

\* Roles that are given, and to whom it is known that they were offered.
Given       == {i \in Players : role[i] # NoRole}
FairlyGiven == {i \in Given : chooser[i] \notin stray}

\* Two have the same role only if one of them was not given it fairly, whose own is
\* marked.
OneOfEach ==
  /\ \A i \in FairlyGiven : role[i] \in alternatives /\ mark[role[i]] # 0
  /\ \A i \in FairlyGiven : \A j \in FairlyGiven : role[i] = role[j] => i = j

\* The marks of BP are steps that are over, each on one role at most, and who picked
\* in the step of a mark has the role.
BPSteps ==
  strategy = "BP" =>
    /\ top = "start" => step = 2 * NumPlayers + 1
    /\ \A r \in alternatives : mark[r] < step
    /\ \A r, q \in alternatives : mark[r] = mark[q] /\ mark[r] # 0 => r = q
    /\ \A r \in alternatives : mark[r] \in Picks => role[Turn[mark[r]]] = r
    /\ \A s \in Picks : s < step => role[Turn[s]] # NoRole
    /\ OneOfEach

\* As long as nobody strays, the marks are all the steps that are over, and a player
\* has the role of the one pick that was his.
BPExact ==
  (strategy = "BP" /\ stray = {}) =>
    /\ \A s \in 1 .. step - 1 : \E r \in alternatives : mark[r] = s
    /\ \A i \in Given : mark[role[i]] \in Picks /\ Turn[mark[role[i]]] = i

\* Who picks in which step of CM, and with which mark.
StepsOfCM == 4 .. 9
Picker    == [s \in StepsOfCM |-> Nth(IF s % 2 = 0 THEN RED ELSE BLUE, (s - 4) \div 2)]
MarkOf    == [i \in Players |-> PICKED(TeamOf(i))]

\* The bans there may be until this step.
RedBans  == IF step <= 1 THEN 0 ELSE 1
BlueBans == IF step <= 2 THEN 0 ELSE IF step = 3 THEN 1 ELSE 2
MoreBans == [c \in Colors |-> IF mayIB[c] THEN 0 ELSE 1]

CMSteps ==
  strategy = "CM" =>
    /\ top = "start" => step = 10
    /\ step <= 10 /\ (top = "election" => step = 0)
    /\ top # "election" => \A c \in Colors : \E i \in Side(c) : leader[i]
    /\ step = 0 => mayIB = [c \in Colors |-> TRUE]
    /\ Marked(RED_BAN) <= RedBans /\ Marked(BLUE_BAN) <= BlueBans
    /\ Marked(IB(RED)) <= MoreBans[RED] /\ Marked(IB(BLUE)) <= MoreBans[BLUE]
    /\ \A s \in StepsOfCM : s < step => role[Picker[s]] # NoRole
    /\ OneOfEach

CMExact ==
  (strategy = "CM" /\ stray = {}) =>
    /\ Marked(RED_BAN) = RedBans /\ Marked(BLUE_BAN) = BlueBans
    /\ Marked(IB(RED)) = MoreBans[RED] /\ Marked(IB(BLUE)) = MoreBans[BLUE]
    /\ \A i \in Given : mark[role[i]] = MarkOf[i]

NothingDrawn ==
  step = 0 => /\ alternatives = {}
              /\ strategy \in {"BP", "CM"} => role = [i \in Players |-> NoRole]

DraftIInv == /\ DraftTypeOK /\ AnswersFit /\ OptionsStay /\ NothingDrawn
             /\ BPSteps /\ BPExact /\ CMSteps /\ CMExact
-----------------------------------------------------------------------------
(* The seats of a side, counted from 0 *)

SideSize == NumPlayers \div 2
SeatsIn(c) == {s \in 1 .. NumPlayers : Seating[s].team = c}

LEMMA SeatsTyped ==
  /\ NumPlayers \in {4, 6, 8} /\ SideSize \in {2, 3, 4} /\ NumPlayers = SideSize + SideSize
  /\ Seating \in [1 .. NumPlayers -> [id : Players, team : Colors]]
  /\ \A k \in 1 .. NumPlayers : Seating[k].id \in Players /\ Seating[k].team \in Colors
  /\ \A i \in Players : \E k \in 1 .. NumPlayers : Seating[k].id = i
<1>1. /\ NumPlayers \in {4, 6, 8} /\ Seating \in Seq([id : Players, team : Colors])
      /\ {Seating[k].id : k \in 1 .. NumPlayers} = Players
  BY SeatingAssumption DEF FairSeating, NumPlayers
<1>2. Seating \in [1 .. NumPlayers -> [id : Players, team : Colors]]
  <2>1. /\ Len(Seating) \in Nat /\ DOMAIN Seating = 1 .. Len(Seating)
        /\ Seating \in [1 .. Len(Seating) -> [id : Players, team : Colors]]
    BY <1>1, LenProperties
  <2> QED BY <2>1 DEF NumPlayers
<1>3. \A k \in 1 .. NumPlayers : Seating[k] \in [id : Players, team : Colors]
  BY <1>2
<1>4. SideSize \in {2, 3, 4} /\ NumPlayers = SideSize + SideSize
  BY <1>1 DEF SideSize
<1>5. \A k \in 1 .. NumPlayers : Seating[k].id \in Players /\ Seating[k].team \in Colors
  BY <1>3
<1> QED BY <1>1, <1>2, <1>4, <1>5

\* As many seats as players: nobody has two.
LEMMA OneSeatEach ==
  \A j, k \in 1 .. NumPlayers : Seating[j].id = Seating[k].id => j = k
<1> DEFINE f == [k \in 1 .. NumPlayers |-> Seating[k].id]
<1>1. f \in [1 .. NumPlayers -> Players]
  BY SeatsTyped
<1>2. \A i \in Players : \E k \in 1 .. NumPlayers : f[k] = i
  BY SeatsTyped
<1>3. f \in Surjection(1 .. NumPlayers, Players)
  BY <1>1, <1>2, Fun_IsSurj
<1>4. /\ IsFiniteSet(1 .. NumPlayers) /\ Cardinality(1 .. NumPlayers) = NumPlayers
      /\ Cardinality(Players) = NumPlayers
  <2>1. 1 \in Int /\ 0 \in Int /\ NumPlayers \in Int /\ NumPlayers - 1 \in Int /\ NumPlayers > 1
    BY SeatsTyped
  <2>2. /\ IsFiniteSet(1 .. NumPlayers)
        /\ Cardinality(1 .. NumPlayers) = IF 1 > NumPlayers THEN 0 ELSE NumPlayers - 1 + 1
    BY <2>1, FS_Interval
  <2>3. Cardinality(0 .. NumPlayers - 1)
          = IF 0 > NumPlayers - 1 THEN 0 ELSE (NumPlayers - 1) - 0 + 1
    BY <2>1, FS_Interval
  <2> QED BY <2>1, <2>2, <2>3 DEF Players
<1>5. f \in Injection(1 .. NumPlayers, Players)
  BY <1>3, <1>4, FS_SurjSameCardinalityImpliesInj
<1>6. \A j, k \in 1 .. NumPlayers : f[j] = f[k] => j = k
  BY <1>5, Fun_InjectionProperties
<1> QED BY <1>6

LEMMA TeamOfSeat ==
  ASSUME NEW k \in 1 .. NumPlayers
  PROVE  TeamOf(Seating[k].id) = Seating[k].team
<1>1. Range(Seating) = {Seating[j] : j \in 1 .. NumPlayers}
  BY SeatsTyped DEF Range
<1>2. \A s \in Range(Seating) : s.id = Seating[k].id => s = Seating[k]
  BY <1>1, OneSeatEach
<1>3. Seating[k] \in Range(Seating)
  BY <1>1
<1>4. (CHOOSE s \in Range(Seating) : s.id = Seating[k].id) = Seating[k]
  BY <1>2, <1>3
<1> QED BY <1>4 DEF TeamOf

LEMMA EverybodyHasTeam == \A i \in Players : TeamOf(i) \in Colors
<1> SUFFICES ASSUME NEW i \in Players
             PROVE  TeamOf(i) \in Colors
  OBVIOUS
<1>1. PICK k \in 1 .. NumPlayers : Seating[k].id = i
  BY SeatsTyped
<1>2. TeamOf(Seating[k].id) = Seating[k].team
  BY TeamOfSeat
<1> QED BY <1>1, <1>2, SeatsTyped

LEMMA SidesAreEven ==
  ASSUME NEW c \in Colors
  PROVE  IsFiniteSet(SeatsIn(c)) /\ Cardinality(SeatsIn(c)) = SideSize
<1>1. IsFiniteSet(1 .. NumPlayers) /\ Cardinality(1 .. NumPlayers) = NumPlayers
  <2>1. 1 \in Int /\ NumPlayers \in Int /\ NumPlayers > 1
    BY SeatsTyped
  <2>2. /\ IsFiniteSet(1 .. NumPlayers)
        /\ Cardinality(1 .. NumPlayers) = IF 1 > NumPlayers THEN 0 ELSE NumPlayers - 1 + 1
    BY <2>1, FS_Interval
  <2> QED BY <2>1, <2>2
<1>2. IsFiniteSet(SeatsIn(RED)) /\ IsFiniteSet(SeatsIn(BLUE))
  <2>1. SeatsIn(RED) \in SUBSET (1 .. NumPlayers) /\ SeatsIn(BLUE) \in SUBSET (1 .. NumPlayers)
    BY DEF SeatsIn
  <2> QED BY <1>1, <2>1, FS_Subset
<1>3. Cardinality(SeatsIn(RED)) \in Nat /\ Cardinality(SeatsIn(BLUE)) \in Nat
  BY <1>2, FS_CardinalityType
<1>4. Cardinality(SeatsIn(RED)) * 2 = NumPlayers
  <2>1. SeatsIn(RED) = {k \in 1 .. Len(Seating) : Seating[k].team = RED}
    BY DEF SeatsIn, NumPlayers
  <2> QED BY <2>1, SeatingAssumption DEF FairSeating, NumPlayers
<1>5. /\ (1 .. NumPlayers) \ SeatsIn(RED) = SeatsIn(BLUE)
      /\ (1 .. NumPlayers) \cap SeatsIn(RED) = SeatsIn(RED)
  BY SeatsTyped DEF SeatsIn, Colors, RED, BLUE
<1>6. Cardinality(SeatsIn(BLUE)) = NumPlayers - Cardinality(SeatsIn(RED))
  <2>1. Cardinality((1 .. NumPlayers) \ SeatsIn(RED))
          = Cardinality(1 .. NumPlayers) - Cardinality((1 .. NumPlayers) \cap SeatsIn(RED))
    BY <1>1, FS_Difference
  <2> QED BY <1>1, <1>5, <2>1
<1>7. Cardinality(SeatsIn(RED)) = SideSize /\ Cardinality(SeatsIn(BLUE)) = SideSize
  <2> DEFINE r == Cardinality(SeatsIn(RED))
             b == Cardinality(SeatsIn(BLUE))
  <2>1. NumPlayers \in {4, 6, 8} /\ SideSize \in {2, 3, 4} /\ NumPlayers = SideSize + SideSize
    BY SeatsTyped
  <2>2. r \in Nat /\ b \in Nat /\ r * 2 = NumPlayers /\ b = NumPlayers - r
    BY <1>3, <1>4, <1>6
  <2> HIDE DEF r, b
  <2>3. r = SideSize /\ b = SideSize
    BY <2>1, <2>2
  <2> QED BY <2>3 DEF r, b
<1> QED BY <1>2, <1>7 DEF Colors

\* The seats of a side before one of them: fewer than the side has, and fewer than
\* there are before the next.
LEMMA BeforeGrows ==
  ASSUME NEW c \in Colors
  PROVE  /\ \A s \in SeatsIn(c) : Before(s, c) \in 0 .. SideSize - 1
         /\ \A s, t \in SeatsIn(c) : s < t => Before(s, c) < Before(t, c)
<1> DEFINE Ahead(s) == {t \in 1 .. s - 1 : Seating[t].team = c}
<1>1. \A s \in SeatsIn(c) : Ahead(s) \in SUBSET SeatsIn(c) /\ s \notin Ahead(s)
  BY SeatsTyped DEF SeatsIn
<1>2. \A s, t \in SeatsIn(c) : s < t => Ahead(s) \in SUBSET Ahead(t) /\ s \in Ahead(t)
  BY SeatsTyped DEF SeatsIn
<1>3. \A s \in SeatsIn(c) : IsFiniteSet(Ahead(s)) /\ Cardinality(Ahead(s)) \in Nat
  BY <1>1, SidesAreEven, FS_Subset, FS_CardinalityType
<1>4. ASSUME NEW S, NEW T \in SUBSET S, IsFiniteSet(S), NEW x \in S, x \notin T
      PROVE  Cardinality(T) < Cardinality(S)
  <2>1. Cardinality(T) <= Cardinality(S) /\ IsFiniteSet(T)
    BY <1>4, FS_Subset
  <2>2. Cardinality(S) # Cardinality(T)
    BY <1>4, FS_Subset
  <2>3. Cardinality(S) \in Nat /\ Cardinality(T) \in Nat
    BY <1>4, <2>1, FS_CardinalityType
  <2> QED BY <2>1, <2>2, <2>3
<1>5. ASSUME NEW s \in SeatsIn(c)
      PROVE  Before(s, c) \in 0 .. SideSize - 1
  <2>1. Cardinality(Ahead(s)) < Cardinality(SeatsIn(c))
    BY <1>1, <1>4, SidesAreEven
  <2>2. Cardinality(Ahead(s)) \in Nat
    BY <1>3
  <2>3. Cardinality(SeatsIn(c)) = SideSize /\ SideSize \in Nat
    BY SidesAreEven, SeatsTyped
  <2>4. Before(s, c) = Cardinality(Ahead(s))
    BY DEF Before
  <2> HIDE DEF Ahead
  <2> QED BY <2>1, <2>2, <2>3, <2>4
<1>6. ASSUME NEW s \in SeatsIn(c), NEW t \in SeatsIn(c), s < t
      PROVE  Before(s, c) < Before(t, c)
  <2>1. Ahead(s) \in SUBSET Ahead(t) /\ s \in Ahead(t) /\ s \notin Ahead(s) /\ IsFiniteSet(Ahead(t))
    BY <1>1, <1>2, <1>3, <1>6
  <2>2. Cardinality(Ahead(s)) < Cardinality(Ahead(t))
    BY <1>4, <2>1
  <2> QED BY <2>2 DEF Before
<1> QED BY <1>5, <1>6

LEMMA SeatsAreCounted ==
  ASSUME NEW c \in Colors
  PROVE  /\ \A s, t \in SeatsIn(c) : Before(s, c) = Before(t, c) => s = t
         /\ \A k \in 0 .. SideSize - 1 : \E s \in SeatsIn(c) : Before(s, c) = k
<1> DEFINE f == [s \in SeatsIn(c) |-> Before(s, c)]
<1>1. \A s, t \in SeatsIn(c) : Before(s, c) = Before(t, c) => s = t
  <2> SUFFICES ASSUME NEW s \in SeatsIn(c), NEW t \in SeatsIn(c), s # t
               PROVE  Before(s, c) # Before(t, c)
    OBVIOUS
  <2>1. s < t \/ t < s
    BY SeatsTyped DEF SeatsIn
  <2>2. Before(s, c) \in Int /\ Before(t, c) \in Int
    BY BeforeGrows
  <2> QED BY <2>1, <2>2, BeforeGrows
<1>2. f \in [SeatsIn(c) -> 0 .. SideSize - 1]
  BY BeforeGrows
<1>3. \A s, t \in SeatsIn(c) : f[s] = f[t] => s = t
  BY <1>1
<1>4. f \in Injection(SeatsIn(c), 0 .. SideSize - 1)
  BY <1>2, <1>3, Fun_IsInj
<1>5. IsFiniteSet(0 .. SideSize - 1) /\ Cardinality(0 .. SideSize - 1) = SideSize
  <2>1. 0 \in Int /\ SideSize - 1 \in Int /\ SideSize > 0
    BY SeatsTyped
  <2>2. /\ IsFiniteSet(0 .. SideSize - 1)
        /\ Cardinality(0 .. SideSize - 1) = IF 0 > SideSize - 1 THEN 0 ELSE (SideSize - 1) - 0 + 1
    BY <2>1, FS_Interval
  <2>3. IF 0 > SideSize - 1 THEN FALSE ELSE (SideSize - 1) - 0 + 1 = SideSize
    BY SeatsTyped
  <2> QED BY <2>2, <2>3
<1>6. f \in Surjection(SeatsIn(c), 0 .. SideSize - 1)
  BY <1>4, <1>5, SidesAreEven, FS_Injection
<1>7. \A k \in 0 .. SideSize - 1 : \E s \in SeatsIn(c) : f[s] = k
  <2> HIDE DEF f
  <2> QED BY <1>6, Zenon DEF Surjection
<1> QED BY <1>1, <1>7

\* red[k] and blue[k] are the players of a side, each once.
LEMMA NthOfSide ==
  ASSUME NEW c \in Colors
  PROVE  /\ \A k \in 0 .. SideSize - 1 : Nth(c, k) \in Players /\ TeamOf(Nth(c, k)) = c
         /\ \A j, k \in 0 .. SideSize - 1 : Nth(c, j) = Nth(c, k) => j = k
         /\ \A i \in Side(c) : \E k \in 0 .. SideSize - 1 : Nth(c, k) = i
<1> DEFINE At(k) == CHOOSE s \in 1 .. NumPlayers : Seating[s].team = c /\ Before(s, c) = k
<1>1. \A k \in 0 .. SideSize - 1 : At(k) \in SeatsIn(c) /\ Before(At(k), c) = k
  BY SeatsAreCounted DEF SeatsIn
<1>2. \A k : Nth(c, k) = Seating[At(k)].id
  BY DEF Nth
<1>3. SeatsIn(c) \subseteq 1 .. NumPlayers /\ \A s \in SeatsIn(c) : Seating[s].team = c
  BY DEF SeatsIn
<1> HIDE DEF At
<1>4. \A k \in 0 .. SideSize - 1 : Nth(c, k) \in Players /\ TeamOf(Nth(c, k)) = c
  BY <1>1, <1>2, <1>3, TeamOfSeat, SeatsTyped
<1>5. ASSUME NEW j \in 0 .. SideSize - 1, NEW k \in 0 .. SideSize - 1, Nth(c, j) = Nth(c, k)
      PROVE  j = k
  <2>1. At(j) = At(k)
    BY <1>1, <1>2, <1>3, <1>5, OneSeatEach
  <2> QED BY <1>1, <2>1
<1>6. ASSUME NEW i \in Side(c)
      PROVE  \E k \in 0 .. SideSize - 1 : Nth(c, k) = i
  <2>1. PICK s \in 1 .. NumPlayers : Seating[s].id = i
    BY SeatsTyped DEF Side
  <2>2. s \in SeatsIn(c)
    BY <2>1, TeamOfSeat DEF Side, SeatsIn
  <2>3. Before(s, c) \in 0 .. SideSize - 1
    BY <2>2, BeforeGrows
  <2>4. At(Before(s, c)) = s
    BY <1>1, <2>2, <2>3, SeatsAreCounted
  <2> QED BY <1>2, <2>1, <2>3, <2>4
<1> QED BY <1>4, <1>5, <1>6
-----------------------------------------------------------------------------
(* Decks and options *)

LEMMA DeckFits ==
  ASSUME NEW d \in Decks
  PROVE  /\ Cardinality(Roles) \in Nat /\ NumPlayers <= Cardinality(Roles)
         /\ AlternativeNum \in 12 .. Cardinality(Roles)
         /\ d \in [1 .. Cardinality(Roles) -> Roles]
         /\ d \in Seq(Roles) /\ Len(d) = Cardinality(Roles)
         /\ \A j, k \in 1 .. Cardinality(Roles) : d[j] = d[k] => j = k
<1>1. Cardinality(Roles) \in Nat /\ Cardinality(Roles) >= AlternativeNum
  BY DecksAssumption, FS_CardinalityType
<1>2. d \in [1 .. Cardinality(Roles) -> Roles] /\ IsInjective(d)
  BY DecksAssumption
<1>3. AlternativeNum \in {12, 16, 20} /\ NumPlayers <= AlternativeNum
  BY SeatsTyped DEF AlternativeNum
<1>4. \A j, k \in 1 .. Cardinality(Roles) : d[j] = d[k] => j = k
  BY <1>2 DEF IsInjective
<1>5. d \in Seq(Roles) /\ Len(d) = Cardinality(Roles)
  <2>1. d \in Seq(Roles)
    BY <1>1, <1>2, SeqDef
  <2>2. Len(d) \in Nat /\ 1 .. Len(d) = 1 .. Cardinality(Roles)
    BY <1>2, <2>1, LenProperties
  <2> QED BY <1>1, <2>1, <2>2
<1> QED BY <1>1, <1>2, <1>3, <1>4, <1>5, SeatsTyped

\* Five from one deck for each: all different.
LEMMA DealtFive ==
  ASSUME "31" \in Strategies, NEW d \in Decks
  PROVE  Dealt([i \in Players |-> SubSeq(d, OptionNum * i + 1, OptionNum * (i + 1))])
<1> DEFINE from(i) == OptionNum * i + 1
           to(i)   == OptionNum * (i + 1)
           opt(i)  == SubSeq(d, from(i), to(i))
           L       == Cardinality(Roles)
<1>1. /\ d \in Seq(Roles) /\ Len(d) = Cardinality(Roles) /\ Cardinality(Roles) \in Nat
      /\ \A j, k \in 1 .. Cardinality(Roles) : d[j] = d[k] => j = k
  BY DeckFits
<1>2. 5 * NumPlayers <= L /\ L \in Nat /\ Len(d) = L
  BY <1>1, StrategyAssumption DEF OptionNum
<1>3. \A i \in Players : i \in 0 .. 7 /\ 5 * i + 5 <= L
  <2>1. \A i \in Players : i \in 0 .. 7 /\ i + 1 <= NumPlayers /\ NumPlayers \in Nat
    BY SeatsTyped DEF Players
  <2> HIDE DEF L
  <2> QED BY <1>2, <2>1
<1>4. ASSUME NEW i \in Players
      PROVE  /\ from(i) \in 1 .. Len(d) /\ to(i) \in 1 .. Len(d) /\ from(i) + 4 = to(i)
             /\ opt(i) \in Seq(Roles) /\ Len(opt(i)) = OptionNum
             /\ \A k \in 1 .. OptionNum : opt(i)[k] = d[OptionNum * i + k]
  <2>1. from(i) \in 1 .. Len(d) /\ to(i) \in 1 .. Len(d) /\ from(i) + 4 = to(i)
    <3> HIDE DEF L
    <3>1. i \in Nat /\ 5 * i + 5 <= L
      BY <1>3
    <3> QED BY <1>2, <3>1 DEF OptionNum
  <2> HIDE DEF from, to
  <2>2. /\ opt(i) \in Seq(Roles)
        /\ Len(opt(i)) = IF from(i) <= to(i) THEN to(i) - from(i) + 1 ELSE 0
        /\ \A k \in 1 .. to(i) - from(i) + 1 : opt(i)[k] = d[from(i) + k - 1]
    <3>1. from(i) \in Int /\ to(i) \in Int /\ \A k \in from(i) .. to(i) : d[k] \in Roles
      BY <1>1, <2>1, ElementOfSeq
    <3> QED BY <3>1, SubSeqProperties
  <2>3. \A k \in 1 .. OptionNum : from(i) + k - 1 = OptionNum * i + k
    BY <1>3 DEF OptionNum, from
  <2>4. to(i) - from(i) + 1 = OptionNum /\ from(i) <= to(i)
    BY <2>1 DEF OptionNum
  <2> QED BY <2>1, <2>2, <2>3, <2>4
<1>5. ASSUME NEW i \in Players, NEW j \in Players, i # j
      PROVE  Range(opt(i)) \cap Range(opt(j)) = {}
  <2> SUFFICES ASSUME NEW k \in 1 .. OptionNum, NEW l \in 1 .. OptionNum, opt(i)[k] = opt(j)[l]
               PROVE  FALSE
    <3>1. DOMAIN opt(i) = 1 .. OptionNum /\ DOMAIN opt(j) = 1 .. OptionNum
      BY <1>4, LenProperties
    <3> HIDE DEF opt
    <3> QED BY <3>1 DEF Range
  <2>1. d[OptionNum * i + k] = d[OptionNum * j + l]
    BY <1>4
  <2>2. OptionNum * i + k \in 1 .. Len(d) /\ OptionNum * j + l \in 1 .. Len(d)
    <3> HIDE DEF L
    <3>1. i \in Nat /\ 5 * i + 5 <= L /\ j \in Nat /\ 5 * j + 5 <= L
      BY <1>3
    <3>2. OptionNum = 5 /\ k \in 1 .. 5 /\ l \in 1 .. 5
      BY DEF OptionNum
    <3>3. 5 * i + k \in 1 .. L /\ 5 * j + l \in 1 .. L
      BY <1>2, <3>1, <3>2
    <3> QED BY <1>2, <3>2, <3>3
  <2>3. OptionNum * i + k = OptionNum * j + l
    BY <1>1, <2>1, <2>2
  <2> QED BY <1>3, <1>5, <2>3 DEF OptionNum
<1>6. [i \in Players |-> SubSeq(d, OptionNum * i + 1, OptionNum * (i + 1))]
        = [i \in Players |-> opt(i)]
  OBVIOUS
<1> HIDE DEF opt
<1> QED BY <1>4, <1>5, <1>6 DEF Dealt
-----------------------------------------------------------------------------
(* Questions to all *)

\* What is kept where nothing is marked or given and nobody strays, and in a strategy
\* that asks everybody.
LEMMA SameMarks ==
  ASSUME DraftIInv,
         UNCHANGED <<strategy, top, alternatives, mark, step, mayIB, leader, role, stray>>
  PROVE  NothingDrawn' /\ BPSteps' /\ BPExact' /\ CMSteps' /\ CMExact'
<1>1. Given' = Given
  BY DEF Given
<1>2. chooser' = chooser
  BY DEF chooser, Captain
<1>3. FairlyGiven' = FairlyGiven
  BY <1>1, <1>2 DEF FairlyGiven
<1>4. OneOfEach' <=> OneOfEach
  BY <1>3 DEF OneOfEach
<1>5. RedBans' = RedBans /\ BlueBans' = BlueBans /\ MoreBans' = MoreBans
  BY DEF RedBans, BlueBans, MoreBans
<1>6. NothingDrawn' /\ BPSteps' /\ BPExact'
  BY <1>1, <1>4 DEF DraftIInv, NothingDrawn, BPSteps, BPExact
<1>7. CMSteps' /\ CMExact'
  BY <1>1, <1>4, <1>5 DEF DraftIInv, CMSteps, CMExact, Marked
<1> QED BY <1>6, <1>7

LEMMA NoMarks ==
  ASSUME DraftIInv, strategy \in {"RANDOM", "31", "ANY"}, strategy' = strategy,
         alternatives' = alternatives, step' = step
  PROVE  NothingDrawn' /\ BPSteps' /\ BPExact' /\ CMSteps' /\ CMExact'
BY DEF DraftIInv, NothingDrawn, BPSteps, BPExact, CMSteps, CMExact

LEMMA DraftInitHolds == DraftInit => DraftIInv
<1> SUFFICES ASSUME DraftInit
             PROVE  DraftIInv
  OBVIOUS
<1>1. alternatives = {} /\ mark = <<>> /\ mark \in [{} -> 0 .. 2 * NumPlayers]
  BY DEF DraftInit
<1>2. DraftTypeOK
  <2>1. <<>> \in Seq(Roles) /\ 0 \in 0 .. MaxInterrupts /\ 0 \in 0 .. 2 * NumPlayers + 1
    BY SeatsTyped, InterruptsAssumption
  <2> QED BY <1>1, <2>1 DEF DraftInit, DraftTypeOK, Nobody
<1>3. AnswersFit /\ OptionsStay /\ NothingDrawn
  <2>1. strategy # "31" \/ (answers = Nobody /\ phase = "handle")
    BY DEF DraftInit
  <2> QED BY <2>1 DEF DraftInit, AnswersFit, OptionsStay, NothingDrawn, Nobody
<1>4. Given = {} /\ OneOfEach
  <2>1. Given = {}
    BY DEF DraftInit, Given
  <2>2. FairlyGiven = {}
    BY <2>1 DEF FairlyGiven
  <2> QED BY <2>1, <2>2 DEF OneOfEach
<1>5. BPSteps /\ BPExact
  BY <1>1, <1>4, SeatsTyped DEF DraftInit, BPSteps, BPExact, Picks, StepsOfBP
<1>6. CMSteps /\ CMExact
  <2>1. Cardinality({}) = 0
    BY FS_EmptySet
  <2>2. \A m : Marked(m) = 0
    BY <1>1, <2>1 DEF Marked
  <2>3. MoreBans[RED] = 0 /\ MoreBans[BLUE] = 0 /\ RedBans = 0 /\ BlueBans = 0
    BY DEF DraftInit, MoreBans, RedBans, BlueBans, Colors
  <2> QED BY <1>1, <1>4, <2>2, <2>3 DEF DraftInit, CMSteps, CMExact, StepsOfCM
<1> QED BY <1>2, <1>3, <1>5, <1>6 DEF DraftIInv

LEMMA AskAllStep == DraftIInv /\ AskAll => DraftIInv'
<1> SUFFICES ASSUME DraftIInv, AskAll
             PROVE  DraftIInv'
  OBVIOUS
<1> USE DEF DraftIInv
<1>1. strategy # "31" => options' = options
  BY DEF AskAll
<1>2. ASSUME strategy = "31"
      PROVE  Dealt(options')
  <2>1. top = "strategy"
    BY <1>2 DEF AskAll, AsksAll, AnswersFit
  <2>2. CASE isSet
    BY <1>2, <2>1, <2>2 DEF AskAll, Deal31, OptionsStay
  <2>3. CASE ~isSet
    <3>1. PICK d \in Decks :
            options' = [i \in Players |-> SubSeq(d, OptionNum * i + 1, OptionNum * (i + 1))]
      BY <1>2, <2>3 DEF AskAll, Deal31
    <3>2. "31" \in Strategies
      BY <1>2 DEF DraftTypeOK
    <3> QED BY <3>1, <3>2, DealtFive
  <2> QED BY <2>2, <2>3
<1>3. options' \in [Players -> Seq(Roles)]
  <2>1. CASE strategy = "31" /\ ~isSet
    <3>1. options' = [i \in Players |-> options'[i]]
      BY <2>1 DEF AskAll, Deal31
    <3>2. \A i \in Players : options'[i] \in Seq(Roles)
      BY <1>2, <2>1 DEF Dealt
    <3> QED BY <3>1, <3>2
  <2>2. CASE ~(strategy = "31" /\ ~isSet)
    BY <2>2 DEF AskAll, Deal31, DraftTypeOK
  <2> QED BY <2>1, <2>2
<1>4. DraftTypeOK'
  BY <1>3 DEF AskAll, DraftTypeOK, Nobody, draft
<1>5. AnswersFit'
  BY DEF AskAll, AnswersFit, Nobody, draft
<1>6. OptionsStay'
  <2> SUFFICES ASSUME strategy = "31"
               PROVE  OptionsStay'
    BY DEF AskAll, OptionsStay
  <2>1. top = "strategy" /\ top' = top /\ isSet' /\ stray' = stray
    BY DEF AskAll, AsksAll, AnswersFit
  <2>2. ASSUME NEW i \in Players \ stray, answers'[i] # NoAnswer
        PROVE  answers'[i] \in Range(options'[i])
    <3>1. isSet /\ answers' = answers
      BY <2>2 DEF AskAll, Nobody
    <3>2. options' = options
      BY <3>1 DEF AskAll, Deal31
    <3> QED BY <2>1, <2>2, <3>1, <3>2 DEF OptionsStay
  <2>3. Dealt(options)'
    BY <1>2 DEF Dealt
  <2> QED BY <2>1, <2>2, <2>3 DEF OptionsStay
<1>7. UNCHANGED <<strategy, top, alternatives, mark, step, mayIB, leader, role, stray>>
  BY DEF AskAll, draft
<1> QED BY <1>4, <1>5, <1>6, <1>7, SameMarks

LEMMA AnswerAllStep ==
  ASSUME DraftIInv, NEW i \in Players, AnswerAll(i)
  PROVE  DraftIInv'
<1> USE DEF DraftIInv
<1>1. /\ phase = "wait" /\ phase' = "wait" /\ top' = top /\ isSet' = isSet /\ AsksAll
      /\ options' = options /\ strategy' = strategy /\ role' = role /\ leader' = leader
      /\ UNCHANGED <<alternatives, mark, step, decided, mayIB, interrupts>>
  BY DEF AnswerAll, draft
<1>2. PICK a \in Numbers \cup {No, Yes} :
        /\ answers' = [answers EXCEPT ![i] = a]
        /\ top = "election" => stray' = stray
        /\ top = "strategy" =>
             a \in Numbers /\ stray' = (IF a \in Offered(i) THEN stray ELSE stray \cup {i})
  <2>1. CASE top = "election" /\ \E a \in {No, Yes} : answers' = [answers EXCEPT ![i] = a]
                              /\ stray' = stray
    BY <2>1
  <2>2. CASE top = "strategy" /\ \E n \in Numbers : Sends(i, n, Offered(i))
                              /\ answers' = [answers EXCEPT ![i] = n]
    BY <2>2 DEF Sends
  <2> QED BY <2>1, <2>2 DEF AnswerAll
<1>3. answers \in [Players -> Numbers \cup {NoAnswer, No, Yes}] /\ stray \subseteq Players
  BY DEF DraftTypeOK
<1>4. DraftTypeOK'
  <2>1. answers' \in [Players -> Numbers \cup {NoAnswer, No, Yes}]
    BY <1>2, <1>3
  <2>2. stray' \subseteq Players
    BY <1>1, <1>2, <1>3 DEF AsksAll
  <2> QED BY <1>1, <2>1, <2>2 DEF DraftTypeOK
<1>5. /\ \A j \in Players : answers'[j] = (IF j = i THEN a ELSE answers[j])
      /\ top = "strategy" => \A j \in Players \ stray' : j \in Players \ stray
      /\ (top = "strategy" /\ i \notin stray') => a \in Offered(i)
  BY <1>2, <1>3
<1>6. AnswersFit'
  <2>1. (strategy = "ANY" /\ top = "strategy") =>
          \A j \in Players \ stray' : answers'[j] # NoAnswer => answers'[j] \in Roles
    BY <1>5 DEF AnswersFit, Offered
  <2>2. strategy \in {"31", "ANY"} =>
          \A j \in Players : answers'[j] # NoAnswer => answers'[j] \in Numbers
    BY <1>1, <1>2, <1>5 DEF AsksAll, AnswersFit
  <2> QED BY <1>1, <2>1, <2>2 DEF AsksAll, AnswersFit
<1>7. OptionsStay'
  <2> SUFFICES ASSUME strategy = "31"
               PROVE  OptionsStay'
    BY <1>1 DEF OptionsStay
  <2>1. top = "strategy"
    BY <1>1 DEF AsksAll, AnswersFit
  <2>2. \A j \in Players \ stray' : answers'[j] # NoAnswer => answers'[j] \in Range(options[j])
    BY <1>5, <2>1 DEF OptionsStay, Offered
  <2>3. isSet /\ Dealt(options)
    BY <1>1, <2>1 DEF OptionsStay
  <2>4. Dealt(options)'
    BY <1>1, <2>3 DEF Dealt
  <2> QED BY <1>1, <2>1, <2>2, <2>3, <2>4 DEF OptionsStay
<1>8. NothingDrawn' /\ BPSteps' /\ BPExact' /\ CMSteps' /\ CMExact'
  <2>1. CASE top = "election"
    BY <1>1, <1>2, <2>1, SameMarks
  <2>2. CASE top = "strategy"
    BY <1>1, <2>2, NoMarks DEF AsksAll
  <2> QED BY <1>1, <2>1, <2>2 DEF AsksAll
<1> QED BY <1>4, <1>6, <1>7, <1>8

LEMMA InterruptStep == DraftIInv /\ Interrupt => DraftIInv'
<1> SUFFICES ASSUME DraftIInv, Interrupt
             PROVE  DraftIInv'
  OBVIOUS
<1> USE DEF DraftIInv
<1>1. DraftTypeOK'
  <2>1. interrupts' \in 0 .. MaxInterrupts
    BY InterruptsAssumption DEF Interrupt, DraftTypeOK
  <2> QED BY <2>1 DEF Interrupt, DraftTypeOK, draft
<1>2. AnswersFit' /\ OptionsStay'
  BY DEF Interrupt, AnswersFit, OptionsStay, Dealt, Nobody
<1>3. UNCHANGED <<strategy, top, alternatives, mark, step, mayIB, leader, role, stray>>
  BY DEF Interrupt, draft
<1> QED BY <1>1, <1>2, <1>3, SameMarks

\* Some of the side can be made captain.
LEMMA SideHasPlayers == \A c \in Colors : Side(c) # {} /\ Candidates(c) # {} /\ Candidates(c) \subseteq Side(c)
<1>1. ASSUME NEW c \in Colors
      PROVE  Side(c) # {}
  <2>1. 0 \in 0 .. SideSize - 1
    BY SeatsTyped
  <2>2. Nth(c, 0) \in Players /\ TeamOf(Nth(c, 0)) = c
    BY <2>1, NthOfSide
  <2> QED BY <2>2 DEF Side
<1> QED BY <1>1 DEF Candidates

LEMMA ElectionStep == DraftIInv /\ LeaderElection => DraftIInv'
<1> SUFFICES ASSUME DraftIInv, LeaderElection
             PROVE  DraftIInv'
  OBVIOUS
<1> USE DEF DraftIInv
<1>1. PICK r \in Candidates(RED), b \in Candidates(BLUE) :
        leader' = [i \in Players |-> i \in {r, b}]
  BY DEF LeaderElection
<1>2. DraftTypeOK'
  <2>1. leader' \in [Players -> BOOLEAN]
    BY <1>1
  <2> QED BY <2>1 DEF LeaderElection, DraftTypeOK, draft
<1>3. /\ strategy = "CM" /\ top = "election" /\ top' = "strategy" /\ strategy' = strategy
      /\ step = 0 /\ UNCHANGED <<alternatives, mark, step, mayIB, role, stray>>
  BY DEF LeaderElection, AnswersFit, CMSteps, draft
<1>4. AnswersFit' /\ OptionsStay' /\ BPSteps' /\ BPExact' /\ NothingDrawn'
  BY <1>3 DEF AnswersFit, OptionsStay, BPSteps, BPExact, NothingDrawn
<1>5. Given' = {} /\ Given = {}
  BY <1>3 DEF Given, NothingDrawn
<1>6. CMSteps'
  <2>1. \A c \in Colors : \E i \in Side(c) : leader'[i]
    <3>1. r \in Side(RED) /\ b \in Side(BLUE)
      BY <1>1, SideHasPlayers DEF Colors
    <3> QED BY <1>1, <3>1 DEF Side, Colors
  <2>2. RedBans' = RedBans /\ BlueBans' = BlueBans /\ MoreBans' = MoreBans
    BY <1>3 DEF RedBans, BlueBans, MoreBans
  <2>3. /\ Marked(RED_BAN)' = Marked(RED_BAN) /\ Marked(BLUE_BAN)' = Marked(BLUE_BAN)
        /\ Marked(IB(RED))' = Marked(IB(RED)) /\ Marked(IB(BLUE))' = Marked(IB(BLUE))
    BY <1>3 DEF Marked
  <2>4. FairlyGiven' = {}
    BY <1>5 DEF FairlyGiven
  <2>5. OneOfEach'
    BY <2>4 DEF OneOfEach
  <2> QED BY <1>3, <2>1, <2>2, <2>3, <2>5 DEF CMSteps, StepsOfCM
<1>7. CMExact'
  BY <1>3, <1>5 DEF CMExact, Marked, RedBans, BlueBans, MoreBans
<1> QED BY <1>2, <1>4, <1>6, <1>7

\* Who starts a game starts it with roles that exist; else the state stays.
LEMMA StartsOrStays ==
  ASSUME Starts
  PROVE  /\ phase' = "handle"
         /\ \/ top' = "start" /\ isSet' = FALSE
            \/ top' = top /\ isSet' = isSet
BY DEF Starts

LEMMA RolesOfAllStep == DraftIInv /\ RoleStrategyAll => DraftIInv'
<1> SUFFICES ASSUME DraftIInv, RoleStrategyAll
             PROVE  DraftIInv'
  OBVIOUS
<1> USE DEF DraftIInv
<1>1. /\ top = "strategy" /\ strategy' = strategy /\ options' = options /\ answers' = answers
      /\ strategy \in {"31", "ANY"} /\ stray' = stray /\ phase = "wait" /\ phase' = "handle"
      /\ \/ top' = "start" /\ isSet' = FALSE
         \/ top' = "strategy" /\ isSet' = isSet
      /\ UNCHANGED <<alternatives, mark, step, decided, mayIB, leader, interrupts>>
  BY StartsOrStays DEF RoleStrategyAll, draft
<1>2. \A i \in Players : role'[i] = (IF Answered(i) THEN answers[i]
                                     ELSE IF strategy = "31" THEN options[i][1] ELSE i + 1)
  BY DEF RoleStrategyAll
<1>3. ASSUME strategy = "31"
      PROVE  /\ Dealt(options) /\ isSet
             /\ \A i \in Players : options[i][1] \in Range(options[i])
             /\ \A i \in Players \ stray : role'[i] \in Range(options[i])
  <2>1. Dealt(options) /\ isSet
    BY <1>1, <1>3 DEF OptionsStay
  <2>2. ASSUME NEW i \in Players
        PROVE  options[i][1] \in Range(options[i])
    <3>1. options[i] \in Seq(Roles) /\ Len(options[i]) = 5
      BY <2>1 DEF Dealt, OptionNum
    <3>2. 1 \in DOMAIN options[i]
      BY <3>1, LenProperties
    <3> QED BY <3>2 DEF Range
  <2>3. \A i \in Players \ stray : answers[i] # NoAnswer => answers[i] \in Range(options[i])
    BY <1>1, <1>3 DEF OptionsStay
  <2> QED BY <1>2, <1>3, <2>1, <2>2, <2>3 DEF Answered
<1>4. ASSUME strategy = "ANY"
      PROVE  /\ \A i \in Players : i + 1 \in Roles
             /\ \A i \in Players \ stray : role'[i] \in Roles
  <2>1. "ANY" \in Strategies
    BY <1>4 DEF DraftTypeOK
  <2>2. \A i \in Players : i + 1 \in Roles
    BY <2>1, StrategyAssumption, SeatsTyped DEF Players
  <2> QED BY <1>1, <1>2, <1>4, <2>2 DEF Answered, AnswersFit
<1>5. role' \in [Players -> Numbers \cup {NoRole}]
  <2>1. ASSUME NEW i \in Players
        PROVE  role'[i] \in Numbers \cup {NoRole}
    <3>1. Answered(i) => role'[i] \in Numbers
      BY <1>1, <1>2 DEF AnswersFit, Answered
    <3>2. (~Answered(i) /\ strategy = "31") => role'[i] \in Roles
      <4> SUFFICES ASSUME ~Answered(i), strategy = "31"
                   PROVE  role'[i] \in Roles
        OBVIOUS
      <4>1. options[i] \in Seq(Roles) /\ Len(options[i]) = 5
        BY <1>3 DEF Dealt, OptionNum
      <4>2. options[i][1] \in Roles
        BY <4>1, ElementOfSeq
      <4> QED BY <1>2, <4>2
    <3>3. (~Answered(i) /\ strategy = "ANY") => role'[i] \in Roles
      BY <1>2, <1>4
    <3> QED BY <1>1, <3>1, <3>2, <3>3, DecksAssumption
  <2>2. role' = [i \in Players |-> role'[i]]
    BY DEF RoleStrategyAll
  <2> QED BY <2>1, <2>2
<1>6. DraftTypeOK'
  BY <1>1, <1>5 DEF DraftTypeOK
<1>7. AnswersFit'
  BY <1>1, <1>4 DEF AnswersFit
<1>8. OptionsStay'
  <2>1. strategy = "31" => Dealt(options)'
    BY <1>1, <1>3 DEF Dealt
  <2>2. (strategy = "31" /\ top' = "strategy") =>
          /\ isSet'
          /\ \A i \in Players \ stray' : answers'[i] # NoAnswer => answers'[i] \in Range(options'[i])
    BY <1>1, <1>3 DEF OptionsStay
  <2>3. (strategy = "31" /\ top' = "start") =>
          \A i \in Players \ stray' : role'[i] \in Range(options'[i])
    BY <1>1, <1>3
  <2> QED BY <1>1, <2>1, <2>2, <2>3 DEF OptionsStay
<1> QED BY <1>1, <1>6, <1>7, <1>8, NoMarks

LEMMA RandomStep == DraftIInv /\ RoleStrategyRandom => DraftIInv'
<1> SUFFICES ASSUME DraftIInv, RoleStrategyRandom
             PROVE  DraftIInv'
  OBVIOUS
<1> USE DEF DraftIInv
<1>1. PICK d \in Decks : role' = [i \in Players |-> d[i + 1]]
  BY DEF RoleStrategyRandom
<1>2. \A i \in Players : i + 1 \in 1 .. Cardinality(Roles) /\ i \in Int
  BY DeckFits, SeatsTyped DEF Players
<1>3. /\ \A i \in Players : role'[i] \in Roles
      /\ \A i, j \in Players : i # j => role'[i] # role'[j]
  <2>1. /\ d \in [1 .. Cardinality(Roles) -> Roles]
        /\ \A j, k \in 1 .. Cardinality(Roles) : d[j] = d[k] => j = k
    BY DeckFits
  <2>2. \A i, j \in Players : i # j => i + 1 # j + 1
    BY <1>2
  <2> QED BY <1>1, <1>2, <2>1, <2>2
<1>4. /\ strategy = "RANDOM" /\ strategy' = strategy /\ top' \in {"strategy", "start"}
      /\ phase' = "handle" /\ isSet' \in BOOLEAN
      /\ UNCHANGED <<answers, options, alternatives, mark, step, decided, mayIB, leader, stray,
                     interrupts>>
  BY StartsOrStays DEF RoleStrategyRandom, draft, DraftTypeOK
<1>5. DraftTypeOK'
  <2>1. role' \in [Players -> Numbers \cup {NoRole}]
    BY <1>1, <1>3, DecksAssumption
  <2> QED BY <1>4, <2>1 DEF DraftTypeOK
<1>6. AnswersFit' /\ OptionsStay'
  BY <1>3, <1>4 DEF AnswersFit, OptionsStay
<1> QED BY <1>4, <1>5, <1>6, NoMarks
-----------------------------------------------------------------------------
(* BP and CM *)

\* The steps of BP: everybody bans in one and picks in one, for his own side.
LEMMA TurnsOfBP ==
  /\ \A s \in StepsOfBP : BPSeat(s) \in Players /\ TeamOf(BPSeat(s)) = s % 2
  /\ \A s, t \in StepsOfBP : (BPSeat(s) = BPSeat(t) /\ (IsPick(s) <=> IsPick(t))) => s = t
  /\ \A i \in Players : /\ \E s \in StepsOfBP : IsPick(s) /\ BPSeat(s) = i
                        /\ \E s \in StepsOfBP : ~IsPick(s) /\ BPSeat(s) = i
<1>1. \A s \in StepsOfBP : s % 2 \in Colors /\ (s - 1) \div 4 \in 0 .. SideSize - 1
  BY SeatsTyped DEF StepsOfBP, Colors, RED, BLUE
<1>2. \A s \in StepsOfBP : BPSeat(s) \in Players /\ TeamOf(BPSeat(s)) = s % 2
  BY <1>1, NthOfSide DEF BPSeat
<1>3. ASSUME NEW s \in StepsOfBP, NEW t \in StepsOfBP,
             BPSeat(s) = BPSeat(t), IsPick(s) <=> IsPick(t)
      PROVE  s = t
  <2>1. s % 2 = t % 2
    BY <1>2, <1>3
  <2>2. (s - 1) \div 4 = (t - 1) \div 4
    BY <1>1, <1>3, <2>1, NthOfSide DEF BPSeat
  <2>3. s \in 1 .. 16 /\ t \in 1 .. 16
    BY SeatsTyped DEF StepsOfBP
  <2> QED BY <1>3, <2>1, <2>2, <2>3 DEF IsPick
<1>4. ASSUME NEW i \in Players
      PROVE  /\ \E s \in StepsOfBP : IsPick(s) /\ BPSeat(s) = i
             /\ \E s \in StepsOfBP : ~IsPick(s) /\ BPSeat(s) = i
  <2>1. PICK c \in Colors : TeamOf(i) = c
    BY EverybodyHasTeam
  <2>2. PICK k \in 0 .. SideSize - 1 : Nth(c, k) = i
    BY <2>1, NthOfSide DEF Side
  <2>3. ASSUME NEW s \in StepsOfBP, s % 2 = c, (s - 1) \div 4 = k
        PROVE  BPSeat(s) = i
    BY <2>2, <2>3 DEF BPSeat
  <2>4. k \in 0 .. 3 /\ c \in {0, 1} /\ k < SideSize
    BY SeatsTyped DEF Colors, RED, BLUE
  <2>5. 4 * k + 2 - c \in StepsOfBP /\ 4 * k + 4 - c \in StepsOfBP
    BY <2>4, SeatsTyped DEF StepsOfBP
  <2>6. /\ (4 * k + 2 - c) % 2 = c /\ ((4 * k + 2 - c) - 1) \div 4 = k /\ ~IsPick(4 * k + 2 - c)
        /\ (4 * k + 4 - c) % 2 = c /\ ((4 * k + 4 - c) - 1) \div 4 = k /\ IsPick(4 * k + 4 - c)
    BY <2>4 DEF IsPick
  <2> QED BY <2>3, <2>5, <2>6
<1> QED BY <1>2, <1>3, <1>4

LEMMA TurnsAndPicks ==
  /\ Turn \in [StepsOfBP -> Players] /\ Picks \subseteq StepsOfBP
  /\ \A s, t \in Picks : Turn[s] = Turn[t] => s = t
  /\ \A i \in Players : \E s \in Picks : Turn[s] = i
BY TurnsOfBP DEF Turn, Picks

\* Each player of a side is once the one to pick in CM.
LEMMA PickersOfCM ==
  ASSUME NumPlayers = 6
  PROVE  /\ Picker \in [StepsOfCM -> Players]
         /\ \A i \in Players : \E s \in StepsOfCM : Picker[s] = i
         /\ \A s \in StepsOfCM : TeamOf(Picker[s]) = (IF s % 2 = 0 THEN RED ELSE BLUE)
<1> DEFINE side(s) == IF s % 2 = 0 THEN RED ELSE BLUE
<1>1. SideSize = 3
  BY SeatsTyped
<1>2. \A s \in StepsOfCM : side(s) \in Colors /\ (s - 4) \div 2 \in 0 .. 2
  BY DEF StepsOfCM, Colors
<1>3. \A s \in StepsOfCM : Nth(side(s), (s - 4) \div 2) \in Players
                           /\ TeamOf(Nth(side(s), (s - 4) \div 2)) = side(s)
  <2> HIDE DEF side
  <2> QED BY <1>1, <1>2, NthOfSide
<1>4. ASSUME NEW i \in Players
      PROVE  \E s \in StepsOfCM : Picker[s] = i
  <2>1. PICK c \in Colors : TeamOf(i) = c
    BY EverybodyHasTeam
  <2>2. PICK k \in 0 .. 2 : Nth(c, k) = i
    BY <1>1, <2>1, NthOfSide DEF Side
  <2>3. PICK s \in StepsOfCM : s = 2 * k + 5 - c
    BY DEF StepsOfCM, Colors, RED, BLUE
  <2>4. side(s) = c /\ (s - 4) \div 2 = k
    BY <2>3 DEF Colors, RED, BLUE
  <2> QED BY <2>2, <2>4 DEF Picker
<1> QED BY <1>3, <1>4 DEF Picker

LEMMA OneElementMore ==
  ASSUME NEW A, IsFiniteSet(A), NEW B, NEW n, B \subseteq A \cup {n}
  PROVE  /\ Cardinality(A) \in Nat /\ Cardinality(B) \in Nat
         /\ Cardinality(B) <= Cardinality(A) + 1
         /\ (n \notin A /\ n \in B /\ A \subseteq B) => Cardinality(B) = Cardinality(A) + 1
         /\ n \notin B => Cardinality(B) <= Cardinality(A)
<1>1. IsFiniteSet(A \cup {n}) /\ Cardinality(A) \in Nat
  BY FS_AddElement, FS_CardinalityType
<1>2. Cardinality(A \cup {n}) = IF n \in A THEN Cardinality(A) ELSE Cardinality(A) + 1
  BY FS_AddElement
<1>3. IsFiniteSet(B) /\ Cardinality(B) <= Cardinality(A \cup {n})
  BY <1>1, FS_Subset
<1>4. Cardinality(B) \in Nat
  BY <1>3, FS_CardinalityType
<1>5. (n \notin A /\ n \in B /\ A \subseteq B) => Cardinality(B) = Cardinality(A) + 1
  <2>1. (n \in B /\ A \subseteq B) => B = A \cup {n}
    OBVIOUS
  <2> QED BY <1>2, <2>1
<1>6. n \notin B => Cardinality(B) <= Cardinality(A)
  <2>1. n \notin B => B \subseteq A
    OBVIOUS
  <2> QED BY <2>1, FS_Subset
<1> QED BY <1>1, <1>2, <1>3, <1>4, <1>5, <1>6

LEMMA SameChooser ==
  ASSUME strategy' = strategy, leader' = leader
  PROVE  chooser' = chooser
BY DEF chooser, Captain

\* A role that is given is a free one, or the chooser strays.
LEMMA StillOneOfEach ==
  ASSUME DraftTypeOK, OneOfEach, NEW n \in Numbers, NEW m \in Nat \ {0},
         alternatives' = alternatives, mark' = MarkedAs(n, m),
         strategy' = strategy, leader' = leader, stray \subseteq stray',
         \/ role' = role
         \/ \E p \in Players : /\ role' = [role EXCEPT ![p] = n]
                               /\ chooser[p] \notin stray' => n \in Unmarked
  PROVE  OneOfEach'
<1>1. chooser' = chooser
  BY SameChooser
<1>2. \A r \in alternatives : mark'[r] = (IF r = n THEN m ELSE mark[r])
  BY DEF MarkedAs
<1>3. \A i \in FairlyGiven' : i \in Players /\ role'[i] # NoRole /\ chooser[i] \notin stray'
                              /\ chooser[i] \notin stray
  BY <1>1 DEF FairlyGiven, Given
<1>4. \A i \in Players : (role[i] # NoRole /\ chooser[i] \notin stray) =>
        i \in FairlyGiven /\ role[i] \in alternatives /\ mark[role[i]] # 0
  BY DEF FairlyGiven, Given, OneOfEach
<1>5. CASE role' = role
  <2>1. \A i \in FairlyGiven' : i \in FairlyGiven
    BY <1>3, <1>4, <1>5
  <2> QED BY <1>2, <1>5, <2>1 DEF OneOfEach
<1>6. ASSUME NEW p \in Players, role' = [role EXCEPT ![p] = n],
             chooser[p] \notin stray' => n \in Unmarked
      PROVE  OneOfEach'
  <2>1. \A i \in Players : role'[i] = (IF i = p THEN n ELSE role[i])
    BY <1>6 DEF DraftTypeOK
  <2>2. \A i \in FairlyGiven' : i = p => n \in alternatives /\ mark[n] = 0
    BY <1>3, <1>6 DEF Unmarked
  <2>3. \A i \in FairlyGiven' : i # p =>
          /\ i \in FairlyGiven /\ role'[i] = role[i]
          /\ role[i] \in alternatives /\ mark[role[i]] # 0
    BY <1>3, <1>4, <2>1
  <2>4. \A i \in FairlyGiven' : role'[i] \in alternatives /\ mark'[role'[i]] # 0
    BY <1>2, <1>3, <2>1, <2>2, <2>3
  <2>5. \A i \in FairlyGiven' : \A j \in FairlyGiven' : role'[i] = role'[j] => i = j
    BY <1>3, <2>1, <2>2, <2>3 DEF OneOfEach
  <2> QED BY <2>4, <2>5 DEF OneOfEach
<1> QED BY <1>5, <1>6

LEMMA DrawStep == DraftIInv /\ DrawAlternatives => DraftIInv'
<1> SUFFICES ASSUME DraftIInv, DrawAlternatives
             PROVE  DraftIInv'
  OBVIOUS
<1> USE DEF DraftIInv
<1>1. PICK d \in Decks : alternatives' = Range(SubSeq(d, 1, AlternativeNum))
  BY DEF DrawAlternatives
<1>2. alternatives' \subseteq Roles
  <2>1. d \in Seq(Roles) /\ AlternativeNum \in 1 .. Len(d)
    BY DeckFits
  <2>2. AlternativeNum \in Int /\ \A k \in 1 .. AlternativeNum : d[k] \in Roles
    BY <2>1, ElementOfSeq
  <2>3. SubSeq(d, 1, AlternativeNum) \in Seq(Roles)
    BY <2>2, SubSeqProperties
  <2>4. \A k \in DOMAIN SubSeq(d, 1, AlternativeNum) : SubSeq(d, 1, AlternativeNum)[k] \in Roles
    BY <2>3, LenProperties, ElementOfSeq
  <2> QED BY <1>1, <2>4 DEF Range
<1>3. /\ step = 0 /\ step' = 1 /\ strategy \in {"BP", "CM"} /\ strategy' = strategy
      /\ top = "strategy" /\ top' = top /\ role' = role /\ mayIB' = mayIB
      /\ role = [i \in Players |-> NoRole] /\ leader' = leader
      /\ mark' = [r \in alternatives' |-> 0]
  BY DEF DrawAlternatives, OneByOne, NothingDrawn
<1>4. DraftTypeOK'
  <2>1. mark' \in [alternatives' -> 0 .. 2 * NumPlayers] /\ step' \in 0 .. 2 * NumPlayers + 1
    BY <1>3, SeatsTyped
  <2> QED BY <1>2, <2>1 DEF DrawAlternatives, DraftTypeOK
<1>5. AnswersFit' /\ OptionsStay' /\ NothingDrawn'
  BY <1>3 DEF AnswersFit, OptionsStay, NothingDrawn
<1>6. Given' = {} /\ OneOfEach'
  <2>1. Given' = {}
    BY <1>3 DEF Given
  <2>2. FairlyGiven' = {}
    BY <2>1 DEF FairlyGiven
  <2> QED BY <2>1, <2>2 DEF OneOfEach
<1>7. BPSteps' /\ BPExact'
  <2>1. 0 \notin Picks /\ \A s \in Picks : ~(s < 1)
    BY SeatsTyped DEF Picks, StepsOfBP
  <2>2. 1 .. 1 - 1 = {}
    OBVIOUS
  <2>3. \A r \in alternatives' : mark'[r] = 0
    BY <1>3
  <2>4. BPExact'
    BY <1>3, <1>6, <2>2 DEF BPExact
  <2>5. BPSteps'
    BY <1>3, <1>6, <2>1, <2>3 DEF BPSteps
  <2> QED BY <2>4, <2>5
<1>8. CMSteps' /\ CMExact'
  <2> SUFFICES ASSUME strategy = "CM"
               PROVE  CMSteps' /\ CMExact'
    BY <1>3 DEF CMSteps, CMExact
  <2>1. MoreBans'[RED] = 0 /\ MoreBans'[BLUE] = 0 /\ RedBans' = 0 /\ BlueBans' = 0
    <3>1. mayIB' = [c \in Colors |-> TRUE]
      BY <1>3 DEF CMSteps
    <3> QED BY <1>3, <3>1 DEF MoreBans, RedBans, BlueBans, Colors
  <2>2. \A m \in Nat \ {0} : Cardinality({r \in alternatives' : mark'[r] = m}) = 0
    <3>1. \A m \in Nat \ {0} : {r \in alternatives' : mark'[r] = m} = {}
      BY <1>3
    <3> QED BY <3>1, FS_EmptySet
  <2>3. /\ Marked(RED_BAN)' = 0 /\ Marked(BLUE_BAN)' = 0
        /\ Marked(IB(RED))' = 0 /\ Marked(IB(BLUE))' = 0
    BY <2>2 DEF Marked, RED_BAN, BLUE_BAN, IB, RED, BLUE
  <2> QED BY <1>3, <1>6, <2>1, <2>3 DEF CMSteps, CMExact, StepsOfCM
<1> QED BY <1>4, <1>5, <1>7, <1>8

LEMMA AskOneStep == DraftIInv /\ (AskOne \/ AskAgain) => DraftIInv'
<1> SUFFICES ASSUME DraftIInv, AskOne \/ AskAgain
             PROVE  DraftIInv'
  OBVIOUS
<1> USE DEF DraftIInv
<1>1. strategy \in {"BP", "CM"} /\ strategy' = strategy /\ top' = top /\ top = "strategy"
  BY DEF AskOne, AskAgain, InLoop, OneByOne
<1>2. UNCHANGED <<strategy, top, alternatives, mark, step, mayIB, leader, role, stray>>
  BY DEF AskOne, AskAgain, draft
<1>3. DraftTypeOK'
  BY DEF AskOne, AskAgain, draft, DraftTypeOK, Nobody
<1>4. AnswersFit' /\ OptionsStay'
  BY <1>1 DEF AnswersFit, OptionsStay
<1> QED BY <1>2, <1>3, <1>4, SameMarks

\* The end of a round, in BP and CM.
LEMMA RoundEnds ==
  ASSUME DraftIInv, NextStep, InLoop
  PROVE  /\ step \in 1 .. LastStep /\ step' = step + 1 /\ LastStep <= 2 * NumPlayers
         /\ top' \in {"strategy", "start"} /\ (top' = "start" => step = LastStep)
         /\ step' \in 0 .. 2 * NumPlayers + 1 /\ phase' = "handle" /\ isSet' \in BOOLEAN
<1>1. DraftTypeOK /\ top = "strategy" /\ strategy \in {"BP", "CM"} /\ step \in 1 .. LastStep
  BY DEF DraftIInv, InLoop, OneByOne
<1>2. strategy = "CM" => NumPlayers = 6
  BY <1>1, StrategyAssumption DEF DraftTypeOK
<1>3. LastStep \in Nat /\ NumPlayers \in Nat /\ LastStep <= 2 * NumPlayers
  BY <1>1, <1>2, SeatsTyped DEF LastStep
<1>4. step' = step + 1 /\ (step = LastStep => Starts)
      /\ (step # LastStep => top' = top /\ phase' = "handle" /\ isSet' = isSet)
  BY DEF NextStep
<1>5. isSet \in BOOLEAN
  BY <1>1 DEF DraftTypeOK
<1>6. /\ top' \in {"strategy", "start"} /\ (top' = "start" => step = LastStep)
      /\ phase' = "handle" /\ isSet' \in BOOLEAN
  BY <1>1, <1>4, <1>5, StartsOrStays
<1> QED BY <1>1, <1>3, <1>4, <1>6

LEMMA BPStep == DraftIInv /\ BP => DraftIInv'
<1> SUFFICES ASSUME DraftIInv, BP
             PROVE  DraftIInv'
  OBVIOUS
<1> USE DEF DraftIInv
<1>1. PICK n \in Numbers :
        /\ stray' = (IF n \in Unmarked THEN stray ELSE stray \cup {BPSeat(step)})
        /\ mark' = MarkedAs(n, step)
        /\ role' = IF IsPick(step) THEN [role EXCEPT ![BPSeat(step)] = n] ELSE role
  BY DEF BP, Sends
<1>2. /\ strategy = "BP" /\ strategy' = strategy /\ top = "strategy"
      /\ alternatives' = alternatives /\ InLoop /\ NextStep
      /\ UNCHANGED <<answers, options, decided, mayIB, leader, interrupts>>
  BY DEF BP, InLoop, OneByOne
<1>3. /\ step \in StepsOfBP /\ step' = step + 1 /\ step \in Nat \ {0}
      /\ top' \in {"strategy", "start"} /\ (top' = "start" => step = 2 * NumPlayers)
      /\ step' \in 0 .. 2 * NumPlayers + 1 /\ phase' = "handle" /\ isSet' \in BOOLEAN
  BY <1>2, RoundEnds DEF LastStep, StepsOfBP
<1>4. /\ alternatives \subseteq Roles /\ mark \in [alternatives -> 0 .. 2 * NumPlayers]
      /\ role \in [Players -> Numbers \cup {NoRole}] /\ n # NoRole /\ stray \subseteq Players
      /\ NumPlayers \in Nat
  BY DecksAssumption, SeatsTyped DEF DraftTypeOK, NoRole
<1>5. BPSeat(step) \in Players /\ BPSeat(step) = Turn[step] /\ (IsPick(step) <=> step \in Picks)
  BY <1>3, TurnsOfBP DEF Turn, Picks
<1>6. role' = IF step \in Picks THEN [role EXCEPT ![Turn[step]] = n] ELSE role
  BY <1>1, <1>5
<1>7. /\ \A q \in alternatives : mark'[q] = (IF q = n THEN step ELSE mark[q])
      /\ \A q \in alternatives : mark[q] \in Nat /\ mark[q] < step
  BY <1>1, <1>2, <1>4 DEF BPSteps, MarkedAs
<1>8. \A i \in Players : role'[i] = (IF step \in Picks /\ i = Turn[step] THEN n ELSE role[i])
  BY <1>4, <1>6
<1>9. DraftTypeOK'
  <2>1. mark' \in [alternatives' -> 0 .. 2 * NumPlayers]
    <3>1. step \in 0 .. 2 * NumPlayers
      BY <1>3, SeatsTyped DEF StepsOfBP
    <3> QED BY <1>1, <1>2, <1>4, <3>1 DEF MarkedAs
  <2>2. role' \in [Players -> Numbers \cup {NoRole}]
    BY <1>4, <1>6
  <2>3. stray' \subseteq Players
    BY <1>1, <1>4, <1>5
  <2> QED BY <1>2, <1>3, <2>1, <2>2, <2>3 DEF DraftTypeOK
<1>10. AnswersFit' /\ OptionsStay' /\ CMSteps' /\ CMExact' /\ NothingDrawn'
  BY <1>2, <1>3 DEF AnswersFit, OptionsStay, CMSteps, CMExact, NothingDrawn
<1>11. BPSteps'
  <2>1. top' = "start" => step' = 2 * NumPlayers + 1
    BY <1>3, SeatsTyped
  <2>2. \A q \in alternatives : mark'[q] < step'
    BY <1>3, <1>7
  <2>3. \A q, p \in alternatives : mark'[q] = mark'[p] /\ mark'[q] # 0 => q = p
    BY <1>2, <1>3, <1>7 DEF BPSteps
  <2>4. ASSUME NEW q \in alternatives, mark'[q] \in Picks
        PROVE  role'[Turn[mark'[q]]] = q
    <3>1. CASE q = n
      <4>1. step \in Picks /\ mark'[q] = step
        BY <1>7, <2>4, <3>1
      <4> QED BY <1>5, <1>8, <3>1, <4>1
    <3>2. CASE q # n
      <4>1. mark'[q] = mark[q] /\ mark[q] \in Picks /\ mark[q] # step
        BY <1>3, <1>7, <2>4, <3>2
      <4>2. role[Turn[mark[q]]] = q
        BY <1>2, <4>1 DEF BPSteps
      <4>3. step \in Picks => Turn[mark[q]] # Turn[step]
        BY <4>1, TurnsAndPicks
      <4>4. Turn[mark[q]] \in Players
        BY <4>1, TurnsAndPicks
      <4> QED BY <1>8, <4>1, <4>2, <4>3, <4>4
    <3> QED BY <3>1, <3>2
  <2>5. ASSUME NEW s \in Picks, s < step'
        PROVE  role'[Turn[s]] # NoRole
    <3>1. Turn[s] \in Players /\ s \in Nat
      BY TurnsAndPicks, SeatsTyped DEF StepsOfBP, Picks
    <3>2. s = step \/ s < step
      BY <1>3, <2>5, <3>1
    <3>3. s < step => role[Turn[s]] # NoRole
      BY <1>2 DEF BPSteps
    <3> QED BY <1>4, <1>8, <3>1, <3>2, <3>3
  <2>6. OneOfEach'
    <3>1. chooser[Turn[step]] = BPSeat(step)
      BY <1>2, <1>5 DEF chooser
    <3>2. chooser[Turn[step]] \notin stray' => n \in Unmarked
      BY <1>1, <3>1
    <3>3. stray \subseteq stray'
      BY <1>1
    <3>4. \/ role' = role
          \/ \E p \in Players : /\ role' = [role EXCEPT ![p] = n]
                                /\ chooser[p] \notin stray' => n \in Unmarked
      BY <1>5, <1>6, <3>2
    <3>5. OneOfEach
      BY <1>2 DEF BPSteps
    <3> QED BY <1>1, <1>2, <1>3, <3>3, <3>4, <3>5, StillOneOfEach
  <2> QED BY <1>2, <2>1, <2>2, <2>3, <2>4, <2>5, <2>6 DEF BPSteps
<1>12. BPExact'
  <2> SUFFICES ASSUME stray' = {}
               PROVE  BPExact'
    BY DEF BPExact
  <2>1. stray = {} /\ n \in alternatives /\ mark[n] = 0
    BY <1>1 DEF Unmarked
  <2>2. \A s \in 1 .. step' - 1 : \E q \in alternatives : mark'[q] = s
    <3> SUFFICES ASSUME NEW s \in 1 .. step' - 1
                 PROVE  \E q \in alternatives : mark'[q] = s
      OBVIOUS
    <3>1. CASE s = step
      BY <1>7, <2>1, <3>1
    <3>2. CASE s # step
      <4>1. s \in 1 .. step - 1
        BY <1>3, <3>2
      <4>2. PICK q \in alternatives : mark[q] = s
        BY <1>2, <2>1, <4>1 DEF BPExact
      <4>3. q # n
        BY <2>1, <4>1, <4>2
      <4> QED BY <1>7, <4>2, <4>3
    <3> QED BY <3>1, <3>2
  <2>3. ASSUME NEW i \in Players, role'[i] # NoRole
        PROVE  mark'[role'[i]] \in Picks /\ Turn[mark'[role'[i]]] = i
    <3>1. CASE step \in Picks /\ i = Turn[step]
      BY <1>7, <1>8, <2>1, <3>1
    <3>2. CASE ~(step \in Picks /\ i = Turn[step])
      <4>1. role'[i] = role[i]
        BY <1>8, <3>2
      <4>2. i \in Given /\ i \in FairlyGiven
        BY <2>1, <2>3, <4>1 DEF Given, FairlyGiven
      <4>3. mark[role[i]] \in Picks /\ Turn[mark[role[i]]] = i /\ role[i] \in alternatives
        BY <1>2, <2>1, <4>2 DEF BPExact, BPSteps, OneOfEach
      <4>4. role[i] # n
        BY <2>1, <4>3 DEF Picks, StepsOfBP
      <4> QED BY <1>7, <4>1, <4>3, <4>4
    <3> QED BY <3>1, <3>2
  <2> QED BY <1>2, <2>2, <2>3 DEF BPExact, Given
<1> QED BY <1>9, <1>10, <1>11, <1>12

\* In CM somebody leads each side when its captain is asked.
LEMMA CaptainOfSide ==
  ASSUME DraftIInv, strategy = "CM", top = "strategy", NEW c \in Colors
  PROVE  Captain(c) \in Side(c) /\ Captain(c) \in Players
<1>1. \E i \in Side(c) : leader[i]
  BY DEF DraftIInv, CMSteps
<1> QED BY <1>1 DEF Captain, Side

\* How many alternatives have a mark of those of bans.
Bans == [k \in {2, 3, 5, 6} |-> Cardinality({r \in alternatives : mark[r] = k})]

\* A mark of CM: what every step of it keeps.
LEMMA MarkInCM ==
  ASSUME DraftIInv, strategy = "CM", NEW n \in Numbers, NEW m \in 1 .. 7,
         mark' = MarkedAs(n, m), alternatives' = alternatives
  PROVE  /\ NumPlayers = 6 /\ n # NoRole
         /\ mark' \in [alternatives' -> 0 .. 2 * NumPlayers]
         /\ \A q \in alternatives : mark'[q] = (IF q = n THEN m ELSE mark[q])
         /\ \A k \in {2, 3, 5, 6} :
              /\ Bans[k] \in Nat
              /\ Bans'[k] \in Nat
              /\ Bans'[k] <= Bans[k] + (IF m = k THEN 1 ELSE 0)
              /\ n \in Unmarked => Bans'[k] = Bans[k] + (IF m = k THEN 1 ELSE 0)
<1> USE DEF DraftIInv
<1>1. NumPlayers = 6
  BY StrategyAssumption DEF DraftTypeOK
<1>2. /\ alternatives \subseteq Roles /\ mark \in [alternatives -> 0 .. 2 * NumPlayers]
      /\ n # NoRole
  BY DecksAssumption DEF DraftTypeOK, NoRole
<1>3. IsFiniteSet(alternatives) /\ mark \in [alternatives -> Nat]
  <2>1. IsFiniteSet(alternatives)
    BY <1>2, DecksAssumption, FS_Subset
  <2>2. 0 .. 2 * NumPlayers \subseteq Nat
    BY <1>1
  <2> QED BY <1>2, <2>1, <2>2
<1>4. mark' \in [alternatives' -> 0 .. 2 * NumPlayers]
  BY <1>1, <1>2 DEF MarkedAs
<1>5. \A q \in alternatives : mark'[q] = (IF q = n THEN m ELSE mark[q])
  BY DEF MarkedAs
<1>6. ASSUME NEW k \in {2, 3, 5, 6}
      PROVE  /\ Bans[k] \in Nat
             /\ Bans'[k] \in Nat
             /\ Bans'[k] <= Bans[k] + (IF m = k THEN 1 ELSE 0)
             /\ n \in Unmarked => Bans'[k] = Bans[k] + (IF m = k THEN 1 ELSE 0)
  <2> DEFINE A == {r \in alternatives : mark[r] = k}
             B == {r \in alternatives : mark'[r] = k}
  <2>1. IsFiniteSet(A)
    BY <1>3, FS_Subset
  <2>2. /\ B \subseteq A \cup {n}
        /\ m # k => n \notin B
        /\ n \in Unmarked => /\ n \notin A
                             /\ m = k => n \in B /\ A \subseteq B
                             /\ m # k => B = A
    BY <1>5 DEF Unmarked
  <2>3. Bans[k] = Cardinality(A) /\ Bans'[k] = Cardinality(B)
    BY DEF Bans
  <2> HIDE DEF A, B
  <2>4. /\ Cardinality(A) \in Nat /\ Cardinality(B) \in Nat
        /\ Cardinality(B) <= Cardinality(A) + 1
        /\ (n \notin A /\ n \in B /\ A \subseteq B) => Cardinality(B) = Cardinality(A) + 1
        /\ n \notin B => Cardinality(B) <= Cardinality(A)
    BY <2>1, <2>2, OneElementMore
  <2>5. /\ Cardinality(B) <= Cardinality(A) + (IF m = k THEN 1 ELSE 0)
        /\ n \in Unmarked => Cardinality(B) = Cardinality(A) + (IF m = k THEN 1 ELSE 0)
    <3>1. CASE m = k
      BY <2>2, <2>4, <3>1
    <3>2. CASE m # k
      <4>1. n \in Unmarked => Cardinality(B) = Cardinality(A)
        BY <2>2, <3>2
      <4> QED BY <2>2, <2>4, <3>2, <4>1
    <3> QED BY <3>1, <3>2
  <2> QED BY <2>3, <2>4, <2>5
<1> QED BY <1>1, <1>2, <1>4, <1>5, <1>6

\* The four kinds of bans, by their marks.
LEMMA BanMarks ==
  /\ RED_BAN = 2 /\ BLUE_BAN = 5 /\ IB(RED) = 3 /\ IB(BLUE) = 6 /\ RED = 1 /\ BLUE = 0
  /\ \A c \in Colors : IB(c) \in {3, 6} /\ PICKED(c) \in {4, 7}
  /\ Marked(RED_BAN)  = Bans[2]
  /\ Marked(BLUE_BAN) = Bans[5]
  /\ Marked(IB(RED))  = Bans[3]
  /\ Marked(IB(BLUE)) = Bans[6]
  /\ Marked(RED_BAN)'  = Bans'[2]
  /\ Marked(BLUE_BAN)' = Bans'[5]
  /\ Marked(IB(RED))'  = Bans'[3]
  /\ Marked(IB(BLUE))' = Bans'[6]
BY DEF Bans, Marked, RED_BAN, BLUE_BAN, IB, PICKED, RED, BLUE, Colors

\* As long as nobody strays, a mark on a free alternative leaves the roles given alone.
LEMMA OthersKeepMarks ==
  ASSUME DraftIInv, strategy = "CM", stray = {}, NEW n \in Unmarked, NEW m,
         \A q \in alternatives : mark'[q] = (IF q = n THEN m ELSE mark[q])
  PROVE  \A i \in Given : mark'[role[i]] = MarkOf[i]
<1> SUFFICES ASSUME NEW i \in Given
             PROVE  mark'[role[i]] = MarkOf[i]
  OBVIOUS
<1>1. i \in FairlyGiven
  BY DEF FairlyGiven
<1>2. role[i] \in alternatives /\ mark[role[i]] # 0 /\ mark[role[i]] = MarkOf[i]
  BY <1>1 DEF DraftIInv, CMSteps, CMExact, OneOfEach
<1> QED BY <1>2 DEF Unmarked

LEMMA CMBanStep == DraftIInv /\ CMBan => DraftIInv'
<1> SUFFICES ASSUME DraftIInv, CMBan
             PROVE  DraftIInv'
  OBVIOUS
<1> USE DEF DraftIInv
<1> DEFINE asked == Captain(IF step = 1 THEN RED ELSE BLUE)
<1>5. PICK m \in {2, 5} : m = IF step = 1 THEN RED_BAN ELSE BLUE_BAN
  BY DEF RED_BAN, BLUE_BAN
<1>1. PICK n \in Numbers : /\ stray' = (IF n \in Unmarked THEN stray ELSE stray \cup {asked})
                           /\ mark' = MarkedAs(n, m)
  BY <1>5 DEF CMBan, Sends
<1>2. /\ strategy = "CM" /\ strategy' = strategy /\ top = "strategy" /\ step \in 1 .. 3
      /\ alternatives' = alternatives /\ InLoop /\ NextStep
      /\ UNCHANGED <<answers, options, decided, mayIB, leader, role, interrupts>>
  BY DEF CMBan, InCM, InLoop, OneByOne
<1>3. /\ step' = step + 1 /\ top' = "strategy" /\ step' \in 0 .. 2 * NumPlayers + 1
      /\ phase' = "handle" /\ isSet' \in BOOLEAN
  BY <1>2, RoundEnds DEF LastStep
<1>4. asked \in Players
  BY <1>2, CaptainOfSide DEF Colors
<1> HIDE DEF asked
<1>m. m \in 1 .. 7 /\ m \in Nat \ {0} /\ m = (IF step = 1 THEN 2 ELSE 5)
  BY <1>5 DEF RED_BAN, BLUE_BAN
<1>6. /\ mark' \in [alternatives' -> 0 .. 2 * NumPlayers]
      /\ \A q \in alternatives : mark'[q] = (IF q = n THEN m ELSE mark[q])
      /\ \A k \in {2, 3, 5, 6} :
           /\ Bans[k] \in Nat
           /\ Bans'[k] \in Nat
           /\ Bans'[k] <= Bans[k] + (IF m = k THEN 1 ELSE 0)
           /\ n \in Unmarked => Bans'[k] = Bans[k] + (IF m = k THEN 1 ELSE 0)
  <2>1. /\ strategy = "CM" /\ mark' = MarkedAs(n, m) /\ alternatives' = alternatives
        /\ n \in Numbers /\ m \in 1 .. 7
    BY <1>1, <1>2, <1>m
  <2> QED BY <2>1, MarkInCM
<1>7. DraftTypeOK'
  <2>1. stray' \subseteq Players
    BY <1>1, <1>4 DEF DraftTypeOK
  <2> QED BY <1>2, <1>3, <1>6, <2>1 DEF DraftTypeOK
<1>8. AnswersFit' /\ OptionsStay' /\ BPSteps' /\ BPExact' /\ NothingDrawn'
  BY <1>2, <1>3 DEF AnswersFit, OptionsStay, BPSteps, BPExact, NothingDrawn
<1>9. /\ RedBans = (IF step <= 1 THEN 0 ELSE 1) /\ RedBans' = (IF step' <= 1 THEN 0 ELSE 1)
      /\ BlueBans = (IF step <= 2 THEN 0 ELSE IF step = 3 THEN 1 ELSE 2)
      /\ BlueBans' = (IF step' <= 2 THEN 0 ELSE IF step' = 3 THEN 1 ELSE 2)
      /\ MoreBans' = MoreBans /\ MoreBans[RED] \in {0, 1} /\ MoreBans[BLUE] \in {0, 1}
  BY <1>2 DEF RedBans, BlueBans, MoreBans, Colors
<1>10. CMSteps'
  <2>1. /\ Bans[2] <= RedBans /\ Bans[5] <= BlueBans
        /\ Bans[3] <= MoreBans[RED] /\ Bans[6] <= MoreBans[BLUE]
    BY <1>2, BanMarks DEF CMSteps
  <2>2. /\ Marked(RED_BAN)' <= RedBans' /\ Marked(BLUE_BAN)' <= BlueBans'
        /\ Marked(IB(RED))' <= MoreBans'[RED] /\ Marked(IB(BLUE))' <= MoreBans'[BLUE]
    BY <1>2, <1>3, <1>m, <1>6, <1>9, <2>1, BanMarks
  <2>3. OneOfEach'
    <3>1. stray \subseteq stray' /\ OneOfEach
      BY <1>1, <1>2 DEF CMSteps
    <3> QED BY <1>1, <1>2, <1>m, <3>1, StillOneOfEach
  <2>4. /\ top' # "start" /\ step' <= 10 /\ step' # 0 /\ top # "election" /\ top' # "election"
        /\ \A s \in StepsOfCM : ~(s < step')
    BY <1>2, <1>3 DEF StepsOfCM
  <2>5. \A c \in Colors : \E i \in Side(c) : leader'[i]
    BY <1>2, <2>4 DEF CMSteps
  <2> QED BY <1>2, <2>2, <2>3, <2>4, <2>5 DEF CMSteps
<1>11. CMExact'
  <2> SUFFICES ASSUME stray' = {}
               PROVE  CMExact'
    BY DEF CMExact
  <2>1. stray = {} /\ n \in Unmarked
    BY <1>1
  <2>2. /\ Bans[2] = RedBans /\ Bans[5] = BlueBans
        /\ Bans[3] = MoreBans[RED] /\ Bans[6] = MoreBans[BLUE]
    BY <1>2, <2>1, BanMarks DEF CMExact
  <2>3. /\ Marked(RED_BAN)' = RedBans' /\ Marked(BLUE_BAN)' = BlueBans'
        /\ Marked(IB(RED))' = MoreBans'[RED] /\ Marked(IB(BLUE))' = MoreBans'[BLUE]
    BY <1>2, <1>3, <1>m, <1>6, <1>9, <2>1, <2>2, BanMarks
  <2>4. \A i \in Given' : mark'[role'[i]] = MarkOf[i]
    BY <1>2, <1>6, <2>1, OthersKeepMarks DEF Given
  <2> QED BY <1>2, <2>3, <2>4 DEF CMExact
<1> QED BY <1>7, <1>8, <1>10, <1>11

LEMMA InterruptBanStep == DraftIInv /\ CMInterruptBan => DraftIInv'
<1> SUFFICES ASSUME DraftIInv, CMInterruptBan
             PROVE  DraftIInv'
  OBVIOUS
<1> USE DEF DraftIInv
<1>1. /\ strategy = "CM" /\ strategy' = strategy /\ top = "strategy" /\ top' = top
      /\ step \in Nat /\ step > 3 /\ step' = step /\ alternatives' = alternatives
      /\ decided' = TRUE /\ phase' = "handle"
      /\ UNCHANGED <<isSet, answers, options, leader, role, interrupts>>
  BY DEF CMInterruptBan, InCM, InLoop, OneByOne, DraftTypeOK
<1>2. PICK c \in {RED, BLUE} : c = Other(Picking)
  BY DEF Other, Picking, RED, BLUE
<1>3. CASE UNCHANGED <<mark, mayIB, stray>>
  <2>1. DraftTypeOK' /\ AnswersFit' /\ OptionsStay'
    BY <1>1, <1>3 DEF DraftTypeOK, AnswersFit, OptionsStay
  <2>2. UNCHANGED <<strategy, top, alternatives, mark, step, mayIB, leader, role, stray>>
    BY <1>1, <1>3
  <2> QED BY <2>1, <2>2, SameMarks
<1>4. ASSUME NEW n \in Numbers, Sends(Captain(c), n, Unmarked), mark' = MarkedAs(n, IB(c)),
             mayIB' = IBSpent(c)
      PROVE  DraftIInv'
  <2>1. /\ c \in Colors /\ Captain(c) \in Players /\ mayIB[c]
        /\ stray' = (IF n \in Unmarked THEN stray ELSE stray \cup {Captain(c)})
    BY <1>1, <1>2, <1>4, CaptainOfSide DEF CMInterruptBan, Sends, Colors
  <2>2. PICK m \in {3, 6} : m = IB(c)
    BY <2>1, BanMarks
  <2>3. /\ mark' \in [alternatives' -> 0 .. 2 * NumPlayers]
        /\ \A q \in alternatives : mark'[q] = (IF q = n THEN m ELSE mark[q])
        /\ \A k \in {2, 3, 5, 6} :
             /\ Bans[k] \in Nat
             /\ Bans'[k] \in Nat
             /\ Bans'[k] <= Bans[k] + (IF m = k THEN 1 ELSE 0)
             /\ n \in Unmarked => Bans'[k] = Bans[k] + (IF m = k THEN 1 ELSE 0)
    <3>1. m \in 1 .. 7 /\ mark' = MarkedAs(n, m)
      BY <1>4, <2>2
    <3> QED BY <1>1, <3>1, MarkInCM
  <2>4. mayIB \in [Colors -> BOOLEAN] /\ mayIB' = [mayIB EXCEPT ![c] = FALSE]
    BY <1>4 DEF DraftTypeOK, IBSpent
  <2>5. DraftTypeOK'
    <3>1. stray' \subseteq Players
      BY <2>1 DEF DraftTypeOK
    <3>2. mayIB' \in [Colors -> BOOLEAN]
      BY <2>4
    <3> QED BY <1>1, <2>3, <3>1, <3>2 DEF DraftTypeOK
  <2>6. AnswersFit' /\ OptionsStay' /\ BPSteps' /\ BPExact' /\ NothingDrawn'
    BY <1>1 DEF AnswersFit, OptionsStay, BPSteps, BPExact, NothingDrawn
  <2>7. /\ RedBans' = RedBans /\ BlueBans' = BlueBans
        /\ MoreBans[RED] \in {0, 1} /\ MoreBans[BLUE] \in {0, 1} /\ MoreBans[c] = 0
        /\ MoreBans'[RED] = (IF m = 3 THEN 1 ELSE MoreBans[RED])
        /\ MoreBans'[BLUE] = (IF m = 6 THEN 1 ELSE MoreBans[BLUE])
        /\ (m = 3 => MoreBans[RED] = 0) /\ (m = 6 => MoreBans[BLUE] = 0)
    <3>1. RED \in Colors /\ BLUE \in Colors /\ RED # BLUE /\ (m = 3 <=> c = RED) /\ (m = 6 <=> c = BLUE)
      BY <1>2, <2>2, BanMarks DEF Colors
    <3>2. RedBans' = RedBans /\ BlueBans' = BlueBans
      BY <1>1 DEF RedBans, BlueBans
    <3> QED BY <1>2, <2>1, <2>4, <3>1, <3>2 DEF MoreBans
  <2>8. CMSteps'
    <3>1. /\ Bans[2] <= RedBans /\ Bans[5] <= BlueBans
          /\ Bans[3] <= MoreBans[RED] /\ Bans[6] <= MoreBans[BLUE]
      BY <1>1, BanMarks DEF CMSteps
    <3>2. /\ Marked(RED_BAN)' <= RedBans' /\ Marked(BLUE_BAN)' <= BlueBans'
          /\ Marked(IB(RED))' <= MoreBans'[RED] /\ Marked(IB(BLUE))' <= MoreBans'[BLUE]
      <4>1. RedBans \in {0, 1} /\ BlueBans \in {0, 1, 2}
        BY DEF RedBans, BlueBans
      <4> QED BY <2>2, <2>3, <2>7, <3>1, <4>1, BanMarks
    <3>3. OneOfEach'
      <4>1. stray \subseteq stray' /\ OneOfEach /\ m \in Nat \ {0} /\ mark' = MarkedAs(n, m)
        BY <1>1, <1>4, <2>1, <2>2 DEF CMSteps
      <4> QED BY <1>1, <4>1, StillOneOfEach
    <3>4. /\ top' # "start" /\ top' # "election" /\ step <= 10 /\ step # 0
          /\ \A s \in StepsOfCM : s < step => role[Picker[s]] # NoRole
          /\ \A d \in Colors : \E i \in Side(d) : leader[i]
      BY <1>1 DEF CMSteps
    <3> QED BY <1>1, <3>2, <3>3, <3>4 DEF CMSteps
  <2>9. CMExact'
    <3> SUFFICES ASSUME stray' = {}
                 PROVE  CMExact'
      BY DEF CMExact
    <3>1. stray = {} /\ n \in Unmarked
      BY <2>1
    <3>2. /\ Bans[2] = RedBans /\ Bans[5] = BlueBans
          /\ Bans[3] = MoreBans[RED] /\ Bans[6] = MoreBans[BLUE]
      BY <1>1, <3>1, BanMarks DEF CMExact
    <3>3. /\ Marked(RED_BAN)' = RedBans' /\ Marked(BLUE_BAN)' = BlueBans'
          /\ Marked(IB(RED))' = MoreBans'[RED] /\ Marked(IB(BLUE))' = MoreBans'[BLUE]
      BY <2>2, <2>3, <2>7, <3>1, <3>2, BanMarks
    <3>4. \A i \in Given' : mark'[role'[i]] = MarkOf[i]
      BY <1>1, <2>3, <3>1, OthersKeepMarks DEF Given
    <3> QED BY <1>1, <3>3, <3>4 DEF CMExact
  <2> QED BY <2>5, <2>6, <2>8, <2>9
<1>5. \/ UNCHANGED <<mark, mayIB, stray>>
      \/ \E n \in Numbers : /\ Sends(Captain(c), n, Unmarked) /\ mark' = MarkedAs(n, IB(c))
                            /\ mayIB' = IBSpent(c)
  BY <1>2 DEF CMInterruptBan
<1> QED BY <1>3, <1>4, <1>5

LEMMA CMPickStep == DraftIInv /\ CMPick => DraftIInv'
<1> SUFFICES ASSUME DraftIInv, CMPick
             PROVE  DraftIInv'
  OBVIOUS
<1> USE DEF DraftIInv
<1> DEFINE p == Picker[step]
<1>5. PICK m \in {4, 7} : m = PICKED(Picking)
  BY DEF PICKED
<1>1. PICK n \in Numbers :
        /\ stray' = (IF n \in Unmarked THEN stray ELSE stray \cup {Captain(Picking)})
        /\ mark' = MarkedAs(n, m)
        /\ role' = [role EXCEPT ![Nth(Picking, (step - 4) \div 2)] = n]
  BY <1>5 DEF CMPick, Sends
<1>2. /\ strategy = "CM" /\ strategy' = strategy /\ top = "strategy" /\ step > 3
      /\ alternatives' = alternatives /\ InLoop /\ NextStep /\ decided' = FALSE
      /\ UNCHANGED <<answers, options, mayIB, leader, interrupts>>
  BY DEF CMPick, InCM, InLoop, OneByOne
<1>3. /\ step \in StepsOfCM /\ step' = step + 1 /\ step' \in 0 .. 2 * NumPlayers + 1
      /\ top' \in {"strategy", "start"} /\ (top' = "start" => step = 9)
      /\ phase' = "handle" /\ isSet' \in BOOLEAN
  <2>1. step \in Nat
    BY DEF DraftTypeOK
  <2> QED BY <1>2, <2>1, RoundEnds DEF LastStep, StepsOfCM
<1>4. role' = [role EXCEPT ![p] = n]
  BY <1>1, <1>3 DEF Picker, Picking
<1>m. Picking \in Colors /\ m \in {4, 7} /\ m \in 1 .. 7 /\ m \in Nat \ {0}
  BY DEF Picking, Colors
<1>6. Captain(Picking) \in Players
  BY <1>2, <1>m, CaptainOfSide
<1>7. /\ NumPlayers = 6 /\ n # NoRole
      /\ mark' \in [alternatives' -> 0 .. 2 * NumPlayers]
      /\ \A q \in alternatives : mark'[q] = (IF q = n THEN m ELSE mark[q])
      /\ \A k \in {2, 3, 5, 6} :
           /\ Bans[k] \in Nat
           /\ Bans'[k] \in Nat
           /\ Bans'[k] <= Bans[k] + (IF m = k THEN 1 ELSE 0)
           /\ n \in Unmarked => Bans'[k] = Bans[k] + (IF m = k THEN 1 ELSE 0)
  <2>1. /\ strategy = "CM" /\ mark' = MarkedAs(n, m) /\ alternatives' = alternatives
        /\ n \in Numbers /\ m \in 1 .. 7
    BY <1>1, <1>2, <1>m
  <2> QED BY <2>1, MarkInCM
<1>8. p \in Players /\ TeamOf(p) = Picking
  BY <1>3, <1>7, PickersOfCM DEF Picking
<1> HIDE DEF p
<1>9. /\ role \in [Players -> Numbers \cup {NoRole}] /\ role' \in [Players -> Numbers \cup {NoRole}]
      /\ stray' \subseteq Players
  BY <1>1, <1>4, <1>6 DEF DraftTypeOK
<1>10. \A i \in Players : role'[i] = (IF i = p THEN n ELSE role[i])
  BY <1>4, <1>9
<1>11. DraftTypeOK'
  BY <1>2, <1>3, <1>7, <1>9 DEF DraftTypeOK
<1>12. AnswersFit' /\ OptionsStay' /\ BPSteps' /\ BPExact' /\ NothingDrawn'
  BY <1>2, <1>3 DEF AnswersFit, OptionsStay, BPSteps, BPExact, NothingDrawn, StepsOfCM
<1>13. /\ RedBans = 1 /\ RedBans' = 1 /\ BlueBans = 2 /\ BlueBans' = 2 /\ MoreBans' = MoreBans
       /\ MoreBans[RED] \in {0, 1} /\ MoreBans[BLUE] \in {0, 1}
  BY <1>2, <1>3 DEF RedBans, BlueBans, MoreBans, StepsOfCM, Colors
<1>14. CMSteps'
  <2>1. /\ Bans[2] <= RedBans /\ Bans[5] <= BlueBans
        /\ Bans[3] <= MoreBans[RED] /\ Bans[6] <= MoreBans[BLUE]
    BY <1>2, BanMarks DEF CMSteps
  <2>2. /\ Marked(RED_BAN)' <= RedBans' /\ Marked(BLUE_BAN)' <= BlueBans'
        /\ Marked(IB(RED))' <= MoreBans'[RED] /\ Marked(IB(BLUE))' <= MoreBans'[BLUE]
    BY <1>m, <1>7, <1>13, <2>1, BanMarks
  <2>3. OneOfEach'
    <3>1. chooser[p] = Captain(Picking)
      BY <1>2, <1>8 DEF chooser
    <3>2. stray \subseteq stray' /\ OneOfEach
      BY <1>1, <1>2 DEF CMSteps
    <3>3. chooser[p] \notin stray' => n \in Unmarked
      BY <1>1, <3>1
    <3> QED BY <1>1, <1>2, <1>4, <1>m, <1>8, <3>2, <3>3, StillOneOfEach
  <2>4. \A s \in StepsOfCM : s < step' => role'[Picker[s]] # NoRole
    <3> SUFFICES ASSUME NEW s \in StepsOfCM, s < step'
                 PROVE  role'[Picker[s]] # NoRole
      OBVIOUS
    <3>1. Picker[s] \in Players
      BY <1>7, PickersOfCM
    <3>2. CASE s = step
      <4>1. Picker[s] = p
        BY <3>2 DEF p
      <4> QED BY <1>7, <1>8, <1>10, <4>1
    <3>3. CASE s # step
      <4>1. s < step
        BY <1>3, <3>3 DEF StepsOfCM
      <4>2. role[Picker[s]] # NoRole
        BY <1>2, <4>1 DEF CMSteps
      <4> QED BY <1>7, <1>10, <3>1, <4>2
    <3> QED BY <3>2, <3>3
  <2>5. (top' = "start" => step' = 10) /\ step' <= 10 /\ step' # 0 /\ top' # "election"
    BY <1>3 DEF StepsOfCM
  <2>6. \A c \in Colors : \E i \in Side(c) : leader'[i]
    BY <1>2 DEF CMSteps
  <2> QED BY <1>2, <2>2, <2>3, <2>4, <2>5, <2>6 DEF CMSteps
<1>15. CMExact'
  <2> SUFFICES ASSUME stray' = {}
               PROVE  CMExact'
    BY DEF CMExact
  <2>1. stray = {} /\ n \in Unmarked
    BY <1>1
  <2>2. /\ Bans[2] = RedBans /\ Bans[5] = BlueBans
        /\ Bans[3] = MoreBans[RED] /\ Bans[6] = MoreBans[BLUE]
    BY <1>2, <2>1, BanMarks DEF CMExact
  <2>3. /\ Marked(RED_BAN)' = RedBans' /\ Marked(BLUE_BAN)' = BlueBans'
        /\ Marked(IB(RED))' = MoreBans'[RED] /\ Marked(IB(BLUE))' = MoreBans'[BLUE]
    BY <1>m, <1>7, <1>13, <2>1, <2>2, BanMarks
  <2>4. \A i \in Given' : mark'[role'[i]] = MarkOf[i]
    <3>1. MarkOf[p] = m /\ n \in alternatives
      BY <1>5, <1>8, <2>1 DEF MarkOf, Unmarked
    <3>2. \A i \in Given : mark'[role[i]] = MarkOf[i]
      BY <1>2, <1>7, <2>1, OthersKeepMarks
    <3> QED BY <1>7, <1>10, <3>1, <3>2 DEF Given
  <2> QED BY <1>2, <2>3, <2>4 DEF CMExact
<1> QED BY <1>11, <1>12, <1>14, <1>15
-----------------------------------------------------------------------------
(* What the drafts guarantee *)

LEMMA DraftStepKeeps == DraftIInv /\ [DraftNext]_draftVars => DraftIInv'
<1> SUFFICES ASSUME DraftIInv, [DraftNext]_draftVars
             PROVE  DraftIInv'
  OBVIOUS
<1>1. CASE AskAll
  BY <1>1, AskAllStep
<1>2. CASE Interrupt
  BY <1>2, InterruptStep
<1>3. CASE LeaderElection
  BY <1>3, ElectionStep
<1>4. CASE RoleStrategyAll
  BY <1>4, RolesOfAllStep
<1>5. CASE RoleStrategyRandom
  BY <1>5, RandomStep
<1>6. CASE \E i \in Players : AnswerAll(i)
  BY <1>6, AnswerAllStep
<1>7. CASE DrawAlternatives
  BY <1>7, DrawStep
<1>8. CASE AskOne \/ AskAgain
  BY <1>8, AskOneStep
<1>9. CASE BP
  BY <1>9, BPStep
<1>10. CASE CMBan
  BY <1>10, CMBanStep
<1>11. CASE CMInterruptBan
  BY <1>11, InterruptBanStep
<1>12. CASE CMPick
  BY <1>12, CMPickStep
<1>13. CASE UNCHANGED draftVars
  <2>1. UNCHANGED <<strategy, top, phase, isSet, answers, options, alternatives, mark, step,
                    decided, mayIB, leader, role, stray, interrupts>>
    BY <1>13 DEF draftVars, draft
  <2>2. DraftTypeOK' /\ AnswersFit' /\ OptionsStay'
    BY <2>1 DEF DraftIInv, DraftTypeOK, AnswersFit, OptionsStay, Dealt, Nobody
  <2> QED BY <2>1, <2>2, SameMarks DEF DraftIInv
<1> QED BY <1>1, <1>2, <1>3, <1>4, <1>5, <1>6, <1>7, <1>8, <1>9, <1>10, <1>11, <1>12, <1>13
  DEF DraftNext

LEMMA DraftInvariance == DraftSpec => []DraftIInv
BY DraftInitHolds, DraftStepKeeps, PTL DEF DraftSpec

\* Whatever the players send, the draft keeps to its ranges: no step after the last, no
\* mark but of a step, and captains to ask who are players.  Of the roles it only says
\* that they are numbers somebody may have sent.
THEOREM DraftTypeCorrect == DraftSpec => []DraftTypeOK
<1>1. DraftIInv => DraftTypeOK
  BY DEF DraftIInv
<1> QED BY <1>1, DraftInvariance, PTL

\* Whatever the others send: who was given a role he was offered has a role of the game,
\* and except in ANY nobody else has it who was given one he was offered.
THEOREM RolesAreDistinct == DraftSpec => []RolesDistinct
<1>1. DraftIInv => RolesDistinct
  <2> SUFFICES ASSUME DraftIInv, top = "start"
               PROVE  /\ \A i \in Players : chooser[i] \notin stray => role[i] \in Roles
                      /\ strategy # "ANY" => \A i, j \in Players :
                           (i # j /\ role[i] = role[j]) => chooser[i] \in stray \/ chooser[j] \in stray
                      /\ strategy = "31" => \A i \in Players \ stray : role[i] \in Range(options[i])
    BY DEF RolesDistinct
  <2> USE DEF DraftIInv
  <2>1. strategy # "CM" => \A i \in Players : chooser[i] = i
    BY DEF chooser
  <2>2. CASE strategy \in {"ANY", "RANDOM"}
    BY <2>1, <2>2 DEF AnswersFit
  <2>3. CASE strategy = "31"
    <3>1. /\ Dealt(options) /\ \A i \in Players \ stray : role[i] \in Range(options[i])
      BY <2>3 DEF OptionsStay
    <3>2. \A i \in Players : Range(options[i]) \subseteq Roles
      <4> SUFFICES ASSUME NEW i \in Players
                   PROVE  Range(options[i]) \subseteq Roles
        OBVIOUS
      <4>1. options[i] \in Seq(Roles)
        BY <3>1 DEF Dealt
      <4>2. \A k \in DOMAIN options[i] : options[i][k] \in Roles
        BY <4>1, LenProperties, ElementOfSeq
      <4> QED BY <4>2 DEF Range
    <3>3. ASSUME NEW i \in Players \ stray, NEW j \in Players \ stray, i # j
          PROVE  role[i] # role[j]
      <4>1. Range(options[i]) \cap Range(options[j]) = {}
        BY <3>1, <3>3 DEF Dealt
      <4> QED BY <3>1, <4>1
    <3> QED BY <2>1, <2>3, <3>1, <3>2, <3>3
  <2>4. CASE strategy \in {"BP", "CM"}
    <3>1. \A i \in Players : role[i] # NoRole
      <4>1. CASE strategy = "BP"
        <5>1. \A i \in Players : \E s \in Picks : Turn[s] = i
          BY TurnsAndPicks
        <5>2. \A s \in Picks : s < step
          BY <4>1, SeatsTyped DEF BPSteps, Picks, StepsOfBP
        <5>3. \A s \in Picks : s < step => role[Turn[s]] # NoRole
          BY <4>1 DEF BPSteps
        <5> QED BY <5>1, <5>2, <5>3
      <4>2. CASE strategy = "CM"
        <5>1. NumPlayers = 6 /\ step = 10
          BY <4>2, StrategyAssumption DEF CMSteps, DraftTypeOK
        <5>2. \A s \in StepsOfCM : role[Picker[s]] # NoRole
          BY <4>2, <5>1 DEF CMSteps, StepsOfCM
        <5> QED BY <5>1, <5>2, PickersOfCM
      <4> QED BY <2>4, <4>1, <4>2
    <3>2. /\ OneOfEach /\ alternatives \subseteq Roles
          /\ \A i \in Players : chooser[i] \notin stray => i \in FairlyGiven
      BY <2>4, <3>1 DEF BPSteps, CMSteps, DraftTypeOK, FairlyGiven, Given
    <3> QED BY <2>4, <3>2 DEF OneOfEach
  <2>5. strategy \in {"RANDOM", "31", "ANY", "BP", "CM"}
    BY StrategyAssumption DEF DraftTypeOK
  <2> QED BY <2>2, <2>3, <2>4, <2>5
<1> QED BY <1>1, DraftInvariance, PTL

\* The roles that are banned in the steps of a side, when BP is over.
LEMMA BansOfBP ==
  ASSUME DraftIInv, strategy = "BP", top = "start", NEW c \in Colors
  PROVE  Limit(Cardinality({r \in Banned : mark[r] % 2 = c}), NumPlayers \div 2)
<1> DEFINE B == {r \in Banned : mark[r] % 2 = c}
           ban(k) == 4 * k + 2 - c
           f == [r \in B |-> (mark[r] - 1) \div 4]
<1>1. /\ step = 2 * NumPlayers + 1
      /\ \A r, q \in alternatives : mark[r] = mark[q] /\ mark[r] # 0 => r = q
      /\ \A r \in alternatives : mark[r] \in Picks => role[Turn[mark[r]]] = r
      /\ role \in [Players -> Numbers \cup {NoRole}] /\ alternatives \subseteq Roles
      /\ mark \in [alternatives -> 0 .. 2 * NumPlayers]
  BY DEF DraftIInv, BPSteps, DraftTypeOK
<1>2. \A r \in alternatives : r # NoRole
  BY <1>1, DecksAssumption DEF NoRole
<1>3. Banned \subseteq {r \in alternatives : mark[r] # 0 /\ mark[r] \notin Picks}
  <2>1. \A r \in alternatives : mark[r] \in Picks => r \in Range(role)
    BY <1>1, TurnsAndPicks DEF Range
  <2> QED BY <2>1 DEF Banned
<1>4. c \in {0, 1} /\ SideSize \in {2, 3, 4} /\ NumPlayers = SideSize + SideSize
  BY SeatsTyped DEF Colors, RED, BLUE
<1>5. \A r \in B : /\ mark[r] \in StepsOfBP /\ ~IsPick(mark[r]) /\ mark[r] % 2 = c
                  /\ r \in alternatives
  BY <1>1, <1>3, SeatsTyped DEF StepsOfBP, Picks
<1>6. \A s \in StepsOfBP : (~IsPick(s) /\ s % 2 = c) =>
        (s - 1) \div 4 \in 0 .. SideSize - 1 /\ s = ban((s - 1) \div 4)
  BY <1>4 DEF StepsOfBP, IsPick
<1>7. f \in [B -> 0 .. SideSize - 1]
  BY <1>5, <1>6
<1>8. \A r, q \in B : f[r] = f[q] => r = q
  <2> SUFFICES ASSUME NEW r \in B, NEW q \in B, f[r] = f[q]
               PROVE  r = q
    OBVIOUS
  <2>1. mark[r] = mark[q]
    BY <1>5, <1>6
  <2>2. mark[r] # 0 /\ r \in alternatives /\ q \in alternatives
    BY <1>5 DEF StepsOfBP
  <2> QED BY <1>1, <2>1, <2>2
<1>9. ASSUME stray = {}
      PROVE  \A k \in 0 .. SideSize - 1 : \E r \in B : f[r] = k
  <2> SUFFICES ASSUME NEW k \in 0 .. SideSize - 1
               PROVE  \E r \in B : f[r] = k
    OBVIOUS
  <2>1. k \in 0 .. 3 /\ ban(k) \in 1 .. step - 1 /\ ban(k) \in StepsOfBP
    BY <1>1, <1>4 DEF StepsOfBP
  <2>2. ~IsPick(ban(k)) /\ ban(k) % 2 = c /\ (ban(k) - 1) \div 4 = k /\ ban(k) # 0
    BY <1>4, <2>1 DEF IsPick
  <2>3. PICK r \in alternatives : mark[r] = ban(k)
    BY <1>9, <2>1 DEF DraftIInv, BPExact
  <2>4. r \notin Range(role)
    <3> SUFFICES ASSUME NEW i \in Players, role[i] = r
                 PROVE  FALSE
      BY <1>1 DEF Range
    <3>1. i \in Given
      BY <1>2 DEF Given
    <3>2. mark[r] \in Picks
      BY <1>9, <3>1 DEF DraftIInv, BPExact
    <3> QED BY <2>2, <2>3, <3>2 DEF Picks
  <2>5. r \in B
    BY <2>2, <2>3, <2>4 DEF Banned
  <2> QED BY <2>2, <2>3, <2>5
<1>10. IsFiniteSet(0 .. SideSize - 1) /\ Cardinality(0 .. SideSize - 1) = SideSize
  <2>1. 0 \in Int /\ SideSize - 1 \in Int /\ SideSize > 0
    BY <1>4
  <2>2. /\ IsFiniteSet(0 .. SideSize - 1)
        /\ Cardinality(0 .. SideSize - 1) = IF 0 > SideSize - 1 THEN 0 ELSE (SideSize - 1) - 0 + 1
    BY <2>1, FS_Interval
  <2>3. IF 0 > SideSize - 1 THEN FALSE ELSE (SideSize - 1) - 0 + 1 = SideSize
    BY <1>4
  <2> QED BY <2>2, <2>3
<1> HIDE DEF f, B
<1>11. f \in Injection(B, 0 .. SideSize - 1)
  BY <1>7, <1>8, Fun_IsInj
<1>12. Cardinality(B) <= SideSize
  BY <1>10, <1>11, FS_Injection
<1>13. stray = {} => Cardinality(B) = SideSize
  <2>1. stray = {} => f \in Surjection(B, 0 .. SideSize - 1)
    BY <1>7, <1>9, Fun_IsSurj
  <2> QED BY <1>10, <1>11, <2>1, FS_Injection
<1> QED BY <1>12, <1>13 DEF B, Limit, SideSize

\* However often a draft asks again, whatever a captain declines and whatever is sent, no
\* side bans more than its share; and as long as everybody sends what he is offered, the
\* sides get the same number of roles to ban and to pick.
THEOREM DraftsAreEven == DraftSpec => []DraftIsEven
<1>1. ASSUME DraftIInv, strategy = "BP", top = "start", stray = {}, NEW c \in Colors, NEW i \in Side(c)
      PROVE  mark[role[i]] % 2 = c /\ IsPick(mark[role[i]])
  <2>1. i \in Players /\ TeamOf(i) = c
    BY DEF Side
  <2>2. role[i] # NoRole
    <3>1. PICK s \in Picks : Turn[s] = i
      BY <2>1, TurnsAndPicks
    <3>2. s < step
      BY <1>1, SeatsTyped DEF DraftIInv, BPSteps, Picks, StepsOfBP
    <3> QED BY <1>1, <3>1, <3>2 DEF DraftIInv, BPSteps
  <2>3. mark[role[i]] \in Picks /\ Turn[mark[role[i]]] = i
    BY <1>1, <2>1, <2>2 DEF DraftIInv, BPExact, Given
  <2>4. mark[role[i]] \in StepsOfBP /\ IsPick(mark[role[i]]) /\ BPSeat(mark[role[i]]) = i
    BY <2>3 DEF Picks, Turn
  <2> QED BY <2>1, <2>4, TurnsOfBP
<1>2. ASSUME strategy = "BP", NEW i \in Players
      PROVE  Cardinality({s \in 1 .. LastStep : BPSeat(s) = i /\ ~IsPick(s)}) = 1
  <2>1. 1 .. LastStep = StepsOfBP
    BY <1>2 DEF LastStep, StepsOfBP
  <2>2. PICK s \in StepsOfBP : ~IsPick(s) /\ BPSeat(s) = i
    BY TurnsOfBP
  <2>3. \A t \in StepsOfBP : (BPSeat(t) = i /\ ~IsPick(t)) => t = s
    BY <2>2, TurnsOfBP
  <2>4. {t \in StepsOfBP : BPSeat(t) = i /\ ~IsPick(t)} = {s}
    BY <2>2, <2>3
  <2> QED BY <2>1, <2>4, FS_Singleton
<1>3. ASSUME DraftIInv, strategy = "CM"
      PROVE  /\ \A c \in Colors : Limit(Marked(IB(c)), IF mayIB[c] THEN 0 ELSE 1)
             /\ top = "start" => Limit(Marked(RED_BAN), 1) /\ Limit(Marked(BLUE_BAN), 2)
             /\ \A c \in Colors : Marked(IB(c)) <= 1
             /\ (top = "start" /\ stray = {}) =>
                  \A c \in Colors : \A i \in Side(c) : mark[role[i]] = PICKED(c)
  <2>1. \A c \in Colors : Limit(Marked(IB(c)), IF mayIB[c] THEN 0 ELSE 1)
    BY <1>3 DEF DraftIInv, CMSteps, CMExact, MoreBans, Colors, Limit
  <2>2. top = "start" => Limit(Marked(RED_BAN), 1) /\ Limit(Marked(BLUE_BAN), 2)
    BY <1>3 DEF DraftIInv, CMSteps, CMExact, RedBans, BlueBans, Limit
  <2>3. ASSUME NEW c \in Colors
        PROVE  Marked(IB(c)) <= 1
    <3>1. Marked(IB(c)) \in Nat
      <4>1. IsFiniteSet(alternatives)
        BY <1>3, DecksAssumption, FS_Subset DEF DraftIInv, DraftTypeOK
      <4>2. IsFiniteSet({r \in alternatives : mark[r] = IB(c)})
        BY <4>1, FS_Subset
      <4> QED BY <4>2, FS_CardinalityType DEF Marked
    <3>2. Marked(IB(c)) <= (IF mayIB[c] THEN 0 ELSE 1)
      BY <2>1 DEF Limit
    <3> QED BY <3>1, <3>2
  <2>4. ASSUME top = "start", stray = {}, NEW c \in Colors, NEW i \in Side(c)
        PROVE  mark[role[i]] = PICKED(c)
    <3>1. NumPlayers = 6 /\ step = 10
      BY <1>3, <2>4, StrategyAssumption DEF DraftIInv, CMSteps, DraftTypeOK
    <3>2. i \in Players /\ TeamOf(i) = c
      BY DEF Side
    <3>3. PICK s \in StepsOfCM : Picker[s] = i
      BY <3>1, <3>2, PickersOfCM
    <3>4. role[i] # NoRole
      BY <1>3, <3>1, <3>3 DEF DraftIInv, CMSteps, StepsOfCM
    <3> QED BY <1>3, <2>4, <3>2, <3>4 DEF DraftIInv, CMExact, MarkOf, Given
  <2> QED BY <2>1, <2>2, <2>3, <2>4
<1>4. ASSUME DraftIInv, strategy = "BP", top = "start"
      PROVE  \A c \in Colors :
               Limit(Cardinality({r \in Banned : mark[r] % 2 = c}), NumPlayers \div 2)
  BY <1>4, BansOfBP
<1>5. DraftIInv => DraftIsEven
  BY <1>1, <1>2, <1>3, <1>4 DEF DraftIsEven
<1> QED BY <1>5, DraftInvariance, PTL

\* Each side is led by one of its own, who was asked and wanted it if anybody did.
THEOREM EachSideIsLed == DraftSpec => OneCaptainEach
<1>1. ASSUME [DraftNext]_draftVars, top = "election", top' # "election"
      PROVE  LeaderElection
  BY <1>1 DEF DraftNext, draftVars, draft, AskAll, Interrupt, AnswerAll, RoleStrategyAll,
    RoleStrategyRandom, DrawAlternatives, OneByOne, AskOne, AskAgain, BP, CMBan, CMInterruptBan,
    CMPick, InCM, InLoop, NextStep, Starts
<1>2. ASSUME NEW c \in Colors, NEW i \in Candidates(c)
      PROVE  i \in Side(c) /\ (answers[i] = Yes \/ \A j \in Side(c) : answers[j] # Yes)
  BY DEF Candidates
<1>3. \A i \in Side(RED) : i \notin Side(BLUE)
  BY DEF Side, RED, BLUE
<1>4. ASSUME [DraftNext]_draftVars, top = "election", top' # "election"
      PROVE  \A c \in Colors : \E i \in Side(c) :
               /\ {j \in Side(c) : leader'[j]} = {i}
               /\ answers[i] = Yes \/ \A j \in Side(c) : answers[j] # Yes
  <2>1. PICK r \in Candidates(RED), b \in Candidates(BLUE) :
          leader' = [i \in Players |-> i \in {r, b}]
    BY <1>1, <1>4 DEF LeaderElection
  <2>2. /\ RED \in Colors /\ BLUE \in Colors
        /\ Side(RED) \subseteq Players /\ Side(BLUE) \subseteq Players
    BY DEF Colors, Side
  <2>3. /\ r \in Side(RED) /\ (answers[r] = Yes \/ \A j \in Side(RED) : answers[j] # Yes)
        /\ b \in Side(BLUE) /\ (answers[b] = Yes \/ \A j \in Side(BLUE) : answers[j] # Yes)
    BY <1>2, <2>2
  <2>4. {j \in Side(RED) : leader'[j]} = {r}
    BY <1>3, <2>1, <2>2, <2>3
  <2>5. {j \in Side(BLUE) : leader'[j]} = {b}
    BY <1>3, <2>1, <2>2, <2>3
  <2> QED BY <2>3, <2>4, <2>5 DEF Colors
<1> QED BY <1>4, PTL DEF DraftSpec, OneCaptainEach
=============================================================================
