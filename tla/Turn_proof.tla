----------------------------- MODULE Turn_proof -----------------------------
(***************************************************************************)
(* What holds of Turn for every number of players, every seating with as   *)
(* many players on either side, every team area to begin with and every    *)
(* bound: the types, the one state of the turn at the bottom of the stack, *)
(* the limit of the energy of a team, who wins, that every attack is       *)
(* settled once, and that a missile goes round.                            *)
(***************************************************************************)
EXTENDS Turn, FiniteSetTheorems, SequenceTheorems, WellFoundedInduction, TLAPS

\* Frames that may lie above the state of the turn, sequences of them, and those that a
\* state at the bottom gives way to, with the next state of the turn at the end
Loose(f)  == f \in Frames /\ f.kind \notin TurnStates \cup {"GameOver"}
Above(fs) == fs \in Seq(Frames) /\ \A i \in 1 .. Len(fs) : Loose(fs[i])
EndsIn(fs, k) ==
  /\ fs \in Seq(Frames) /\ fs # <<>>
  /\ k \in TurnStates /\ fs[Len(fs)].kind = k
  /\ \A i \in 1 .. Len(fs) - 1 : Loose(fs[i])

\* The colours of the ends of the game on the stack
Overs == {c \in Colors : \E i \in 1 .. Len(stack) : stack[i] = GameOver(c)}
-----------------------------------------------------------------------------
(* Minima *)

LEMMA LeastOf ==
  ASSUME NEW S \in SUBSET Nat, S # {}
  PROVE  Min(S) \in S /\ \A y \in S : Min(S) <= y
<1> DEFINE R == {ss \in Nat \X Nat : ss[1] < ss[2]}
<1>1. IsWellFoundedOn(R, Nat)
  BY NatLessThanWellFounded DEF OpToRel
<1>2. PICK x \in S : \A y \in S : ~(<<y, x>> \in R)
  BY <1>1, WFMin
<1>3. \A y \in S : ~(y < x)
  BY <1>2
<1>4. \A y \in S : x <= y
  BY <1>3
<1> QED BY <1>4 DEF Min

LEMMA GreatestOfTwo ==
  ASSUME NEW a \in Int, NEW b \in Int
  PROVE  Max({a, b}) = IF a >= b THEN a ELSE b
<1>1. \E x \in {a, b} : \A y \in {a, b} : x >= y
  OBVIOUS
<1>2. Max({a, b}) \in {a, b} /\ \A y \in {a, b} : Max({a, b}) >= y
  BY <1>1 DEF Max
<1> QED BY <1>2
-----------------------------------------------------------------------------
(* Frames *)

LEMMA MoraleKinds ==
  Range(MoraleStates) = {"BeforeLoseMorale", "XinYue", "LoseMorale", "FixMorale", "TrueLoseMorale"}
BY DEF Range, MoraleStates

\* What a state keeps follows from its kind.
LEMMA KindOfFrame ==
  ASSUME NEW f \in Frames
  PROVE  /\ f.kind \in HookOnly \ {"Timeline2Miss"} => f \in PlainFrames
         /\ f.kind = "HandChange" => f \in CardFrames
         /\ f.kind = "BasicEffectChange" => f \in ShieldFrames
         /\ f.kind \in {"Timeline1", "Attacked"} => f \in AttackFrames
         /\ f.kind = "Timeline2Hit" => f \in HitFrames
         /\ f.kind = "Missiled" => f \in MissileFrames
         /\ f.kind \in HarmStates => f \in HarmFrames
         /\ f.kind \in Range(MoraleStates) => f \in MoraleFrames
         /\ f.kind = "GameOver" => \E c \in Colors : f = GameOver(c)
         /\ f.kind = "ActionPhase" => f \in ActionFrames
BY MoraleKinds DEF Frames, CombatFrames, PlainFrames, CardFrames, ShieldFrames, AttackFrames,
   HitFrames, MissFrames, MissileFrames, HarmFrames, MoraleFrames, OverFrames, PhaseFrames,
   ActionFrames, HookOnly, HarmStates, TurnStates, GameOver

LEMMA LooseFrames ==
  /\ \A f \in PlainFrames \cup CardFrames \cup ShieldFrames \cup AttackFrames \cup HitFrames
              \cup MissFrames \cup MissileFrames \cup HarmFrames \cup MoraleFrames : Loose(f)
  /\ \A f \in PhaseFrames \cup ActionFrames : f \in Frames /\ f.kind \in TurnStates
  /\ \A c \in Colors : GameOver(c) \in Frames /\ GameOver(c).kind = "GameOver"
BY MoraleKinds DEF Loose, Frames, CombatFrames, PlainFrames, CardFrames, ShieldFrames, AttackFrames,
   HitFrames, MissFrames, MissileFrames, HarmFrames, MoraleFrames, OverFrames, PhaseFrames,
   ActionFrames, HookOnly, HarmStates, TurnStates, GameOver

\* Sequences of frames, as the handlers write them
LEMMA AboveSequences ==
  /\ Above(<<>>)
  /\ \A a : Loose(a) => Above(<<a>>)
  /\ \A a, b : Loose(a) /\ Loose(b) => Above(<<a, b>>)
  /\ \A a, b, c : Loose(a) /\ Loose(b) /\ Loose(c) => Above(<<a, b, c>>)
BY DEF Above, Loose

LEMMA EndSequences ==
  ASSUME NEW k \in TurnStates, NEW t \in Frames, t.kind = k
  PROVE  /\ EndsIn(<<t>>, k)
         /\ \A a : Loose(a) => EndsIn(<<a, t>>, k)
         /\ \A a, b : Loose(a) /\ Loose(b) => EndsIn(<<a, b, t>>, k)
         /\ \A a, b, c : Loose(a) /\ Loose(b) /\ Loose(c) => EndsIn(<<a, b, c, t>>, k)
BY DEF EndsIn, Loose

LEMMA EndAbove ==
  ASSUME NEW fs, NEW gs, NEW k, Above(fs), EndsIn(gs, k)
  PROVE  EndsIn(fs \o gs, k)
BY DEF EndsIn, Above
\* Sequences of one element
LEMMA Singletons ==
  ASSUME NEW S, NEW s \in Seq(S), s # <<>>
  PROVE  /\ Len(s) \in Nat \ {0}
         /\ \A x : s = <<x>> => Len(s) = 1
         /\ 1 \notin 1 .. Len(s) - 1 => Len(s) = 1 /\ Tail(s) = <<>> /\ s = <<s[1]>>
<1>1. Len(s) \in Nat \ {0}
  BY EmptySeq
<1>2. ASSUME NEW x, s = <<x>> PROVE Len(s) = 1
  <2>1. Len(<<x>>) = 1
    OBVIOUS
  <2> QED BY <1>2, <2>1, Zenon
<1>3. ASSUME NEW n \in Nat \ {0}, 1 \notin 1 .. n - 1 PROVE n = 1
  BY <1>3
<1>4. ASSUME Len(s) = 1 PROVE Tail(s) = <<>> /\ s = <<s[1]>>
  <2>1. Tail(s) \in Seq(S) /\ Len(Tail(s)) = 0
    BY <1>4, HeadTailProperties
  <2>2. Tail(s) = <<>>
    BY <2>1, EmptySeq
  <2> QED BY <1>4, <2>2
<1> QED BY <1>1, <1>2, <1>3, <1>4
-----------------------------------------------------------------------------
(* The shape of the stack *)

Shaped == stack \in Seq(Frames) /\ OneTurn

\* A state above that of the turn gives way to others.
LEMMA AboveGivesWay ==
  ASSUME Shaped, stack # <<>>, Loose(Top), NEW fs, Above(fs), Becomes(fs)
  PROVE  /\ Shaped' /\ Overs' = Overs
         /\ stack # <<Bottom>> /\ Bottom' = Bottom
<1>1. /\ Len(stack) \in Nat /\ Len(stack) >= 1 /\ Top = stack[1]
      /\ stack' \in Seq(Frames)
      /\ Len(stack') = Len(fs) + Len(stack) - 1
  BY DEF Shaped, Above, Becomes, Top
<1>2. Len(stack) >= 2
  BY <1>1 DEF Shaped, OneTurn, Loose, Bottom, On, IsOver
<1>3. /\ \A i \in 1 .. Len(fs) : stack'[i] = fs[i]
      /\ \A i \in Len(fs) + 1 .. Len(stack') : stack'[i] = stack[i - Len(fs) + 1]
  BY <1>1 DEF Shaped, Above, Becomes
<1>4. Bottom' = Bottom
  BY <1>1, <1>2, <1>3 DEF Bottom, Above
<1>5. stack # <<Bottom>>
  <2>1. stack = <<Bottom>> => Len(stack) = 1
    BY Singletons DEF Shaped
  <2> QED BY <1>2, <2>1
<1>6. OneTurn'
  <2>1. stack' # <<>>
    BY <1>1, <1>2 DEF Above
  <2>2. Bottom'.kind \in TurnStates
    BY <1>4, <1>5 DEF Shaped, OneTurn
  <2>3. ASSUME NEW i \in 1 .. Len(stack') - 1 PROVE stack'[i].kind \notin TurnStates
    <3>1. CASE i <= Len(fs)
      BY <1>1, <1>3, <3>1 DEF Above, Loose
    <3>2. CASE i > Len(fs)
      <4>1. i - Len(fs) + 1 \in 1 .. Len(stack) - 1 /\ stack'[i] = stack[i - Len(fs) + 1]
        BY <1>1, <1>3, <3>2 DEF Above
      <4> QED BY <4>1 DEF Shaped, OneTurn
    <3> QED BY <1>1, <3>1, <3>2 DEF Above
  <2> QED BY <2>1, <2>2, <2>3 DEF OneTurn
<1>7. ASSUME NEW c \in Colors
      PROVE  (\E i \in 1 .. Len(stack) : stack[i] = GameOver(c))
               <=> (\E i \in 1 .. Len(stack') : stack'[i] = GameOver(c))
  <2>0. Len(fs) \in Nat
    BY DEF Above
  <2>1. ASSUME NEW i \in 1 .. Len(stack), stack[i] = GameOver(c)
        PROVE  \E j \in 1 .. Len(stack') : stack'[j] = GameOver(c)
    <3>1. i # 1
      BY <1>1, <2>1 DEF Loose, GameOver
    <3>2. i + Len(fs) - 1 \in Len(fs) + 1 .. Len(stack') /\ i + Len(fs) - 1 - Len(fs) + 1 = i
      BY <1>1, <2>0, <3>1
    <3>3. stack'[i + Len(fs) - 1] = stack[i]
      BY <1>3, <3>2
    <3> QED BY <2>0, <2>1, <3>2, <3>3
  <2>2. ASSUME NEW j \in 1 .. Len(stack'), stack'[j] = GameOver(c)
        PROVE  \E i \in 1 .. Len(stack) : stack[i] = GameOver(c)
    <3>1. ~(j <= Len(fs))
      BY <1>3, <2>0, <2>2 DEF Above, Loose, GameOver
    <3>2. j \in Len(fs) + 1 .. Len(stack') /\ j - Len(fs) + 1 \in 1 .. Len(stack)
      BY <1>1, <2>0, <3>1
    <3> QED BY <1>3, <2>2, <3>2
  <2> QED BY <2>1, <2>2
<1>8. Overs' = Overs
  BY <1>7 DEF Overs
<1> QED BY <1>1, <1>4, <1>5, <1>6, <1>8 DEF Shaped

\* States are pushed above the one on top.
LEMMA TopIsCovered ==
  ASSUME Shaped, Top.kind # "GameOver", NEW fs, Above(fs), Pushes(fs)
  PROVE  Shaped' /\ Overs' = Overs /\ Bottom' = Bottom
<1>1. /\ Len(stack) \in Nat /\ Len(stack) >= 1 /\ Top = stack[1]
      /\ stack' \in Seq(Frames)
      /\ Len(stack') = Len(fs) + Len(stack) /\ Len(fs) \in Nat
  BY DEF Shaped, OneTurn, Above, Pushes, Top
<1>3. /\ \A i \in 1 .. Len(fs) : stack'[i] = fs[i]
      /\ \A i \in Len(fs) + 1 .. Len(stack') : stack'[i] = stack[i - Len(fs)]
  BY <1>1 DEF Shaped, Above, Pushes
<1>4. Bottom' = Bottom
  BY <1>1, <1>3 DEF Bottom
<1>5. Bottom.kind \in TurnStates
  BY DEF Shaped, OneTurn, IsOver, On
<1>6. OneTurn'
  <2>1. stack' # <<>>
    BY <1>1
  <2>3. ASSUME NEW i \in 1 .. Len(stack') - 1 PROVE stack'[i].kind \notin TurnStates
    <3>1. CASE i <= Len(fs)
      BY <1>1, <1>3, <3>1 DEF Above, Loose
    <3>2. CASE i > Len(fs)
      <4>1. i - Len(fs) \in 1 .. Len(stack) - 1 /\ stack'[i] = stack[i - Len(fs)]
        BY <1>1, <1>3, <3>2
      <4> QED BY <4>1 DEF Shaped, OneTurn
    <3> QED BY <1>1, <3>1, <3>2
  <2> QED BY <2>1, <1>4, <1>5, <2>3 DEF OneTurn
<1>7. ASSUME NEW c \in Colors
      PROVE  (\E i \in 1 .. Len(stack) : stack[i] = GameOver(c))
               <=> (\E i \in 1 .. Len(stack') : stack'[i] = GameOver(c))
  <2>1. ASSUME NEW i \in 1 .. Len(stack), stack[i] = GameOver(c)
        PROVE  \E j \in 1 .. Len(stack') : stack'[j] = GameOver(c)
    <3>1. i + Len(fs) \in Len(fs) + 1 .. Len(stack') /\ i + Len(fs) - Len(fs) = i
      BY <1>1
    <3>2. stack'[i + Len(fs)] = stack[i]
      BY <1>3, <3>1
    <3> QED BY <1>1, <2>1, <3>1, <3>2
  <2>2. ASSUME NEW j \in 1 .. Len(stack'), stack'[j] = GameOver(c)
        PROVE  \E i \in 1 .. Len(stack) : stack[i] = GameOver(c)
    <3>1. ~(j <= Len(fs))
      BY <1>1, <1>3, <2>2 DEF Above, Loose, GameOver
    <3>2. j \in Len(fs) + 1 .. Len(stack') /\ j - Len(fs) \in 1 .. Len(stack)
      BY <1>1, <3>1
    <3> QED BY <1>3, <2>2, <3>2
  <2> QED BY <2>1, <2>2
<1>8. Overs' = Overs
  BY <1>7 DEF Overs
<1> QED BY <1>1, <1>4, <1>6, <1>8 DEF Shaped

\* The state of the turn gives way to others and to the next one.
LEMMA TurnGoesOn ==
  ASSUME Shaped, stack # <<>>, Top.kind \in TurnStates, NEW fs, NEW k, EndsIn(fs, k), Becomes(fs)
  PROVE  /\ Shaped' /\ Overs' = {} /\ Overs = {}
         /\ stack = <<Bottom>> /\ Bottom = Top /\ stack' = fs /\ Bottom'.kind = k
<1>1. Top = stack[1]
  BY DEF Shaped, Top
<1>2. 1 \notin 1 .. Len(stack) - 1
  BY <1>1 DEF Shaped, OneTurn
<1>3. Len(stack) = 1 /\ Tail(stack) = <<>> /\ stack = <<Bottom>> /\ Bottom = Top
  BY <1>1, <1>2, Singletons DEF Bottom, Shaped
<1>4. stack' = fs
  BY <1>3, ConcatEmptySeq DEF Becomes, EndsIn
<1>5. Shaped'
  BY <1>4 DEF EndsIn, Shaped, OneTurn, Bottom, Loose
<1>6. Overs = {}
  BY <1>1, <1>3 DEF Overs, GameOver, TurnStates
<1>7. Overs' = {}
  BY <1>4 DEF Overs, GameOver, EndsIn, Loose, TurnStates
<1> QED BY <1>3, <1>4, <1>5, <1>6, <1>7 DEF Bottom, EndsIn
-----------------------------------------------------------------------------
(* The invariant *)

\* The types of what is neither stack nor team area; additional actions come from hooks.
Rest ==
  /\ cross \in [Players -> Nat] /\ shield \subseteq Players
  /\ attacks \in Seq({"open", "hit", "miss"}) /\ relays \in Seq(Players)
  /\ current \in Players /\ quota \in 0 .. MaxHooks /\ quota <= hooks
  /\ energy \in [Players -> 0 .. EnergyMax]
  /\ hooks \in 0 .. MaxHooks /\ turns \in 1 .. MaxTurns /\ idle \in 0 .. MaxIdle

IInv == Shaped /\ area \in [Colors -> Area] /\ EnergyWithinLimit /\ RightWinner /\ Rest

\* A step of the turn as TurnLife has it: the player and the phase
LifeStep == [Life!Next]_<<current, Phase>>

PhaseOf(k) ==
  CASE k = "ActionPhase" -> "act"
    [] k \in {"AfterAttack", "AfterMagic", "AfterSpecial", "AdditionalAction"} -> "acted"
    [] k \in {"TurnEnd", "AfterTurnEnd"} -> "end"
    [] OTHER -> "begin"

\* A state of kind k may come after the one at the bottom of the stack.
Follows(k) ==
  \/ /\ current' = current
     /\ <<PhaseOf(Bottom.kind), PhaseOf(k)>> \in
          {<<"begin", "begin">>, <<"begin", "act">>, <<"begin", "end">>, <<"act", "act">>,
           <<"act", "acted">>, <<"act", "end">>, <<"acted", "act">>, <<"acted", "acted">>,
           <<"acted", "end">>, <<"end", "end">>, <<"end", "begin">>}
  \/ /\ current' = Post(current)
     /\ PhaseOf(Bottom.kind) = "end" /\ PhaseOf(k) = "begin"

LEMMA TurnBreaksOff ==
  ASSUME Top.kind # "GameOver", IsOver', current' = current
  PROVE  LifeStep
BY DEF IsOver, On, LifeStep, Phase, Life!Next, Life!GameEnds

LEMMA TurnStays ==
  ASSUME Top.kind # "GameOver", Bottom' = Bottom, current' = current
  PROVE  LifeStep
<1>1. ~IsOver
  BY DEF IsOver, On
<1>2. CASE IsOver'
  BY <1>2, TurnBreaksOff
<1>3. CASE ~IsOver'
  BY <1>1, <1>3 DEF LifeStep, Phase
<1> QED BY <1>2, <1>3

LEMMA TurnMoves ==
  ASSUME Top.kind # "GameOver", ~IsOver', Follows(Bottom'.kind)
  PROVE  LifeStep
<1>1. ~IsOver
  BY DEF IsOver, On
<1>2. Phase = PhaseOf(Bottom.kind) /\ Phase' = PhaseOf(Bottom'.kind)
  BY <1>1 DEF Phase, PhaseOf
<1> HIDE DEF Phase
<1>3. \/ current' = current /\ Phase' = Phase
      \/ \E e \in {<<"begin", "act">>, <<"begin", "end">>, <<"act", "acted">>, <<"act", "end">>,
                   <<"acted", "act">>, <<"acted", "end">>, <<"end", "begin">>} :
           current' = current /\ Phase = e[1] /\ Phase' = e[2]
      \/ current' = Post(current) /\ Phase = "end" /\ Phase' = "begin"
  BY <1>2 DEF Follows
<1> QED
  BY <1>3 DEF LifeStep, Post, Life!Next, Life!Moves, Life!MayAct, Life!MustSkip, Life!Acts,
     Life!ActsAgain, Life!GivesUp, Life!HasActed, Life!TurnAgain, Life!NextPlayer

LEMMA TopFrame ==
  ASSUME Shaped
  PROVE  stack # <<>> /\ Top \in Frames /\ Top = stack[1]
BY DEF Shaped, OneTurn, Top

\* Who has won is known from the colours on the stack.
LEMMA WinnerFacts ==
  ASSUME IInv, Top.kind # "GameOver"
  PROVE  /\ \A c \in Colors : area[c].morale # 0
         /\ \A c \in Overs : area[c].cup = 5
         /\ \A c \in Colors : area[c].cup = 5 => Overs # {}
<1>1. \A c \in Colors : Other(c) \in Colors
  BY DEF Colors, RED, BLUE, Other
<1>2. \A c \in Colors : area[c].morale # 0
  BY <1>1 DEF IInv, RightWinner, GameOver
<1>3. \A c \in Overs : area[c].cup = 5
  BY <1>1, <1>2 DEF IInv, RightWinner, GameOver, Overs
<1>4. ASSUME NEW c \in Colors, area[c].cup = 5 PROVE Overs # {}
  <2>1. PICK i \in 1 .. Len(stack) : stack[i].kind = "GameOver"
    BY <1>4 DEF IInv, RightWinner, AtGameOver
  <2>2. stack[i] \in Frames
    BY DEF IInv, Shaped
  <2> QED BY <2>1, <2>2, KindOfFrame DEF Overs
<1> QED BY <1>2, <1>3, <1>4

LEMMA WinnerFrom ==
  ASSUME Shaped',
         \A c \in Overs' : area'[c].cup = 5 \/ area'[Other(c)].morale = 0,
         \A c \in Colors : area'[c].morale = 0 => Top' = GameOver(Other(c)),
         \A c \in Colors : area'[c].cup = 5 => Overs' # {}
  PROVE  RightWinner'
<1>1. ASSUME NEW i \in 1 .. Len(stack'), stack'[i].kind = "GameOver"
      PROVE  area'[stack'[i].color].cup = 5 \/ area'[Other(stack'[i].color)].morale = 0
  <2>1. PICK c \in Colors : stack'[i] = GameOver(c)
    BY <1>1, KindOfFrame DEF Shaped
  <2> QED BY <2>1 DEF Overs, GameOver
<1>2. ASSUME NEW c \in Colors, area'[c].cup = 5
      PROVE  AtGameOver' /\ \A k \in TurnStates : ~On(k)'
  <2>1. PICK d \in Colors, i \in 1 .. Len(stack') : stack'[i] = GameOver(d)
    BY <1>2 DEF Overs
  <2>2. AtGameOver'
    BY <2>1 DEF AtGameOver, GameOver
  <2>3. ASSUME NEW k \in TurnStates, On(k)' PROVE FALSE
    <3>1. stack' # <<>> /\ stack'[1].kind \in TurnStates /\ Len(stack') \in Nat
      BY <2>3 DEF On, Top, Shaped
    <3>2. 1 \notin 1 .. Len(stack') - 1
      BY <3>1 DEF Shaped, OneTurn
    <3>3. Len(stack') = 1
      BY <3>1, <3>2, Singletons DEF Shaped
    <3> QED BY <2>1, <3>1, <3>3 DEF GameOver, TurnStates
  <2> QED BY <2>2, <2>3
<1> QED BY <1>1, <1>2 DEF RightWinner

\* A step of the stack that neither ends the game nor touches cups and morale
LEMMA NobodyWins ==
  ASSUME IInv, Top.kind # "GameOver", Shaped', Overs' = Overs,
         \A c \in Colors : area'[c].cup = area[c].cup /\ area'[c].morale = area[c].morale
  PROVE  RightWinner'
<1>1. Overs \subseteq Colors
  BY DEF Overs
<1> QED BY <1>1, WinnerFacts, WinnerFrom

LEMMA CombatStep ==
  ASSUME IInv, Loose(Top), NEW fs, Above(fs), Becomes(fs) \/ Pushes(fs),
         area' = area, Rest', UNCHANGED turn
  PROVE  IInv' /\ LifeStep
<1>1. Shaped' /\ Overs' = Overs /\ Bottom' = Bottom
  BY AboveGivesWay, TopIsCovered, TopFrame DEF IInv, Loose
<1>2. RightWinner'
  BY <1>1, NobodyWins DEF Loose
<1>3. LifeStep
  BY <1>1, TurnStays DEF turn, Loose
<1> QED BY <1>1, <1>2, <1>3 DEF IInv, EnergyWithinLimit

LEMMA TurnPasses ==
  ASSUME Shaped, Top.kind \in TurnStates, NEW fs, NEW k, EndsIn(fs, k), Becomes(fs), Follows(k)
  PROVE  LifeStep
<1>1. Bottom = Top /\ stack' = fs /\ Bottom'.kind = k
  BY TurnGoesOn, TopFrame
<1>2. ~IsOver'
  BY <1>1 DEF IsOver, On, Top, EndsIn, Loose, TurnStates
<1> QED BY <1>1, <1>2, TurnMoves DEF TurnStates

\* The state of the turn gives way to what it pushes and to the next one.
LEMMA TurnStep ==
  ASSUME IInv, Top.kind \in TurnStates, NEW fs, NEW k, EndsIn(fs, k), Becomes(fs), Follows(k),
         area' = area, Rest'
  PROVE  IInv' /\ LifeStep
<1>1. Shaped' /\ Overs' = {} /\ Overs = {}
  BY TurnGoesOn, TopFrame DEF IInv
<1>2. RightWinner'
  BY <1>1, NobodyWins DEF TurnStates
<1>3. LifeStep
  BY TurnPasses DEF IInv
<1> QED BY <1>1, <1>2, <1>3 DEF IInv, EnergyWithinLimit
-----------------------------------------------------------------------------
(* Combat *)

LEMMA MakesFrames ==
  /\ Loose(UseCard)
  /\ \A p \in Players, n \in Nat : Loose(Draw(p, n))
  /\ \A p \in Players, b \in BOOLEAN : Loose(Shielded(p, b))
  /\ \A k \in HarmStates, p \in Players, n \in Nat, t \in {"attack", "magic"} :
       Harm(k, p, n, t) \in HarmFrames /\ Loose(Harm(k, p, n, t))
  /\ \A k \in Range(MoraleStates), p \in Players, n \in Nat : Loose(Morale(k, p, n))
  /\ \A p \in Players, n \in Nat : Loose(Hit(n, p)) /\ Loose(Miss(n))
  /\ \A k \in HookOnly \ {"Timeline2Miss"} : Loose(Frame(k))
<1>1. 0 \in Players
  BY PlayersAssumption DEF Players
<1>2. UseCard \in CardFrames /\ \A p \in Players, n \in Nat : Draw(p, n) \in CardFrames
  BY <1>1 DEF UseCard, Draw, CardFrames
<1>3. \A p \in Players, b \in BOOLEAN : Shielded(p, b) \in ShieldFrames
  BY DEF Shielded, ShieldFrames
<1>4. \A k \in HarmStates, p \in Players, n \in Nat, t \in {"attack", "magic"} :
        Harm(k, p, n, t) \in HarmFrames
  BY DEF Harm, HarmFrames
<1>5. \A k \in Range(MoraleStates), p \in Players, n \in Nat : Morale(k, p, n) \in MoraleFrames
  BY DEF Morale, MoraleFrames
<1>6. \A p \in Players, n \in Nat : Hit(n, p) \in HitFrames /\ Miss(n) \in MissFrames
  BY DEF Hit, HitFrames, Miss, MissFrames
<1>7. \A k \in HookOnly \ {"Timeline2Miss"} : Frame(k) \in PlainFrames
  BY DEF Frame, PlainFrames
<1> QED BY <1>2, <1>3, <1>4, <1>5, <1>6, <1>7, LooseFrames

LEMMA SameRest ==
  ASSUME Rest, UNCHANGED <<combat, turn>>
  PROVE  Rest' /\ area' = area
BY DEF Rest, combat, turn

\* The states that change nothing but the stack
LEMMA SilentStates ==
  ASSUME IInv, UNCHANGED <<combat, turn>>,
         Timeline1 \/ Timeline2Hit \/ MissileBlock \/ MissileGiveUp \/ Timeline3 \/ Timeline4
           \/ Timeline5 \/ Timeline6 \/ HandChange \/ MoraleStep \/ Goes
  PROVE  IInv' /\ LifeStep
<1>1. Top \in Frames /\ Rest' /\ area' = area
  BY TopFrame, SameRest DEF IInv
<1>2. SUFFICES Loose(Top) /\ \E fs : Above(fs) /\ Becomes(fs)
  BY <1>1, CombatStep
<1>3. CASE Timeline1
  <2>1. Top \in AttackFrames /\ Becomes(<<[Top EXCEPT !.kind = "Attacked"]>>)
    BY <1>1, <1>3, KindOfFrame DEF Timeline1, On
  <2>2. [Top EXCEPT !.kind = "Attacked"] \in AttackFrames
    BY <2>1 DEF AttackFrames
  <2> QED BY <2>1, <2>2, LooseFrames, AboveSequences
<1>4. CASE Timeline2Hit
  <2>1. Top \in HitFrames /\ Becomes(<<Harm("Timeline3", Top.dst, 2, "attack")>>)
    BY <1>1, <1>4, KindOfFrame DEF Timeline2Hit, On
  <2>2. Loose(Harm("Timeline3", Top.dst, 2, "attack"))
    BY <2>1, MakesFrames DEF HitFrames, HarmStates
  <2> QED BY <2>1, <2>2, LooseFrames, AboveSequences
<1>5. CASE MissileBlock
  <2>1. Top \in MissileFrames /\ Becomes(<<UseCard>>)
    BY <1>1, <1>5, KindOfFrame DEF MissileBlock, On
  <2> QED BY <2>1, MakesFrames, LooseFrames, AboveSequences
<1>6. CASE MissileGiveUp
  <2>1. Top \in MissileFrames
    BY <1>1, <1>6, KindOfFrame DEF MissileGiveUp, On
  <2>2. Becomes(<<LoseShield(Top.dst)>>) \/ Becomes(<<Harm("Timeline3", Top.dst, Top.point, "magic")>>)
    BY <1>6 DEF MissileGiveUp
  <2>3. Loose(LoseShield(Top.dst)) /\ Loose(Harm("Timeline3", Top.dst, Top.point, "magic"))
    BY <2>1, MakesFrames DEF MissileFrames, HarmStates, LoseShield
  <2> QED BY <2>1, <2>2, <2>3, LooseFrames, AboveSequences
<1>7. CASE Timeline3
  <2>1. Top \in HarmFrames /\ Becomes(<<[Top EXCEPT !.kind = "Timeline4"], Frame("HarmEnd")>>)
    BY <1>1, <1>7, KindOfFrame DEF Timeline3, On, HarmStates
  <2>2. [Top EXCEPT !.kind = "Timeline4"] \in HarmFrames
    BY <2>1 DEF HarmFrames, HarmStates
  <2>3. Loose(Frame("HarmEnd"))
    BY MakesFrames DEF HookOnly
  <2> QED BY <2>1, <2>2, <2>3, LooseFrames, AboveSequences
<1>8. CASE Timeline4
  <2>1. /\ Top \in HarmFrames
        /\ \/ Becomes(<<[Top EXCEPT !.kind = "AskForCross"]>>)
           \/ Becomes(<<[Top EXCEPT !.kind = "Timeline5"]>>)
    BY <1>1, <1>8, KindOfFrame DEF Timeline4, On, HarmStates
  <2>2. /\ [Top EXCEPT !.kind = "AskForCross"] \in HarmFrames
        /\ [Top EXCEPT !.kind = "Timeline5"] \in HarmFrames
    BY <2>1 DEF HarmFrames, HarmStates
  <2> QED BY <2>1, <2>2, LooseFrames, AboveSequences
<1>9. CASE Timeline5
  <2>1. /\ Top \in HarmFrames
        /\ Becomes(<<[Top EXCEPT !.kind = "Timeline6"]>>) \/ Becomes(<<>>)
    BY <1>1, <1>9, KindOfFrame DEF Timeline5, On, HarmStates
  <2>2. [Top EXCEPT !.kind = "Timeline6"] \in HarmFrames
    BY <2>1 DEF HarmFrames, HarmStates
  <2> QED BY <2>1, <2>2, LooseFrames, AboveSequences
<1>10. CASE Timeline6
  <2>1. /\ Top \in HarmFrames
        /\ Becomes(<<Draw(Top.dst, Top.point), Frame("Timeline6Drawn")>>) \/ Becomes(<<>>)
    BY <1>1, <1>10, KindOfFrame DEF Timeline6, On, HarmStates
  <2>2. Loose(Draw(Top.dst, Top.point)) /\ Loose(Frame("Timeline6Drawn"))
    BY <2>1, MakesFrames DEF HarmFrames, HookOnly
  <2> QED BY <2>1, <2>2, LooseFrames, AboveSequences
<1>11. CASE HandChange
  <2>1. Top \in CardFrames
    BY <1>1, <1>11, KindOfFrame DEF HandChange, On
  <2>2. PICK k \in 0 .. Top.over :
          Becomes(IF k = 0 THEN <<>> ELSE <<Morale("BeforeLoseMorale", Top.dst, k)>>)
    BY <1>11 DEF HandChange
  <2>3. Loose(Morale("BeforeLoseMorale", Top.dst, k))
    BY <2>1, MakesFrames, MoraleKinds DEF CardFrames
  <2> QED BY <2>1, <2>2, <2>3, LooseFrames, AboveSequences
<1>12. CASE MoraleStep
  <2>1. PICK i \in 1 .. 4 : On(MoraleStates[i])
    BY <1>12 DEF MoraleStep
  <2>2. MoraleStates[i] \in Range(MoraleStates)
    BY DEF Range, MoraleStates
  <2>3. Top \in MoraleFrames /\ Top.kind = MoraleStates[i]
    BY <1>1, <2>1, <2>2, KindOfFrame DEF On
  <2>4. NextMoraleState(Top.kind) \in Range(MoraleStates)
    BY <2>3 DEF NextMoraleState, MoraleStates, Range
  <2>5. [Top EXCEPT !.kind = NextMoraleState(@)] \in MoraleFrames
    BY <2>3, <2>4 DEF MoraleFrames
  <2>6. Becomes(<<[Top EXCEPT !.kind = NextMoraleState(@)]>>)
    BY <1>12 DEF MoraleStep
  <2> QED BY <2>3, <2>5, <2>6, LooseFrames, AboveSequences
<1>13. CASE Goes
  <2>1. Top.kind \in HookOnly /\ Becomes(<<>>)
    BY <1>13 DEF Goes, On
  <2>2. Loose(Top)
    BY <1>1, <2>1 DEF Loose, HookOnly, TurnStates
  <2> QED BY <2>1, <2>2, AboveSequences
<1> QED BY <1>3, <1>4, <1>5, <1>6, <1>7, <1>8, <1>9, <1>10, <1>11, <1>12, <1>13

\* Attacks and harms
LEMMA Settles ==
  ASSUME Rest, NEW n \in Nat, NEW x \in {"open", "hit", "miss"}
  PROVE  /\ [attacks EXCEPT ![n] = x] \in Seq({"open", "hit", "miss"})
         /\ Append([attacks EXCEPT ![n] = x], "open") \in Seq({"open", "hit", "miss"})
         /\ Append(attacks, "open") \in Seq({"open", "hit", "miss"})
         /\ NumAttacks + 1 \in Nat
<1> DEFINE K == {"open", "hit", "miss"}
<1>1. attacks \in Seq(K) /\ Len(attacks) \in Nat
  BY DEF Rest
<1>2. attacks \in [1 .. Len(attacks) -> K]
  BY <1>1, LenProperties, Zenon
<1>3. [attacks EXCEPT ![n] = x] \in [1 .. Len(attacks) -> K]
  BY <1>2
<1>4. [attacks EXCEPT ![n] = x] \in Seq(K)
  BY <1>1, <1>3, SeqDef
<1> QED BY <1>1, <1>4 DEF NumAttacks

\* A team earns a gem or a crystal, if there is room.
LEMMA Earning ==
  ASSUME NEW a \in Area, a.gem + a.crystal <= 5, NEW k \in {0, 1},
         NEW b \in {AddGem(a, k), AddCrystal(a, k)}
  PROVE  b \in Area /\ b.gem + b.crystal <= 5 /\ b.cup = a.cup /\ b.morale = a.morale
BY DEF AddGem, AddCrystal, Area

LEMMA AreaStep ==
  ASSUME IInv, Top.kind # "GameOver", Shaped', Overs' = Overs, Rest',
         NEW c \in Colors, NEW b \in Area, area' = [area EXCEPT ![c] = b],
         b.gem + b.crystal <= 5, b.cup = area[c].cup, b.morale = area[c].morale
  PROVE  IInv'
<1>1. area' \in [Colors -> Area] /\ EnergyWithinLimit'
  BY DEF IInv, EnergyWithinLimit
<1>2. \A d \in Colors : area'[d].cup = area[d].cup /\ area'[d].morale = area[d].morale
  BY DEF IInv
<1>3. RightWinner'
  BY <1>2, NobodyWins
<1> QED BY <1>1, <1>3 DEF IInv

LEMMA HitsStep ==
  ASSUME IInv, Top \in AttackFrames, Hits(Top), UNCHANGED <<cross, relays, hooks, turn>>
  PROVE  IInv' /\ LifeStep
<1> DEFINE c == TeamOf[Top.src]
           b == IF Top.active THEN AddGem(area[c], 1) ELSE AddCrystal(area[c], 1)
<1>1. /\ Becomes(<<Hit(Top.n, Top.dst)>>) /\ area' = [area EXCEPT ![c] = b]
      /\ attacks' = [attacks EXCEPT ![Top.n] = "hit"] /\ UNCHANGED shield
  BY DEF Hits
<1>2. Loose(Top) /\ Above(<<Hit(Top.n, Top.dst)>>)
  BY MakesFrames, LooseFrames, AboveSequences DEF AttackFrames
<1>3. Shaped' /\ Overs' = Overs /\ Bottom' = Bottom
  BY <1>1, <1>2, TopFrame, AboveGivesWay DEF IInv
<1>4. c \in Colors /\ area[c] \in Area /\ area[c].gem + area[c].crystal <= 5
  BY PlayersAssumption DEF AttackFrames, IInv, EnergyWithinLimit
<1>5. b \in Area /\ b.gem + b.crystal <= 5 /\ b.cup = area[c].cup /\ b.morale = area[c].morale
  BY <1>4, Earning
<1>6. Rest'
  BY <1>1, Settles DEF IInv, Rest, AttackFrames, turn
<1> HIDE DEF b, c
<1>7. LifeStep
  BY <1>2, <1>3, TurnStays DEF Loose, turn
<1> QED BY <1>1, <1>2, <1>3, <1>4, <1>5, <1>6, <1>7, AreaStep DEF Loose

LEMMA AttackedSteps ==
  ASSUME IInv, UNCHANGED turn, AttackedNoMiss \/ GiveUp \/ Block \/ Reattack
  PROVE  IInv' /\ LifeStep
<1>1. Top \in AttackFrames /\ Loose(Top)
  BY TopFrame, KindOfFrame, LooseFrames DEF IInv, AttackedNoMiss, GiveUp, Block, Reattack, Asked, On
<1>2. Top.n \in Nat /\ Loose(UseCard) /\ Loose(Miss(Top.n)) /\ Loose(LoseShield(Top.dst))
  BY <1>1, MakesFrames DEF AttackFrames, LoseShield
<1>3. ASSUME attacks' = [attacks EXCEPT ![Top.n] = "miss"], UNCHANGED <<area, cross, shield, relays, hooks>>
      PROVE  Rest' /\ area' = area
  BY <1>2, <1>3, Settles DEF IInv, Rest, turn
<1>4. CASE AttackedNoMiss
  BY <1>1, <1>4, HitsStep DEF AttackedNoMiss
<1>5. CASE GiveUp
  <2>1. CASE Hits(Top)
    BY <1>1, <1>5, <2>1, HitsStep DEF GiveUp
  <2>2. CASE /\ Becomes(<<LoseShield(Top.dst), Miss(Top.n)>>)
             /\ attacks' = [attacks EXCEPT ![Top.n] = "miss"]
             /\ UNCHANGED <<area, shield>>
    BY <1>1, <1>2, <1>3, <1>5, <2>2, AboveSequences, CombatStep DEF GiveUp
  <2> QED BY <1>5, <2>1, <2>2 DEF GiveUp
<1>6. CASE Block
  BY <1>1, <1>2, <1>3, <1>6, AboveSequences, CombatStep DEF Block
<1>7. CASE Reattack
  <2>1. PICK to \in Opponents(Top.dst), r \in {"normal", "noreattack"} :
          Becomes(<<UseCard, Miss(Top.n), Attack("Timeline1", NumAttacks + 1, Top.dst, to, FALSE, r, TRUE)>>)
    BY <1>7 DEF Reattack, NewAttack, Countered
  <2>2. Attack("Timeline1", NumAttacks + 1, Top.dst, to, FALSE, r, TRUE) \in AttackFrames
    BY <1>1, <1>2, Settles DEF IInv, Attack, AttackFrames, Opponents
  <2>3. Rest' /\ area' = area
    BY <1>2, <1>7, Settles DEF IInv, Rest, turn, Reattack
  <2> QED BY <1>1, <1>2, <2>1, <2>2, <2>3, LooseFrames, AboveSequences, CombatStep
<1> QED BY <1>4, <1>5, <1>6, <1>7

\* Missiles
LEMMA NearestIsPlayer ==
  ASSUME NEW p \in Players, NEW clockwise \in BOOLEAN,
         NEW Q \in SUBSET Players, Q # {}, p \notin Q
  PROVE  Nearest(p, clockwise, Q) \in Q
<1> DEFINE K == {i \in 1 .. NumPlayers - 1 : At(p, i, clockwise) \in Q}
<1>1. \E i \in 1 .. NumPlayers - 1 : At(p, i, clockwise) \in Q
  <2>1. PICK q \in Q : q # p
    OBVIOUS
  <2>2. q \in Players
    OBVIOUS
  <2>3. \E i \in 1 .. NumPlayers - 1 : At(p, i, clockwise) = q
    <3> DEFINE d == IF clockwise THEN p - q ELSE q - p
               i == IF d > 0 THEN d ELSE d + NumPlayers
    <3>1. i \in 1 .. NumPlayers - 1
      BY <2>1, <2>2, PlayersAssumption DEF Players
    <3>2. At(p, i, clockwise) = q
      BY <2>1, <2>2, PlayersAssumption DEF Players, At
    <3> QED BY <3>1, <3>2
  <2> QED BY <2>3
<1>2. K \in SUBSET Nat /\ K # {}
  BY <1>1, PlayersAssumption
<1>3. Min(K) \in K
  BY <1>2, LeastOf
<1> QED BY <1>3 DEF Nearest

LEMMA SomeOpponent ==
  ASSUME NEW p \in Players
  PROVE  Opponents(p) \in SUBSET Players /\ Opponents(p) # {} /\ p \notin Opponents(p)
<1>1. PICK c \in Colors : c # TeamOf[p]
  BY PlayersAssumption DEF Colors, RED, BLUE
<1>2. PICK q \in Players : TeamOf[q] = c
  <2>1. Cardinality({q \in Players : TeamOf[q] = c}) # 0
    BY PlayersAssumption
  <2> QED BY <2>1, FS_EmptySet
<1> QED BY <1>1, <1>2 DEF Opponents

LEMMA NextTargetIsOpponent ==
  ASSUME NEW p \in Players, NEW clockwise \in BOOLEAN, NEW has \in SUBSET Players
  PROVE  /\ NextTarget(p, clockwise, has).to \in Opponents(p)
         /\ NextTarget(p, clockwise, has).has \in SUBSET Players
<1>1. Nearest(p, clockwise, Opponents(p)) \in Opponents(p)
  BY SomeOpponent, NearestIsPlayer
<1>2. ASSUME Opponents(p) \ has # {}
      PROVE  Nearest(p, clockwise, Opponents(p) \ has) \in Opponents(p) \ has
  BY <1>2, SomeOpponent, NearestIsPlayer
<1> QED BY <1>1, <1>2 DEF NextTarget

LEMMA RelayStep ==
  ASSUME IInv, UNCHANGED turn, Relay
  PROVE  IInv' /\ LifeStep
<1> DEFINE next == RelayTo(Top)
           f == [Top EXCEPT !.src = Top.dst, !.dst = next.to, !.point = @ + 1,
                            !.has = next.has \cup {Top.dst}]
<1>1. Top \in MissileFrames /\ Loose(Top)
  BY TopFrame, KindOfFrame, LooseFrames DEF IInv, Relay, On
<1>2. next.to \in Players /\ next.has \in SUBSET Players
  BY <1>1, NextTargetIsOpponent, SomeOpponent DEF RelayTo, MissileFrames
<1>3. /\ Becomes(<<UseCard, f>>) /\ relays' = Append(relays, next.to)
      /\ UNCHANGED <<area, cross, shield, attacks, hooks>>
  BY DEF Relay, Becomes
<1> HIDE DEF next
<1>4. f \in MissileFrames
  <2>1. /\ Top.dst \in Players /\ Top.point + 1 \in Nat
        /\ next.has \cup {Top.dst} \in SUBSET Players
    BY <1>1, <1>2 DEF MissileFrames
  <2> QED BY <1>1, <1>2, <2>1 DEF MissileFrames
<1>5. Rest' /\ area' = area
  BY <1>2, <1>3, AppendProperties DEF IInv, Rest, turn
<1> QED BY <1>1, <1>3, <1>4, <1>5, MakesFrames, LooseFrames, AboveSequences, CombatStep

\* Crosses, shields and the loss of morale
LEMMA AskForCrossStep ==
  ASSUME IInv, UNCHANGED turn, NEW n \in Nat, AskForCross(n)
  PROVE  IInv' /\ LifeStep
<1>1. Top \in HarmFrames /\ Loose(Top)
  BY TopFrame, KindOfFrame, LooseFrames DEF IInv, AskForCross, On, HarmStates
<1>2. cross[Top.dst] \in Nat /\ Top.point \in Nat
  BY <1>1 DEF IInv, Rest, HarmFrames
<1>3. n <= cross[Top.dst] /\ n <= Top.point
  <2>1. n <= Min({cross[Top.dst], Top.point})
    BY DEF AskForCross
  <2>2. /\ Min({cross[Top.dst], Top.point}) \in {cross[Top.dst], Top.point}
        /\ \A y \in {cross[Top.dst], Top.point} : Min({cross[Top.dst], Top.point}) <= y
    <3> HIDE DEF IInv
    <3>1. {cross[Top.dst], Top.point} \in SUBSET Nat /\ {cross[Top.dst], Top.point} # {}
      BY <1>2
    <3> QED BY <3>1, LeastOf
  <2> QED BY <1>2, <2>1, <2>2
<1>4. Becomes(<<[Top EXCEPT !.kind = "Timeline5", !.point = @ - n]>>)
  BY DEF AskForCross
<1>5. [Top EXCEPT !.kind = "Timeline5", !.point = @ - n] \in HarmFrames
  <2>1. Top.point - n \in Nat
    BY <1>2, <1>3
  <2> QED BY <1>1, <2>1 DEF HarmFrames, HarmStates
<1>6. Rest' /\ area' = area
  BY <1>1, <1>2, <1>3 DEF AskForCross, IInv, Rest, turn, HarmFrames
<1> QED BY <1>1, <1>4, <1>5, <1>6, LooseFrames, AboveSequences, CombatStep

LEMMA ShieldStep ==
  ASSUME IInv, UNCHANGED turn, BasicEffectChange
  PROVE  IInv' /\ LifeStep
<1>1. Top \in ShieldFrames /\ Loose(Top)
  BY TopFrame, KindOfFrame, LooseFrames DEF IInv, BasicEffectChange, On
<1>2. Rest' /\ area' = area
  BY <1>1 DEF BasicEffectChange, IInv, Rest, turn, ShieldFrames
<1> QED BY <1>1, <1>2, AboveSequences, CombatStep DEF BasicEffectChange

\* A state above that of the turn gives way to the end of the game.
LEMMA GameIsLost ==
  ASSUME Shaped, Loose(Top), NEW c \in Colors, Becomes(<<GameOver(c)>>)
  PROVE  Shaped' /\ Overs' = Overs \cup {c} /\ Top' = GameOver(c) /\ Bottom' = Bottom
<1>1. /\ Len(stack) \in Nat /\ Len(stack) >= 1 /\ Top = stack[1]
      /\ GameOver(c) \in Frames /\ GameOver(c).kind = "GameOver"
  BY LooseFrames DEF Shaped, OneTurn, Top
<1>2. Len(stack) >= 2
  BY <1>1 DEF Shaped, OneTurn, Loose, Bottom, On, IsOver
<1>3. /\ stack' \in Seq(Frames) /\ Len(stack') = Len(stack) /\ stack'[1] = GameOver(c)
      /\ \A i \in 2 .. Len(stack) : stack'[i] = stack[i]
  BY <1>1, <1>2 DEF Shaped, Becomes
<1>4. Bottom' = Bottom /\ Bottom.kind \in TurnStates
  BY <1>1, <1>2, <1>3 DEF Bottom, Shaped, OneTurn, Loose, On, IsOver
<1>5. ASSUME NEW i \in 1 .. Len(stack') - 1 PROVE stack'[i].kind \notin TurnStates
  <2>1. CASE i = 1
    BY <1>1, <1>3, <2>1 DEF TurnStates
  <2>2. CASE i # 1
    <3>1. i \in 2 .. Len(stack) /\ i \in 1 .. Len(stack) - 1
      BY <1>1, <1>3, <2>2
    <3> QED BY <1>3, <3>1 DEF Shaped, OneTurn
  <2> QED BY <2>1, <2>2
<1>6. Shaped' /\ Top' = GameOver(c)
  BY <1>1, <1>2, <1>3, <1>4, <1>5 DEF Shaped, OneTurn, Top
<1>7. ASSUME NEW d \in Colors
      PROVE  (\E i \in 1 .. Len(stack') : stack'[i] = GameOver(d))
               <=> d = c \/ \E i \in 1 .. Len(stack) : stack[i] = GameOver(d)
  <2>1. ASSUME NEW i \in 1 .. Len(stack), stack[i] = GameOver(d)
        PROVE  stack'[i] = GameOver(d) /\ i \in 1 .. Len(stack')
    <3>1. i # 1
      BY <1>1, <2>1 DEF Loose, GameOver
    <3> QED BY <1>1, <1>3, <2>1, <3>1
  <2>2. ASSUME NEW i \in 1 .. Len(stack'), stack'[i] = GameOver(d), d # c
        PROVE  stack[i] = GameOver(d) /\ i \in 1 .. Len(stack)
    <3>1. i # 1
      BY <1>3, <2>2 DEF GameOver
    <3> QED BY <1>1, <1>3, <2>2, <3>1
  <2>3. 1 \in 1 .. Len(stack')
    BY <1>1, <1>3
  <2> QED BY <1>3, <2>1, <2>2, <2>3
<1>8. Overs' = Overs \cup {c}
  BY <1>7 DEF Overs
<1> QED BY <1>4, <1>6, <1>8

LEMMA Reds ==
  \A c \in Colors : /\ Other(c) \in Colors /\ Other(Other(c)) = c
                    /\ \A d \in Colors : d # c <=> d = Other(c)
BY DEF Colors, RED, BLUE, Other

LEMMA MoraleLost ==
  ASSUME NEW a \in Area, NEW k \in Nat
  PROVE  /\ SubMorale(a, k) \in Area
         /\ SubMorale(a, k).gem = a.gem /\ SubMorale(a, k).crystal = a.crystal
         /\ SubMorale(a, k).cup = a.cup
         /\ NoMorale(a, k) <=> SubMorale(a, k).morale = 0
<1>1. a.morale \in Nat /\ Max({0, a.morale - k}) \in Nat
  BY GreatestOfTwo DEF Area
<1> QED BY <1>1 DEF SubMorale, NoMorale, Area

LEMMA TrueLoseMoraleStep ==
  ASSUME IInv, UNCHANGED turn, TrueLoseMorale
  PROVE  IInv' /\ LifeStep
<1> DEFINE c == TeamOf[Top.dst]
           b == SubMorale(area[c], Top.point)
<1>1. Top \in MoraleFrames /\ Loose(Top)
  BY TopFrame, KindOfFrame, LooseFrames, MoraleKinds DEF IInv, TrueLoseMorale, On
<1>2. c \in Colors /\ area[c] \in Area /\ Top.point \in Nat
  BY <1>1, PlayersAssumption DEF IInv, MoraleFrames
<1>3. /\ b \in Area /\ b.gem = area[c].gem /\ b.crystal = area[c].crystal /\ b.cup = area[c].cup
      /\ NoMorale(area[c], Top.point) <=> b.morale = 0
  BY <1>2, MoraleLost
<1>4. /\ area' = [area EXCEPT ![c] = b]
      /\ Becomes(IF NoMorale(area[c], Top.point) THEN <<GameOver(Other(c))>> ELSE <<>>)
      /\ UNCHANGED <<cross, shield, attacks, relays, hooks>>
  BY DEF TrueLoseMorale
<1> HIDE DEF b, c
<1>5. area' \in [Colors -> Area] /\ EnergyWithinLimit' /\ Rest'
  BY <1>2, <1>3, <1>4 DEF IInv, EnergyWithinLimit, Rest, turn
<1>6. /\ \A d \in Colors : area'[d].cup = area[d].cup
      /\ \A d \in Colors : d # c => area'[d] = area[d]
      /\ area'[c] = b
  BY <1>2, <1>3, <1>4 DEF IInv
<1>7. /\ \A d \in Colors : area[d].morale # 0
      /\ \A d \in Overs : area[d].cup = 5
      /\ \A d \in Colors : area[d].cup = 5 => Overs # {}
  BY <1>1, WinnerFacts DEF Loose
<1>8. Shaped' /\ RightWinner' /\ Bottom' = Bottom
  <2>1. CASE b.morale = 0
    <3>1. Becomes(<<GameOver(Other(c))>>) /\ Other(c) \in Colors /\ Other(Other(c)) = c
      BY <1>2, <1>3, <1>4, <2>1, Reds
    <3>2. Shaped' /\ Overs' = Overs \cup {Other(c)} /\ Top' = GameOver(Other(c)) /\ Bottom' = Bottom
      BY <1>1, <3>1, GameIsLost DEF IInv
    <3>3. Overs \subseteq Colors
      BY DEF Overs
    <3>4. \A d \in Overs' : area'[d].cup = 5 \/ area'[Other(d)].morale = 0
      BY <1>6, <1>7, <2>1, <3>1, <3>2, <3>3
    <3>5. \A d \in Colors : area'[d].morale = 0 => Top' = GameOver(Other(d))
      BY <1>6, <1>7, <3>2
    <3>6. \A d \in Colors : area'[d].cup = 5 => Overs' # {}
      BY <3>2
    <3> QED BY <3>2, <3>4, <3>5, <3>6, WinnerFrom
  <2>2. CASE b.morale # 0
    <3>1. Becomes(<<>>)
      BY <1>3, <1>4, <2>2
    <3>2. Shaped' /\ Overs' = Overs /\ Bottom' = Bottom
      BY <1>1, <3>1, TopFrame, AboveSequences, AboveGivesWay DEF IInv
    <3>3. Overs \subseteq Colors
      BY DEF Overs
    <3>4. \A d \in Overs' : area'[d].cup = 5 \/ area'[Other(d)].morale = 0
      BY <1>6, <1>7, <3>2, <3>3
    <3>5. \A d \in Colors : area'[d].morale = 0 => Top' = GameOver(Other(d))
      BY <1>6, <1>7, <2>2
    <3>6. \A d \in Colors : area'[d].cup = 5 => Overs' # {}
      BY <1>6, <1>7, <3>2
    <3> QED BY <3>2, <3>4, <3>5, <3>6, WinnerFrom
  <2> QED BY <2>1, <2>2
<1>9. LifeStep
  BY <1>1, <1>8, TurnStays DEF Loose, turn
<1> QED BY <1>5, <1>8, <1>9 DEF IInv

\* Hooks that harm, and those that change the state they are called by
LEMMA MoreHooks ==
  ASSUME Rest, MayHook, UNCHANGED <<cross, shield, relays, turn>>,
         attacks' = attacks \/ attacks' = Append(attacks, "open")
  PROVE  Rest'
<1>1. hooks' \in 0 .. MaxHooks /\ quota <= hooks'
  BY BoundsAssumption DEF Rest, MayHook
<1>2. attacks' \in Seq({"open", "hit", "miss"})
  BY AppendProperties DEF Rest
<1> QED BY <1>1, <1>2 DEF Rest, turn

LEMMA HarmOfHook ==
  ASSUME NEW p \in Players
  PROVE  Above(<<Harm("Timeline3", p, 1, "magic")>>)
<1>1. Loose(Harm("Timeline3", p, 1, "magic"))
  BY MakesFrames DEF HarmStates
<1> QED BY <1>1, AboveSequences

LEMMA RoleHookSteps ==
  ASSUME IInv, UNCHANGED turn, NEW p \in Players, RoleHooks(p)
  PROVE  IInv' /\ LifeStep
<1>1. Top \in Frames
  BY TopFrame DEF IInv
<1>2. CASE HookHarm(p)
  <2>1. Loose(Top)
    BY <1>1, <1>2 DEF HookHarm, Loose, HookOnly, TurnStates
  <2>2. Rest' /\ area' = area
    BY <1>2, MoreHooks DEF HookHarm, IInv
  <2> QED BY <1>2, <2>1, <2>2, HarmOfHook, CombatStep DEF HookHarm
<1>3. CASE HookAttack
  <2>1. Top \in AttackFrames /\ Loose(Top)
    BY <1>1, <1>3, KindOfFrame, LooseFrames DEF HookAttack, On
  <2>2. Rest' /\ area' = area
    BY <1>3, MoreHooks DEF HookAttack, IInv
  <2>3. PICK f \in {[Top EXCEPT !.rate = "nomiss"], [Top EXCEPT !.rate = "noreattack", !.check = FALSE]} :
          Becomes(<<f>>)
    BY <1>3 DEF HookAttack
  <2>4. f \in AttackFrames
    BY <2>1 DEF AttackFrames
  <2> QED BY <2>1, <2>2, <2>3, <2>4, LooseFrames, AboveSequences, CombatStep
<1>4. CASE HookPoint
  <2>1. Rest' /\ area' = area
    BY <1>4, MoreHooks DEF HookPoint, IInv
  <2>2. CASE Top.kind \in {"Timeline3", "Timeline5", "Timeline6"}
              /\ \E n \in {0, Top.point + 1} : Becomes(<<[Top EXCEPT !.point = n]>>)
    <3>1. Top \in HarmFrames
      BY <1>1, <2>2, KindOfFrame DEF HarmStates
    <3>2. PICK n \in {0, Top.point + 1} : Becomes(<<[Top EXCEPT !.point = n]>>)
      BY <2>2
    <3>3. n \in Nat
      BY <3>1, <3>2 DEF HarmFrames
    <3>4. [Top EXCEPT !.point = n] \in HarmFrames
      BY <3>1, <3>3 DEF HarmFrames
    <3> QED BY <2>1, <3>1, <3>2, <3>4, LooseFrames, AboveSequences, CombatStep
  <2>3. CASE /\ \E i \in 1 .. 4 : On(MoraleStates[i])
             /\ \E n \in 0 .. Top.point - 1 : Becomes(<<[Top EXCEPT !.point = n]>>)
    <3>1. Top \in MoraleFrames
      BY <1>1, <2>3, KindOfFrame, MoraleKinds DEF On, MoraleStates
    <3>2. PICK n \in 0 .. Top.point - 1 : Becomes(<<[Top EXCEPT !.point = n]>>)
      BY <2>3
    <3>3. n \in Nat
      BY <3>1, <3>2 DEF MoraleFrames
    <3>4. [Top EXCEPT !.point = n] \in MoraleFrames
      BY <3>1, <3>3 DEF MoraleFrames
    <3> QED BY <2>1, <3>1, <3>2, <3>4, LooseFrames, AboveSequences, CombatStep
  <2> QED BY <1>4, <2>2, <2>3 DEF HookPoint
<1>5. CASE NiFanZhan
  <2>1. Top \in HarmFrames /\ Loose(Top)
    BY <1>1, <1>5, KindOfFrame, LooseFrames DEF NiFanZhan, On, HarmStates
  <2>2. Rest' /\ area' = area
    BY <1>5, MoreHooks DEF NiFanZhan, IInv
  <2>3. Loose(Frame("RequestHand")) /\ Loose(Morale("BeforeLoseMorale", Top.dst, 1))
    BY <2>1, MakesFrames, MoraleKinds DEF HarmFrames, HookOnly
  <2> QED BY <1>5, <2>1, <2>2, <2>3, AboveSequences, CombatStep DEF NiFanZhan
<1> QED BY <1>2, <1>3, <1>4, <1>5 DEF RoleHooks

LEMMA AttackOfHook ==
  ASSUME IInv, UNCHANGED turn, NEW p \in Players, HookNewAttack(current, p)
  PROVE  IInv' /\ LifeStep
<1>1. Top \in PlainFrames /\ Loose(Top) /\ current \in Players
  BY TopFrame, KindOfFrame, LooseFrames DEF IInv, Rest, HookNewAttack, On, HookOnly
<1>2. Rest' /\ area' = area
  BY MoreHooks DEF HookNewAttack, IInv
<1>3. PICK r \in {"normal", "noreattack"} :
        Becomes(<<Attack("Timeline1", NumAttacks + 1, current, p, TRUE, r, TRUE), Frame("AttackSkillDone")>>)
  BY DEF HookNewAttack, NewAttack
<1>4. NumAttacks + 1 \in Nat
  BY DEF IInv, Rest, NumAttacks
<1>5. Attack("Timeline1", NumAttacks + 1, current, p, TRUE, r, TRUE) \in AttackFrames
  BY <1>1, <1>4 DEF Attack, AttackFrames
<1>6. Loose(Frame("AttackSkillDone"))
  BY MakesFrames DEF HookOnly
<1> QED BY <1>1, <1>2, <1>3, <1>5, <1>6, LooseFrames, AboveSequences, CombatStep
-----------------------------------------------------------------------------
(* The turn *)

LEMMA TurnFrames ==
  /\ \A k \in TurnStates \ {"ActionPhase"} : Frame(k) \in Frames /\ Frame(k).kind = k
  /\ \A b \in BOOLEAN : ActionPhase(b) \in Frames /\ ActionPhase(b).kind = "ActionPhase"
<1>1. \A k \in TurnStates \ {"ActionPhase"} : Frame(k) \in PhaseFrames
  BY DEF Frame, PhaseFrames
<1>2. \A b \in BOOLEAN : ActionPhase(b) \in ActionFrames
  BY DEF ActionPhase, ActionFrames
<1> QED BY <1>1, <1>2, LooseFrames DEF Frame, ActionPhase

LEMMA NextPhases ==
  /\ \A k \in TurnStates \ {"ActionPhase"} : EndsIn(<<Frame(k)>>, k)
  /\ \A b \in BOOLEAN : EndsIn(<<ActionPhase(b)>>, "ActionPhase")
  /\ \E k \in {"AdditionalAction", "TurnEnd"} : EndsIn(CheckTurnEnd, k)
<1>1. \A k \in TurnStates \ {"ActionPhase"} : EndsIn(<<Frame(k)>>, k)
  BY TurnFrames, EndSequences
<1>2. \A b \in BOOLEAN : EndsIn(<<ActionPhase(b)>>, "ActionPhase")
  BY TurnFrames, EndSequences DEF TurnStates
<1>3. EndsIn(<<Frame("AdditionalAction")>>, "AdditionalAction") /\ EndsIn(<<Frame("TurnEnd")>>, "TurnEnd")
  BY <1>1 DEF TurnStates
<1> QED BY <1>1, <1>2, <1>3 DEF CheckTurnEnd

LEMMA BottomIsTop ==
  ASSUME IInv, Top.kind \in TurnStates
  PROVE  Bottom = Top /\ Tail(stack) = <<>> /\ Len(stack) = 1
<1>1. /\ Top = stack[1] /\ 1 \notin 1 .. Len(stack) - 1 /\ stack # <<>>
  BY TopFrame DEF IInv, Shaped, OneTurn
<1> QED BY <1>1, Singletons DEF IInv, Shaped, Bottom

\* Which states of the turn follow each other
LEMMA Following ==
  ASSUME IInv, Top.kind \in TurnStates, current' = current
  PROVE  /\ Top.kind \in TurnStates \ {"ActionPhase", "AfterAttack", "AfterMagic", "AfterSpecial",
                                       "AdditionalAction", "TurnEnd", "AfterTurnEnd"} =>
              \A k \in TurnStates \ {"AfterAttack", "AfterMagic", "AfterSpecial", "AdditionalAction"} :
                Follows(k)
         /\ Top.kind = "ActionPhase" =>
              \A k \in {"ActionPhase", "AfterAttack", "AfterMagic", "AfterSpecial",
                        "AdditionalAction", "TurnEnd"} :
                Follows(k)
         /\ Top.kind \in {"AfterAttack", "AfterMagic", "AfterSpecial", "AdditionalAction"} =>
              \A k \in {"ActionPhase", "AdditionalAction", "TurnEnd"} : Follows(k)
         /\ Top.kind \in {"TurnEnd", "AfterTurnEnd"} =>
              \A k \in {"AfterTurnEnd", "BeforeTurnBegin"} : Follows(k)
BY BottomIsTop DEF Follows, PhaseOf, TurnStates

\* The states of the turn that change nothing but the stack
LEMMA SilentPhases ==
  ASSUME IInv, Passes \/ CheckBasicEffect \/ Weakened \/ WeakenSkips \/ NoAction \/ NoMoreActions
  PROVE  IInv' /\ LifeStep
<1>1. /\ Top.kind \in TurnStates
      /\ UNCHANGED <<combat, turn>>
  BY DEF Passes, CheckBasicEffect, Weakened, WeakenSkips, NoAction, NoMoreActions, On, TurnStates
<1>2. Rest' /\ area' = area /\ current \in Players /\ current' = current
  BY <1>1, SameRest DEF IInv, Rest, turn
<1>3. SUFFICES \E fs, k : EndsIn(fs, k) /\ Becomes(fs) /\ Follows(k)
  BY <1>1, <1>2, TurnStep
<1>4. CASE Passes
  <2>1. /\ EndsIn(<<Frame("TurnBegin")>>, "TurnBegin")
        /\ EndsIn(<<Frame("TurnBeginShiRen")>>, "TurnBeginShiRen")
        /\ EndsIn(<<Frame("Boot")>>, "Boot")
        /\ EndsIn(<<ActionPhase(FALSE)>>, "ActionPhase")
        /\ EndsIn(<<Frame("AfterTurnEnd")>>, "AfterTurnEnd")
    <3>1. {"TurnBegin", "TurnBeginShiRen", "Boot", "AfterTurnEnd"} \subseteq TurnStates \ {"ActionPhase"}
      BY DEF TurnStates
    <3> QED BY <3>1, NextPhases
  <2>2. Becomes(After(Top.kind))
    BY <1>4 DEF Passes
  <2>3. CASE Top.kind \in {"BeforeTurnBegin", "TurnBegin", "BeforeAction", "Boot"}
    <3>1. \A k \in {"TurnBegin", "TurnBeginShiRen", "Boot", "ActionPhase"} : Follows(k)
      BY <1>1, <1>2, <2>3, Following DEF TurnStates
    <3> QED BY <2>1, <2>2, <2>3, <3>1 DEF After
  <2>4. CASE Top.kind = "TurnEnd"
    <3>1. Follows("AfterTurnEnd")
      BY <1>1, <1>2, <2>4, Following
    <3> QED BY <2>1, <2>2, <2>4, <3>1 DEF After
  <2> QED BY <1>4, <2>3, <2>4 DEF Passes, On
<1>5. Loose(UseCard) /\ Loose(Between)
  BY MakesFrames DEF Between, HookOnly
<1>6. CASE CheckBasicEffect
  <2>1. Above(<<>>) /\ Above(<<UseCard, Harm("Timeline3", current, 1, "magic")>>)
    <3>1. Loose(Harm("Timeline3", current, 1, "magic"))
      BY <1>2, MakesFrames DEF HarmStates
    <3> QED BY <1>5, <3>1, AboveSequences
  <2>2. /\ EndsIn(<<UseCard, Frame("Weaken")>>, "Weaken")
        /\ EndsIn(<<Between, Frame("BeforeAction")>>, "BeforeAction")
    <3>1. /\ Frame("Weaken") \in Frames /\ Frame("Weaken").kind = "Weaken"
          /\ Frame("BeforeAction") \in Frames /\ Frame("BeforeAction").kind = "BeforeAction"
      BY TurnFrames DEF TurnStates
    <3> QED BY <1>5, <3>1, EndSequences DEF TurnStates
  <2>3. PICK above \in {<<>>, <<UseCard, Harm("Timeline3", current, 1, "magic")>>},
             below \in {<<UseCard, Frame("Weaken")>>, <<Between, Frame("BeforeAction")>>} :
          Becomes(above \o below)
    BY <1>6 DEF CheckBasicEffect
  <2>4. \E k \in {"Weaken", "BeforeAction"} : EndsIn(above \o below, k)
    BY <2>1, <2>2, EndAbove
  <2>5. \A k \in {"Weaken", "BeforeAction"} : Follows(k)
    BY <1>1, <1>2, <1>6, Following DEF CheckBasicEffect, On, TurnStates
  <2> QED BY <2>3, <2>4, <2>5
<1>7. CASE Weakened \/ WeakenSkips
  <2>1. /\ Frame("BeforeAction") \in Frames /\ Frame("BeforeAction").kind = "BeforeAction"
        /\ Frame("TurnEnd") \in Frames /\ Frame("TurnEnd").kind = "TurnEnd"
    BY TurnFrames DEF TurnStates
  <2>2. Loose(Draw(current, 3))
    BY <1>2, MakesFrames
  <2>3. /\ EndsIn(<<Draw(current, 3), Between, Frame("BeforeAction")>>, "BeforeAction")
        /\ EndsIn(<<Between, Frame("TurnEnd")>>, "TurnEnd")
    BY <1>5, <2>1, <2>2, EndSequences DEF TurnStates
  <2>4. Follows("BeforeAction") /\ Follows("TurnEnd")
    BY <1>1, <1>2, <1>7, Following DEF Weakened, WeakenSkips, On, TurnStates
  <2> QED BY <1>7, <2>3, <2>4 DEF Weakened, WeakenSkips
<1>8. CASE NoAction
  <2>1. \A k \in {"AdditionalAction", "TurnEnd"} : Follows(k)
    BY <1>1, <1>2, <1>8, Following DEF NoAction, On
  <2> QED BY <1>8, <2>1, NextPhases DEF NoAction
<1>9. CASE NoMoreActions
  <2>1. EndsIn(<<Frame("TurnEnd")>>, "TurnEnd")
    BY NextPhases DEF TurnStates
  <2>2. Follows("TurnEnd")
    BY <1>1, <1>2, <1>9, Following DEF NoMoreActions, On
  <2> QED BY <1>9, <2>1, <2>2 DEF NoMoreActions
<1> QED BY <1>4, <1>6, <1>7, <1>8, <1>9

\* The states of the turn that count actions and turns
LEMMA CountingPhases ==
  ASSUME IInv, AfterAction \/ AdditionalAction \/ AfterTurnEnd \/ HookTurn
  PROVE  IInv' /\ LifeStep
<1>1. Top.kind \in TurnStates /\ area' = area
  BY DEF AfterAction, AdditionalAction, AfterTurnEnd, HookTurn, On, TurnStates, combat
<1>2. CASE AfterAction
  <2>1. Rest' /\ current' = current
    BY <1>2 DEF AfterAction, IInv, Rest, turn
  <2>2. \A k \in {"AdditionalAction", "TurnEnd"} : Follows(k)
    BY <1>1, <1>2, <2>1, Following DEF AfterAction, On
  <2> QED BY <1>1, <1>2, <2>1, <2>2, NextPhases, TurnStep DEF AfterAction
<1>3. CASE AdditionalAction
  <2>1. Rest' /\ current' = current
    BY <1>3, BoundsAssumption DEF AdditionalAction, IInv, Rest, combat
  <2>2. Follows("ActionPhase")
    BY <1>1, <1>3, <2>1, Following DEF AdditionalAction, On
  <2> QED BY <1>1, <1>3, <2>1, <2>2, NextPhases, TurnStep DEF AdditionalAction
<1>4. EndsIn(<<Frame("BeforeTurnBegin")>>, "BeforeTurnBegin")
  BY NextPhases DEF TurnStates
<1>5. CASE AfterTurnEnd
  <2>1. Post(current) \in Players
    <3>1. current \in Nat
      BY DEF IInv, Rest, Players
    <3>2. \A n \in {4, 6, 8} : (current + 1) % n \in 0 .. n - 1
      BY <3>1
    <3> QED BY <3>2, PlayersAssumption DEF Post, Players
  <2>2. 0 \in 0 .. MaxHooks /\ 0 <= hooks /\ turns + 1 \in 1 .. MaxTurns
    BY <1>5, BoundsAssumption, TurnAssumption DEF AfterTurnEnd, IInv, Rest
  <2>3. Rest'
    BY <1>5, <2>1, <2>2 DEF AfterTurnEnd, IInv, Rest, combat
  <2>4. Follows("BeforeTurnBegin")
    BY <1>1, <1>5, BottomIsTop DEF AfterTurnEnd, On, Follows, PhaseOf
  <2> QED BY <1>1, <1>4, <1>5, <2>3, <2>4, TurnStep DEF AfterTurnEnd
<1>6. CASE HookTurn
  <2>1. /\ 0 \in 0 .. MaxHooks /\ hooks + 1 \in 0 .. MaxHooks /\ 0 <= hooks + 1
        /\ turns + 1 \in 1 .. MaxTurns
    BY <1>6, BoundsAssumption, TurnAssumption DEF HookTurn, MayHook, IInv, Rest
  <2>2. Rest' /\ current' = current
    BY <1>6, <2>1 DEF HookTurn, MayHook, IInv, Rest
  <2>3. Follows("BeforeTurnBegin")
    BY <1>1, <1>6, <2>2, Following DEF HookTurn, On
  <2> QED BY <1>1, <1>4, <1>6, <2>2, <2>3, TurnStep DEF HookTurn
<1> QED BY <1>2, <1>3, <1>5, <1>6

\* Hooks of the phases
LEMMA PhaseHooks ==
  ASSUME IInv, HookAction \/ HookGiveUp \/ \E p \in Players : HookTurnHarm(p)
  PROVE  IInv' /\ LifeStep
<1>1. CASE HookAction
  <2>1. /\ quota + 1 \in 0 .. MaxHooks /\ hooks + 1 \in 0 .. MaxHooks /\ quota + 1 <= hooks + 1
    BY <1>1, BoundsAssumption DEF HookAction, MayHook, IInv, Rest
  <2>2. Rest' /\ area' = area /\ stack' = stack
    BY <1>1, <2>1 DEF HookAction, MayHook, IInv, Rest
  <2>3. IInv'
    BY <2>2 DEF IInv, Shaped, OneTurn, EnergyWithinLimit, RightWinner, Bottom, IsOver, On, Top, AtGameOver
  <2>4. LifeStep
    BY <1>1, <2>2, TurnStays DEF HookAction, On, Bottom
  <2> QED BY <2>3, <2>4
<1>2. ASSUME NEW p \in Players, HookTurnHarm(p) PROVE IInv' /\ LifeStep
  <2>1. Top.kind # "GameOver" /\ Pushes(<<Harm("Timeline3", p, 1, "magic")>>) /\ area' = area
    BY <1>2 DEF HookTurnHarm, On
  <2>2. Rest'
    BY <1>2, MoreHooks DEF HookTurnHarm, IInv
  <2>3. Shaped' /\ Overs' = Overs /\ Bottom' = Bottom
    BY <2>1, HarmOfHook, TopIsCovered DEF IInv
  <2>4. RightWinner'
    BY <2>1, <2>3, NobodyWins
  <2>5. LifeStep
    BY <1>2, <2>1, <2>3, TurnStays DEF HookTurnHarm, turn
  <2> QED BY <2>1, <2>2, <2>3, <2>4, <2>5 DEF IInv, EnergyWithinLimit
<1>3. CASE HookGiveUp
  <2>1. Rest' /\ area' = area /\ current' = current
    BY <1>3, MoreHooks DEF HookGiveUp, IInv, turn
  <2>2. Top.kind \in TurnStates /\ Follows("ActionPhase")
    BY <1>3, <2>1, Following DEF HookGiveUp, On, TurnStates
  <2>3. EndsIn(<<ActionPhase(TRUE)>>, "ActionPhase")
    BY NextPhases
  <2> QED BY <1>3, <2>1, <2>2, <2>3, TurnStep DEF HookGiveUp
<1> QED BY <1>1, <1>2, <1>3
-----------------------------------------------------------------------------
(* The action *)

LEMMA NewHistory ==
  ASSUME IInv, On("ActionPhase"), UNCHANGED shield, energy' \in [Players -> 0 .. EnergyMax],
         NEW as \in Seq({"open", "hit", "miss"}), NEW rs \in Seq(Players), Acts(as, rs)
  PROVE  /\ Rest'
         /\ \A k \in {"AfterAttack", "AfterMagic", "AfterSpecial"} : Follows(k)
<1>1. 0 \in 0 .. MaxIdle
  BY TurnAssumption
<1>2. Rest' /\ current' = current
  BY <1>1 DEF Acts, IInv, Rest
<1> QED BY <1>2, Following DEF On, TurnStates

LEMMA Actions ==
  ASSUME IInv, On("ActionPhase")
  PROVE  /\ Top.kind \in TurnStates /\ Top.kind # "GameOver" /\ Overs = {}
         /\ Color \in Colors /\ area[Color] \in Area
         /\ area[Color].gem + area[Color].crystal <= 5
         /\ \A c \in Colors : area[c].morale # 0 /\ area[c].cup # 5
         /\ energy \in [Players -> 0 .. EnergyMax] /\ current \in Players
<1>1. Top.kind \in TurnStates /\ Top.kind # "GameOver"
  BY DEF On, TurnStates
<1>2. Overs = {}
  <2>1. /\ Top = stack[1] /\ 1 \notin 1 .. Len(stack) - 1 /\ stack # <<>>
    BY <1>1, TopFrame DEF IInv, Shaped, OneTurn
  <2>2. Len(stack) = 1
    BY <2>1, Singletons DEF IInv, Shaped
  <2> QED BY <1>1, <2>1, <2>2 DEF Overs, GameOver
<1>3. Color \in Colors /\ current \in Players /\ energy \in [Players -> 0 .. EnergyMax]
  BY PlayersAssumption DEF Color, IInv, Rest
<1> QED BY <1>1, <1>2, <1>3, WinnerFacts DEF IInv, EnergyWithinLimit

\* In a state of the turn there is nothing else on the stack.
LEMMA SingleStack ==
  ASSUME IInv, Top.kind \in TurnStates, NEW fs \in Seq(Frames), Becomes(fs)
  PROVE  stack' = fs
BY BottomIsTop, ConcatEmptySeq DEF Becomes

LEMMA EmptyHistories ==
  /\ <<>> \in Seq({"open", "hit", "miss"}) /\ <<>> \in Seq(Players)
  /\ <<"open">> \in Seq({"open", "hit", "miss"})
  /\ \A p, q \in Players : <<p, q>> \in Seq(Players)
OBVIOUS

LEMMA AfterFrames ==
  \A k \in {"AfterAttack", "AfterMagic", "AfterSpecial"} :
    Frame(k) \in Frames /\ Frame(k).kind = k /\ k \in TurnStates
BY TurnFrames DEF TurnStates

LEMMA BeforeFrames ==
  /\ \A k \in {"BeforeAttack", "BeforeMagic", "BeforeSpecial", "MagicSkill", "AttackSkill", "SpecialSkill"} :
       Loose(Frame(k))
  /\ Loose(UseCard)
BY MakesFrames DEF HookOnly

LEMMA MagicAndAttack ==
  ASSUME IInv, NEW p \in Players, BasicAttack(p) \/ Shield(p) \/ BasicMissile(p) \/ Skill
  PROVE  IInv' /\ LifeStep
<1>1. /\ On("ActionPhase") /\ UNCHANGED <<area, shield, energy>>
  BY DEF BasicAttack, Shield, BasicMissile, Skill
<1>2. /\ Top.kind \in TurnStates /\ area' = area /\ current \in Players
      /\ energy' \in [Players -> 0 .. EnergyMax]
  BY <1>1, Actions
<1>3. CASE BasicAttack(p)
  <2>1. PICK r \in {"normal", "noreattack"} :
          Becomes(<<UseCard, Frame("BeforeAttack"),
                    Attack("Timeline1", 1, current, p, TRUE, r, TRUE), Frame("AfterAttack")>>)
    BY <1>3 DEF BasicAttack, NewAttack
  <2>2. Attack("Timeline1", 1, current, p, TRUE, r, TRUE) \in AttackFrames
    BY <1>2 DEF Attack, AttackFrames
  <2>3. EndsIn(<<UseCard, Frame("BeforeAttack"),
                 Attack("Timeline1", 1, current, p, TRUE, r, TRUE), Frame("AfterAttack")>>, "AfterAttack")
    BY <2>2, AfterFrames, BeforeFrames, LooseFrames, EndSequences
  <2>4. Rest' /\ \A k \in {"AfterAttack", "AfterMagic", "AfterSpecial"} : Follows(k)
    BY <1>1, <1>2, <1>3, EmptyHistories, NewHistory DEF BasicAttack
  <2> QED BY <1>2, <2>1, <2>3, <2>4, TurnStep
<1>4. CASE Shield(p)
  <2>1. EndsIn(<<Frame("BeforeMagic"), UseCard, Shielded(p, TRUE), Frame("AfterMagic")>>, "AfterMagic")
    BY AfterFrames, BeforeFrames, MakesFrames, EndSequences
  <2>2. Rest' /\ \A k \in {"AfterAttack", "AfterMagic", "AfterSpecial"} : Follows(k)
    BY <1>1, <1>2, <1>4, EmptyHistories, NewHistory DEF Shield
  <2> QED BY <1>2, <1>4, <2>1, <2>2, TurnStep DEF Shield
<1>5. CASE BasicMissile(p)
  <2>1. Missile(current, p) \in MissileFrames
    BY <1>2 DEF Missile, MissileFrames
  <2>2. EndsIn(<<Frame("BeforeMagic"), UseCard, Missile(current, p), Frame("AfterMagic")>>, "AfterMagic")
    BY <2>1, AfterFrames, BeforeFrames, LooseFrames, EndSequences
  <2>3. Rest' /\ \A k \in {"AfterAttack", "AfterMagic", "AfterSpecial"} : Follows(k)
    BY <1>1, <1>2, <1>5, EmptyHistories, NewHistory DEF BasicMissile
  <2> QED BY <1>2, <1>5, <2>2, <2>3, TurnStep DEF BasicMissile
<1>6. CASE Skill
  <2>1. PICK fs \in SkillStates : Becomes(fs)
    BY <1>6 DEF Skill
  <2>2. \E k \in {"AfterAttack", "AfterMagic", "AfterSpecial"} : EndsIn(fs, k)
    BY AfterFrames, BeforeFrames, EndSequences DEF SkillStates
  <2>3. Rest' /\ \A k \in {"AfterAttack", "AfterMagic", "AfterSpecial"} : Follows(k)
    BY <1>1, <1>2, <1>6, EmptyHistories, NewHistory DEF Skill
  <2> QED BY <1>2, <2>1, <2>2, <2>3, TurnStep
<1> QED BY <1>3, <1>4, <1>5, <1>6

\* A team spends gems and crystals.
LEMMA Spending ==
  ASSUME NEW a \in Area, a.gem + a.crystal <= 5, NEW g \in 0 .. a.gem, NEW k \in 0 .. a.crystal
  PROVE  LET b == [a EXCEPT !.gem = @ - g, !.crystal = @ - k]
         IN b \in Area /\ b.gem + b.crystal <= 5 /\ b.cup = a.cup /\ b.morale = a.morale
<1>1. a.gem - g \in 0 .. 5 /\ a.crystal - k \in 0 .. 5 /\ (a.gem - g) + (a.crystal - k) <= 5
  BY DEF Area
<1> QED BY <1>1 DEF Area

LEMMA Synthesizing ==
  ASSUME NEW a \in Area, a.gem + a.crystal <= 5, a.cup # 5,
         NEW g \in 0 .. 3, g <= a.gem, 3 - g <= a.crystal
  PROVE  LET b == [a EXCEPT !.gem = @ - g, !.crystal = @ - (3 - g), !.cup = @ + 1]
         IN b \in Area /\ b.gem + b.crystal <= 5 /\ b.morale = a.morale
<1>1. /\ a.gem - g \in 0 .. 5 /\ a.crystal - (3 - g) \in 0 .. 5 /\ a.cup + 1 \in 0 .. 5
      /\ (a.gem - g) + (a.crystal - (3 - g)) <= 5
  BY DEF Area
<1> QED BY <1>1 DEF Area

LEMMA Concats ==
  ASSUME NEW a, NEW b, NEW c, NEW d, NEW e
  PROVE  /\ <<a, b, c>> \o <<d>> \o <<e>> = <<a, b, c, d, e>>
         /\ <<a, b, c>> \o <<>> \o <<e>> = <<a, b, c, e>>
<1> DEFINE S == {a, b, c, d, e}
<1>1. /\ <<a, b, c>> \in Seq(S) /\ <<d>> \in Seq(S) /\ <<e>> \in Seq(S)
      /\ <<a, b, c, d>> \in Seq(S) /\ <<a, b, c, e>> \in Seq(S) /\ <<a, b, c, d, e>> \in Seq(S)
  OBVIOUS
<1> HIDE DEF S
<1>2. <<a, b, c>> \o <<d>> = <<a, b, c, d>>
  <2>1. /\ <<a, b, c>> \o <<d>> \in Seq(S) /\ Len(<<a, b, c>> \o <<d>>) = 4
        /\ \A i \in 1 .. 4 : (<<a, b, c>> \o <<d>>)[i] = <<a, b, c, d>>[i]
    BY <1>1
  <2> QED BY <1>1, <2>1, SeqEqual
<1>3. <<a, b, c, d>> \o <<e>> = <<a, b, c, d, e>>
  <2>1. /\ <<a, b, c, d>> \o <<e>> \in Seq(S) /\ Len(<<a, b, c, d>> \o <<e>>) = 5
        /\ \A i \in 1 .. 5 : (<<a, b, c, d>> \o <<e>>)[i] = <<a, b, c, d, e>>[i]
    BY <1>1
  <2> QED BY <1>1, <2>1, SeqEqual
<1>4. <<a, b, c>> \o <<>> = <<a, b, c>>
  BY <1>1, ConcatEmptySeq
<1>5. <<a, b, c>> \o <<e>> = <<a, b, c, e>>
  <2>1. /\ <<a, b, c>> \o <<e>> \in Seq(S) /\ Len(<<a, b, c>> \o <<e>>) = 4
        /\ \A i \in 1 .. 4 : (<<a, b, c>> \o <<e>>)[i] = <<a, b, c, e>>[i]
    BY <1>1
  <2> QED BY <1>1, <2>1, SeqEqual
<1> QED BY <1>2, <1>3, <1>4, <1>5, Zenon

LEMMA BuyStep ==
  ASSUME IInv, Buy
  PROVE  IInv' /\ LifeStep
<1>1. PICK g \in {0, 1}, k \in {0, 1} :
        area' = [area EXCEPT ![Color] = AddCrystal(AddGem(area[Color], g), k)]
  BY DEF Buy
<1> DEFINE b == AddCrystal(AddGem(area[Color], g), k)
<1>2. On("ActionPhase") /\ UNCHANGED <<shield, energy>>
  BY DEF Buy
<1>3. /\ Top.kind \in TurnStates /\ Top.kind # "GameOver" /\ current \in Players
      /\ Color \in Colors /\ area[Color] \in Area /\ area[Color].gem + area[Color].crystal <= 5
      /\ energy' \in [Players -> 0 .. EnergyMax]
  BY <1>2, Actions
<1>4. b \in Area /\ b.gem + b.crystal <= 5 /\ b.cup = area[Color].cup /\ b.morale = area[Color].morale
  BY <1>3, Earning
<1>5. area' = [area EXCEPT ![Color] = b]
  BY <1>1
<1> HIDE DEF b
<1>6. Rest' /\ Follows("AfterSpecial")
  BY <1>2, <1>3, EmptyHistories, NewHistory DEF Buy
<1>7. Loose(Draw(current, 0))
  BY <1>3, MakesFrames
<1>8. EndsIn(<<Frame("BeforeSpecial"), Draw(current, 0), Frame("AfterSpecial")>>, "AfterSpecial")
  BY <1>7, AfterFrames, BeforeFrames, EndSequences
<1>9. Shaped' /\ Overs' = Overs
  BY <1>3, <1>8, TopFrame, TurnGoesOn DEF Buy, IInv
<1>10. LifeStep
  BY <1>3, <1>6, <1>8, TurnPasses DEF Buy, IInv
<1> QED BY <1>3, <1>4, <1>5, <1>6, <1>9, <1>10, AreaStep

LEMMA ExtractStep ==
  ASSUME IInv, Extract
  PROVE  IInv' /\ LifeStep
<1>1. /\ On("ActionPhase") /\ UNCHANGED shield /\ Becomes(AfterSpecial)
      /\ Acts(<<>>, <<>>)
  BY DEF Extract
<1>2. /\ Top.kind \in TurnStates /\ Top.kind # "GameOver" /\ current \in Players
      /\ Color \in Colors /\ area[Color] \in Area /\ area[Color].gem + area[Color].crystal <= 5
      /\ energy \in [Players -> 0 .. EnergyMax]
  BY <1>1, Actions
<1>3. PICK g \in 0 .. area[Color].gem, k \in 0 .. area[Color].crystal :
        /\ area' = [area EXCEPT ![Color].gem = @ - g, ![Color].crystal = @ - k]
        /\ energy' = [energy EXCEPT ![current] = Min({@ + g + k, EnergyMax})]
  BY DEF Extract
<1> DEFINE b == [area[Color] EXCEPT !.gem = @ - g, !.crystal = @ - k]
<1>4. b \in Area /\ b.gem + b.crystal <= 5 /\ b.cup = area[Color].cup /\ b.morale = area[Color].morale
  BY <1>2, Spending
<1>5. area' = [area EXCEPT ![Color] = b]
  BY <1>2, <1>3 DEF IInv
<1> HIDE DEF b
<1>6. energy' \in [Players -> 0 .. EnergyMax]
  <2> DEFINE S == {energy[current] + g + k, EnergyMax}
  <2>1. S \in SUBSET Nat /\ S # {} /\ EnergyMax \in S
    BY <1>2, BoundsAssumption DEF Area
  <2> HIDE DEF S
  <2>2. Min(S) \in Nat /\ Min(S) <= EnergyMax
    BY <2>1, LeastOf
  <2>3. Min(S) \in 0 .. EnergyMax
    BY <2>2, BoundsAssumption
  <2>4. energy' = [energy EXCEPT ![current] = Min(S)]
    BY <1>3 DEF S
  <2> QED BY <1>2, <2>3, <2>4
<1>7. Rest' /\ Follows("AfterSpecial")
  BY <1>1, <1>6, EmptyHistories, NewHistory
<1>8. EndsIn(AfterSpecial, "AfterSpecial")
  BY AfterFrames, BeforeFrames, EndSequences DEF AfterSpecial
<1>9. Shaped' /\ Overs' = Overs
  BY <1>1, <1>2, <1>8, TopFrame, TurnGoesOn DEF IInv
<1>10. LifeStep
  BY <1>1, <1>2, <1>7, <1>8, TurnPasses DEF IInv
<1> QED BY <1>2, <1>4, <1>5, <1>7, <1>9, <1>10, AreaStep

LEMMA SynthesizeStep ==
  ASSUME IInv, Synthesize
  PROVE  IInv' /\ LifeStep
<1> DEFINE victim == Nearest(current, FALSE, Opponents(current))
           lost   == Morale("BeforeLoseMorale", victim, 1)
           before == <<Frame("BeforeSpecial"), Draw(current, 0), lost>>
<1>1. /\ On("ActionPhase") /\ UNCHANGED <<shield, energy>> /\ Acts(<<>>, <<>>)
      /\ Becomes(before \o (IF Won(area'[Color]) THEN <<GameOver(Color)>> ELSE <<>>)
                   \o <<Frame("AfterSpecial")>>)
  BY DEF Synthesize
<1>2. /\ Top.kind \in TurnStates /\ Top.kind # "GameOver" /\ current \in Players /\ Overs = {}
      /\ Color \in Colors /\ area[Color] \in Area /\ area[Color].gem + area[Color].crystal <= 5
      /\ \A c \in Colors : area[c].morale # 0 /\ area[c].cup # 5
      /\ energy' \in [Players -> 0 .. EnergyMax]
  BY <1>1, Actions
<1>3. PICK g \in 0 .. 3 :
       /\ g <= area[Color].gem /\ 3 - g <= area[Color].crystal
       /\ area' = [area EXCEPT ![Color].gem = @ - g, ![Color].crystal = @ - (3 - g),
                               ![Color].cup = @ + 1]
  BY DEF Synthesize
<1> DEFINE b == [area[Color] EXCEPT !.gem = @ - g, !.crystal = @ - (3 - g), !.cup = @ + 1]
<1>4. b \in Area /\ b.gem + b.crystal <= 5 /\ b.morale = area[Color].morale
  BY <1>2, <1>3, Synthesizing
<1>5. area' = [area EXCEPT ![Color] = b]
  BY <1>2, <1>3 DEF IInv
<1> HIDE DEF b
<1>6. /\ area' \in [Colors -> Area] /\ EnergyWithinLimit'
      /\ \A c \in Colors : area'[c].morale # 0 /\ (area'[c].cup = 5 => c = Color)
  BY <1>2, <1>4, <1>5 DEF IInv, EnergyWithinLimit
<1>7. Rest' /\ Follows("AfterSpecial")
  BY <1>1, <1>2, EmptyHistories, NewHistory
<1>8. /\ Loose(Frame("BeforeSpecial")) /\ Loose(Draw(current, 0)) /\ Loose(lost)
      /\ Frame("AfterSpecial") \in Frames /\ Frame("AfterSpecial").kind = "AfterSpecial"
  <2>1. victim \in Players
    BY <1>2, SomeOpponent, NearestIsPlayer
  <2> QED BY <1>2, <2>1, MakesFrames, MoraleKinds, BeforeFrames, AfterFrames
<1> HIDE DEF lost
<1>9. /\ Shaped' /\ LifeStep /\ \A c \in Overs' : area'[c].cup = 5
      /\ \A c \in Colors : area'[c].cup = 5 => Overs' # {}
  <2>1. CASE Won(area'[Color])
    <3> DEFINE fs == <<Frame("BeforeSpecial"), Draw(current, 0), lost, GameOver(Color), Frame("AfterSpecial")>>
    <3>1. Becomes(fs)
      <4>1. Becomes(before \o <<GameOver(Color)>> \o <<Frame("AfterSpecial")>>)
        BY <1>1, <2>1
      <4>2. before \o <<GameOver(Color)>> \o <<Frame("AfterSpecial")>> = fs
        BY Concats
      <4> QED BY <4>1, <4>2, Zenon
    <3>2. GameOver(Color) \in Frames /\ GameOver(Color).kind = "GameOver"
      BY <1>2, LooseFrames
    <3>3. stack' = fs
      <4>1. fs \in Seq(Frames)
        BY <1>8, <3>2 DEF Loose
      <4> QED BY <1>2, <3>1, <4>1, SingleStack
    <3>4. Shaped'
      BY <1>8, <3>2, <3>3 DEF Shaped, OneTurn, Bottom, Loose, TurnStates
    <3>5. Overs' = {Color}
      BY <1>2, <1>8, <3>3 DEF Overs, Loose, GameOver, TurnStates
    <3>6. Bottom'.kind = "AfterSpecial" /\ ~IsOver'
      BY <1>8, <3>2, <3>3 DEF Bottom, IsOver, On, Top, Loose
    <3>7. LifeStep
      BY <1>2, <1>7, <3>6, TurnMoves
    <3> QED BY <2>1, <3>4, <3>5, <3>7 DEF Won
  <2>2. CASE ~Won(area'[Color])
    <3>1. Becomes(<<Frame("BeforeSpecial"), Draw(current, 0), lost, Frame("AfterSpecial")>>)
      BY <1>1, <2>2, Concats
    <3>2. EndsIn(<<Frame("BeforeSpecial"), Draw(current, 0), lost, Frame("AfterSpecial")>>, "AfterSpecial")
      BY <1>8, EndSequences DEF TurnStates
    <3>3. Shaped' /\ Overs' = {}
      BY <1>2, <3>1, <3>2, TopFrame, TurnGoesOn DEF IInv
    <3>4. LifeStep
      BY <1>2, <1>7, <3>1, <3>2, TurnPasses DEF IInv
    <3> QED BY <1>6, <2>2, <3>3, <3>4 DEF Won
  <2> QED BY <2>1, <2>2
<1>10. RightWinner'
  BY <1>6, <1>9, WinnerFrom
<1> QED BY <1>6, <1>7, <1>9, <1>10 DEF IInv

LEMMA IdleSteps ==
  ASSUME IInv, Unactional \/ NoCards
  PROVE  IInv' /\ LifeStep
<1>1. /\ Top.kind \in TurnStates /\ Top.kind # "GameOver" /\ current \in Players /\ Overs = {}
      /\ Color \in Colors /\ area[Color] \in Area /\ area[Color].gem + area[Color].crystal <= 5
      /\ \A c \in Colors : area[c].morale # 0 /\ area[c].cup # 5
  BY Actions DEF Unactional, NoCards
<1>2. CASE Unactional
  <2>1. Above(<<UseCard, Draw(current, 0)>>)
    BY <1>1, MakesFrames, AboveSequences
  <2>2. Shaped' /\ Overs' = Overs /\ Bottom' = Bottom
    BY <1>1, <1>2, <2>1, TopIsCovered DEF Unactional, IInv
  <2>3. area' = area /\ Rest'
    BY <1>2, TurnAssumption DEF Unactional, IInv, Rest, combat
  <2>4. RightWinner'
    BY <1>1, <2>2, <2>3, NobodyWins
  <2>5. LifeStep
    BY <1>1, <1>2, <2>2, TurnStays DEF Unactional
  <2> QED BY <2>2, <2>3, <2>4, <2>5 DEF IInv, EnergyWithinLimit
<1>3. CASE NoCards
  <2> DEFINE b == [area[Color] EXCEPT !.morale = 0]
  <2>1. /\ Becomes(<<GameOver(Other(Color))>>) /\ Other(Color) \in Colors
        /\ area' = [area EXCEPT ![Color] = b]
    BY <1>1, <1>3, Reds DEF NoCards, IInv
  <2>2. b \in Area /\ b.gem = area[Color].gem /\ b.crystal = area[Color].crystal
        /\ b.cup = area[Color].cup /\ b.morale = 0
    BY <1>1 DEF Area
  <2> HIDE DEF b
  <2>3. GameOver(Other(Color)) \in Frames /\ GameOver(Other(Color)).kind = "GameOver"
    BY <2>1, LooseFrames
  <2>4. stack' = <<GameOver(Other(Color))>>
    <3>1. <<GameOver(Other(Color))>> \in Seq(Frames)
      BY <2>3
    <3> QED BY <1>1, <2>1, <3>1, SingleStack
  <2>5. Shaped' /\ Top' = GameOver(Other(Color))
    BY <2>3, <2>4 DEF Shaped, OneTurn, Bottom, IsOver, On, Top
  <2>6. Overs' = {Other(Color)}
    BY <2>1, <2>4 DEF Overs, GameOver
  <2>7. /\ area' \in [Colors -> Area] /\ EnergyWithinLimit'
        /\ area'[Color].morale = 0 /\ \A c \in Colors : area'[c].cup # 5
        /\ \A c \in Colors : area'[c].morale = 0 => c = Color
    BY <1>1, <2>1, <2>2 DEF IInv, EnergyWithinLimit
  <2>8. RightWinner'
    BY <1>1, <2>5, <2>6, <2>7, Reds, WinnerFrom
  <2>9. Rest'
    BY <1>3 DEF NoCards, IInv, Rest, turn
  <2>10. LifeStep
    <3>1. IsOver' /\ current' = current
      BY <1>3, <2>3, <2>4 DEF IsOver, On, Top, NoCards, turn
    <3> QED BY <1>1, <3>1, TurnBreaksOff
  <2> QED BY <2>5, <2>7, <2>8, <2>9, <2>10 DEF IInv
<1> QED BY <1>2, <1>3
-----------------------------------------------------------------------------
(* The theorems *)

LEMMA InitHolds == Init => IInv
<1> SUFFICES ASSUME Init PROVE IInv
  OBVIOUS
<1>1. Frame("BeforeTurnBegin") \in Frames /\ Frame("BeforeTurnBegin").kind \in TurnStates
  BY TurnFrames DEF TurnStates
<1>2. Shaped /\ Len(stack) = 1 /\ stack[1] = Frame("BeforeTurnBegin")
  BY <1>1 DEF Init, Shaped, OneTurn, Bottom
<1>3. /\ area \in [Colors -> Area]
      /\ \A c \in Colors : area[c].gem + area[c].crystal <= 5 /\ area[c].cup < 5 /\ area[c].morale > 0
  BY TurnAssumption DEF Init
<1>4. \A c \in Colors : area[c].cup # 5 /\ area[c].morale # 0
  BY <1>3 DEF Area
<1>5. RightWinner
  BY <1>2, <1>4 DEF RightWinner, Frame
<1>6. Rest
  BY TurnAssumption, BoundsAssumption, EmptyHistories DEF Init, Rest
<1> QED BY <1>2, <1>3, <1>5, <1>6 DEF IInv, EnergyWithinLimit

LEMMA StepKeeps == IInv /\ [Next]_vars => IInv' /\ LifeStep
<1> SUFFICES ASSUME IInv, [Next]_vars PROVE IInv' /\ LifeStep
  OBVIOUS
<1>1. CASE GoesOn
  <2>1. CASE Resolves /\ UNCHANGED turn
    <3>1. CASE AttackedNoMiss \/ GiveUp
      BY <2>1, <3>1, AttackedSteps
    <3>2. CASE AskForCross(0)
      BY <2>1, <3>2, AskForCrossStep
    <3>3. CASE BasicEffectChange
      BY <2>1, <3>3, ShieldStep
    <3>4. CASE TrueLoseMorale
      BY <2>1, <3>4, TrueLoseMoraleStep
    <3>5. CASE Timeline1 \/ Timeline2Hit \/ MissileGiveUp \/ Timeline3 \/ Timeline4
                 \/ Timeline5 \/ Timeline6 \/ HandChange \/ MoraleStep \/ Goes
      <4>1. UNCHANGED combat
        BY <3>5 DEF Timeline1, Timeline2Hit, MissileGiveUp, Timeline3, Timeline4, Timeline5,
                    Timeline6, HandChange, MoraleStep, Goes
      <4> QED BY <2>1, <3>5, <4>1, SilentStates
    <3> QED BY <2>1, <3>1, <3>2, <3>3, <3>4, <3>5 DEF Resolves
  <2>2. CASE Passes \/ CheckBasicEffect \/ WeakenSkips \/ NoAction \/ NoMoreActions
    BY <2>2, SilentPhases
  <2>3. CASE AfterAction \/ AfterTurnEnd
    BY <2>3, CountingPhases
  <2> QED BY <1>1, <2>1, <2>2, <2>3 DEF GoesOn
<1>2. CASE PlayerActs
  <2>1. CASE \E p \in Players : BasicAttack(p) \/ Shield(p) \/ BasicMissile(p)
    BY <2>1, MagicAndAttack
  <2>2. CASE Skill
    <3>1. current \in Players
      BY DEF IInv, Rest
    <3> QED BY <2>2, <3>1, MagicAndAttack
  <2>3. CASE Buy \/ Synthesize \/ Extract
    BY <2>3, BuyStep, SynthesizeStep, ExtractStep
  <2>4. CASE Unactional \/ NoCards
    BY <2>4, IdleSteps
  <2>5. CASE Weakened
    BY <2>5, SilentPhases
  <2>6. CASE AdditionalAction
    BY <2>6, CountingPhases
  <2>7. CASE Answers /\ UNCHANGED turn
    <3>1. CASE Reattack \/ Block
      BY <2>7, <3>1, AttackedSteps
    <3>2. CASE Relay
      BY <2>7, <3>2, RelayStep
    <3>3. CASE MissileBlock
      BY <2>7, <3>3, SilentStates DEF MissileBlock
    <3>4. CASE \E n \in 1 .. 4 : AskForCross(n)
      BY <2>7, <3>4, AskForCrossStep
    <3> QED BY <2>7, <3>1, <3>2, <3>3, <3>4 DEF Answers
  <2> QED BY <1>2, <2>1, <2>2, <2>3, <2>4, <2>5, <2>6, <2>7 DEF PlayerActs
<1>3. CASE RoleActs
  <2>1. CASE HookAction \/ HookGiveUp \/ \E p \in Players : HookTurnHarm(p)
    BY <2>1, PhaseHooks
  <2>2. CASE HookTurn
    BY <2>2, CountingPhases
  <2>3. CASE \E p \in Players : RoleHooks(p) /\ UNCHANGED turn
    BY <2>3, RoleHookSteps
  <2>4. CASE \E p \in Opponents(current) : HookNewAttack(current, p) /\ UNCHANGED turn
    BY <2>4, AttackOfHook DEF Opponents
  <2> QED BY <1>3, <2>1, <2>2, <2>3, <2>4 DEF RoleActs
<1>4. CASE UNCHANGED vars
  BY <1>4 DEF vars, combat, turn, IInv, Shaped, OneTurn, EnergyWithinLimit, RightWinner, Rest,
     Bottom, IsOver, On, Top, AtGameOver, LifeStep, Phase
<1> QED BY <1>1, <1>2, <1>3, <1>4 DEF Next

LEMMA Invariance == Spec => []IInv
BY InitHolds, StepKeeps, PTL DEF Spec

\* The states on the stack, the team areas, the histories and the counters keep their
\* types and their bounds, and nobody has more additional actions than hooks gave.
THEOREM TypeCorrect == Spec => []TypeOK
<1>1. IInv => TypeOK
  BY DEF IInv, Shaped, Rest, TypeOK
<1> QED BY <1>1, Invariance, PTL

\* The stack always has exactly one state of the turn, at the bottom.
THEOREM StackHasOneTurn == Spec => []OneTurn
<1>1. IInv => OneTurn
  BY DEF IInv, Shaped
<1> QED BY <1>1, Invariance, PTL

\* The game ends for a reason, and at once.
THEOREM TheRightSideWins == Spec => []RightWinner
<1>1. IInv => RightWinner
  BY DEF IInv
<1> QED BY <1>1, Invariance, PTL

\* No team has more than five gems and crystals.
THEOREM EnergyIsCapped == Spec => []EnergyWithinLimit
<1>1. IInv => EnergyWithinLimit
  BY DEF IInv
<1> QED BY <1>1, Invariance, PTL

\* Turn implements TurnLife: whatever is pushed above it, the turn goes through its
\* phases, and the next player is the one at the next seat.
THEOREM ImplementsTurnLife == Spec => FollowsTurnLife
<1>1. Init => Life!Init
  <2> SUFFICES ASSUME Init PROVE Life!Init
    OBVIOUS
  <2>1. current \in 0 .. NumPlayers - 1
    BY TurnAssumption DEF Init, Players
  <2>2. Len(stack) = 1 /\ stack[1] = Frame("BeforeTurnBegin") /\ stack # <<>>
    BY DEF Init
  <2>3. Phase = "begin"
    BY <2>2 DEF Phase, IsOver, On, Top, Bottom, Frame
  <2> QED BY <2>1, <2>3 DEF Life!Init
<1>2. IInv /\ [Next]_vars => [Life!Next]_<<current, Phase>>
  BY StepKeeps DEF LifeStep
<1> QED BY <1>1, <1>2, Invariance, PTL DEF Spec, FollowsTurnLife, Life!Spec
-----------------------------------------------------------------------------
(* Attacks are settled *)

IsAttack(f)  == f.kind \in {"Timeline1", "Attacked"}
IsMiss(f)    == f.kind = "Timeline2Miss"
IsMissile(f) == f.kind = "Missiled"
IsSkill(f)   == f.kind = "AttackSkill"
Quiet(f)     == ~IsAttack(f) /\ ~IsMiss(f) /\ ~IsMissile(f) /\ ~IsSkill(f)
AllQuiet(fs) == fs \in Seq(Frames) /\ \A i \in 1 .. Len(fs) : Quiet(fs[i])

Open(n, a) == n \in 1 .. Len(a) /\ a[n] = "open"

\* The attacks of stack s are the open ones of the history a, one state each; what has
\* missed is above them, and an attack skill lies just above the turn.
AttacksFit(s, a) ==
  /\ \A i \in 1 .. Len(s) : IsAttack(s[i]) => Open(s[i].n, a)
  /\ \A n \in 1 .. Len(a) : Open(n, a) => \E i \in 1 .. Len(s) : IsAttack(s[i]) /\ s[i].n = n
  /\ \A i, j \in 1 .. Len(s) : IsAttack(s[i]) /\ IsAttack(s[j]) /\ s[i].n = s[j].n => i = j
  /\ \A i, j \in 1 .. Len(s) : IsAttack(s[i]) /\ IsMiss(s[j]) => j < i
  /\ \A i \in 1 .. Len(s) : IsSkill(s[i]) => i = Len(s) - 1

\* Where the states are when the one on top gives way.
LEMMA Positions ==
  ASSUME NEW s \in Seq(Frames), s # <<>>, NEW fs \in Seq(Frames)
  PROVE  /\ fs \o Tail(s) \in Seq(Frames) /\ Len(fs \o Tail(s)) = Len(fs) + Len(s) - 1
         /\ \A i \in 1 .. Len(fs) : i \in 1 .. Len(fs \o Tail(s)) /\ (fs \o Tail(s))[i] = fs[i]
         /\ \A i \in 2 .. Len(s) : /\ i + Len(fs) - 1 \in 1 .. Len(fs \o Tail(s))
                                   /\ (fs \o Tail(s))[i + Len(fs) - 1] = s[i]
         /\ \A i \in 1 .. Len(fs \o Tail(s)) :
              \/ i \in 1 .. Len(fs) /\ (fs \o Tail(s))[i] = fs[i]
              \/ /\ i > Len(fs) /\ i - Len(fs) + 1 \in 2 .. Len(s)
                 /\ (fs \o Tail(s))[i] = s[i - Len(fs) + 1]
<1>1. Len(s) \in Nat \ {0} /\ Len(fs) \in Nat
  BY EmptySeq
<1>2. /\ Tail(s) \in Seq(Frames) /\ Len(Tail(s)) = Len(s) - 1
      /\ \A i \in 1 .. Len(s) - 1 : Tail(s)[i] = s[i + 1]
  BY HeadTailProperties
<1> DEFINE r == Tail(s)
<1>3. /\ r \in Seq(Frames) /\ Len(r) = Len(s) - 1 /\ \A i \in 1 .. Len(s) - 1 : r[i] = s[i + 1]
  BY <1>2
<1> HIDE DEF r
<1>4. /\ fs \o r \in Seq(Frames) /\ Len(fs \o r) = Len(fs) + Len(r)
      /\ \A i \in 1 .. Len(fs) + Len(r) : (fs \o r)[i] = IF i <= Len(fs) THEN fs[i] ELSE r[i - Len(fs)]
  BY <1>3, ConcatProperties
<1>5. \A i \in 1 .. Len(fs) : i \in 1 .. Len(fs \o r) /\ (fs \o r)[i] = fs[i]
  BY <1>1, <1>3, <1>4
<1>6. \A i \in 2 .. Len(s) : i + Len(fs) - 1 \in 1 .. Len(fs \o r) /\ (fs \o r)[i + Len(fs) - 1] = s[i]
  BY <1>1, <1>3, <1>4
<1>7. \A i \in 1 .. Len(fs \o r) :
        \/ i \in 1 .. Len(fs) /\ (fs \o r)[i] = fs[i]
        \/ i > Len(fs) /\ i - Len(fs) + 1 \in 2 .. Len(s) /\ (fs \o r)[i] = s[i - Len(fs) + 1]
  <2> SUFFICES ASSUME NEW i \in 1 .. Len(fs \o r)
               PROVE  \/ i \in 1 .. Len(fs) /\ (fs \o r)[i] = fs[i]
                      \/ /\ i > Len(fs) /\ i - Len(fs) + 1 \in 2 .. Len(s)
                         /\ (fs \o r)[i] = s[i - Len(fs) + 1]
    OBVIOUS
  <2>1. CASE i <= Len(fs)
    BY <1>1, <1>3, <1>4, <2>1
  <2>2. CASE i > Len(fs)
    <3>1. i - Len(fs) \in 1 .. Len(s) - 1 /\ i - Len(fs) + 1 \in 2 .. Len(s)
      BY <1>1, <1>3, <1>4, <2>2
    <3>2. (fs \o r)[i] = r[i - Len(fs)]
      BY <1>1, <1>3, <1>4, <2>2
    <3> QED BY <1>3, <2>2, <3>1, <3>2
  <2> QED BY <1>1, <1>3, <1>4, <2>1, <2>2
<1> QED BY <1>1, <1>3, <1>4, <1>5, <1>6, <1>7 DEF r

\* The states fs, with which the one on top of s is replaced, fit the attacks that are
\* open afterwards.
Replaces(s, fs, a, b) ==
  /\ \A i \in 1 .. Len(fs) : IsAttack(fs[i]) => Open(fs[i].n, b)
  /\ \A i, j \in 1 .. Len(fs) : IsAttack(fs[i]) /\ IsAttack(fs[j]) /\ fs[i].n = fs[j].n => i = j
  /\ \A i, j \in 1 .. Len(fs) : IsAttack(fs[i]) /\ IsMiss(fs[j]) => j < i
  /\ \A i \in 1 .. Len(fs) : IsAttack(fs[i]) =>
       \A j \in 2 .. Len(s) : ~IsMiss(s[j]) /\ (IsAttack(s[j]) => s[j].n # fs[i].n)
  /\ \A j \in 2 .. Len(s) : IsAttack(s[j]) => Open(s[j].n, b)
  /\ \A n \in 1 .. Len(b) : Open(n, b) =>
       \/ \E i \in 1 .. Len(fs) : IsAttack(fs[i]) /\ fs[i].n = n
       \/ \E j \in 2 .. Len(s) : IsAttack(s[j]) /\ s[j].n = n
  /\ \A i \in 1 .. Len(fs) : IsSkill(fs[i]) => i = Len(fs) + Len(s) - 2

LEMMA AttacksReplaced ==
  ASSUME NEW s \in Seq(Frames), s # <<>>, NEW fs \in Seq(Frames), NEW a, NEW b,
         AttacksFit(s, a), Replaces(s, fs, a, b)
  PROVE  AttacksFit(fs \o Tail(s), b)
<1> DEFINE t == fs \o Tail(s)
           back(i) == i - Len(fs) + 1
<1>1. Len(s) \in Nat \ {0} /\ Len(fs) \in Nat /\ \A j \in 2 .. Len(s) : j \in 1 .. Len(s)
  BY EmptySeq
<1>2. /\ Len(t) = Len(fs) + Len(s) - 1
      /\ \A i \in 1 .. Len(fs) : i \in 1 .. Len(t) /\ t[i] = fs[i]
      /\ \A i \in 2 .. Len(s) : i + Len(fs) - 1 \in 1 .. Len(t) /\ t[i + Len(fs) - 1] = s[i]
      /\ \A i \in 1 .. Len(t) : \/ i \in 1 .. Len(fs) /\ t[i] = fs[i]
                                \/ i > Len(fs) /\ back(i) \in 2 .. Len(s) /\ t[i] = s[back(i)]
  BY Positions
<1> HIDE DEF t
<1>3. \A i \in 1 .. Len(t) : IsAttack(t[i]) => Open(t[i].n, b)
  BY <1>2 DEF Replaces
<1>4. \A n \in 1 .. Len(b) : Open(n, b) => \E i \in 1 .. Len(t) : IsAttack(t[i]) /\ t[i].n = n
  <2> SUFFICES ASSUME NEW n \in 1 .. Len(b), Open(n, b)
               PROVE  \E i \in 1 .. Len(t) : IsAttack(t[i]) /\ t[i].n = n
    OBVIOUS
  <2>1. CASE \E i \in 1 .. Len(fs) : IsAttack(fs[i]) /\ fs[i].n = n
    BY <1>2, <2>1
  <2>2. CASE \E j \in 2 .. Len(s) : IsAttack(s[j]) /\ s[j].n = n
    <3>1. PICK j \in 2 .. Len(s) : IsAttack(s[j]) /\ s[j].n = n
      BY <2>2
    <3>2. j + Len(fs) - 1 \in 1 .. Len(t) /\ t[j + Len(fs) - 1] = s[j]
      BY <1>2
    <3> QED BY <3>1, <3>2
  <2> QED BY <2>1, <2>2 DEF Replaces
<1>5. \A i, j \in 1 .. Len(t) : IsAttack(t[i]) /\ IsAttack(t[j]) /\ t[i].n = t[j].n => i = j
  <2> SUFFICES ASSUME NEW i \in 1 .. Len(t), NEW j \in 1 .. Len(t),
                      IsAttack(t[i]), IsAttack(t[j]), t[i].n = t[j].n
               PROVE  i = j
    OBVIOUS
  <2>1. CASE t[i] = fs[i] /\ i \in 1 .. Len(fs) /\ t[j] = fs[j] /\ j \in 1 .. Len(fs)
    BY <2>1 DEF Replaces
  <2>2. CASE /\ t[i] = s[back(i)] /\ back(i) \in 2 .. Len(s) /\ i > Len(fs)
             /\ t[j] = s[back(j)] /\ back(j) \in 2 .. Len(s) /\ j > Len(fs)
    <3>1. back(i) = back(j)
      <4>1. \A x, y \in 1 .. Len(s) :
              IsAttack(s[x]) /\ IsAttack(s[y]) /\ s[x].n = s[y].n => x = y
        BY DEF AttacksFit
      <4> HIDE DEF back
      <4> QED BY <1>1, <2>2, <4>1
    <3> QED BY <1>1, <3>1
  <2>3. CASE /\ t[i] = fs[i] /\ i \in 1 .. Len(fs)
             /\ t[j] = s[back(j)] /\ back(j) \in 2 .. Len(s) /\ j > Len(fs)
    BY <2>3 DEF Replaces
  <2>4. CASE /\ t[j] = fs[j] /\ j \in 1 .. Len(fs)
             /\ t[i] = s[back(i)] /\ back(i) \in 2 .. Len(s) /\ i > Len(fs)
    BY <2>4 DEF Replaces
  <2> HIDE DEF back
  <2> QED BY <1>2, <2>1, <2>2, <2>3, <2>4
<1>6. \A i, j \in 1 .. Len(t) : IsAttack(t[i]) /\ IsMiss(t[j]) => j < i
  <2> SUFFICES ASSUME NEW i \in 1 .. Len(t), NEW j \in 1 .. Len(t), IsAttack(t[i]), IsMiss(t[j])
               PROVE  j < i
    OBVIOUS
  <2>1. CASE t[i] = fs[i] /\ i \in 1 .. Len(fs) /\ t[j] = fs[j] /\ j \in 1 .. Len(fs)
    BY <2>1 DEF Replaces
  <2>2. CASE /\ t[i] = s[back(i)] /\ back(i) \in 2 .. Len(s) /\ i > Len(fs)
             /\ t[j] = s[back(j)] /\ back(j) \in 2 .. Len(s) /\ j > Len(fs)
    <3>1. back(j) < back(i)
      BY <1>1, <2>2 DEF AttacksFit
    <3> QED BY <1>1, <3>1
  <2>3. CASE /\ t[i] = fs[i] /\ i \in 1 .. Len(fs)
             /\ t[j] = s[back(j)] /\ back(j) \in 2 .. Len(s) /\ j > Len(fs)
    BY <2>3 DEF Replaces
  <2>4. CASE /\ t[j] = fs[j] /\ j \in 1 .. Len(fs)
             /\ t[i] = s[back(i)] /\ back(i) \in 2 .. Len(s) /\ i > Len(fs)
    BY <1>1, <2>4
  <2> HIDE DEF back
  <2> QED BY <1>2, <2>1, <2>2, <2>3, <2>4
<1>7. \A i \in 1 .. Len(t) : IsSkill(t[i]) => i = Len(t) - 1
  <2> SUFFICES ASSUME NEW i \in 1 .. Len(t), IsSkill(t[i]) PROVE i = Len(t) - 1
    OBVIOUS
  <2>1. CASE t[i] = fs[i] /\ i \in 1 .. Len(fs)
    BY <1>1, <1>2, <2>1 DEF Replaces
  <2>2. CASE t[i] = s[back(i)] /\ back(i) \in 2 .. Len(s) /\ i > Len(fs)
    <3>1. back(i) = Len(s) - 1
      BY <1>1, <2>2 DEF AttacksFit
    <3> QED BY <1>1, <1>2, <3>1
  <2> HIDE DEF back
  <2> QED BY <1>2, <2>1, <2>2
<1>8. AttacksFit(t, b)
  BY <1>3, <1>4, <1>5, <1>6, <1>7 DEF AttacksFit
<1> QED BY <1>8 DEF t

\* States that are about no attack replace one that is about none.
LEMMA QuietAttacks ==
  ASSUME NEW s \in Seq(Frames), s # <<>>, NEW fs, AllQuiet(fs), NEW a,
         AttacksFit(s, a), ~IsAttack(s[1])
  PROVE  AttacksFit(fs \o Tail(s), a)
<1>1. Len(s) \in Nat \ {0} /\ fs \in Seq(Frames)
  BY EmptySeq DEF AllQuiet
<1>2. Replaces(s, fs, a, a)
  <2>1. \A n \in 1 .. Len(a) : Open(n, a) => \E j \in 2 .. Len(s) : IsAttack(s[j]) /\ s[j].n = n
    <3> SUFFICES ASSUME NEW n \in 1 .. Len(a), Open(n, a)
                 PROVE  \E j \in 2 .. Len(s) : IsAttack(s[j]) /\ s[j].n = n
      OBVIOUS
    <3>1. PICK i \in 1 .. Len(s) : IsAttack(s[i]) /\ s[i].n = n
      BY DEF AttacksFit
    <3>2. i \in 2 .. Len(s)
      BY <1>1, <3>1
    <3> QED BY <3>1, <3>2
  <2>2. \A j \in 2 .. Len(s) : IsAttack(s[j]) => Open(s[j].n, a)
    BY <1>1 DEF AttacksFit
  <2> QED BY <2>1, <2>2 DEF Replaces, AllQuiet, Quiet
<1> QED BY <1>1, <1>2, AttacksReplaced

\* An attack is settled: the state about it gives way to others that are about none.
LEMMA AttackSettled ==
  ASSUME NEW s \in Seq(Frames), s # <<>>, NEW fs \in Seq(Frames), IsAttack(s[1]),
         \A i \in 1 .. Len(fs) : ~IsAttack(fs[i]) /\ ~IsSkill(fs[i]),
         NEW a \in Seq({"open", "hit", "miss"}), AttacksFit(s, a), NEW x \in {"hit", "miss"}
  PROVE  AttacksFit(fs \o Tail(s), [a EXCEPT ![s[1].n] = x])
<1> DEFINE b == [a EXCEPT ![s[1].n] = x]
<1>1. Len(s) \in Nat \ {0} /\ 1 \in 1 .. Len(s)
  BY EmptySeq
<1>2. s[1].n \in 1 .. Len(a)
  BY <1>1 DEF AttacksFit, Open
<1>3. Len(b) = Len(a) /\ \A n \in 1 .. Len(a) : Open(n, b) <=> Open(n, a) /\ n # s[1].n
  BY <1>2 DEF Open
<1> HIDE DEF b
<1>4. \A j \in 2 .. Len(s) : j \in 1 .. Len(s) /\ (IsAttack(s[j]) => s[j].n # s[1].n)
  BY <1>1 DEF AttacksFit
<1>5. \A j \in 2 .. Len(s) : IsAttack(s[j]) => Open(s[j].n, b)
  BY <1>3, <1>4 DEF AttacksFit, Open
<1>6. ASSUME NEW n \in 1 .. Len(b), Open(n, b)
      PROVE  \E j \in 2 .. Len(s) : IsAttack(s[j]) /\ s[j].n = n
  <2>1. Open(n, a) /\ n # s[1].n /\ n \in 1 .. Len(a)
    BY <1>3, <1>6
  <2>2. PICK i \in 1 .. Len(s) : IsAttack(s[i]) /\ s[i].n = n
    BY <2>1 DEF AttacksFit
  <2>3. i \in 2 .. Len(s)
    BY <1>1, <2>1, <2>2
  <2> QED BY <2>2, <2>3
<1>7. Replaces(s, fs, a, b)
  BY <1>5, <1>6 DEF Replaces
<1> QED BY <1>7, AttacksReplaced DEF b

\* The state about an attack gives way to another about the same.
LEMMA AttackGoesOn ==
  ASSUME NEW s \in Seq(Frames), s # <<>>, NEW f \in Frames, IsAttack(s[1]), IsAttack(f),
         f.n = s[1].n, NEW a, AttacksFit(s, a)
  PROVE  AttacksFit(<<f>> \o Tail(s), a)
<1>1. Len(s) \in Nat \ {0} /\ 1 \in 1 .. Len(s)
  BY EmptySeq
<1>2. /\ \A j \in 2 .. Len(s) : /\ j \in 1 .. Len(s) /\ ~IsMiss(s[j])
                                /\ IsAttack(s[j]) => s[j].n # s[1].n
  BY <1>1 DEF AttacksFit
<1> DEFINE fs == <<f>>
<1>3. fs \in Seq(Frames) /\ Len(fs) = 1 /\ fs[1] = f
  OBVIOUS
<1> HIDE DEF fs
<1>4. ASSUME NEW n \in 1 .. Len(a), Open(n, a)
      PROVE  \/ \E i \in 1 .. Len(fs) : IsAttack(fs[i]) /\ fs[i].n = n
             \/ \E j \in 2 .. Len(s) : IsAttack(s[j]) /\ s[j].n = n
  <2>1. PICK i \in 1 .. Len(s) : IsAttack(s[i]) /\ s[i].n = n
    BY <1>4 DEF AttacksFit
  <2> QED BY <1>1, <1>3, <2>1
<1>5. ~IsSkill(f) /\ ~IsMiss(f)
  BY DEF IsSkill, IsMiss, IsAttack
<1>6. \A j \in 1 .. Len(s) : IsAttack(s[j]) => Open(s[j].n, a)
  BY DEF AttacksFit
<1>7. Replaces(s, fs, a, a)
  BY <1>1, <1>2, <1>3, <1>4, <1>5, <1>6 DEF Replaces
<1> QED BY <1>3, <1>7, AttacksReplaced DEF fs

\* What an attack was answered with: it misses, and the counterattack is open.
LEMMA AttackCountered ==
  ASSUME NEW s \in Seq(Frames), s # <<>>, NEW u \in Frames, NEW m \in Frames, NEW f \in Frames,
         IsAttack(s[1]), Quiet(u), IsMiss(m), IsAttack(f),
         NEW a \in Seq({"open", "hit", "miss"}), AttacksFit(s, a), f.n = Len(a) + 1
  PROVE  AttacksFit(<<u, m, f>> \o Tail(s), Append([a EXCEPT ![s[1].n] = "miss"], "open"))
<1> DEFINE b == Append([a EXCEPT ![s[1].n] = "miss"], "open")
           fs == <<u, m, f>>
<1>1. Len(s) \in Nat \ {0} /\ 1 \in 1 .. Len(s) /\ Len(a) \in Nat
  BY EmptySeq
<1>2. s[1].n \in 1 .. Len(a)
  BY <1>1 DEF AttacksFit, Open
<1>3. Len(b) = Len(a) + 1 /\ \A n \in 1 .. Len(b) : Open(n, b) <=> n = Len(a) + 1 \/ (Open(n, a) /\ n # s[1].n)
  BY <1>1, <1>2 DEF Open
<1>4. /\ fs \in Seq(Frames) /\ Len(fs) = 3 /\ fs[1] = u /\ fs[2] = m /\ fs[3] = f
  OBVIOUS
<1> HIDE DEF b, fs
<1>5. \A j \in 2 .. Len(s) : /\ j \in 1 .. Len(s) /\ ~IsMiss(s[j])
                             /\ IsAttack(s[j]) => s[j].n # s[1].n /\ Open(s[j].n, a)
  BY <1>1 DEF AttacksFit
<1>6. \A n : Open(n, a) => n \in 1 .. Len(a) /\ n \in 1 .. Len(b) /\ n # Len(a) + 1
  BY <1>1, <1>3 DEF Open
<1>7. \A j \in 2 .. Len(s) : IsAttack(s[j]) => Open(s[j].n, b) /\ s[j].n # f.n
  BY <1>3, <1>5, <1>6
<1>8. ASSUME NEW n \in 1 .. Len(b), Open(n, b)
      PROVE  \/ \E i \in 1 .. Len(fs) : IsAttack(fs[i]) /\ fs[i].n = n
             \/ \E j \in 2 .. Len(s) : IsAttack(s[j]) /\ s[j].n = n
  <2>1. CASE n = Len(a) + 1
    BY <1>4, <2>1
  <2>2. CASE Open(n, a) /\ n # s[1].n
    <3>1. PICK i \in 1 .. Len(s) : IsAttack(s[i]) /\ s[i].n = n
      BY <1>6, <2>2 DEF AttacksFit
    <3> QED BY <1>1, <2>2, <3>1
  <2> QED BY <1>3, <1>8, <2>1, <2>2
<1>9. /\ ~IsAttack(u) /\ ~IsMiss(u) /\ ~IsSkill(u) /\ ~IsAttack(m) /\ ~IsSkill(m)
      /\ ~IsMiss(f) /\ ~IsSkill(f)
  BY DEF Quiet, IsMiss, IsAttack, IsSkill
<1>10. Open(f.n, b)
  BY <1>1, <1>3
<1>11. \A i \in 1 .. Len(fs) : i \in {1, 2, 3} /\ (IsAttack(fs[i]) => i = 3) /\ ~IsSkill(fs[i])
                               /\ (IsMiss(fs[i]) => i = 2)
  BY <1>4, <1>9
<1>12. Replaces(s, fs, a, b)
  BY <1>4, <1>5, <1>7, <1>8, <1>10, <1>11 DEF Replaces
<1> QED BY <1>4, <1>12, AttacksReplaced DEF b, fs

\* An attack skill makes a new attack: nothing but the turn is below it.
LEMMA AttackOfSkill ==
  ASSUME NEW s \in Seq(Frames), s # <<>>, NEW f \in Frames, NEW g \in Frames,
         IsSkill(s[1]), \A j \in 2 .. Len(s) : Quiet(s[j]), IsAttack(f), Quiet(g),
         NEW a \in Seq({"open", "hit", "miss"}), AttacksFit(s, a), f.n = Len(a) + 1
  PROVE  AttacksFit(<<f, g>> \o Tail(s), Append(a, "open"))
<1> DEFINE b == Append(a, "open")
           fs == <<f, g>>
<1>1. Len(s) \in Nat \ {0} /\ 1 \in 1 .. Len(s) /\ Len(a) \in Nat
  BY EmptySeq
<1>3. Len(b) = Len(a) + 1 /\ \A n \in 1 .. Len(b) : Open(n, b) <=> n = Len(a) + 1 \/ Open(n, a)
  BY <1>1 DEF Open
<1>4. /\ fs \in Seq(Frames) /\ Len(fs) = 2 /\ fs[1] = f /\ fs[2] = g
  OBVIOUS
<1> HIDE DEF b, fs
<1>5. \A j \in 1 .. Len(s) : ~IsAttack(s[j]) /\ ~(j \in 2 .. Len(s) /\ (IsMiss(s[j]) \/ IsSkill(s[j])))
  BY <1>1 DEF Quiet, IsAttack, IsSkill
<1>6. \A n \in 1 .. Len(a) : ~Open(n, a)
  BY <1>5 DEF AttacksFit
<1>7. \A n \in 1 .. Len(b) : Open(n, b) <=> n = Len(a) + 1
  BY <1>3, <1>6 DEF Open
<1>9. /\ ~IsAttack(g) /\ ~IsMiss(g) /\ ~IsSkill(g) /\ ~IsMiss(f) /\ ~IsSkill(f)
  BY DEF Quiet, IsMiss, IsAttack, IsSkill
<1>10. Open(f.n, b)
  BY <1>1, <1>3
<1>11. \A i \in 1 .. Len(fs) : i \in {1, 2} /\ (IsAttack(fs[i]) <=> i = 1) /\ ~IsSkill(fs[i])
                               /\ ~IsMiss(fs[i])
  BY <1>4, <1>9
<1>13. \A j \in 2 .. Len(s) : ~IsAttack(s[j]) /\ ~IsMiss(s[j])
  BY <1>1, <1>5
<1>14. \A n \in 1 .. Len(b) : Open(n, b) => \E i \in 1 .. Len(fs) : IsAttack(fs[i]) /\ fs[i].n = n
  BY <1>4, <1>7, <1>11
<1>12. Replaces(s, fs, a, b)
  BY <1>4, <1>10, <1>11, <1>13, <1>14 DEF Replaces
<1> QED BY <1>4, <1>12, AttacksReplaced DEF b, fs

\* The states of a new action, with no attack yet or with the first one
LEMMA NoAttackYet ==
  ASSUME NEW s \in Seq(Frames), \A i \in 1 .. Len(s) : ~IsAttack(s[i]) /\ (IsSkill(s[i]) => i = Len(s) - 1)
  PROVE  AttacksFit(s, <<>>)
BY DEF AttacksFit

LEMMA FirstAttack ==
  ASSUME NEW u \in Frames, NEW g \in Frames, NEW f \in Frames, NEW e \in Frames,
         Quiet(u), Quiet(g), Quiet(e), IsAttack(f), f.n = 1
  PROVE  AttacksFit(<<u, g, f, e>>, <<"open">>)
<1> DEFINE s == <<u, g, f, e>>
<1>1. Len(s) = 4 /\ s[1] = u /\ s[2] = g /\ s[3] = f /\ s[4] = e
  OBVIOUS
<1> HIDE DEF s
<1>2. \A i \in 1 .. Len(s) : (IsAttack(s[i]) <=> i = 3) /\ ~IsMiss(s[i]) /\ ~IsSkill(s[i])
  BY <1>1 DEF Quiet, IsAttack, IsMiss, IsSkill
<1>3. Open(1, <<"open">>) /\ \A n \in 1 .. Len(<<"open">>) : n = 1
  BY DEF Open
<1>4. AttacksFit(s, <<"open">>)
  BY <1>1, <1>2, <1>3 DEF AttacksFit
<1> QED BY <1>4 DEF s
-----------------------------------------------------------------------------
(* Missiles go round *)

Had(r)  == {r[i] : i \in 1 .. Len(r)}
Team(c) == {p \in Players : TeamOf[p] = c}
HadOf(r, c) == Cardinality(Had(r) \cap Team(c))

\* Nobody has had the missile twice.
OnceEach(r) == \A i, j \in 1 .. Len(r) : r[i] = r[j] => i = j

\* It goes to and fro between the teams once it has been passed on.
ToAndFro(r) == \A i \in 2 .. Len(r) - 1 : r[i + 1] \in Opponents(r[i])

\* Who played it sent it to himself, or to an opponent.
SentHome(r)   == r # <<>> /\ r[2] = r[1]
SentAcross(r) == r # <<>> /\ r[2] \in Opponents(r[1])

\* One team has had it, and both if it was sent to an opponent first.
RoundOver(r) ==
  /\ \E c \in Colors : Team(c) \subseteq Had(r)
  /\ SentAcross(r) => Had(r) = Players

GoesRound(r) == OnceEach(r) \/ RoundOver(r) \/ SentHome(r)

\* As many players of both teams have had it, or one more of the team that has it.
Even(r) ==
  LET p == r[Len(r)] IN
  \/ HadOf(r, TeamOf[p]) = HadOf(r, Other(TeamOf[p]))
  \/ HadOf(r, TeamOf[p]) = HadOf(r, Other(TeamOf[p])) + 1

\* The missile m in the first round: the marks are of all who passed it on.
FirstRound(m, r) ==
  /\ OnceEach(r) /\ (SentAcross(r) => Even(r))
  /\ Had(r) = m.has \cup {m.dst} /\ m.dst \notin m.has

InFlight(m, r) ==
  /\ Len(r) >= 2 /\ m.dst = r[Len(r)]
  /\ SentHome(r) \/ RoundOver(r) \/ FirstRound(m, r)

\* The missile of stack s, if there is one, flies as the history r says.
MissilesFit(s, r) ==
  /\ ToAndFro(r) /\ GoesRound(r)
  /\ \A i \in 1 .. Len(s) : IsMissile(s[i]) => InFlight(s[i], r)
  /\ \A i, j \in 1 .. Len(s) : IsMissile(s[i]) /\ IsMissile(s[j]) => i = j

\* Nothing that replaces the state on top is a missile.
LEMMA QuietMissiles ==
  ASSUME NEW s \in Seq(Frames), s # <<>>, NEW fs \in Seq(Frames), NEW r, MissilesFit(s, r),
         \A i \in 1 .. Len(fs) : ~IsMissile(fs[i])
  PROVE  MissilesFit(fs \o Tail(s), r)
<1> DEFINE t == fs \o Tail(s)
<1>1. Len(s) \in Nat \ {0} /\ Len(fs) \in Nat
  BY EmptySeq
<1>2. \A i \in 1 .. Len(t) : \/ i \in 1 .. Len(fs) /\ t[i] = fs[i]
                             \/ /\ i > Len(fs) /\ i - Len(fs) + 1 \in 2 .. Len(s)
                                /\ t[i] = s[i - Len(fs) + 1]
  BY Positions
<1> HIDE DEF t
<1>3. \A i \in 1 .. Len(t) : IsMissile(t[i]) =>
        i > Len(fs) /\ i - Len(fs) + 1 \in 1 .. Len(s) /\ t[i] = s[i - Len(fs) + 1]
  BY <1>1, <1>2
<1>4. \A i, j \in 1 .. Len(t) : IsMissile(t[i]) /\ IsMissile(t[j]) => i = j
  <2> SUFFICES ASSUME NEW i \in 1 .. Len(t), NEW j \in 1 .. Len(t), IsMissile(t[i]), IsMissile(t[j])
               PROVE  i = j
    OBVIOUS
  <2>1. i - Len(fs) + 1 = j - Len(fs) + 1
    BY <1>3 DEF MissilesFit
  <2> QED BY <1>1, <2>1
<1>5. \A i \in 1 .. Len(t) : IsMissile(t[i]) => InFlight(t[i], r)
  BY <1>3 DEF MissilesFit
<1> QED BY <1>4, <1>5 DEF MissilesFit, t

\* The opponents of a player are the other team.
LEMMA TheOtherTeam ==
  ASSUME NEW p \in Players
  PROVE  /\ TeamOf[p] \in Colors /\ Other(TeamOf[p]) \in Colors /\ Other(TeamOf[p]) # TeamOf[p]
         /\ Other(Other(TeamOf[p])) = TeamOf[p]
         /\ Opponents(p) = Team(Other(TeamOf[p]))
         /\ Players = Team(TeamOf[p]) \cup Team(Other(TeamOf[p]))
         /\ \A q \in Opponents(p) : q \in Players /\ TeamOf[q] = Other(TeamOf[p])
BY PlayersAssumption DEF Opponents, Team, Other, Colors, RED, BLUE

LEMMA TeamSize ==
  ASSUME NEW c \in Colors
  PROVE  /\ IsFiniteSet(Team(c)) /\ Cardinality(Team(c)) \in Nat
         /\ 2 * Cardinality(Team(c)) = NumPlayers
<1>1. NumPlayers \in Nat /\ 2 * Cardinality(Team(c)) = NumPlayers
  BY PlayersAssumption DEF Team
<1>2. IsFiniteSet(Players)
  BY <1>1, FS_Interval DEF Players
<1>3. IsFiniteSet(Team(c))
  BY <1>2, FS_Subset DEF Team
<1> QED BY <1>1, <1>3, FS_CardinalityType

\* Who has had it grows by the next one.
LEMMA HadNext ==
  ASSUME NEW r \in Seq(Players), r # <<>>, NEW q \in Players
  PROVE  LET t == Append(r, q) IN
         /\ t \in Seq(Players) /\ t # <<>> /\ Len(t) = Len(r) + 1 /\ t[Len(t)] = q
         /\ Had(t) = Had(r) \cup {q} /\ Had(r) \subseteq Players
         /\ r[Len(r)] \in Players /\ r[Len(r)] \in Had(r)
         /\ Len(r) >= 2 => t[1] = r[1] /\ t[2] = r[2]
         /\ ToAndFro(r) /\ q \in Opponents(r[Len(r)]) => ToAndFro(t)
         /\ OnceEach(r) /\ q \notin Had(r) => OnceEach(t)
<1> DEFINE t == Append(r, q)
<1>1. Len(r) \in Nat \ {0}
  BY EmptySeq
<1>2. /\ t \in Seq(Players) /\ Len(t) = Len(r) + 1 /\ t[Len(t)] = q
      /\ \A i \in 1 .. Len(r) : t[i] = r[i]
  BY AppendProperties
<1> HIDE DEF t
<1>3. t # <<>>
  BY <1>1, <1>2, EmptySeq
<1>4. \A i \in 1 .. Len(t) : i \in 1 .. Len(r) \/ i = Len(t)
  BY <1>1, <1>2
<1>5. Had(t) = Had(r) \cup {q}
  BY <1>1, <1>2, <1>4 DEF Had
<1>6. Had(r) \subseteq Players /\ r[Len(r)] \in Players /\ r[Len(r)] \in Had(r)
  BY <1>1 DEF Had
<1>7. ASSUME ToAndFro(r), q \in Opponents(r[Len(r)]) PROVE ToAndFro(t)
  <2> SUFFICES ASSUME NEW i \in 2 .. Len(t) - 1 PROVE t[i + 1] \in Opponents(t[i])
    BY DEF ToAndFro
  <2>1. CASE i = Len(r)
    BY <1>1, <1>2, <1>7, <2>1
  <2>2. CASE i # Len(r)
    <3>1. i \in 2 .. Len(r) - 1 /\ i \in 1 .. Len(r) /\ i + 1 \in 1 .. Len(r)
      BY <1>1, <1>2, <2>2
    <3> QED BY <1>2, <1>7, <3>1 DEF ToAndFro
  <2> QED BY <2>1, <2>2
<1>8. ASSUME OnceEach(r), q \notin Had(r) PROVE OnceEach(t)
  <2> SUFFICES ASSUME NEW i \in 1 .. Len(t), NEW j \in 1 .. Len(t), t[i] = t[j] PROVE i = j
    BY DEF OnceEach
  <2>1. \A k \in 1 .. Len(r) : t[k] # q
    BY <1>2, <1>8 DEF Had
  <2> QED BY <1>2, <1>4, <1>8, <2>1 DEF OnceEach
<1>9. Len(r) >= 2 => t[1] = r[1] /\ t[2] = r[2]
  BY <1>1, <1>2
<1> QED BY <1>2, <1>3, <1>5, <1>6, <1>7, <1>8, <1>9 DEF t

\* The next one of the other team restores the balance.
LEMMA EvenNext ==
  ASSUME NEW r \in Seq(Players), r # <<>>, Even(r), NEW q \in Opponents(r[Len(r)]), q \notin Had(r)
  PROVE  Even(Append(r, q))
<1> DEFINE p == r[Len(r)]
           c == TeamOf[p]
           d == Other(c)
           t == Append(r, q)
<1>1. p \in Players /\ Had(r) \subseteq Players
  BY SomeOpponent, HadNext
<1>2. /\ c \in Colors /\ d \in Colors /\ c # d /\ Other(d) = c /\ q \in Players /\ TeamOf[q] = d
  BY <1>1, TheOtherTeam
<1>3. Had(t) = Had(r) \cup {q} /\ t[Len(t)] = q
  BY <1>2, HadNext
<1>4. /\ IsFiniteSet(Had(r) \cap Team(c)) /\ HadOf(r, c) \in Nat
      /\ IsFiniteSet(Had(r) \cap Team(d)) /\ HadOf(r, d) \in Nat
  BY <1>2, TeamSize, FS_Subset, FS_CardinalityType DEF HadOf
<1> HIDE DEF p, c, d, t
<1>5. HadOf(r, c) = HadOf(r, d) \/ HadOf(r, c) = HadOf(r, d) + 1
  BY DEF Even, p, c, d
<1>6. Had(t) \cap Team(c) = Had(r) \cap Team(c)
  BY <1>2, <1>3 DEF Team
<1>7. Had(t) \cap Team(d) = (Had(r) \cap Team(d)) \cup {q}
  BY <1>2, <1>3 DEF Team
<1>8. HadOf(t, c) = HadOf(r, c)
  BY <1>6 DEF HadOf
<1>9. HadOf(t, d) = HadOf(r, d) + 1
  BY <1>4, <1>7, FS_AddElement DEF HadOf
<1>10. HadOf(t, d) = HadOf(t, c) \/ HadOf(t, d) = HadOf(t, c) + 1
  BY <1>4, <1>5, <1>8, <1>9
<1>11. Even(t)
  BY <1>2, <1>3, <1>10 DEF Even
<1> QED BY <1>11 DEF t

\* When all opponents have had it, so has everybody.
LEMMA EverybodyHad ==
  ASSUME NEW r \in Seq(Players), r # <<>>, Even(r), Opponents(r[Len(r)]) \subseteq Had(r)
  PROVE  Had(r) = Players
<1> DEFINE p == r[Len(r)]
           c == TeamOf[p]
           d == Other(c)
<1>1. p \in Players /\ Had(r) \subseteq Players
  BY SomeOpponent, HadNext
<1>2. /\ c \in Colors /\ d \in Colors /\ Opponents(p) = Team(d) /\ Players = Team(c) \cup Team(d)
  BY <1>1, TheOtherTeam
<1>3. /\ Cardinality(Team(c)) \in Nat /\ Cardinality(Team(d)) = Cardinality(Team(c))
      /\ IsFiniteSet(Team(c))
  BY <1>2, TeamSize, PlayersAssumption
<1>4. Team(d) \subseteq Had(r)
  BY <1>2 DEF p
<1> HIDE DEF p, c, d
<1>5. HadOf(r, d) = Cardinality(Team(d))
  <2>1. Had(r) \cap Team(d) = Team(d)
    BY <1>4
  <2> QED BY <2>1 DEF HadOf
<1>6. HadOf(r, c) = HadOf(r, d) \/ HadOf(r, c) = HadOf(r, d) + 1
  BY DEF Even, p, c, d
<1>7. /\ HadOf(r, c) <= Cardinality(Team(c))
      /\ HadOf(r, c) = Cardinality(Team(c)) => Had(r) \cap Team(c) = Team(c)
  BY <1>3, FS_Subset DEF HadOf
<1>8. Had(r) \cap Team(c) = Team(c)
  BY <1>3, <1>5, <1>6, <1>7
<1> QED BY <1>1, <1>2, <1>4, <1>8

\* Whom the missile goes to next, when it has not come round: to somebody new, or else
\* the round is over.
LEMMA FirstRoundGoesOn ==
  ASSUME NEW r \in Seq(Players), r # <<>>, NEW m \in MissileFrames, FirstRound(m, r),
         m.dst = r[Len(r)], NEW q, q = RelayTo(m).to
  PROVE  \/ RoundOver(r)
         \/ RelayTo(m).has = m.has /\ q \in Opponents(m.dst) /\ q \notin Had(r)
<1>1. m.dst \in Players /\ m.clockwise \in BOOLEAN /\ m.has \in SUBSET Players
  BY DEF MissileFrames
<1>2. m.dst \notin Opponents(m.dst)
  BY <1>1, SomeOpponent
<1> DEFINE Q == Opponents(m.dst) \ m.has
<1>3. CASE Q # {}
  <2>1. Q \in SUBSET Players /\ m.dst \notin Q
    BY <1>1, SomeOpponent
  <2>2. RelayTo(m) = [to |-> Nearest(m.dst, m.clockwise, Q), has |-> m.has]
    BY <1>3 DEF RelayTo, NextTarget
  <2> HIDE DEF Q
  <2>3. Nearest(m.dst, m.clockwise, Q) \in Q
    BY <1>1, <1>3, <2>1, NearestIsPlayer
  <2>4. q \in Q
    BY <2>2, <2>3
  <2> QED BY <1>2, <2>2, <2>4 DEF FirstRound, Q
<1>4. CASE Q = {}
  <2>1. Opponents(m.dst) \subseteq Had(r)
    BY <1>4 DEF FirstRound
  <2>2. SentAcross(r) => Had(r) = Players
    BY <2>1, EverybodyHad DEF FirstRound
  <2>3. \E c \in Colors : Team(c) \subseteq Had(r)
    BY <1>1, <2>1, TheOtherTeam
  <2> QED BY <2>2, <2>3 DEF RoundOver
<1> QED BY <1>3, <1>4

\* The missile is passed on.
LEMMA Relayed ==
  ASSUME NEW r \in Seq(Players), NEW m \in MissileFrames, InFlight(m, r), ToAndFro(r),
         NEW n \in MissileFrames, n.dst = RelayTo(m).to, n.has = RelayTo(m).has \cup {m.dst}
  PROVE  LET t == Append(r, n.dst) IN
         InFlight(n, t) /\ ToAndFro(t) /\ GoesRound(t)
<1> DEFINE t == Append(r, n.dst)
<1>1. /\ r # <<>> /\ Len(r) >= 2 /\ m.dst = r[Len(r)] /\ m.dst \in Players
      /\ m.clockwise \in BOOLEAN /\ m.has \in SUBSET Players
  BY EmptySeq DEF InFlight, MissileFrames
<1>2. n.dst \in Opponents(m.dst) /\ n.dst \in Players /\ n.dst # m.dst
  BY <1>1, NextTargetIsOpponent, SomeOpponent DEF RelayTo
<1>3. /\ t # <<>> /\ t[Len(t)] = n.dst /\ Had(t) = Had(r) \cup {n.dst} /\ Had(r) \subseteq Players
      /\ t[1] = r[1] /\ t[2] = r[2] /\ Len(t) = Len(r) + 1
      /\ ToAndFro(t) /\ (OnceEach(r) /\ n.dst \notin Had(r) => OnceEach(t))
  BY <1>1, <1>2, HadNext
<1>4. Len(t) >= 2
  BY <1>1, <1>3
<1> HIDE DEF t
<1>5. (SentHome(t) <=> SentHome(r)) /\ (SentAcross(t) <=> SentAcross(r))
  BY <1>1, <1>3 DEF SentHome, SentAcross
<1>6. CASE SentHome(r)
  BY <1>3, <1>4, <1>5, <1>6 DEF InFlight, GoesRound, t
<1>7. CASE RoundOver(r)
  <2>1. RoundOver(t)
    BY <1>2, <1>3, <1>5, <1>7 DEF RoundOver
  <2> QED BY <1>3, <1>4, <2>1 DEF InFlight, GoesRound, t
<1>8. CASE FirstRound(m, r) /\ ~RoundOver(r)
  <2>1. RelayTo(m).has = m.has /\ n.dst \notin Had(r)
    BY <1>1, <1>8, FirstRoundGoesOn
  <2>2. SentAcross(t) => Even(t)
    BY <1>1, <1>2, <1>5, <1>8, <2>1, EvenNext DEF FirstRound, t
  <2>3. Had(t) = n.has \cup {n.dst} /\ n.dst \notin n.has
    BY <1>2, <1>3, <1>8, <2>1 DEF FirstRound
  <2>4. OnceEach(t)
    BY <1>3, <1>8, <2>1 DEF FirstRound
  <2> QED BY <1>3, <1>4, <2>2, <2>3, <2>4 DEF InFlight, FirstRound, GoesRound, t
<1> QED BY <1>6, <1>7, <1>8 DEF InFlight

\* A missile that nobody has passed on
LEMMA FirstMissile ==
  ASSUME NEW p \in Players, NEW q \in Players, NEW m, m.has = {p}, m.dst = q
  PROVE  InFlight(m, <<p, q>>) /\ ToAndFro(<<p, q>>) /\ GoesRound(<<p, q>>)
<1> DEFINE r == <<p, q>>
<1>1. Len(r) = 2 /\ r[1] = p /\ r[2] = q /\ r \in Seq(Players) /\ r # <<>>
  OBVIOUS
<1> HIDE DEF r
<1>2. Had(r) = {p, q}
  BY <1>1 DEF Had
<1>3. ToAndFro(r)
  BY <1>1 DEF ToAndFro
<1>4. CASE p = q
  BY <1>1, <1>3, <1>4 DEF InFlight, GoesRound, SentHome, r
<1>5. CASE p # q
  <2>1. OnceEach(r)
    BY <1>1, <1>5 DEF OnceEach
  <2>2. ASSUME q \in Opponents(p)
        PROVE  Even(r)
    <3> DEFINE c == TeamOf[q]
               d == Other(c)
    <3>1. c \in Colors /\ d \in Colors /\ c # d /\ TeamOf[p] = d
      BY <2>2, TheOtherTeam
    <3> HIDE DEF c, d
    <3>2. Had(r) \cap Team(c) = {q} /\ Had(r) \cap Team(d) = {p}
      BY <1>1, <1>2, <3>1 DEF Team, c
    <3>3. HadOf(r, c) = 1 /\ HadOf(r, d) = 1
      BY <3>2, FS_Singleton DEF HadOf
    <3> QED BY <1>1, <3>3 DEF Even, c, d
  <2>3. SentAcross(r) => Even(r)
    BY <1>1, <2>2 DEF SentAcross
  <2>4. FirstRound(m, r)
    BY <1>2, <1>5, <2>1, <2>3 DEF FirstRound
  <2> QED BY <1>1, <1>3, <2>1, <2>4 DEF InFlight, GoesRound, r
<1> QED BY <1>4, <1>5
-----------------------------------------------------------------------------
(* What a step makes of the states about attacks and missiles *)

\* What the stack has of the histories of the action
Marks == AttacksFit(stack, attacks) /\ MissilesFit(stack, relays)

LEMMA QuietBecomes ==
  ASSUME IInv, Marks, ~IsAttack(Top), UNCHANGED <<attacks, relays>>,
         NEW fs, AllQuiet(fs), Becomes(fs)
  PROVE  Marks'
<1>1. stack \in Seq(Frames) /\ stack # <<>> /\ Top = stack[1] /\ fs \in Seq(Frames)
  BY TopFrame DEF IInv, Shaped, AllQuiet
<1>2. AttacksFit(stack', attacks')
  BY <1>1, QuietAttacks DEF Marks, Becomes
<1>3. MissilesFit(stack', relays')
  BY <1>1, QuietMissiles DEF Marks, Becomes, AllQuiet, Quiet
<1> QED BY <1>2, <1>3 DEF Marks

\* The states that a handler puts on the stack are among those it leaves there.
LEMMA FramesPut ==
  ASSUME IInv, IInv', NEW T, NEW fs \in Seq(T), Becomes(fs)
  PROVE  fs \in Seq(Frames)
<1>1. stack \in Seq(Frames) /\ stack # <<>> /\ stack' \in Seq(Frames) /\ Len(fs) \in Nat
  BY TopFrame DEF IInv, Shaped
<1> DEFINE S == Frames \cup T
           r == Tail(stack)
<1>2. r \in Seq(Frames) /\ Len(r) \in Nat
  BY <1>1
<1> HIDE DEF r
<1>3. fs \in Seq(S) /\ r \in Seq(S)
  BY <1>2
<1> HIDE DEF S
<1>4. Len(fs \o r) = Len(fs) + Len(r) /\ \A i \in 1 .. Len(fs) : (fs \o r)[i] = fs[i]
  BY <1>1, <1>2, <1>3
<1>5. stack' = fs \o r
  BY DEF Becomes, r
<1>6. \A i \in 1 .. Len(fs) : fs[i] \in Frames
  BY <1>1, <1>2, <1>4, <1>5
<1> QED BY <1>3, <1>6

LEMMA QuietSteps ==
  ASSUME IInv, IInv', Marks, ~IsAttack(Top), UNCHANGED <<attacks, relays>>
  PROVE  /\ Becomes(<<>>) => Marks'
         /\ \A x : Quiet(x) /\ Becomes(<<x>>) => Marks'
         /\ \A x, y : Quiet(x) /\ Quiet(y) /\ Becomes(<<x, y>>) => Marks'
         /\ \A x, y, z : Quiet(x) /\ Quiet(y) /\ Quiet(z) /\ Becomes(<<x, y, z>>) => Marks'
         /\ \A w, x, y, z : Quiet(w) /\ Quiet(x) /\ Quiet(y) /\ Quiet(z) /\ Becomes(<<w, x, y, z>>) => Marks'
<1>1. CASE Becomes(<<>>)
  <2>1. AllQuiet(<<>>)
    BY DEF AllQuiet
  <2> QED BY <1>1, <2>1, QuietBecomes
<1>2. ASSUME NEW x, Quiet(x), Becomes(<<x>>) PROVE Marks'
  <2>0. <<x>> \in Seq({x})
    OBVIOUS
  <2>1. <<x>> \in Seq(Frames)
    BY <1>2, <2>0, FramesPut
  <2>2. AllQuiet(<<x>>)
    BY <1>2, <2>1 DEF AllQuiet
  <2> QED BY <1>2, <2>2, QuietBecomes
<1>3. ASSUME NEW x, NEW y, Quiet(x), Quiet(y), Becomes(<<x, y>>) PROVE Marks'
  <2>0. <<x, y>> \in Seq({x, y})
    OBVIOUS
  <2>1. <<x, y>> \in Seq(Frames)
    BY <1>3, <2>0, FramesPut
  <2>2. AllQuiet(<<x, y>>)
    BY <1>3, <2>1 DEF AllQuiet
  <2> QED BY <1>3, <2>2, QuietBecomes
<1>4. ASSUME NEW x, NEW y, NEW z, Quiet(x), Quiet(y), Quiet(z), Becomes(<<x, y, z>>) PROVE Marks'
  <2>0. <<x, y, z>> \in Seq({x, y, z})
    OBVIOUS
  <2>1. <<x, y, z>> \in Seq(Frames)
    BY <1>4, <2>0, FramesPut
  <2>2. AllQuiet(<<x, y, z>>)
    BY <1>4, <2>1 DEF AllQuiet
  <2> QED BY <1>4, <2>2, QuietBecomes
<1>5. ASSUME NEW w, NEW x, NEW y, NEW z, Quiet(w), Quiet(x), Quiet(y), Quiet(z),
             Becomes(<<w, x, y, z>>)
      PROVE Marks'
  <2>0. <<w, x, y, z>> \in Seq({w, x, y, z})
    OBVIOUS
  <2>1. <<w, x, y, z>> \in Seq(Frames)
    BY <1>5, <2>0, FramesPut
  <2>2. AllQuiet(<<w, x, y, z>>)
    BY <1>5, <2>1 DEF AllQuiet
  <2> QED BY <1>5, <2>2, QuietBecomes
<1> QED BY <1>1, <1>2, <1>3, <1>4, <1>5

\* What is pushed above the top takes the place of the top, with the top below it.
LEMMA PushIsBecomes ==
  ASSUME IInv, NEW fs \in Seq(Frames), Pushes(fs)
  PROVE  fs \o <<Top>> \in Seq(Frames) /\ Becomes(fs \o <<Top>>)
<1>1. stack \in Seq(Frames) /\ stack # <<>> /\ Top = stack[1] /\ Top \in Frames
  BY TopFrame DEF IInv, Shaped
<1>2. stack = <<Top>> \o Tail(stack) /\ Tail(stack) \in Seq(Frames) /\ <<Top>> \in Seq(Frames)
  <2>1. Len(stack) \in Nat \ {0}
    BY <1>1, EmptySeq
  <2>2. Tail(stack) \in Seq(Frames) /\ <<Top>> \in Seq(Frames)
    BY <1>1
  <2>3. Len(<<Top>> \o Tail(stack)) = Len(stack)
    BY <1>1, <2>1, <2>2
  <2>4. \A i \in 1 .. Len(stack) : (<<Top>> \o Tail(stack))[i] = stack[i]
    BY <1>1, <2>1, <2>2
  <2> QED BY <1>1, <2>2, <2>3, <2>4, SeqEqual, ConcatProperties
<1>3. fs \o <<Top>> \in Seq(Frames)
  BY <1>2, ConcatProperties
<1>4. fs \o (<<Top>> \o Tail(stack)) = (fs \o <<Top>>) \o Tail(stack)
  BY <1>2, ConcatAssociative
<1>5. fs \o stack = (fs \o <<Top>>) \o Tail(stack)
  BY <1>2, <1>4, Zenon
<1> QED BY <1>3, <1>5 DEF Becomes, Pushes

LEMMA QuietPush ==
  ASSUME IInv, Marks, ~IsAttack(Top), ~IsMissile(Top), UNCHANGED <<attacks, relays>>,
         NEW fs, AllQuiet(fs), Pushes(fs)
  PROVE  Marks'
<1>1. /\ stack \in Seq(Frames) /\ stack # <<>> /\ Top = stack[1] /\ Top \in Frames
      /\ fs \in Seq(Frames) /\ Len(stack) \in Nat \ {0} /\ Len(fs) \in Nat
  BY TopFrame, EmptySeq DEF IInv, Shaped, AllQuiet
<1> DEFINE gs == fs \o <<Top>>
<1>2. gs \in Seq(Frames) /\ stack' = gs \o Tail(stack)
  BY <1>1, PushIsBecomes DEF Becomes
<1>3. Len(gs) = Len(fs) + 1 /\ \A i \in 1 .. Len(gs) : (i \in 1 .. Len(fs) /\ gs[i] = fs[i]) \/ (i = Len(fs) + 1 /\ gs[i] = Top)
  <2> DEFINE e == <<Top>>
  <2>1. e \in Seq(Frames) /\ Len(e) = 1 /\ e[1] = Top
    BY <1>1
  <2> HIDE DEF e
  <2>2. /\ Len(fs \o e) = Len(fs) + 1
        /\ \A i \in 1 .. Len(fs) : (fs \o e)[i] = fs[i]
        /\ (fs \o e)[Len(fs) + 1] = Top
    <3>1. /\ Len(fs \o e) = Len(fs) + Len(e)
          /\ \A i \in 1 .. Len(fs) + Len(e) :
               (fs \o e)[i] = IF i <= Len(fs) THEN fs[i] ELSE e[i - Len(fs)]
      BY <1>1, <2>1, ConcatProperties
    <3>2. /\ Len(fs) + 1 \in 1 .. Len(fs) + Len(e) /\ ~(Len(fs) + 1 <= Len(fs))
          /\ (Len(fs) + 1) - Len(fs) = 1
      BY <1>1, <2>1
    <3>3. (fs \o e)[Len(fs) + 1] = Top
      BY <2>1, <3>1, <3>2
    <3> QED BY <1>1, <2>1, <3>1, <3>3
  <2>3. \A i \in 1 .. Len(fs) + 1 : i \in 1 .. Len(fs) \/ i = Len(fs) + 1
    BY <1>1
  <2> QED BY <2>2, <2>3 DEF e
<1> HIDE DEF gs
<1>4. \A i \in 1 .. Len(gs) : ~IsAttack(gs[i]) /\ ~IsMissile(gs[i]) /\ (IsSkill(gs[i]) => i = Len(fs) + 1 /\ gs[i] = Top)
  BY <1>3 DEF AllQuiet, Quiet
<1>5. Replaces(stack, gs, attacks, attacks)
  <2>1. 1 \in 1 .. Len(stack) /\ \A j \in 2 .. Len(stack) : j \in 1 .. Len(stack)
    BY <1>1
  <2>2. \A j \in 2 .. Len(stack) : IsAttack(stack[j]) => Open(stack[j].n, attacks)
    BY <2>1 DEF Marks, AttacksFit
  <2>3. ASSUME NEW n \in 1 .. Len(attacks), Open(n, attacks)
        PROVE  \E j \in 2 .. Len(stack) : IsAttack(stack[j]) /\ stack[j].n = n
    <3>1. PICK i \in 1 .. Len(stack) : IsAttack(stack[i]) /\ stack[i].n = n
      BY <2>3 DEF Marks, AttacksFit
    <3>2. i \in 2 .. Len(stack)
      BY <1>1, <3>1
    <3> QED BY <3>1, <3>2
  <2>4. ASSUME IsSkill(Top) PROVE Len(stack) = 2
    <3>1. IsSkill(stack[1])
      BY <1>1, <2>4
    <3>2. 1 = Len(stack) - 1
      BY <2>1, <3>1 DEF Marks, AttacksFit
    <3> QED BY <1>1, <3>2
  <2>5. ASSUME NEW i \in 1 .. Len(gs), IsSkill(gs[i]) PROVE i = Len(gs) + Len(stack) - 2
    <3>1. i = Len(fs) + 1 /\ IsSkill(Top)
      BY <1>4, <2>5
    <3>2. Len(stack) = 2
      BY <2>4, <3>1
    <3> QED BY <1>1, <1>3, <3>1, <3>2
  <2> QED BY <1>4, <2>2, <2>3, <2>5 DEF Replaces
<1>6. AttacksFit(stack', attacks')
  BY <1>1, <1>2, <1>5, AttacksReplaced DEF Marks
<1>7. MissilesFit(stack', relays')
  BY <1>1, <1>2, <1>4, QuietMissiles DEF Marks
<1> QED BY <1>6, <1>7 DEF Marks

LEMMA QuietFrames ==
  /\ \A f \in CardFrames \cup ShieldFrames \cup HitFrames \cup HarmFrames \cup MoraleFrames
              \cup OverFrames \cup PhaseFrames \cup ActionFrames : Quiet(f)
  /\ Quiet(UseCard) /\ \A p, n : Quiet(Draw(p, n)) /\ Quiet(Hit(n, p))
  /\ \A p, b : Quiet(Shielded(p, b)) /\ Quiet(LoseShield(p))
  /\ \A k \in HarmStates : \A p, n, t : Quiet(Harm(k, p, n, t))
  /\ \A k \in Range(MoraleStates) : \A p, n : Quiet(Morale(k, p, n))
  /\ \A k \in (HookOnly \ {"Timeline2Miss", "AttackSkill"}) \cup TurnStates : Quiet(Frame(k))
  /\ \A c : Quiet(GameOver(c)) /\ \A b : Quiet(ActionPhase(b))
<1>1. \A f : f.kind \notin {"Timeline1", "Attacked", "Timeline2Miss", "Missiled", "AttackSkill"} => Quiet(f)
  BY DEF Quiet, IsAttack, IsMiss, IsMissile, IsSkill
<1>2. \A f \in CardFrames \cup ShieldFrames \cup HitFrames \cup HarmFrames \cup MoraleFrames
              \cup OverFrames \cup PhaseFrames \cup ActionFrames : Quiet(f)
  BY <1>1, MoraleKinds DEF CardFrames, ShieldFrames, HitFrames, HarmFrames, MoraleFrames, OverFrames,
     PhaseFrames, ActionFrames, HarmStates, TurnStates
<1>3. Quiet(UseCard) /\ \A p, n : Quiet(Draw(p, n)) /\ Quiet(Hit(n, p))
  BY <1>1 DEF UseCard, Draw, Hit
<1>4. \A p, b : Quiet(Shielded(p, b)) /\ Quiet(LoseShield(p))
  BY <1>1 DEF Shielded, LoseShield
<1>5. \A k \in HarmStates : \A p, n, t : Quiet(Harm(k, p, n, t))
  BY <1>1 DEF Harm, HarmStates
<1>6. \A k \in Range(MoraleStates) : \A p, n : Quiet(Morale(k, p, n))
  BY <1>1, MoraleKinds DEF Morale
<1>7. \A k \in (HookOnly \ {"Timeline2Miss", "AttackSkill"}) \cup TurnStates : Quiet(Frame(k))
  BY <1>1 DEF Frame, HookOnly, TurnStates
<1>8. \A c : Quiet(GameOver(c)) /\ \A b : Quiet(ActionPhase(b))
  BY <1>1 DEF GameOver, ActionPhase
<1> QED BY <1>2, <1>3, <1>4, <1>5, <1>6, <1>7, <1>8

LEMMA TwoAndTwo ==
  ASSUME NEW a, NEW b, NEW c, NEW d
  PROVE  <<a, b>> \o <<c, d>> = <<a, b, c, d>>
<1> DEFINE S == {a, b, c, d}
<1>1. /\ <<a, b>> \in Seq(S) /\ <<c, d>> \in Seq(S) /\ <<a, b, c, d>> \in Seq(S)
  OBVIOUS
<1>2. /\ <<a, b>> \o <<c, d>> \in Seq(S) /\ Len(<<a, b>> \o <<c, d>>) = 4
      /\ \A i \in 1 .. 4 : (<<a, b>> \o <<c, d>>)[i] = <<a, b, c, d>>[i]
  BY <1>1
<1> QED BY <1>1, <1>2, SeqEqual

\* The next of the states that lose morale
LEMMA NextMorale ==
  ASSUME NEW i \in 1 .. 4
  PROVE  NextMoraleState(MoraleStates[i]) \in Range(MoraleStates)
BY DEF NextMoraleState, MoraleStates, Range

LEMMA NoAttack ==
  ASSUME NEW f, f.kind \notin {"Timeline1", "Attacked"}
  PROVE  ~IsAttack(f)
BY DEF IsAttack

\* The states that change nothing but the stack, and the crosses
LEMMA SilentMarks ==
  ASSUME IInv, IInv', Marks, UNCHANGED <<attacks, relays>>,
         Timeline2Hit \/ MissileBlock \/ MissileGiveUp \/ Timeline3 \/ Timeline4
           \/ Timeline5 \/ Timeline6 \/ HandChange \/ MoraleStep \/ Goes \/ BasicEffectChange
           \/ TrueLoseMorale \/ \E n \in Nat : AskForCross(n)
  PROVE  Marks'
<1>1. Top \in Frames
  BY TopFrame DEF IInv
<1>2. ~IsAttack(Top)
  <2>1. MoraleStep => Top.kind \in Range(MoraleStates)
    BY DEF MoraleStep, On, MoraleStates, Range
  <2>2. Goes => Top.kind \in HookOnly
    BY DEF Goes, On
  <2>3. MoraleStep \/ Goes => Top.kind \notin {"Timeline1", "Attacked"}
    BY <2>1, <2>2, MoraleKinds DEF HookOnly
  <2>4. Timeline2Hit \/ MissileBlock \/ MissileGiveUp \/ Timeline3 \/ Timeline4 \/ Timeline5
          \/ Timeline6 \/ HandChange \/ BasicEffectChange \/ TrueLoseMorale
          \/ (\E n \in Nat : AskForCross(n)) => Top.kind \notin {"Timeline1", "Attacked"}
    BY DEF Timeline2Hit, MissileBlock, MissileGiveUp, Timeline3, Timeline4, Timeline5, Timeline6,
           HandChange, BasicEffectChange, TrueLoseMorale, AskForCross, On
  <2> QED BY <2>3, <2>4, NoAttack
<1>3. CASE Timeline2Hit
  <2>1. Becomes(<<Harm("Timeline3", Top.dst, 2, "attack")>>)
    BY <1>3 DEF Timeline2Hit
  <2>2. Quiet(Harm("Timeline3", Top.dst, 2, "attack"))
    BY QuietFrames DEF HarmStates
  <2> QED BY <1>2, <2>1, <2>2, QuietSteps
<1>4. CASE MissileBlock
  BY <1>2, <1>4, QuietFrames, QuietSteps DEF MissileBlock
<1>5. CASE MissileGiveUp
  <2>1. Becomes(<<LoseShield(Top.dst)>>) \/ Becomes(<<Harm("Timeline3", Top.dst, Top.point, "magic")>>)
    BY <1>5 DEF MissileGiveUp
  <2>2. Quiet(LoseShield(Top.dst)) /\ Quiet(Harm("Timeline3", Top.dst, Top.point, "magic"))
    BY QuietFrames DEF HarmStates
  <2> QED BY <1>2, <2>1, <2>2, QuietSteps
<1>6. CASE Timeline3
  <2>1. Top \in HarmFrames /\ Becomes(<<[Top EXCEPT !.kind = "Timeline4"], Frame("HarmEnd")>>)
    BY <1>1, <1>6, KindOfFrame DEF Timeline3, On, HarmStates
  <2>2. [Top EXCEPT !.kind = "Timeline4"] \in HarmFrames
    BY <2>1 DEF HarmFrames, HarmStates
  <2>3. Quiet(Frame("HarmEnd")) /\ Quiet([Top EXCEPT !.kind = "Timeline4"])
    BY <2>2, QuietFrames DEF HookOnly
  <2> QED BY <1>2, <2>1, <2>3, QuietSteps
<1>7. CASE Timeline4
  <2>1. /\ Top \in HarmFrames
        /\ \/ Becomes(<<[Top EXCEPT !.kind = "AskForCross"]>>)
           \/ Becomes(<<[Top EXCEPT !.kind = "Timeline5"]>>)
    BY <1>1, <1>7, KindOfFrame DEF Timeline4, On, HarmStates
  <2>2. /\ [Top EXCEPT !.kind = "AskForCross"] \in HarmFrames
        /\ [Top EXCEPT !.kind = "Timeline5"] \in HarmFrames
    BY <2>1 DEF HarmFrames, HarmStates
  <2>3. Quiet([Top EXCEPT !.kind = "AskForCross"]) /\ Quiet([Top EXCEPT !.kind = "Timeline5"])
    BY <2>2, QuietFrames
  <2> QED BY <1>2, <2>1, <2>3, QuietSteps
<1>8. CASE Timeline5
  <2>1. /\ Top \in HarmFrames
        /\ Becomes(<<[Top EXCEPT !.kind = "Timeline6"]>>) \/ Becomes(<<>>)
    BY <1>1, <1>8, KindOfFrame DEF Timeline5, On, HarmStates
  <2>2. [Top EXCEPT !.kind = "Timeline6"] \in HarmFrames
    BY <2>1 DEF HarmFrames, HarmStates
  <2> QED BY <1>2, <2>1, <2>2, QuietFrames, QuietSteps
<1>9. CASE Timeline6
  <2>1. Becomes(<<Draw(Top.dst, Top.point), Frame("Timeline6Drawn")>>) \/ Becomes(<<>>)
    BY <1>9 DEF Timeline6
  <2>2. Quiet(Draw(Top.dst, Top.point)) /\ Quiet(Frame("Timeline6Drawn"))
    BY QuietFrames DEF HookOnly
  <2> QED BY <1>2, <2>1, <2>2, QuietSteps
<1>10. CASE HandChange
  <2>1. PICK k \in 0 .. Top.over :
          Becomes(IF k = 0 THEN <<>> ELSE <<Morale("BeforeLoseMorale", Top.dst, k)>>)
    BY <1>10 DEF HandChange
  <2>2. Quiet(Morale("BeforeLoseMorale", Top.dst, k))
    BY QuietFrames, MoraleKinds
  <2> QED BY <1>2, <2>1, <2>2, QuietSteps
<1>11. CASE MoraleStep
  <2>1. PICK i \in 1 .. 4 : On(MoraleStates[i])
    BY <1>11 DEF MoraleStep
  <2>2. MoraleStates[i] \in Range(MoraleStates)
    BY DEF Range, MoraleStates
  <2>3. Top \in MoraleFrames /\ Top.kind = MoraleStates[i]
    BY <1>1, <2>1, <2>2, KindOfFrame DEF On
  <2>4. NextMoraleState(Top.kind) \in Range(MoraleStates)
    BY <2>3, NextMorale
  <2>5. [Top EXCEPT !.kind = NextMoraleState(@)] \in MoraleFrames
    BY <2>3, <2>4 DEF MoraleFrames
  <2>6. Becomes(<<[Top EXCEPT !.kind = NextMoraleState(@)]>>)
    BY <1>11 DEF MoraleStep
  <2> QED BY <1>2, <2>5, <2>6, QuietFrames, QuietSteps
<1>12. CASE Goes
  BY <1>2, <1>12, QuietSteps DEF Goes
<1>13. CASE BasicEffectChange
  BY <1>2, <1>13, QuietSteps DEF BasicEffectChange
<1>14. CASE TrueLoseMorale
  <2>1. Becomes(<<GameOver(Other(TeamOf[Top.dst]))>>) \/ Becomes(<<>>)
    BY <1>14 DEF TrueLoseMorale
  <2> QED BY <1>2, <2>1, QuietFrames, QuietSteps
<1>15. CASE \E n \in Nat : AskForCross(n)
  <2>1. PICK n \in Nat : AskForCross(n)
    BY <1>15
  <2>2. Top \in HarmFrames
    BY <1>1, <2>1, KindOfFrame DEF AskForCross, On, HarmStates
  <2>3. Becomes(<<[Top EXCEPT !.kind = "Timeline5", !.point = @ - n]>>)
    BY <2>1 DEF AskForCross
  <2>4. [Top EXCEPT !.kind = "Timeline5", !.point = @ - n].kind = "Timeline5"
    BY <2>2 DEF HarmFrames
  <2>5. Quiet([Top EXCEPT !.kind = "Timeline5", !.point = @ - n])
    BY <2>4 DEF Quiet, IsAttack, IsMiss, IsMissile, IsSkill
  <2> QED BY <1>2, <2>3, <2>5, QuietSteps
<1> QED BY <1>3, <1>4, <1>5, <1>6, <1>7, <1>8, <1>9, <1>10, <1>11, <1>12, <1>13, <1>14, <1>15

\* The phases of the turn, without those of a new action
LEMMA PhaseMarks ==
  ASSUME IInv, IInv', Marks, UNCHANGED <<attacks, relays>>,
         Passes \/ CheckBasicEffect \/ Weakened \/ WeakenSkips \/ NoAction \/ NoMoreActions
           \/ AdditionalAction \/ AfterTurnEnd \/ HookTurn \/ HookGiveUp \/ NoCards
  PROVE  Marks'
<1>1. ~IsAttack(Top)
  BY NoAttack DEF Passes, CheckBasicEffect, Weakened, WeakenSkips, NoAction, NoMoreActions,
     AdditionalAction, AfterTurnEnd, HookTurn, HookGiveUp, NoCards, On
<1>2. \A k \in TurnStates : Quiet(Frame(k))
  BY QuietFrames
<1>3. Quiet(UseCard) /\ Quiet(Between)
  BY QuietFrames DEF Between, HookOnly
<1>4. CASE Passes
  <2>1. \E x : Quiet(x) /\ Becomes(<<x>>)
    <3>1. Quiet(ActionPhase(FALSE))
      BY QuietFrames
    <3> QED BY <1>2, <1>4, <3>1 DEF Passes, After, On, TurnStates
  <2> QED BY <1>1, <2>1, QuietSteps
<1>5. CASE CheckBasicEffect
  <2> DEFINE h == Harm("Timeline3", current, 1, "magic")
  <2>1. PICK above \in {<<>>, <<UseCard, h>>},
             below \in {<<UseCard, Frame("Weaken")>>, <<Between, Frame("BeforeAction")>>} :
          Becomes(above \o below)
    BY <1>5 DEF CheckBasicEffect
  <2>2. Quiet(h) /\ Quiet(Frame("Weaken")) /\ Quiet(Frame("BeforeAction"))
    BY <1>2, QuietFrames DEF HarmStates, TurnStates
  <2> HIDE DEF h
  <2>3. PICK x, y : below = <<x, y>> /\ Quiet(x) /\ Quiet(y)
    BY <1>3, <2>2
  <2>4. CASE above = <<>>
    <3>1. <<>> \o <<x, y>> = <<x, y>>
      OBVIOUS
    <3> QED BY <1>1, <2>1, <2>3, <2>4, <3>1, QuietSteps, Zenon
  <2>5. CASE above = <<UseCard, h>>
    <3>1. <<UseCard, h>> \o <<x, y>> = <<UseCard, h, x, y>>
      BY TwoAndTwo
    <3> QED BY <1>1, <1>3, <2>1, <2>2, <2>3, <2>5, <3>1, QuietSteps, Zenon
  <2> QED BY <2>1, <2>4, <2>5
<1>6. CASE Weakened
  <2>1. Quiet(Frame("BeforeAction")) /\ Quiet(Draw(current, 3))
    BY <1>2, QuietFrames DEF TurnStates
  <2> QED BY <1>1, <1>3, <1>6, <2>1, QuietSteps DEF Weakened
<1>7. Quiet(Frame("TurnEnd")) /\ Quiet(Frame("AdditionalAction")) /\ Quiet(Frame("BeforeTurnBegin"))
  BY <1>2 DEF TurnStates
<1>8. CASE WeakenSkips
  BY <1>1, <1>3, <1>7, <1>8, QuietSteps DEF WeakenSkips
<1>9. CASE NoAction
  <2>1. Becomes(<<Frame("AdditionalAction")>>) \/ Becomes(<<Frame("TurnEnd")>>)
    BY <1>9 DEF NoAction, CheckTurnEnd
  <2> QED BY <1>1, <1>7, <2>1, QuietSteps
<1>10. CASE NoMoreActions
  BY <1>1, <1>7, <1>10, QuietSteps DEF NoMoreActions
<1>11. CASE AdditionalAction \/ HookGiveUp
  BY <1>1, <1>11, QuietFrames, QuietSteps DEF AdditionalAction, HookGiveUp
<1>12. CASE AfterTurnEnd \/ HookTurn
  BY <1>1, <1>7, <1>12, QuietSteps DEF AfterTurnEnd, HookTurn
<1>13. CASE NoCards
  BY <1>1, <1>13, QuietFrames, QuietSteps DEF NoCards
<1> QED BY <1>4, <1>5, <1>6, <1>8, <1>9, <1>10, <1>11, <1>12, <1>13

\* Hooks that are about neither attack nor missile, and the exchange of the hand
LEMMA HookMarks ==
  ASSUME IInv, IInv', Marks, NEW p \in Players,
         HookHarm(p) \/ HookTurnHarm(p) \/ Unactional \/ HookPoint \/ NiFanZhan \/ HookAction
  PROVE  Marks'
<1>1. UNCHANGED <<attacks, relays>> /\ Top \in Frames /\ current \in Players
  BY TopFrame DEF HookHarm, HookTurnHarm, Unactional, HookPoint, NiFanZhan, HookAction, combat, IInv, Rest
<1>2. CASE HookHarm(p) \/ HookTurnHarm(p)
  <2>1. ~IsAttack(Top) /\ ~IsMissile(Top)
    BY <1>2 DEF HookHarm, HookTurnHarm, On, HookOnly, IsAttack, IsMissile
  <2> DEFINE h == Harm("Timeline3", p, 1, "magic")
  <2>2. Pushes(<<h>>) /\ h \in Frames /\ Quiet(h)
    BY <1>2, HarmOfHook, MakesFrames, QuietFrames DEF HookHarm, HookTurnHarm, Loose, HarmStates
  <2> HIDE DEF h
  <2>3. AllQuiet(<<h>>)
    BY <2>2 DEF AllQuiet
  <2> QED BY <1>1, <2>1, <2>2, <2>3, QuietPush
<1>3. CASE Unactional
  <2>1. ~IsAttack(Top) /\ ~IsMissile(Top)
    BY <1>3 DEF Unactional, On, IsAttack, IsMissile
  <2> DEFINE d == Draw(current, 0)
  <2>2. Pushes(<<UseCard, d>>) /\ UseCard \in Frames /\ d \in Frames /\ Quiet(UseCard) /\ Quiet(d)
    BY <1>1, <1>3, MakesFrames, QuietFrames DEF Unactional, Loose
  <2> HIDE DEF d
  <2>3. AllQuiet(<<UseCard, d>>)
    BY <2>2 DEF AllQuiet
  <2> QED BY <1>1, <2>1, <2>2, <2>3, QuietPush
<1>4. CASE HookPoint
  <2>1. Top.kind \in {"Timeline3", "Timeline5", "Timeline6"} \cup Range(MoraleStates)
    BY <1>4, MoraleKinds DEF HookPoint, On, MoraleStates
  <2>2. PICK n : Becomes(<<[Top EXCEPT !.point = n]>>)
    BY <1>4 DEF HookPoint
  <2>3. Top \in HarmFrames \cup MoraleFrames
    BY <1>1, <2>1, KindOfFrame DEF HarmStates
  <2>4. [Top EXCEPT !.point = n].kind = Top.kind
    BY <2>3 DEF HarmFrames, MoraleFrames
  <2>5. Quiet(Top) /\ ~IsAttack(Top)
    BY <2>3, QuietFrames DEF Quiet
  <2>6. Quiet([Top EXCEPT !.point = n])
    BY <2>4, <2>5 DEF Quiet, IsAttack, IsMiss, IsMissile, IsSkill
  <2> QED BY <1>1, <2>2, <2>5, <2>6, QuietSteps
<1>5. CASE NiFanZhan
  <2>1. ~IsAttack(Top)
    BY <1>5 DEF NiFanZhan, On, IsAttack
  <2>2. Quiet(Frame("RequestHand")) /\ Quiet(Morale("BeforeLoseMorale", Top.dst, 1))
    BY QuietFrames, MoraleKinds DEF HookOnly
  <2> QED BY <1>1, <1>5, <2>1, <2>2, QuietSteps DEF NiFanZhan
<1>6. CASE HookAction
  BY <1>1, <1>6 DEF HookAction, Marks
<1> QED BY <1>2, <1>3, <1>4, <1>5, <1>6

\* A new action begins, or an action is over: the histories are empty.
LEMMA NothingYet ==
  ASSUME IInv, IInv', Top.kind \in TurnStates, NEW T, NEW fs \in Seq(T), Becomes(fs),
         \A i \in 1 .. Len(fs) : Quiet(fs[i]) \/ (IsSkill(fs[i]) /\ i = Len(fs) - 1),
         attacks' = <<>>, relays' = <<>>
  PROVE  Marks'
<1>1. fs \in Seq(Frames)
  BY FramesPut
<1>2. stack' = fs
  BY <1>1, SingleStack
<1>3. \A i \in 1 .. Len(fs) : ~IsAttack(fs[i]) /\ ~IsMissile(fs[i]) /\ (IsSkill(fs[i]) => i = Len(fs) - 1)
  BY DEF Quiet, IsSkill, IsAttack, IsMissile
<1>4. AttacksFit(fs, <<>>)
  BY <1>1, <1>3, NoAttackYet
<1>5. MissilesFit(fs, <<>>)
  BY <1>3 DEF MissilesFit, ToAndFro, GoesRound, OnceEach
<1> QED BY <1>2, <1>4, <1>5 DEF Marks

LEMMA NewAction ==
  ASSUME IInv, IInv', Top.kind \in TurnStates, attacks' = <<>>, relays' = <<>>
  PROVE  /\ \A x : Quiet(x) /\ Becomes(<<x>>) => Marks'
         /\ \A x, y : Quiet(x) /\ Quiet(y) /\ Becomes(<<x, y>>) => Marks'
         /\ \A x, y, z : Quiet(x) /\ (Quiet(y) \/ IsSkill(y)) /\ Quiet(z) /\ Becomes(<<x, y, z>>) => Marks'
         /\ \A w, x, y, z : Quiet(w) /\ Quiet(x) /\ Quiet(y) /\ Quiet(z) /\ Becomes(<<w, x, y, z>>) => Marks'
         /\ \A v, w, x, y, z : Quiet(v) /\ Quiet(w) /\ Quiet(x) /\ Quiet(y) /\ Quiet(z)
                                 /\ Becomes(<<v, w, x, y, z>>) => Marks'
<1>2. ASSUME NEW x, Quiet(x), Becomes(<<x>>) PROVE Marks'
  <2> DEFINE fs == <<x>>
  <2>1. fs \in Seq({x}) /\ Len(fs) = 1 /\ fs[1] = x
    OBVIOUS
  <2> HIDE DEF fs
  <2>2. \A i \in 1 .. Len(fs) : Quiet(fs[i]) \/ (IsSkill(fs[i]) /\ i = Len(fs) - 1)
    BY <1>2, <2>1
  <2> QED BY <1>2, <2>1, <2>2, NothingYet DEF fs
<1>3. ASSUME NEW x, NEW y, Quiet(x), Quiet(y), Becomes(<<x, y>>) PROVE Marks'
  <2> DEFINE fs == <<x, y>>
  <2>1. fs \in Seq({x, y}) /\ Len(fs) = 2 /\ fs[1] = x /\ fs[2] = y
    OBVIOUS
  <2> HIDE DEF fs
  <2>2. \A i \in 1 .. Len(fs) : Quiet(fs[i]) \/ (IsSkill(fs[i]) /\ i = Len(fs) - 1)
    BY <1>3, <2>1
  <2> QED BY <1>3, <2>1, <2>2, NothingYet DEF fs
<1>4. ASSUME NEW x, NEW y, NEW z, Quiet(x), Quiet(y) \/ IsSkill(y), Quiet(z), Becomes(<<x, y, z>>)
      PROVE Marks'
  <2> DEFINE fs == <<x, y, z>>
  <2>1. fs \in Seq({x, y, z}) /\ Len(fs) = 3 /\ fs[1] = x /\ fs[2] = y /\ fs[3] = z
    OBVIOUS
  <2> HIDE DEF fs
  <2>2. \A i \in 1 .. Len(fs) : Quiet(fs[i]) \/ (IsSkill(fs[i]) /\ i = Len(fs) - 1)
    BY <1>4, <2>1
  <2> QED BY <1>4, <2>1, <2>2, NothingYet DEF fs
<1>5. ASSUME NEW w, NEW x, NEW y, NEW z, Quiet(w), Quiet(x), Quiet(y), Quiet(z),
             Becomes(<<w, x, y, z>>)
      PROVE Marks'
  <2> DEFINE fs == <<w, x, y, z>>
  <2>1. fs \in Seq({w, x, y, z}) /\ Len(fs) = 4 /\ fs[1] = w /\ fs[2] = x /\ fs[3] = y /\ fs[4] = z
    OBVIOUS
  <2> HIDE DEF fs
  <2>2. \A i \in 1 .. Len(fs) : Quiet(fs[i]) \/ (IsSkill(fs[i]) /\ i = Len(fs) - 1)
    BY <1>5, <2>1
  <2> QED BY <1>5, <2>1, <2>2, NothingYet DEF fs
<1>6. ASSUME NEW v, NEW w, NEW x, NEW y, NEW z, Quiet(v), Quiet(w), Quiet(x), Quiet(y), Quiet(z),
             Becomes(<<v, w, x, y, z>>)
      PROVE Marks'
  <2> DEFINE fs == <<v, w, x, y, z>>
  <2>1. fs \in Seq({v, w, x, y, z}) /\ Len(fs) = 5 /\ fs[1] = v /\ fs[2] = w /\ fs[3] = x /\ fs[4] = y /\ fs[5] = z
    OBVIOUS
  <2> HIDE DEF fs
  <2>2. \A i \in 1 .. Len(fs) : Quiet(fs[i]) \/ (IsSkill(fs[i]) /\ i = Len(fs) - 1)
    BY <1>6, <2>1
  <2> QED BY <1>6, <2>1, <2>2, NothingYet DEF fs
<1> QED BY <1>2, <1>3, <1>4, <1>5, <1>6

\* The actions without attack and missile
LEMMA ActionMarks ==
  ASSUME IInv, IInv', NEW p \in Players,
         AfterAction \/ Shield(p) \/ Buy \/ Synthesize \/ Extract \/ Skill
  PROVE  Marks'
<1>1. Top.kind \in TurnStates /\ attacks' = <<>> /\ relays' = <<>>
  BY DEF AfterAction, Shield, Buy, Synthesize, Extract, Skill, Acts, On, TurnStates
<1>2. /\ Quiet(UseCard) /\ Quiet(Draw(current, 0)) /\ Quiet(Shielded(p, TRUE))
      /\ Quiet(Frame("BeforeAttack")) /\ Quiet(Frame("BeforeMagic")) /\ Quiet(Frame("BeforeSpecial"))
      /\ Quiet(Frame("MagicSkill")) /\ Quiet(Frame("SpecialSkill"))
  BY QuietFrames DEF HookOnly
<1>3. /\ Quiet(Frame("AfterAttack")) /\ Quiet(Frame("AfterMagic")) /\ Quiet(Frame("AfterSpecial"))
      /\ Quiet(Frame("AdditionalAction")) /\ Quiet(Frame("TurnEnd"))
  BY QuietFrames DEF TurnStates
<1>4. CASE AfterAction
  <2>1. Becomes(<<Frame("AdditionalAction")>>) \/ Becomes(<<Frame("TurnEnd")>>)
    BY <1>4 DEF AfterAction, CheckTurnEnd
  <2> QED BY <1>1, <1>3, <2>1, NewAction
<1>5. CASE Shield(p)
  <2> DEFINE t == Shielded(p, TRUE)
  <2>1. Becomes(<<Frame("BeforeMagic"), UseCard, t, Frame("AfterMagic")>>) /\ Quiet(t)
    BY <1>2, <1>5 DEF Shield
  <2> HIDE DEF t
  <2> QED BY <1>1, <1>2, <1>3, <2>1, NewAction
<1>6. CASE Buy
  <2>1. Becomes(<<Frame("BeforeSpecial"), Draw(current, 0), Frame("AfterSpecial")>>)
    BY <1>6 DEF Buy
  <2> QED BY <1>1, <1>2, <1>3, <2>1, NewAction
<1>7. CASE Synthesize
  <2> DEFINE l == Morale("BeforeLoseMorale", Nearest(current, FALSE, Opponents(current)), 1)
             b == <<Frame("BeforeSpecial"), Draw(current, 0), l>>
  <2>1. Quiet(l) /\ Quiet(GameOver(Color))
    BY QuietFrames, MoraleKinds
  <2>2. Becomes(b \o (IF Won(area'[Color]) THEN <<GameOver(Color)>> ELSE <<>>) \o <<Frame("AfterSpecial")>>)
    BY <1>7 DEF Synthesize
  <2>3. \/ Becomes(b \o <<GameOver(Color)>> \o <<Frame("AfterSpecial")>>)
        \/ Becomes(b \o <<>> \o <<Frame("AfterSpecial")>>)
    BY <2>2
  <2> HIDE DEF l
  <2>4. CASE Becomes(b \o <<GameOver(Color)>> \o <<Frame("AfterSpecial")>>)
    <3>1. Becomes(<<Frame("BeforeSpecial"), Draw(current, 0), l, GameOver(Color), Frame("AfterSpecial")>>)
      <4>1. b \o <<GameOver(Color)>> \o <<Frame("AfterSpecial")>>
              = <<Frame("BeforeSpecial"), Draw(current, 0), l, GameOver(Color), Frame("AfterSpecial")>>
        BY Concats
      <4> HIDE DEF b
      <4> QED BY <2>4, <4>1, Zenon
    <3> QED BY <1>1, <1>2, <1>3, <2>1, <3>1, NewAction
  <2>5. CASE Becomes(b \o <<>> \o <<Frame("AfterSpecial")>>)
    <3>1. Becomes(<<Frame("BeforeSpecial"), Draw(current, 0), l, Frame("AfterSpecial")>>)
      <4>1. b \o <<>> \o <<Frame("AfterSpecial")>>
              = <<Frame("BeforeSpecial"), Draw(current, 0), l, Frame("AfterSpecial")>>
        BY Concats
      <4> HIDE DEF b
      <4> QED BY <2>5, <4>1, Zenon
    <3> QED BY <1>1, <1>2, <1>3, <2>1, <3>1, NewAction
  <2> QED BY <2>3, <2>4, <2>5
<1>8. CASE Extract
  <2>1. Becomes(<<Frame("BeforeSpecial"), Frame("AfterSpecial")>>)
    BY <1>8 DEF Extract, AfterSpecial
  <2> QED BY <1>1, <1>2, <1>3, <2>1, NewAction
<1>9. CASE Skill
  <2>1. IsSkill(Frame("AttackSkill"))
    BY DEF IsSkill, Frame
  <2>2. \E x, y, z : Quiet(x) /\ (Quiet(y) \/ IsSkill(y)) /\ Quiet(z) /\ Becomes(<<x, y, z>>)
    BY <1>2, <1>3, <1>9, <2>1 DEF Skill, SkillStates
  <2> QED BY <1>1, <2>2, NewAction
<1> QED BY <1>4, <1>5, <1>6, <1>7, <1>8, <1>9

LEMMA TwoAndThree ==
  ASSUME NEW a \in Frames, NEW b \in Frames, NEW c \in Frames
  PROVE  /\ <<a>> \in Seq(Frames) /\ Len(<<a>>) = 1 /\ <<a>>[1] = a
         /\ <<a, b>> \in Seq(Frames) /\ Len(<<a, b>>) = 2 /\ <<a, b>>[1] = a /\ <<a, b>>[2] = b
         /\ <<a, b, c>> \in Seq(Frames) /\ Len(<<a, b, c>>) = 3
         /\ <<a, b, c>>[1] = a /\ <<a, b, c>>[2] = b /\ <<a, b, c>>[3] = c
OBVIOUS

LEMMA MissesAndAttacks ==
  /\ \A n : IsMiss(Miss(n)) /\ ~IsAttack(Miss(n)) /\ ~IsSkill(Miss(n)) /\ ~IsMissile(Miss(n))
  /\ \A f \in AttackFrames : IsAttack(f) /\ ~IsMissile(f)
  /\ \A f \in MissileFrames : IsMissile(f) /\ ~IsAttack(f) /\ ~IsMiss(f) /\ ~IsSkill(f)
BY DEF Miss, AttackFrames, MissileFrames, IsMiss, IsAttack, IsSkill, IsMissile

\* The state about an attack, on top of the stack, gives way to one that settles it.
LEMMA SettledMarks ==
  ASSUME IInv, IInv', Marks, Top \in AttackFrames, relays' = relays, NEW x \in {"hit", "miss"},
         attacks' = [attacks EXCEPT ![Top.n] = x], NEW T, NEW fs \in Seq(T), Becomes(fs),
         \A i \in 1 .. Len(fs) : ~IsAttack(fs[i]) /\ ~IsSkill(fs[i]) /\ ~IsMissile(fs[i])
  PROVE  Marks'
<1>1. /\ stack \in Seq(Frames) /\ stack # <<>> /\ Top = stack[1] /\ fs \in Seq(Frames)
      /\ attacks \in Seq({"open", "hit", "miss"})
  BY TopFrame, FramesPut DEF IInv, Shaped, Rest
<1>2. IsAttack(stack[1])
  BY <1>1, MissesAndAttacks
<1>3. AttacksFit(stack', attacks')
  BY <1>1, <1>2, AttackSettled DEF Marks, Becomes
<1>4. MissilesFit(stack', relays')
  BY <1>1, QuietMissiles DEF Marks, Becomes
<1> QED BY <1>3, <1>4 DEF Marks

LEMMA GoingOnMarks ==
  ASSUME IInv, IInv', Marks, Top \in AttackFrames, UNCHANGED <<attacks, relays>>,
         NEW f \in AttackFrames, f.n = Top.n, Becomes(<<f>>)
  PROVE  Marks'
<1>1. stack \in Seq(Frames) /\ stack # <<>> /\ Top = stack[1] /\ f \in Frames
  BY TopFrame, LooseFrames DEF IInv, Shaped, Loose
<1>2. IsAttack(stack[1]) /\ IsAttack(f) /\ ~IsMissile(f)
  BY <1>1, MissesAndAttacks
<1>3. AttacksFit(stack', attacks')
  BY <1>1, <1>2, AttackGoesOn DEF Marks, Becomes
<1> DEFINE fs == <<f>>
<1>4. fs \in Seq(Frames) /\ \A i \in 1 .. Len(fs) : ~IsMissile(fs[i])
  BY <1>1, <1>2
<1>5. stack' = fs \o Tail(stack)
  BY DEF Becomes
<1> HIDE DEF fs
<1>6. MissilesFit(stack', relays')
  BY <1>1, <1>4, <1>5, QuietMissiles DEF Marks
<1> QED BY <1>3, <1>6 DEF Marks

LEMMA AttackMarks ==
  ASSUME IInv, IInv', Marks,
         Timeline1 \/ HookAttack \/ AttackedNoMiss \/ GiveUp \/ Block \/ Reattack
  PROVE  Marks'
<1>1. /\ Top \in AttackFrames /\ relays' = relays /\ Top \in Frames /\ stack \in Seq(Frames)
      /\ stack # <<>> /\ Top = stack[1] /\ attacks \in Seq({"open", "hit", "miss"})
  <2>1. Top.kind \in {"Timeline1", "Attacked"}
    BY DEF Timeline1, HookAttack, AttackedNoMiss, GiveUp, Block, Reattack, Asked, On
  <2>2. relays' = relays
    BY DEF Timeline1, HookAttack, AttackedNoMiss, GiveUp, Block, Reattack, combat
  <2> QED BY <2>1, <2>2, TopFrame, KindOfFrame DEF IInv, Shaped, Rest
<1>2. IsAttack(Top) /\ Quiet(UseCard) /\ Quiet(LoseShield(Top.dst)) /\ Quiet(Hit(Top.n, Top.dst))
  BY <1>1, MissesAndAttacks, QuietFrames
<1>3. /\ ~IsAttack(UseCard) /\ ~IsSkill(UseCard) /\ ~IsMissile(UseCard)
      /\ ~IsAttack(LoseShield(Top.dst)) /\ ~IsSkill(LoseShield(Top.dst)) /\ ~IsMissile(LoseShield(Top.dst))
      /\ ~IsAttack(Hit(Top.n, Top.dst)) /\ ~IsSkill(Hit(Top.n, Top.dst)) /\ ~IsMissile(Hit(Top.n, Top.dst))
      /\ ~IsAttack(Miss(Top.n)) /\ ~IsSkill(Miss(Top.n)) /\ ~IsMissile(Miss(Top.n))
  BY <1>2, MissesAndAttacks DEF Quiet
<1>4. CASE Timeline1
  <2>1. /\ [Top EXCEPT !.kind = "Attacked"] \in AttackFrames
        /\ [Top EXCEPT !.kind = "Attacked"].n = Top.n
    BY <1>1 DEF AttackFrames
  <2> QED BY <1>1, <1>4, <2>1, GoingOnMarks DEF Timeline1, combat
<1>5. CASE HookAttack
  <2>1. PICK f \in {[Top EXCEPT !.rate = "nomiss"], [Top EXCEPT !.rate = "noreattack", !.check = FALSE]} :
          Becomes(<<f>>)
    BY <1>5 DEF HookAttack
  <2>2. f \in AttackFrames /\ f.n = Top.n
    BY <1>1 DEF AttackFrames
  <2> QED BY <1>1, <1>5, <2>1, <2>2, GoingOnMarks DEF HookAttack
<1>6. ASSUME Hits(Top) PROVE Marks'
  <2> DEFINE h == Hit(Top.n, Top.dst)
             fs == <<h>>
  <2>1. Becomes(fs) /\ attacks' = [attacks EXCEPT ![Top.n] = "hit"]
    BY <1>6 DEF Hits
  <2>2. ~IsAttack(h) /\ ~IsSkill(h) /\ ~IsMissile(h)
    BY <1>3
  <2> HIDE DEF h
  <2>3. fs \in Seq({h}) /\ \A i \in 1 .. Len(fs) : ~IsAttack(fs[i]) /\ ~IsSkill(fs[i]) /\ ~IsMissile(fs[i])
    BY <2>2
  <2> HIDE DEF fs
  <2> QED BY <1>1, <2>1, <2>3, SettledMarks
<1>7. ASSUME NEW u, ~IsAttack(u), ~IsSkill(u), ~IsMissile(u), Becomes(<<u, Miss(Top.n)>>),
             attacks' = [attacks EXCEPT ![Top.n] = "miss"]
      PROVE  Marks'
  <2> DEFINE m == Miss(Top.n)
             fs == <<u, m>>
  <2>1. ~IsAttack(m) /\ ~IsSkill(m) /\ ~IsMissile(m)
    BY <1>3
  <2>2. Becomes(fs)
    BY <1>7
  <2> HIDE DEF m
  <2>3. fs \in Seq({u, m}) /\ \A i \in 1 .. Len(fs) : ~IsAttack(fs[i]) /\ ~IsSkill(fs[i]) /\ ~IsMissile(fs[i])
    BY <1>7, <2>1
  <2> HIDE DEF fs
  <2> QED BY <1>1, <1>7, <2>2, <2>3, SettledMarks
<1>8. CASE AttackedNoMiss
  BY <1>6, <1>8 DEF AttackedNoMiss
<1>9. CASE GiveUp
  BY <1>3, <1>6, <1>7, <1>9 DEF GiveUp
<1>10. CASE Block
  BY <1>3, <1>7, <1>10 DEF Block
<1>11. CASE Reattack
  <2>1. PICK to \in Opponents(Top.dst), r \in {"normal", "noreattack"} :
          Becomes(<<UseCard, Miss(Top.n), Attack("Timeline1", NumAttacks + 1, Top.dst, to, FALSE, r, TRUE)>>)
    BY <1>11 DEF Reattack, NewAttack, Countered
  <2> DEFINE f == Attack("Timeline1", NumAttacks + 1, Top.dst, to, FALSE, r, TRUE)
             m == Miss(Top.n)
             u == UseCard
             fs == <<u, m, f>>
  <2>2. Becomes(fs) /\ f.n = Len(attacks) + 1 /\ IsAttack(f) /\ ~IsMissile(f)
    BY <2>1 DEF Attack, NumAttacks, IsAttack, IsMissile
  <2>3. IsMiss(m) /\ Quiet(u) /\ ~IsMissile(m) /\ ~IsMissile(u)
    BY <1>2, <1>3, MissesAndAttacks
  <2>4. attacks' = Append([attacks EXCEPT ![Top.n] = "miss"], "open")
    BY <1>11 DEF Reattack
  <2> HIDE DEF f, m, u
  <2>5. fs \in Seq({u, m, f}) /\ Len(fs) = 3 /\ fs[1] = u /\ fs[2] = m /\ fs[3] = f
    OBVIOUS
  <2>6. fs \in Seq(Frames)
    BY <2>2, <2>5, FramesPut
  <2>7. u \in Frames /\ m \in Frames /\ f \in Frames
    <3>1. 1 \in 1 .. Len(fs) /\ 2 \in 1 .. Len(fs) /\ 3 \in 1 .. Len(fs)
      BY <2>5
    <3> HIDE DEF fs
    <3> QED BY <2>5, <2>6, <3>1, ElementOfSeq
  <2>8. AttacksFit(fs \o Tail(stack), Append([attacks EXCEPT ![stack[1].n] = "miss"], "open"))
    <3>1. IsAttack(stack[1])
      BY <1>1, <1>2
    <3> QED BY <1>1, <2>2, <2>3, <2>7, <3>1, AttackCountered DEF Marks
  <2> HIDE DEF fs
  <2>9. \A i \in 1 .. Len(fs) : ~IsMissile(fs[i])
    BY <2>2, <2>3, <2>5
  <2>10. MissilesFit(fs \o Tail(stack), relays)
    BY <1>1, <2>6, <2>9, QuietMissiles DEF Marks
  <2> QED BY <1>1, <2>2, <2>4, <2>8, <2>10 DEF Marks, Becomes
<1> QED BY <1>4, <1>5, <1>8, <1>9, <1>10, <1>11

\* The attack of an attack skill
LEMMA SkillMarks ==
  ASSUME IInv, IInv', Marks, NEW p \in Players, HookNewAttack(current, p)
  PROVE  Marks'
<1>1. /\ stack \in Seq(Frames) /\ stack # <<>> /\ Top = stack[1] /\ Top.kind = "AttackSkill"
      /\ attacks \in Seq({"open", "hit", "miss"}) /\ Len(stack) \in Nat \ {0}
      /\ relays' = relays /\ attacks' = Append(attacks, "open")
  BY TopFrame, EmptySeq DEF IInv, Shaped, Rest, HookNewAttack, On
<1>2. PICK r \in {"normal", "noreattack"} :
        Becomes(<<Attack("Timeline1", NumAttacks + 1, current, p, TRUE, r, TRUE), Frame("AttackSkillDone")>>)
  BY DEF HookNewAttack, NewAttack
<1> DEFINE f == Attack("Timeline1", NumAttacks + 1, current, p, TRUE, r, TRUE)
           g == Frame("AttackSkillDone")
           fs == <<f, g>>
<1>3. Becomes(fs) /\ f.n = Len(attacks) + 1 /\ IsAttack(f) /\ ~IsMissile(f)
  BY <1>2 DEF Attack, NumAttacks, IsAttack, IsMissile
<1>4. Quiet(g) /\ ~IsMissile(g)
  BY QuietFrames DEF HookOnly, Quiet
<1> HIDE DEF f, g
<1>5. fs \in Seq({f, g}) /\ Len(fs) = 2 /\ fs[1] = f /\ fs[2] = g
  OBVIOUS
<1>6. fs \in Seq(Frames)
  BY <1>3, <1>5, FramesPut
<1>7. f \in Frames /\ g \in Frames
  <2>1. 1 \in 1 .. Len(fs) /\ 2 \in 1 .. Len(fs)
    BY <1>5
  <2> HIDE DEF fs
  <2> QED BY <1>5, <1>6, <2>1, ElementOfSeq
<1>8. IsSkill(stack[1])
  BY <1>1 DEF IsSkill
<1>9. Len(stack) = 2
  <2>1. 1 \in 1 .. Len(stack)
    BY <1>1
  <2>2. 1 = Len(stack) - 1
    BY <1>8, <2>1 DEF Marks, AttacksFit
  <2> QED BY <1>1, <2>2
<1>10. \A j \in 2 .. Len(stack) : Quiet(stack[j])
  <2>1. stack[2].kind \in TurnStates
    <3>1. Top.kind # "GameOver" /\ Bottom = stack[2]
      BY <1>1, <1>9 DEF Bottom
    <3> QED BY <3>1 DEF IInv, Shaped, OneTurn, IsOver, On
  <2>2. Quiet(stack[2])
    BY <2>1 DEF Quiet, IsAttack, IsMiss, IsMissile, IsSkill, TurnStates
  <2>3. \A j \in 2 .. Len(stack) : j = 2
    BY <1>9
  <2> QED BY <2>2, <2>3
<1>11. AttacksFit(fs \o Tail(stack), Append(attacks, "open"))
  BY <1>1, <1>3, <1>4, <1>7, <1>8, <1>10, AttackOfSkill DEF Marks
<1> HIDE DEF fs
<1>12. \A i \in 1 .. Len(fs) : ~IsMissile(fs[i])
  BY <1>3, <1>4, <1>5
<1>13. MissilesFit(fs \o Tail(stack), relays)
  BY <1>1, <1>6, <1>12, QuietMissiles DEF Marks
<1> QED BY <1>1, <1>3, <1>11, <1>13 DEF Marks, Becomes

\* The first attack and the first missile of an action
LEMMA BasicMarks ==
  ASSUME IInv, IInv', NEW p \in Players, BasicAttack(p) \/ BasicMissile(p)
  PROVE  Marks'
<1>1. Top.kind \in TurnStates /\ current \in Players
  BY DEF BasicAttack, BasicMissile, On, TurnStates, IInv, Rest
<1> DEFINE u == UseCard
           e == Frame("AfterAttack")
           o == Frame("AfterMagic")
           g == Frame("BeforeAttack")
           h == Frame("BeforeMagic")
<1>2. Quiet(u) /\ Quiet(e) /\ Quiet(o) /\ Quiet(g) /\ Quiet(h)
  BY QuietFrames DEF HookOnly, TurnStates
<1>3. CASE BasicAttack(p)
  <2>1. PICK r \in {"normal", "noreattack"} :
          Becomes(<<u, g, Attack("Timeline1", 1, current, p, TRUE, r, TRUE), e>>)
    BY <1>3 DEF BasicAttack, NewAttack
  <2> DEFINE f == Attack("Timeline1", 1, current, p, TRUE, r, TRUE)
             fs == <<u, g, f, e>>
  <2>2. Becomes(fs) /\ f.n = 1 /\ IsAttack(f) /\ ~IsMissile(f) /\ attacks' = <<"open">> /\ relays' = <<>>
    BY <1>3, <2>1 DEF BasicAttack, Acts, Attack, IsAttack, IsMissile
  <2> HIDE DEF f, u, g, e
  <2>3. fs \in Seq({u, g, f, e}) /\ Len(fs) = 4 /\ fs[1] = u /\ fs[2] = g /\ fs[3] = f /\ fs[4] = e
    OBVIOUS
  <2>4. fs \in Seq(Frames)
    BY <2>2, <2>3, FramesPut
  <2>5. u \in Frames /\ g \in Frames /\ f \in Frames /\ e \in Frames
    <3>1. 1 \in 1 .. Len(fs) /\ 2 \in 1 .. Len(fs) /\ 3 \in 1 .. Len(fs) /\ 4 \in 1 .. Len(fs)
      BY <2>3
    <3> HIDE DEF fs
    <3> QED BY <2>3, <2>4, <3>1, ElementOfSeq
  <2>6. AttacksFit(fs, <<"open">>)
    BY <1>2, <2>2, <2>5, FirstAttack
  <2> HIDE DEF fs
  <2>7. \A i \in 1 .. Len(fs) : ~IsMissile(fs[i])
    BY <1>2, <2>2, <2>3 DEF Quiet
  <2>8. MissilesFit(fs, <<>>)
    BY <2>7 DEF MissilesFit, ToAndFro, GoesRound, OnceEach
  <2>9. stack' = fs
    BY <1>1, <2>2, <2>4, SingleStack
  <2> QED BY <2>2, <2>6, <2>8, <2>9 DEF Marks
<1>4. CASE BasicMissile(p)
  <2> DEFINE m == Missile(current, p)
             fs == <<h, u, m, o>>
  <2>1. Becomes(fs) /\ attacks' = <<>> /\ relays' = <<current, p>>
    BY <1>4 DEF BasicMissile, Acts
  <2>2. IsMissile(m) /\ m.has = {current} /\ m.dst = p
    BY DEF Missile, IsMissile
  <2> HIDE DEF m, h, u, o
  <2>3. fs \in Seq({h, u, m, o}) /\ Len(fs) = 4 /\ fs[1] = h /\ fs[2] = u /\ fs[3] = m /\ fs[4] = o
    OBVIOUS
  <2> HIDE DEF fs
  <2>4. fs \in Seq(Frames)
    BY <2>1, <2>3, FramesPut
  <2>5. stack' = fs
    BY <1>1, <2>1, <2>4, SingleStack
  <2>6. \A i \in 1 .. Len(fs) : i = 3 \/ Quiet(fs[i])
    BY <1>2, <2>3
  <2>7. ~IsAttack(m) /\ ~IsSkill(m)
    BY <2>2 DEF IsMissile, IsAttack, IsSkill
  <2>8. AttacksFit(fs, <<>>)
    BY <2>3, <2>4, <2>6, <2>7, NoAttackYet DEF Quiet
  <2>9. InFlight(m, <<current, p>>) /\ ToAndFro(<<current, p>>) /\ GoesRound(<<current, p>>)
    BY <1>1, <2>2, FirstMissile
  <2>10. \A i \in 1 .. Len(fs) : IsMissile(fs[i]) => i = 3 /\ fs[i] = m
    BY <2>3, <2>6 DEF Quiet
  <2>11. MissilesFit(fs, <<current, p>>)
    BY <2>9, <2>10 DEF MissilesFit
  <2> QED BY <2>1, <2>5, <2>8, <2>11 DEF Marks
<1> QED BY <1>3, <1>4

\* The missile is passed on.
LEMMA RelayMarks ==
  ASSUME IInv, IInv', Marks, Relay
  PROVE  Marks'
<1> DEFINE next == RelayTo(Top)
           f == [Top EXCEPT !.src = Top.dst, !.dst = next.to, !.point = @ + 1,
                            !.has = next.has \cup {Top.dst}]
           u == UseCard
           fs == <<u, f>>
<1>1. /\ Top \in MissileFrames /\ stack \in Seq(Frames) /\ stack # <<>> /\ Top = stack[1]
      /\ Len(stack) \in Nat \ {0} /\ relays \in Seq(Players)
  BY TopFrame, KindOfFrame, EmptySeq DEF IInv, Shaped, Rest, Relay, On
<1>2. Becomes(fs) /\ relays' = Append(relays, next.to) /\ attacks' = attacks
  BY DEF Relay, Becomes
<1>3. next.to \in Players /\ next.has \in SUBSET Players
  BY <1>1, NextTargetIsOpponent, SomeOpponent DEF RelayTo, MissileFrames
<1> HIDE DEF next
<1>4. f \in MissileFrames /\ f.dst = next.to /\ f.has = next.has \cup {Top.dst}
  <2>1. /\ Top.dst \in Players /\ Top.point + 1 \in Nat
        /\ next.has \cup {Top.dst} \in SUBSET Players
    BY <1>1, <1>3 DEF MissileFrames
  <2> QED BY <1>1, <1>3, <2>1 DEF MissileFrames
<1>5. Quiet(u) /\ IsMissile(f) /\ ~IsAttack(f) /\ ~IsMiss(f) /\ ~IsSkill(f)
  BY <1>4, QuietFrames, MissesAndAttacks
<1> HIDE DEF f, u
<1>6. fs \in Seq({u, f}) /\ Len(fs) = 2 /\ fs[1] = u /\ fs[2] = f
  OBVIOUS
<1> HIDE DEF fs
<1>7. fs \in Seq(Frames)
  BY <1>2, <1>6, FramesPut
<1>8. IsMissile(stack[1]) /\ ~IsAttack(stack[1]) /\ 1 \in 1 .. Len(stack)
  BY <1>1, MissesAndAttacks
<1>9. AttacksFit(stack', attacks')
  <2>1. ASSUME NEW n \in 1 .. Len(attacks), Open(n, attacks)
        PROVE  \E j \in 2 .. Len(stack) : IsAttack(stack[j]) /\ stack[j].n = n
    <3>1. PICK i \in 1 .. Len(stack) : IsAttack(stack[i]) /\ stack[i].n = n
      BY <2>1 DEF Marks, AttacksFit
    <3>2. i \in 2 .. Len(stack)
      BY <1>1, <1>8, <3>1
    <3> QED BY <3>1, <3>2
  <2>2. \A j \in 2 .. Len(stack) : IsAttack(stack[j]) => Open(stack[j].n, attacks)
    BY <1>1 DEF Marks, AttacksFit
  <2>3. \A i \in 1 .. Len(fs) : ~IsAttack(fs[i]) /\ ~IsSkill(fs[i])
    BY <1>5, <1>6 DEF Quiet
  <2>4. Replaces(stack, fs, attacks, attacks)
    BY <2>1, <2>2, <2>3 DEF Replaces
  <2> QED BY <1>1, <1>2, <1>7, <2>4, AttacksReplaced DEF Marks, Becomes
<1>10. LET t == Append(relays, f.dst) IN
       InFlight(f, t) /\ ToAndFro(t) /\ GoesRound(t)
  <2>1. InFlight(Top, relays) /\ ToAndFro(relays)
    BY <1>1, <1>8 DEF Marks, MissilesFit
  <2>2. f.dst = RelayTo(Top).to /\ f.has = RelayTo(Top).has \cup {Top.dst}
    BY <1>4 DEF next
  <2> QED BY <1>1, <1>4, <2>1, <2>2, Relayed
<1>11. \A i \in 1 .. Len(fs \o Tail(stack)) : IsMissile((fs \o Tail(stack))[i]) => i = 2 /\ (fs \o Tail(stack))[i] = f
  <2> DEFINE t == fs \o Tail(stack)
  <2>1. \A i \in 1 .. Len(t) : \/ i \in 1 .. Len(fs) /\ t[i] = fs[i]
                               \/ i > Len(fs) /\ i - Len(fs) + 1 \in 2 .. Len(stack) /\ t[i] = stack[i - Len(fs) + 1]
    BY <1>1, <1>7, Positions
  <2> HIDE DEF t
  <2>2. \A j \in 2 .. Len(stack) : ~IsMissile(stack[j])
    BY <1>1, <1>8 DEF Marks, MissilesFit
  <2>3. \A i \in 1 .. Len(t) : IsMissile(t[i]) => i \in 1 .. Len(fs) /\ t[i] = fs[i]
    BY <2>1, <2>2
  <2>4. \A i \in 1 .. Len(fs) : IsMissile(fs[i]) => i = 2 /\ fs[i] = f
    BY <1>5, <1>6 DEF Quiet
  <2>5. \A i \in 1 .. Len(t) : IsMissile(t[i]) => i = 2 /\ t[i] = f
    BY <2>3, <2>4
  <2> QED BY <2>5 DEF t
<1>12. MissilesFit(fs \o Tail(stack), Append(relays, f.dst))
  BY <1>10, <1>11 DEF MissilesFit
<1> QED BY <1>2, <1>4, <1>9, <1>12 DEF Marks, Becomes
-----------------------------------------------------------------------------
(* The theorems about attacks and missiles *)

LEMMA InitMarks == Init => Marks
<1> SUFFICES ASSUME Init PROVE Marks
  OBVIOUS
<1>1. stack \in Seq(Frames) /\ Len(stack) = 1 /\ stack[1] = Frame("BeforeTurnBegin")
  BY InitHolds DEF Init, IInv, Shaped
<1>2. Quiet(stack[1])
  BY <1>1, QuietFrames DEF TurnStates
<1>3. \A i \in 1 .. Len(stack) : ~IsAttack(stack[i]) /\ ~IsSkill(stack[i]) /\ ~IsMissile(stack[i])
  BY <1>1, <1>2 DEF Quiet
<1>4. AttacksFit(stack, <<>>)
  BY <1>1, <1>3, NoAttackYet
<1>5. MissilesFit(stack, <<>>)
  BY <1>3 DEF MissilesFit, ToAndFro, GoesRound, OnceEach
<1> QED BY <1>4, <1>5 DEF Init, Marks

LEMMA StepKeepsMarks == IInv /\ Marks /\ [Next]_vars => Marks'
<1> SUFFICES ASSUME IInv, Marks, [Next]_vars PROVE Marks'
  OBVIOUS
<1>1. IInv'
  BY StepKeeps
<1>2. CASE GoesOn
  <2>1. CASE Resolves
    <3>1. CASE Timeline1 \/ AttackedNoMiss \/ GiveUp
      BY <1>1, <3>1, AttackMarks
    <3>2. CASE Timeline2Hit \/ MissileGiveUp \/ Timeline3 \/ Timeline4 \/ AskForCross(0) \/ Timeline5
                 \/ Timeline6 \/ HandChange \/ BasicEffectChange \/ MoraleStep \/ TrueLoseMorale \/ Goes
      <4>1. UNCHANGED <<attacks, relays>>
        BY <3>2 DEF Timeline2Hit, MissileGiveUp, Timeline3, Timeline4, AskForCross, Timeline5, Timeline6,
           HandChange, BasicEffectChange, MoraleStep, TrueLoseMorale, Goes, combat
      <4>2. 0 \in Nat
        OBVIOUS
      <4> QED BY <1>1, <3>2, <4>1, <4>2, SilentMarks
    <3> QED BY <2>1, <3>1, <3>2 DEF Resolves
  <2>2. CASE Passes \/ CheckBasicEffect \/ WeakenSkips \/ NoAction \/ NoMoreActions \/ AfterTurnEnd
    <3>1. UNCHANGED <<attacks, relays>>
      BY <2>2 DEF Passes, CheckBasicEffect, WeakenSkips, NoAction, NoMoreActions, AfterTurnEnd, combat
    <3> QED BY <1>1, <2>2, <3>1, PhaseMarks
  <2>3. CASE AfterAction
    <3>1. current \in Players
      BY DEF IInv, Rest
    <3> QED BY <1>1, <2>3, <3>1, ActionMarks
  <2> QED BY <1>2, <2>1, <2>2, <2>3 DEF GoesOn
<1>3. CASE PlayerActs
  <2>1. ASSUME NEW p \in Players, BasicAttack(p) \/ Shield(p) \/ BasicMissile(p) PROVE Marks'
    BY <1>1, <2>1, BasicMarks, ActionMarks
  <2>2. current \in Players
    BY DEF IInv, Rest
  <2>3. CASE Buy \/ Synthesize \/ Extract \/ Skill
    BY <1>1, <2>2, <2>3, ActionMarks
  <2>4. CASE Unactional
    BY <1>1, <2>2, <2>4, HookMarks
  <2>5. CASE NoCards \/ Weakened \/ AdditionalAction
    <3>1. UNCHANGED <<attacks, relays>>
      BY <2>5 DEF NoCards, Weakened, AdditionalAction, combat
    <3> QED BY <1>1, <2>5, <3>1, PhaseMarks
  <2>6. CASE Answers
    <3>1. CASE Reattack \/ Block
      BY <1>1, <3>1, AttackMarks
    <3>2. CASE Relay
      BY <1>1, <3>2, RelayMarks
    <3>3. CASE MissileBlock \/ \E n \in 1 .. 4 : AskForCross(n)
      <4>1. UNCHANGED <<attacks, relays>>
        BY <3>3 DEF MissileBlock, AskForCross, combat
      <4>2. MissileBlock \/ \E n \in Nat : AskForCross(n)
        BY <3>3
      <4> QED BY <1>1, <4>1, <4>2, SilentMarks
    <3> QED BY <2>6, <3>1, <3>2, <3>3 DEF Answers
  <2> QED BY <1>3, <2>1, <2>3, <2>4, <2>5, <2>6 DEF PlayerActs
<1>4. CASE RoleActs
  <2>1. CASE HookAction
    <3>1. current \in Players
      BY DEF IInv, Rest
    <3> QED BY <1>1, <2>1, <3>1, HookMarks
  <2>2. CASE HookTurn \/ HookGiveUp
    <3>1. UNCHANGED <<attacks, relays>>
      BY <2>2 DEF HookTurn, HookGiveUp
    <3> QED BY <1>1, <2>2, <3>1, PhaseMarks
  <2>3. ASSUME NEW p \in Players, HookTurnHarm(p) PROVE Marks'
    BY <1>1, <2>3, HookMarks
  <2>4. ASSUME NEW p \in Players, RoleHooks(p) PROVE Marks'
    BY <1>1, <2>4, HookMarks, AttackMarks DEF RoleHooks
  <2>5. ASSUME NEW p \in Opponents(current), HookNewAttack(current, p) PROVE Marks'
    BY <1>1, <2>5, SkillMarks DEF Opponents
  <2> QED BY <1>4, <2>1, <2>2, <2>3, <2>4, <2>5 DEF RoleActs
<1>5. CASE UNCHANGED vars
  BY <1>5 DEF vars, combat, Marks
<1> QED BY <1>2, <1>3, <1>4, <1>5 DEF Next

LEMMA MarksHold == Spec => []Marks
BY InitHolds, InitMarks, StepKeeps, StepKeepsMarks, Invariance, PTL DEF Spec

\* Every attack of an action is settled once, as a hit or a miss.
THEOREM AttacksAreSettledOnce == Spec => []AttacksSettleOnce
<1>1. ASSUME IInv, Marks PROVE AttacksSettleOnce
  <2> DEFINE about(n) == {i \in 1 .. Len(stack) :
                            stack[i].kind \in {"Timeline1", "Attacked"} /\ stack[i].n = n}
             misses == {i \in 1 .. Len(stack) : stack[i].kind = "Timeline2Miss"}
  <2>1. \A n : about(n) = {i \in 1 .. Len(stack) : IsAttack(stack[i]) /\ stack[i].n = n}
    BY DEF IsAttack
  <2>2. \A j \in misses : j \in 1 .. Len(stack) /\ IsMiss(stack[j])
    BY DEF IsMiss
  <2> HIDE DEF about, misses
  <2>3. ASSUME NEW n \in 1 .. Len(attacks)
        PROVE  Cardinality(about(n)) = (IF attacks[n] = "open" THEN 1 ELSE 0)
    <3>1. CASE attacks[n] = "open"
      <4>1. PICK i \in 1 .. Len(stack) : IsAttack(stack[i]) /\ stack[i].n = n
        BY <3>1, <1>1 DEF Marks, AttacksFit, Open
      <4>2. about(n) = {i}
        BY <1>1, <2>1, <4>1 DEF Marks, AttacksFit
      <4> QED BY <3>1, <4>2, FS_Singleton
    <3>2. CASE attacks[n] # "open"
      <4>1. about(n) = {}
        BY <1>1, <2>1, <3>2 DEF Marks, AttacksFit, Open
      <4> QED BY <3>2, <4>1, FS_EmptySet
    <3> QED BY <3>1, <3>2
  <2>4. \A n \in 1 .. Len(attacks) : \A i \in about(n), j \in misses : j < i
    BY <1>1, <2>1, <2>2 DEF Marks, AttacksFit
  <2>5. ASSUME NEW k \in TurnStates, AtPhase(k), NEW n \in 1 .. Len(attacks), attacks[n] = "open"
        PROVE  FALSE
    <3>1. PICK i \in 1 .. Len(stack) : IsAttack(stack[i])
      BY <1>1, <2>5 DEF Marks, AttacksFit, Open
    <3>2. Len(stack) = 1 /\ stack[1].kind = k
      <4>1. Len(stack) = 1
        BY <1>1, <2>5, Singletons DEF AtPhase, IInv, Shaped, OneTurn
      <4> QED BY <2>5, <4>1 DEF AtPhase, Bottom
    <3>3. i = 1
      BY <3>1, <3>2
    <3> QED BY <3>1, <3>2, <3>3 DEF IsAttack, TurnStates
  <2> QED BY <2>3, <2>4, <2>5 DEF AttacksSettleOnce, about, misses
<1> QED BY <1>1, Invariance, MarksHold, PTL

\* Whoever passes a missile on sends it to the other team.  If who played it did so too,
\* nobody has it twice before everybody has had it; if he sent it to a team-mate, before
\* one of the teams has had it.
THEOREM MissileFliesRound == Spec => []MissileGoesRound
<1>1. ASSUME Marks PROVE MissileGoesRound
  <2>1. ToAndFro(relays) /\ GoesRound(relays)
    BY <1>1 DEF Marks, MissilesFit
  <2> DEFINE had(p)   == \E i \in 1 .. Len(relays) : relays[i] = p
             twice(p) == \E i, j \in 1 .. Len(relays) : i # j /\ relays[i] = p /\ relays[j] = p
             round(c) == \A q \in Players : TeamOf[q] = c => had(q)
  <2>2. ASSUME NEW p \in Players, relays # <<>>, twice(p), relays[2] # relays[1]
        PROVE  IF relays[2] \in Opponents(relays[1]) THEN \A c \in Colors : round(c)
                                                      ELSE \E c \in Colors : round(c)
    <3>1. RoundOver(relays)
      BY <2>1, <2>2 DEF GoesRound, OnceEach, SentHome
    <3>2. \A q : q \in Had(relays) => had(q)
      BY DEF Had
    <3>3. \A c : Team(c) \subseteq Had(relays) => round(c)
      BY <3>2 DEF Team
    <3>4. \E c \in Colors : round(c)
      BY <3>1, <3>3 DEF RoundOver
    <3>5. relays[2] \in Opponents(relays[1]) => \A c \in Colors : round(c)
      BY <2>2, <3>1, <3>2 DEF RoundOver, SentAcross
    <3> QED BY <3>4, <3>5
  <2> QED BY <2>1, <2>2 DEF MissileGoesRound, ToAndFro
<1> QED BY <1>1, MarksHold, PTL
=============================================================================
