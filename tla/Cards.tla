------------------------------- MODULE Cards -------------------------------
(***************************************************************************)
(* Where the cards of a running game are, and the stack of states that     *)
(* moves them.  setStateMoveCards only checks: it takes cards from the     *)
(* pile and gives them to the discards at once, and leaves the rest to     *)
(* StateHandChange, StateBasicEffectChange and StateCoverChange, which run *)
(* later, from the top of the stack, while hooks of the roles push more.   *)
(* A step is one call of handle; a turn asks for the moves that the core   *)
(* and the roles ask for, in any order.  The pile is shuffled, so any of   *)
(* its cards may come.  What the heal, harm and timeline states decide     *)
(* before a draw, and how the roles mitigate a loss of morale, is left out.*)
(***************************************************************************)
EXTENDS Integers, Sequences, FiniteSetsExt, SequencesExt

CONSTANTS
  CardIds,
  Poison, Weaken,  \* the cards of these names; the others stand for shields and the rest
  Players,
  Colors, Color,   \* the teams, and the team of each player
  Deal,            \* 4, the cards StateGameStart gives to each player
  HandMax, HandMaxes,  \* 6, and the values roles change it to
  CoverMax,        \* coverCardsMax
  WeakenDraw,      \* 3
  WuXiShuFu,       \* 0, or 2 to 4: the cards a player draws more who is bound by it
  InitMorale,      \* 15
  MaxDraw,         \* bound: points of one harm, cards of one request
  MaxMoves         \* bound: how many moves the turn and the hooks ask for

ASSUME CardsAssumption ==
  /\ Poison \subseteq CardIds /\ Weaken \subseteq CardIds /\ Poison \cap Weaken = {}
  /\ Color \in [Players -> Colors]
ASSUME FiniteAssumption == IsFiniteSet(CardIds) /\ IsFiniteSet(Players)
ASSUME NumbersAssumption ==
  /\ {Deal, CoverMax, WeakenDraw, MaxDraw, MaxMoves} \subseteq Nat /\ InitMorale \in Nat \ {0}
  /\ WuXiShuFu \subseteq Nat /\ HandMaxes \subseteq Nat /\ HandMax \in HandMaxes

VARIABLES
  pile, discard,
  zone,      \* the hand, the basic effects and the covers of each player
  handMax,   \* handCardsMax
  morale,
  stack,     \* the states, top first
  lost,      \* history: cards a draw took before it threw GE_CARD_NOT_ENOUGH
  blown,     \* history: cards FengZhiJieJing has taken off
  over,      \* history: cards each team has discarded because of overload
  moves

vars == <<pile, discard, zone, handMax, morale, stack, lost, blown, over, moves>>

Areas == {"hand", "effect", "cover"}
Place(a, p) == [area |-> a, player |-> p]
Discard     == [area |-> "discard"]

\* The states that move cards
Change(at, dir, cs)   == [kind |-> "change", at |-> at, dir |-> dir, cards |-> cs, set |-> FALSE]
Harm(p, n)            == [kind |-> "harm", player |-> p, point |-> n]
WeakenAsked(p, n)     == [kind |-> "weaken", player |-> p, point |-> n]
RequestHand(p, n, to, giveUp, overLoad) ==
  [kind |-> "requestHand", player |-> p, point |-> n, to |-> to,
   giveUp |-> giveUp, overLoad |-> overLoad]
RequestCover(p, n)    == [kind |-> "requestCover", player |-> p, point |-> n]
LoseMorale(p, n)      == [kind |-> "morale", player |-> p, point |-> n]
Start(ps)             == [kind |-> "start", left |-> ps]
Turn                  == [kind |-> "turn"]
GameOver(t)           == [kind |-> "gameover", loser |-> t]

Top == Head(stack)
Hand(p) == zone["hand"][p]

Init ==
  /\ pile = CardIds /\ discard = {}
  /\ zone = [a \in Areas |-> [p \in Players |-> {}]]
  /\ handMax = [p \in Players |-> HandMax]
  /\ morale = [t \in Colors |-> InitMorale]
  /\ stack = <<Start(Players)>>
  /\ lost = {} /\ blown = {} /\ moves = 0
  /\ over = [t \in Colors |-> 0]

TypeOK ==
  /\ {pile, discard, lost, blown} \subseteq SUBSET CardIds
  /\ zone \in [Areas -> [Players -> SUBSET CardIds]]
  /\ handMax \in [Players -> HandMaxes]
  /\ morale \in [Colors -> 0 .. InitMorale]
  /\ over \in [Colors -> Nat] /\ moves \in 0 .. MaxMoves
  /\ stack # <<>>
-----------------------------------------------------------------------------
(* Moving cards *)

\* mutant: the discards that become the pile stay where they are
Draws_KeepDiscard(n) ==
  IF n <= Cardinality(pile)
  THEN {[cards |-> S, pile |-> pile \ S, discard |-> discard] : S \in kSubset(n, pile)}
  ELSE {[cards |-> pile \cup S, pile |-> discard \ S, discard |-> discard] :
          S \in kSubset(n - Cardinality(pile), discard)}

\* What drawCardsFromPile may do: it shuffles the discards when the pile is short,
\* and has given up the cards of the pile when even that is not enough.
Draws(n) ==
  IF n <= Cardinality(pile)
  THEN {[cards |-> S, pile |-> pile \ S, discard |-> discard] : S \in kSubset(n, pile)}
  ELSE {[cards |-> pile \cup S, pile |-> discard \ S, discard |-> {}] :
          S \in kSubset(n - Cardinality(pile), discard)}

\* setStateMoveCards from the pile, above the states fs; when it throws, the states
\* are what the caller had made of them by then.
DrawTo(at, n, fs) ==
  \/ \E d \in Draws(n) :
       /\ pile' = d.pile /\ discard' = d.discard /\ lost' = lost
       /\ stack' = <<Change(at, "add", d.cards)>> \o fs
  \/ /\ Draws(n) = {}
     /\ pile' = discard /\ discard' = {} /\ lost' = lost \cup pile
     /\ stack' = fs

\* The states that setStateMoveCards pushes for cards that are not in the pile
MoveStates(from, to, cs) ==
  IF cs = {} THEN <<>>
  ELSE <<Change(from, "remove", cs)>>
         \o IF to = Discard THEN <<>> ELSE <<Change(to, "add", cs)>>

\* ... and the discards after it
Received(to, cs) == IF to = Discard THEN discard \cup cs ELSE discard

\* The cards over the limit go, whatever the player would like.
OverLoad(p, hand, max) == RequestHand(p, Cardinality(hand) - max, Discard, FALSE, TRUE)

\* mutant: one card over the limit is let pass
HandOverLoad_OneMore(p, hand, max) ==
  IF Cardinality(hand) > max + 1 THEN <<OverLoad(p, hand, max)>> ELSE <<>>

\* setStateHandOverLoad, setStateCoverOverLoad
HandOverLoad(p, hand, max) ==
  IF Cardinality(hand) > max THEN <<OverLoad(p, hand, max)>> ELSE <<>>

CoverOverLoad(p, cover) ==
  IF Cardinality(cover) > CoverMax THEN <<RequestCover(p, Cardinality(cover) - CoverMax)>> ELSE <<>>

\* The players whose limit a role changes, each with a state if the hand is over it
OverLoads(ps, hands, max) ==
  {[k \in DOMAIN order |-> OverLoad(order[k], hands[order[k]], max[order[k]])] :
     order \in SetToSeqs({p \in ps : Cardinality(hands[p]) > max[p]})}
-----------------------------------------------------------------------------
(* The moves that a turn asks for *)

Moves == Top = Turn /\ moves < MaxMoves /\ moves' = moves + 1

\* setStateTimeline3 and the timelines up to the draw
Harmed(p, n) ==
  /\ Moves
  /\ stack' = <<Harm(p, n)>> \o stack
  /\ UNCHANGED <<pile, discard, zone, handMax, morale, lost, blown, over>>

\* Cards of one player move: setStateUseCard, and the setStateMove... calls of the
\* skills (a shield is lost, a seal is broken, covers are dropped).
Moved(from, to, cs) ==
  /\ Moves
  /\ cs # {} /\ cs \subseteq zone[from.area][from.player]
  /\ from.area = "effect" => Cardinality(cs) = 1
  /\ to.area = "effect" => /\ Cardinality(cs) = 1
                           /\ cs \subseteq Weaken => zone["effect"][to.player] \cap Weaken = {}
  /\ discard' = Received(to, cs)
  /\ stack' = MoveStates(from, to, cs) \o stack
  /\ UNCHANGED <<pile, zone, handMax, morale, lost, blown, over>>

\* Buying, synthesizing and skills draw without harm; a skill covers cards of the pile.
Drawn(at, n) ==
  /\ Moves
  /\ DrawTo(at, n, stack)
  /\ UNCHANGED <<zone, handMax, morale, blown, over>>

\* A skill makes p give n cards away.
Asked(p, n, to, giveUp) ==
  /\ Moves
  /\ stack' = <<RequestHand(p, n, to, giveUp, FALSE)>> \o stack
  /\ UNCHANGED <<pile, discard, zone, handMax, morale, lost, blown, over>>

\* StateActionPhase::unactional: as many new cards as the hand has, then the hand
\* goes; without a hand the game is lost.
Unactional(p) ==
  /\ Moves
  /\ IF Hand(p) # {}
     THEN /\ \/ \E d \in Draws(Cardinality(Hand(p))) :
                  /\ pile' = d.pile /\ lost' = lost
                  /\ discard' = d.discard \cup Hand(p)
                  /\ stack' = <<Change(Place("hand", p), "remove", Hand(p)),
                                Change(Place("hand", p), "add", d.cards)>> \o stack
             \/ /\ Draws(Cardinality(Hand(p))) = {}
                /\ pile' = discard /\ discard' = {} /\ lost' = lost \cup pile
                /\ stack' = stack
          /\ morale' = morale
     ELSE /\ morale' = [morale EXCEPT ![Color[p]] = 0]
          /\ stack' = <<GameOver(Color[p])>> \o stack
          /\ UNCHANGED <<pile, discard, lost>>
  /\ UNCHANGED <<zone, handMax, blown, over>>

\* setStateCheckBasicEffect: Weaken or WuXiShuFu, or both, ask, each Poison harms, and
\* each of their cards goes to the discards before any of that happens.
Poisons(p, order) ==
  [k \in 1 .. 2 * Len(order) |->
     IF k % 2 = 1 THEN Change(Place("effect", p), "remove", {order[(k + 1) \div 2]})
     ELSE Harm(p, 1)]

CheckBasicEffect(p) ==
  LET effect == zone["effect"][p]
      weaken == effect \cap Weaken
      asked(more) ==
        IF weaken # {}
        THEN <<Change(Place("effect", p), "remove", {CHOOSE c \in weaken : TRUE}),
               WeakenAsked(p, WeakenDraw + more)>>
        ELSE IF more > 0 THEN <<WeakenAsked(p, more)>> ELSE <<>>
  IN /\ Moves
     /\ discard' = discard \cup weaken \cup (effect \cap Poison)
     /\ \E order \in SetToSeqs(effect \cap Poison), more \in WuXiShuFu :
          stack' = Poisons(p, order) \o asked(more) \o stack
     /\ UNCHANGED <<pile, zone, handMax, morale, lost, blown, over>>

\* setStateChangeMaxHand for one player or for two in one handler
ChangeMaxHand(ps, hands, below) ==
  \E max \in [Players -> HandMaxes] :
    /\ \A p \in Players : p \in ps <=> max[p] # handMax[p]
    /\ handMax' = max
    /\ \E fs \in OverLoads(ps, hands, max) : stack' = fs \o below

ChangedMaxHand(ps) ==
  /\ Moves
  /\ ChangeMaxHand(ps, zone["hand"], stack)
  /\ UNCHANGED <<pile, discard, zone, morale, lost, blown, over>>

\* TianShi::FengZhiJieJing removes an effect of anybody by a state of its own.
FengZhiJieJing(p, q, c, e) ==
  /\ Moves
  /\ c \in Hand(p) /\ e \in zone["effect"][q]
  /\ discard' = Received(Discard, {c})
  /\ stack' = MoveStates(Place("hand", p), Discard, {c})
                \o <<Change(Place("effect", q), "remove", {e})>> \o stack
  /\ blown' = blown \cup {e}
  /\ UNCHANGED <<pile, zone, handMax, morale, lost, over>>
-----------------------------------------------------------------------------
(* The states on the stack *)

\* A hook of a role changes limits and the state on top is handled again.
HookChangesMax(f, hands) ==
  /\ moves < MaxMoves /\ moves' = moves + 1
  /\ \E ps \in SUBSET Players \ {{}} : ChangeMaxHand(ps, hands, <<f>> \o Tail(stack))

\* StateGameStart: one player a call
StartDeals ==
  /\ Top.kind = "start"
  /\ IF Top.left = {}
     THEN stack' = <<Turn>> /\ UNCHANGED <<pile, discard, lost>>
     ELSE \E p \in Top.left : DrawTo(Place("hand", p), Deal, <<Start(Top.left \ {p})>>)
  /\ UNCHANGED <<zone, handMax, morale, blown, over, moves>>

\* The last step of StateTimeline6, which pops itself first
HarmDraws ==
  /\ Top.kind = "harm"
  /\ DrawTo(Place("hand", Top.player), Top.point, Tail(stack))
  /\ UNCHANGED <<zone, handMax, morale, blown, over, moves>>

\* StateWeaken: the player draws, or skips the turn
WeakenAnswered ==
  /\ Top.kind = "weaken"
  /\ \/ DrawTo(Place("hand", Top.player), Top.point, Tail(stack))
     \/ stack' = Tail(stack) /\ UNCHANGED <<pile, discard, lost>>
  /\ UNCHANGED <<zone, handMax, morale, blown, over, moves>>

\* The zones once the state has run: what it has done it does not do again.
Applied(f) ==
  IF f.set THEN zone
  ELSE [zone EXCEPT ![f.at.area][f.at.player] = IF f.dir = "add" THEN @ \cup f.cards ELSE @ \ f.cards]

\* StateHandChange: then the roles, then the limit
HandChange ==
  LET f == Top
      p == f.at.player IN
  /\ f.kind = "change" /\ f.at.area = "hand"
  /\ zone' = Applied(f)
  /\ \/ /\ stack' = HandOverLoad(p, zone'["hand"][p], handMax[p]) \o Tail(stack)
        /\ UNCHANGED <<handMax, moves>>
     \/ HookChangesMax([f EXCEPT !.set = TRUE], zone'["hand"])
  /\ UNCHANGED <<pile, discard, morale, lost, blown, over>>

\* StateBasicEffectChange
BasicEffectChange ==
  /\ Top.kind = "change" /\ Top.at.area = "effect"
  /\ zone' = Applied(Top)
  /\ stack' = Tail(stack)
  /\ UNCHANGED <<pile, discard, handMax, morale, lost, blown, over, moves>>

\* StateCoverChange
CoverChange ==
  /\ Top.kind = "change" /\ Top.at.area = "cover"
  /\ zone' = Applied(Top)
  /\ stack' = CoverOverLoad(Top.at.player, zone'["cover"][Top.at.player]) \o Tail(stack)
  /\ UNCHANGED <<pile, discard, handMax, morale, lost, blown, over, moves>>

AtMost(n, S) == IF n > Cardinality(S) THEN Cardinality(S) ELSE n

\* mutant: an empty hand is asked for a card as well
HandRequested_OfNobody ==
  LET f == Top
      p == f.player
      n == AtMost(f.point, Hand(p))
      price == IF f.overLoad THEN <<LoseMorale(p, n)>> ELSE <<>> IN
  /\ f.kind = "requestHand"
  /\ \/ /\ n >= 1
        /\ \E cs \in kSubset(n, Hand(p)) :
             /\ discard' = Received(f.to, cs)
             /\ stack' = MoveStates(Place("hand", p), f.to, cs) \o price \o Tail(stack)
        /\ over' = IF f.overLoad THEN [over EXCEPT ![Color[p]] = @ + n] ELSE over
     \/ /\ f.giveUp
        /\ stack' = Tail(stack)
        /\ UNCHANGED <<discard, over>>
  /\ UNCHANGED <<pile, zone, handMax, morale, lost, blown, moves>>

\* StateRequestHand: the player chooses, gives up where that is allowed, or is timed
\* out and the first cards go; what overload costs comes after the move.
HandRequested ==
  LET f == Top
      p == f.player
      n == AtMost(f.point, Hand(p))
      price == IF f.overLoad THEN <<LoseMorale(p, n)>> ELSE <<>> IN
  /\ f.kind = "requestHand"
  /\ \/ /\ n >= 1
        /\ \E cs \in kSubset(n, Hand(p)) :
             /\ discard' = Received(f.to, cs)
             /\ stack' = MoveStates(Place("hand", p), f.to, cs) \o price \o Tail(stack)
        /\ over' = IF f.overLoad THEN [over EXCEPT ![Color[p]] = @ + n] ELSE over
     \/ /\ n < 1 \/ f.giveUp
        /\ stack' = Tail(stack)
        /\ UNCHANGED <<discard, over>>
  /\ UNCHANGED <<pile, zone, handMax, morale, lost, blown, moves>>

\* StateRequestCover, as overload asks for it
CoverRequested ==
  LET f == Top
      p == f.player
      n == AtMost(f.point, zone["cover"][p]) IN
  /\ f.kind = "requestCover"
  /\ \E cs \in kSubset(n, zone["cover"][p]) :
       /\ discard' = Received(Discard, cs)
       /\ stack' = MoveStates(Place("cover", p), Discard, cs) \o Tail(stack)
  /\ UNCHANGED <<pile, zone, handMax, morale, lost, blown, over, moves>>

\* mutant: the game goes on at zero
MoraleFalls_PastZero ==
  LET t == Color[Top.player]
      left == morale[t] - Top.point IN
  /\ Top.kind = "morale"
  /\ \/ /\ morale' = [morale EXCEPT ![t] = IF left < 0 THEN 0 ELSE left]
        /\ stack' = (IF left < 0 THEN <<GameOver(t)>> ELSE <<>>) \o Tail(stack)
        /\ UNCHANGED <<handMax, moves>>
     \/ /\ HookChangesMax(Top, zone["hand"])
        /\ morale' = morale
  /\ UNCHANGED <<pile, discard, zone, lost, blown, over>>

\* StateBeforeLoseMorale to StateTrueLoseMorale, where the game may be lost; a hook
\* may change limits before the morale falls
MoraleFalls ==
  LET t == Color[Top.player]
      left == morale[t] - Top.point IN
  /\ Top.kind = "morale"
  /\ \/ /\ morale' = [morale EXCEPT ![t] = IF left < 0 THEN 0 ELSE left]
        /\ stack' = (IF left <= 0 THEN <<GameOver(t)>> ELSE <<>>) \o Tail(stack)
        /\ UNCHANGED <<handMax, moves>>
     \/ /\ HookChangesMax(Top, zone["hand"])
        /\ morale' = morale
  /\ UNCHANGED <<pile, discard, zone, lost, blown, over>>

Handle ==
  \/ StartDeals \/ HarmDraws \/ WeakenAnswered
  \/ HandChange \/ BasicEffectChange \/ CoverChange
  \/ HandRequested \/ CoverRequested \/ MoraleFalls

TurnMoves ==
  \E p \in Players :
    \/ \E n \in 1 .. MaxDraw :
         \/ Harmed(p, n)
         \/ \E a \in {"hand", "cover"} : Drawn(Place(a, p), n)
         \/ \E to \in {Discard, Place("cover", p)} \cup {Place("hand", q) : q \in Players \ {p}},
              giveUp \in BOOLEAN : Asked(p, n, to, giveUp)
    \/ \E cs \in SUBSET CardIds :
         \/ \E a \in Areas : Moved(Place(a, p), Discard, cs)
         \/ \E q \in Players : Moved(Place("hand", p), Place("effect", q), cs)
         \/ \E q \in Players \ {p} : Moved(Place("hand", p), Place("hand", q), cs)
         \/ Moved(Place("hand", p), Place("cover", p), cs)
         \/ \E q \in Players : Moved(Place("effect", p), Place("hand", q), cs)
    \/ Unactional(p)
    \/ CheckBasicEffect(p)
    \/ \E q \in Players, c, e \in CardIds : FengZhiJieJing(p, q, c, e)

Next == Handle \/ TurnMoves \/ \E ps \in SUBSET Players \ {{}} : ChangedMaxHand(ps)

Spec == Init /\ [][Next]_vars

\* GameRun keeps calling the handler of the state on top.
FairSpec == Spec /\ WF_vars(Handle)
-----------------------------------------------------------------------------
(* Properties *)

\* How often card c is counted: where it lies, where a state will put it, less where
\* a state will take it from.
Pending(dir, c) ==
  Cardinality({i \in DOMAIN stack : /\ stack[i].kind = "change"
                                    /\ stack[i].dir = dir /\ ~stack[i].set
                                    /\ c \in stack[i].cards})
Lies(c) ==
  Cardinality({S \in {"pile", "discard", "lost"} : c \in [pile |-> pile, discard |-> discard, lost |-> lost][S]})
    + Cardinality({x \in Areas \X Players : c \in zone[x[1]][x[2]]})
    + Pending("add", c) - Pending("remove", c)

\* No card is duplicated and none disappears, although a move is made of two or
\* three states and a reshuffle may come between them; but for FengZhiJieJing.
CardsAreConserved ==
  \A c \in CardIds : Lies(c) = IF c \in blown THEN 0 ELSE 1

\* Whatever a skill does to a card, the card stays in the game.
CardsStayInGame == \A c \in CardIds : Lies(c) = 1

\* A hand over its limit is always going to be dealt with, with enough cards asked
\* for, however the limit and the hand change while states are on the stack.
HandLimitKept ==
  \A p \in Players : Cardinality(Hand(p)) > handMax[p] =>
    \E i \in DOMAIN stack :
      \/ stack[i].kind = "change" /\ stack[i].at = Place("hand", p)
      \/ /\ stack[i].kind = "requestHand" /\ stack[i].overLoad /\ stack[i].player = p
         /\ stack[i].point >= Cardinality(Hand(p)) - handMax[p]

\* When the turn goes on, each team has lost one morale for every card it discarded
\* because of overload, neither more nor less, and has some left.
MoralePaysForOverload ==
  Top = Turn => \A t \in Colors : morale[t] = InitMorale - over[t] /\ morale[t] > 0

\* What a move sets off comes to an end: the turn goes on or the game is over.
MovesSettle == []<>(Top = Turn \/ Top.kind = "gameover")
=============================================================================
