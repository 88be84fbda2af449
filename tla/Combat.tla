------------------------------- MODULE Combat -------------------------------
(***************************************************************************)
(* The states between an action and its end: attack and counterattack,     *)
(* missile, the timelines of a harm, the loss of morale, the end of the    *)
(* game.  A step is one call of handle of the state on top; it sees what   *)
(* the state keeps and what the players answer, or that nobody answers.    *)
(* Which cards are in the hands is in Cards: here a player may have any    *)
(* card, a draw may overload the hand, and the roles' hooks may ask for    *)
(* more harm.  Turn adds the states of the turn, at the bottom of the same *)
(* stack.                                                                  *)
(***************************************************************************)
EXTENDS Integers, FiniteSetsExt, SequencesExt

CONSTANTS
  NumPlayers,  \* m_maxPlayers; the players are numbered by seat
  TeamOf,      \* the colour of each player, RED or BLUE
  EnergyMax,   \* 3, the energyMax of a player
  MaxHooks,    \* bound: how often the hooks of the roles interfere
  MaxCounter,  \* bound: how many counterattacks follow one attack
  MaxRelays    \* bound: how often one missile is passed on

RED  == 1
BLUE == 0
Colors  == {RED, BLUE}
Players == 0 .. NumPlayers - 1

ASSUME PlayersAssumption ==
  /\ NumPlayers \in {4, 6, 8}
  /\ TeamOf \in [Players -> Colors]
  /\ \A c \in Colors : 2 * Cardinality({p \in Players : TeamOf[p] = c}) = NumPlayers
ASSUME BoundsAssumption == EnergyMax \in Nat /\ MaxHooks \in Nat
                         /\ MaxCounter \in Nat /\ MaxRelays \in Nat

VARIABLES
  stack,      \* m_states, top first
  area,       \* m_teamArea: gems, crystals, cups and morale of each team
  cross,      \* crossNum of each player
  shield,     \* the players with a shield or TIAN_SHI_ZHI_QIANG
  attacks,    \* history of the action: what became of each attack in it
  relays,     \* history of the missile: who had it, first to last
  hooks       \* how often hooks interfered

combat == <<area, cross, shield, attacks, relays, hooks>>

\* The ring of seats
\* mutant: the seat before
Post_Pre(p)  == (p + NumPlayers - 1) % NumPlayers
Post(p)      == (p + 1) % NumPlayers

Other(c)     == 1 - c
Opponents(p) == {q \in Players : TeamOf[q] # TeamOf[p]}

Top  == Head(stack)
On(k) == stack # <<>> /\ Top.kind = k

\* The state on top gives way to others, the first of them on top.
Becomes(frames) == stack' = frames \o Tail(stack)
Pushes(frames)  == stack' = frames \o stack
-----------------------------------------------------------------------------
(* The states *)

Frame(k)          == [kind |-> k]
\* A card goes to the discards, from a hand or from the basic effects of a player
UseCard           == [kind |-> "HandChange", dst |-> 0, over |-> 0]
\* A draw that may overload the hand by up to n cards
Draw(p, n)        == [kind |-> "HandChange", dst |-> p, over |-> n]
\* A shield is put before a player, or taken away
Shielded(p, to)   == [kind |-> "BasicEffectChange", dst |-> p, to |-> to]
LoseShield(p)     == Shielded(p, FALSE)
Harm(k, p, n, t)  == [kind |-> k, dst |-> p, point |-> n, type |-> t]  \* attack or magic
Morale(k, p, n)   == [kind |-> k, dst |-> p, point |-> n]
GameOver(c)       == [kind |-> "GameOver", color |-> c]

Attack(k, n, from, to, active, rate, check) ==
  [kind |-> k, n |-> n, src |-> from, dst |-> to, active |-> active,
   rate |-> rate, check |-> check]
Hit(n, p)         == [kind |-> "Timeline2Hit", n |-> n, dst |-> p]
Miss(n)           == [kind |-> "Timeline2Miss", n |-> n]

MoraleStates == <<"BeforeLoseMorale", "XinYue", "LoseMorale", "FixMorale", "TrueLoseMorale">>
HarmStates   == {"Timeline3", "Timeline4", "AskForCross", "Timeline5", "Timeline6"}

\* The states that only call hooks and go
HookOnly == {"Timeline2Miss", "HarmEnd", "Timeline6Drawn", "RequestHand",
             "BeforeAttack", "BeforeMagic", "BeforeSpecial", "BetweenWeakAndAction",
             "MagicSkill", "AttackSkill", "AttackSkillDone", "SpecialSkill"}

\* What the states keep
PlainFrames   == [kind : HookOnly \ {"Timeline2Miss"}]
CardFrames    == [kind : {"HandChange"}, dst : Players, over : Nat]
ShieldFrames  == [kind : {"BasicEffectChange"}, dst : Players, to : BOOLEAN]
AttackFrames  == [kind : {"Timeline1", "Attacked"}, n : Nat, src : Players, dst : Players,
                  active : BOOLEAN, rate : {"normal", "noreattack", "nomiss"}, check : BOOLEAN]
HitFrames     == [kind : {"Timeline2Hit"}, n : Nat, dst : Players]
MissFrames    == [kind : {"Timeline2Miss"}, n : Nat]
MissileFrames == [kind : {"Missiled"}, src : Players, dst : Players, point : Nat,
                  has : SUBSET Players, clockwise : BOOLEAN]
HarmFrames    == [kind : HarmStates, dst : Players, point : Nat, type : {"attack", "magic"}]
MoraleFrames  == [kind : Range(MoraleStates), dst : Players, point : Nat]
OverFrames    == [kind : {"GameOver"}, color : Colors]

CombatFrames ==
  PlainFrames \cup CardFrames \cup ShieldFrames \cup AttackFrames \cup HitFrames \cup MissFrames
    \cup MissileFrames \cup HarmFrames \cup MoraleFrames \cup OverFrames
-----------------------------------------------------------------------------
(* Team area *)

AddGem(a, k)     == IF a.gem + k + a.crystal <= 5 THEN [a EXCEPT !.gem = @ + k] ELSE a

\* setGem and setCrystal leave things as they are when there would be more than
\* five gems and crystals.
AddCrystal(a, k) == IF a.crystal + k + a.gem <= 5 THEN [a EXCEPT !.crystal = @ + k] ELSE a

SubMorale(a, k)  == [a EXCEPT !.morale = Max({0, @ - k})]
-----------------------------------------------------------------------------
(* Attack *)

NumAttacks == Len(attacks)

\* setStateTimeline1: an attack begins; with a dark card it allows no counterattack.
\* It becomes number n of the action.
NewAttack(n, from, to, active) ==
  {Attack("Timeline1", n, from, to, active, r, TRUE) : r \in {"normal", "noreattack"}}

\* setStateTimeline2Hit: the side of the attacker earns a gem, or a crystal for a
\* counterattack.
Hits(a) ==
  LET c == TeamOf[a.src] IN
  /\ Becomes(<<Hit(a.n, a.dst)>>)
  /\ area' = [area EXCEPT ![c] = IF a.active THEN AddGem(@, 1) ELSE AddCrystal(@, 1)]
  /\ attacks' = [attacks EXCEPT ![a.n] = "hit"]
  /\ UNCHANGED shield

Timeline1 ==
  /\ On("Timeline1")
  /\ Becomes(<<[Top EXCEPT !.kind = "Attacked"]>>)
  /\ UNCHANGED combat

\* StateAttacked does not ask when the attack cannot miss.
AttackedNoMiss ==
  /\ On("Attacked") /\ Top.rate = "nomiss"
  /\ Hits(Top)
  /\ UNCHANGED <<cross, relays, hooks>>

Asked == On("Attacked") /\ Top.rate # "nomiss"

\* mutant: the counterattack is settled before the attack it answers
Countered_First(a, b) == <<UseCard, b, Miss(a.n)>>

\* setStateReattack: the first attack misses before the second one begins.
Countered(a, b) == <<UseCard, Miss(a.n), b>>

\* RA_ATTACK: a counterattack on an opponent other than the attacker
Reattack ==
  /\ Asked /\ Top.rate = "normal" /\ NumAttacks <= MaxCounter
  /\ \E to \in Opponents(Top.dst) \ {Top.src} :
     \E b \in NewAttack(NumAttacks + 1, Top.dst, to, FALSE) :
       Becomes(Countered(Top, b))
  /\ attacks' = Append([attacks EXCEPT ![Top.n] = "miss"], "open")
  /\ UNCHANGED <<area, cross, shield, relays, hooks>>

\* RA_BLOCK: holy light
Block ==
  /\ Asked
  /\ Becomes(<<UseCard, Miss(Top.n)>>)
  /\ attacks' = [attacks EXCEPT ![Top.n] = "miss"]
  /\ UNCHANGED <<area, cross, shield, relays, hooks>>

\* setStateAttackGiveUp, when the player gives up or does not answer: a shield is
\* used up if the attack looks for one.
GiveUp ==
  /\ Asked
  /\ \/ /\ Top.check /\ Top.dst \in shield
        /\ Becomes(<<LoseShield(Top.dst), Miss(Top.n)>>)
        /\ attacks' = [attacks EXCEPT ![Top.n] = "miss"]
        /\ UNCHANGED <<area, shield>>
     \/ /\ ~(Top.check /\ Top.dst \in shield)
        /\ Hits(Top)
  /\ UNCHANGED <<cross, relays, hooks>>

\* StateTimeline2Hit: two points of harm
Timeline2Hit ==
  /\ On("Timeline2Hit")
  /\ Becomes(<<Harm("Timeline3", Top.dst, 2, "attack")>>)
  /\ UNCHANGED combat
-----------------------------------------------------------------------------
(* Missile *)

\* Players at a distance in the direction in which the missile flies
At(p, k, clockwise) == (IF clockwise THEN p - k + NumPlayers ELSE p + k) % NumPlayers

Nearest(p, clockwise, Q) ==
  LET k == Min({i \in 1 .. NumPlayers - 1 : At(p, i, clockwise) \in Q}) IN At(p, k, clockwise)

\* getNextTargetID: the nearest opponent who has not passed it on, and what is left
\* of the marks: when all have, they are forgotten, those of both sides.
NextTarget(p, clockwise, has) ==
  IF Opponents(p) \ has # {}
  THEN [to |-> Nearest(p, clockwise, Opponents(p) \ has), has |-> has]
  ELSE [to |-> Nearest(p, clockwise, Opponents(p)), has |-> {}]

\* StateMissiled::create: the direction follows from whom the player chose.
Missile(from, to) ==
  [kind |-> "Missiled", src |-> from, dst |-> to, point |-> 2, has |-> {from},
   clockwise |-> to # NextTarget(from, FALSE, {from}).to]

\* mutant: the marks are not looked at
RelayTo_Nearest(m) == [to |-> Nearest(m.dst, m.clockwise, Opponents(m.dst)), has |-> m.has]

RelayTo(m) == NextTarget(m.dst, m.clockwise, m.has)

\* RA_ATTACK: passed on, one point more
Relay ==
  LET next == RelayTo(Top) IN
  /\ On("Missiled") /\ Len(relays) - 2 < MaxRelays
  /\ stack' = <<UseCard,
                [Top EXCEPT !.src = Top.dst, !.dst = next.to, !.point = @ + 1,
                            !.has = next.has \cup {Top.dst}]>> \o Tail(stack)
  /\ relays' = Append(relays, next.to)
  /\ UNCHANGED <<area, cross, shield, attacks, hooks>>

\* RA_BLOCK
MissileBlock ==
  /\ On("Missiled")
  /\ Becomes(<<UseCard>>)
  /\ UNCHANGED combat

\* setStateMissileGiveUp, when the player gives up or does not answer
MissileGiveUp ==
  /\ On("Missiled")
  /\ Becomes(IF Top.dst \in shield THEN <<LoseShield(Top.dst)>>
             ELSE <<Harm("Timeline3", Top.dst, Top.point, "magic")>>)
  /\ UNCHANGED combat
-----------------------------------------------------------------------------
(* Harm *)

Timeline3 ==
  /\ On("Timeline3")
  /\ Becomes(<<[Top EXCEPT !.kind = "Timeline4"], Frame("HarmEnd")>>)
  /\ UNCHANGED combat

Timeline4 ==
  /\ On("Timeline4")
  /\ Becomes(<<[Top EXCEPT !.kind = IF cross[Top.dst] > 0 THEN "AskForCross" ELSE "Timeline5"]>>)
  /\ UNCHANGED combat

\* mutant: without an answer nothing happens
AskForCross_Answered(used) ==
  /\ On("AskForCross") /\ used \in 1 .. Min({cross[Top.dst], Top.point})
  /\ cross' = [cross EXCEPT ![Top.dst] = @ - used]
  /\ Becomes(<<[Top EXCEPT !.kind = "Timeline5", !.point = @ - used]>>)
  /\ UNCHANGED <<area, shield, attacks, relays, hooks>>

\* StateAskForCross: none when the player does not answer
AskForCross(used) ==
  /\ On("AskForCross") /\ used \in 0 .. Min({cross[Top.dst], Top.point})
  /\ cross' = [cross EXCEPT ![Top.dst] = @ - used]
  /\ Becomes(<<[Top EXCEPT !.kind = "Timeline5", !.point = @ - used]>>)
  /\ UNCHANGED <<area, shield, attacks, relays, hooks>>

Timeline5 ==
  /\ On("Timeline5")
  /\ Becomes(IF Top.point > 0 THEN <<[Top EXCEPT !.kind = "Timeline6"]>> ELSE <<>>)
  /\ UNCHANGED combat

Timeline6 ==
  /\ On("Timeline6")
  /\ Becomes(IF Top.point > 0 THEN <<Draw(Top.dst, Top.point), Frame("Timeline6Drawn")>> ELSE <<>>)
  /\ UNCHANGED combat

\* StateHandChange and the overload that may follow: so many cards, so much morale
HandChange ==
  /\ On("HandChange")
  /\ \E k \in 0 .. Top.over :
       Becomes(IF k = 0 THEN <<>> ELSE <<Morale("BeforeLoseMorale", Top.dst, k)>>)
  /\ UNCHANGED combat

BasicEffectChange ==
  /\ On("BasicEffectChange")
  /\ Becomes(<<>>)
  /\ shield' = IF Top.to THEN shield \cup {Top.dst} ELSE shield \ {Top.dst}
  /\ UNCHANGED <<area, cross, attacks, relays, hooks>>
-----------------------------------------------------------------------------
(* Morale and the end *)

NextMoraleState(k) == MoraleStates[1 + CHOOSE i \in 1 .. 4 : MoraleStates[i] = k]

\* The four states before the morale is lost
MoraleStep ==
  /\ \E i \in 1 .. 4 : On(MoraleStates[i])
  /\ Becomes(<<[Top EXCEPT !.kind = NextMoraleState(@)]>>)
  /\ UNCHANGED combat

\* mutant: the game ends below zero
NoMorale_Below(a, k) == a.morale - k < 0

NoMorale(a, k) == SubMorale(a, k).morale <= 0

TrueLoseMorale ==
  LET c == TeamOf[Top.dst] IN
  /\ On("TrueLoseMorale")
  /\ area' = [area EXCEPT ![c] = SubMorale(@, Top.point)]
  /\ Becomes(IF NoMorale(area[c], Top.point) THEN <<GameOver(Other(c))>> ELSE <<>>)
  /\ UNCHANGED <<cross, shield, attacks, relays, hooks>>

\* The states that only call hooks and go
Goes ==
  /\ \E k \in HookOnly : On(k)
  /\ Becomes(<<>>)
  /\ UNCHANGED combat
-----------------------------------------------------------------------------
(* What the hooks of the roles do *)

MayHook == stack # <<>> /\ hooks < MaxHooks /\ hooks' = hooks + 1

\* A hook asks for a harm to a player; its state goes on when that is over.
HookHarm(p) ==
  /\ MayHook
  /\ Top.kind \in HookOnly \cup {"Timeline2Hit", "Timeline3", "HandChange"}
  /\ Pushes(<<Harm("Timeline3", p, 1, "magic")>>)
  /\ UNCHANGED <<area, cross, shield, attacks, relays>>

\* p_timeline_1 makes that an attack cannot miss or looks for no shield.
HookAttack ==
  /\ MayHook /\ On("Timeline1")
  /\ \E f \in {[Top EXCEPT !.rate = "nomiss"],
                 [Top EXCEPT !.rate = "noreattack", !.check = FALSE]} : Becomes(<<f>>)
  /\ UNCHANGED <<area, cross, shield, attacks, relays>>

\* p_timeline_3 to p_timeline_6 change the points of the harm, and the hooks of the
\* states that lose morale how much is lost.
HookPoint ==
  /\ MayHook
  /\ \/ /\ Top.kind \in {"Timeline3", "Timeline5", "Timeline6"}
        /\ \E n \in {0, Top.point + 1} : Becomes(<<[Top EXCEPT !.point = n]>>)
     \/ /\ \E i \in 1 .. 4 : On(MoraleStates[i])
        /\ \E n \in 0 .. Top.point - 1 : Becomes(<<[Top EXCEPT !.point = n]>>)
  /\ UNCHANGED <<area, cross, shield, attacks, relays>>

\* ShouLing::p_timeline_4 takes the state off in the hook: cards, and morale if
\* there are too few, are lost instead of the harm; HarmEnd stays.
NiFanZhan ==
  /\ MayHook /\ On("Timeline4") /\ Top.type = "attack"
  /\ \/ Becomes(<<Frame("RequestHand")>>)
     \/ Becomes(<<Frame("RequestHand"), Morale("BeforeLoseMorale", Top.dst, 1)>>)
  /\ UNCHANGED <<area, cross, shield, attacks, relays>>

\* An attack skill attacks, once: its step is STEP_DONE after that.
HookNewAttack(from, to) ==
  /\ MayHook /\ On("AttackSkill") /\ to \in Opponents(from)
  /\ \E b \in NewAttack(NumAttacks + 1, from, to, TRUE) : Becomes(<<b, Frame("AttackSkillDone")>>)
  /\ attacks' = Append(attacks, "open")
  /\ UNCHANGED <<area, cross, shield, relays>>

\* What goes on although nobody answers
Resolves ==
  \/ Timeline1 \/ AttackedNoMiss \/ GiveUp \/ Timeline2Hit
  \/ MissileGiveUp
  \/ Timeline3 \/ Timeline4 \/ AskForCross(0) \/ Timeline5 \/ Timeline6
  \/ HandChange \/ BasicEffectChange \/ MoraleStep \/ TrueLoseMorale \/ Goes

Answers ==
  \/ Reattack \/ Block \/ Relay \/ MissileBlock
  \/ \E n \in 1 .. 4 : AskForCross(n)

RoleHooks(p) == HookHarm(p) \/ HookAttack \/ HookPoint \/ NiFanZhan
=============================================================================
