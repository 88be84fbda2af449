-------------------------------- MODULE Turn --------------------------------
(***************************************************************************)
(* The turns of a game.  The state at the bottom of the stack says how far *)
(* the turn of the current player is; Combat has what is above it.  An     *)
(* action leaves the state that comes after it at the bottom and pushes    *)
(* its own states on top.  Answers that the validation (v_...) refuses are *)
(* left out: the state stays and asks again, but every one of them is an   *)
(* error, and after the fourth in succession the state is popped.  The     *)
(* game may be looked at from any turn on, so the team areas at the        *)
(* beginning are given.                                                    *)
(***************************************************************************)
EXTENDS Combat

CONSTANTS
  InitAreas,   \* team areas at the beginning of the first turn looked at
  InitCross, InitShield,  \* crosses of the players and who has a shield then
  FirstPlayers,           \* and whose turn it may be
  MaxTurns,    \* bound: turns looked at
  MaxIdle      \* bound: how often a player declares to be unable to act before an action

Area == [gem : 0 .. 5, crystal : 0 .. 5, cup : 0 .. 5, morale : Nat]

ASSUME TurnAssumption ==
  /\ InitAreas \subseteq [Colors -> Area]
  /\ \A a \in InitAreas : \A c \in Colors :
       a[c].gem + a[c].crystal <= 5 /\ a[c].cup < 5 /\ a[c].morale > 0
  /\ InitCross \in [Players -> Nat] /\ InitShield \subseteq Players
  /\ FirstPlayers \subseteq Players
  /\ MaxTurns \in Nat \ {0} /\ MaxIdle \in Nat

VARIABLES
  current,     \* m_currentPlayerID
  quota,       \* additionalActions of the current player
  energy,      \* gems and crystals of each player
  turns, idle

turn == <<current, quota, energy, turns, idle>>
vars == <<stack, combat, turn>>

ActionPhase(may) == [kind |-> "ActionPhase", giveUp |-> may]

\* The states at the bottom of the stack
TurnStates ==
  {"BeforeTurnBegin", "TurnBegin", "TurnBeginShiRen", "Weaken", "BeforeAction", "Boot",
   "ActionPhase", "AfterAttack", "AfterMagic", "AfterSpecial", "AdditionalAction",
   "TurnEnd", "AfterTurnEnd"}

PhaseFrames  == [kind : TurnStates \ {"ActionPhase"}]
ActionFrames == [kind : {"ActionPhase"}, giveUp : BOOLEAN]

Frames == CombatFrames \cup PhaseFrames \cup ActionFrames

TypeOK ==
  /\ stack \in Seq(Frames)
  /\ area \in [Colors -> Area] /\ cross \in [Players -> Nat] /\ shield \subseteq Players
  /\ attacks \in Seq({"open", "hit", "miss"}) /\ relays \in Seq(Players)
  /\ current \in Players /\ quota \in 0 .. MaxHooks
  /\ energy \in [Players -> 0 .. EnergyMax]
  /\ hooks \in 0 .. MaxHooks /\ turns \in 1 .. MaxTurns /\ idle \in 0 .. MaxIdle

Init ==
  /\ stack = <<Frame("BeforeTurnBegin")>>
  /\ area \in InitAreas /\ cross = InitCross /\ shield = InitShield
  /\ attacks = <<>> /\ relays = <<>> /\ hooks = 0
  /\ current \in FirstPlayers /\ quota = 0
  /\ energy = [p \in Players |-> 0]
  /\ turns = 1 /\ idle = 0
-----------------------------------------------------------------------------
(* The turn begins *)

After(k) ==
  CASE k = "BeforeTurnBegin" -> <<Frame("TurnBegin")>>
    [] k = "TurnBegin"       -> <<Frame("TurnBeginShiRen")>>
    [] k = "BeforeAction"    -> <<Frame("Boot")>>
    [] k = "Boot"            -> <<ActionPhase(FALSE)>>
    [] k = "TurnEnd"         -> <<Frame("AfterTurnEnd")>>

\* The states that call hooks and give way to the next one
Passes ==
  /\ \E k \in {"BeforeTurnBegin", "TurnBegin", "BeforeAction", "Boot", "TurnEnd"} : On(k)
  /\ Becomes(After(Top.kind))
  /\ UNCHANGED <<combat, turn>>

Between == Frame("BetweenWeakAndAction")

\* setStateCheckBasicEffect: poisoned or not, above weakened or not
CheckBasicEffect ==
  LET poison == <<UseCard, Harm("Timeline3", current, 1, "magic")>> IN
  /\ On("TurnBeginShiRen")
  /\ \E above \in {<<>>, poison}, below \in {<<UseCard, Frame("Weaken")>>,
                                              <<Between, Frame("BeforeAction")>>} :
       Becomes(above \o below)
  /\ UNCHANGED <<combat, turn>>

\* StateWeaken: three cards (more under WuXiShuFu), or no action; no action when there is no answer
Weakened ==
  /\ On("Weaken")
  /\ Becomes(<<Draw(current, 3), Between, Frame("BeforeAction")>>)
  /\ UNCHANGED <<combat, turn>>

WeakenSkips ==
  /\ On("Weaken")
  /\ Becomes(<<Between, Frame("TurnEnd")>>)
  /\ UNCHANGED <<combat, turn>>
-----------------------------------------------------------------------------
(* The action *)

Color == TeamOf[current]

\* A new action: the histories begin again.
Acts(attacks1, relays1) ==
  /\ attacks' = attacks1 /\ relays' = relays1 /\ idle' = 0
  /\ UNCHANGED <<cross, hooks, current, quota, turns>>

\* basicAttack, setStateAttackAction
BasicAttack(to) ==
  /\ On("ActionPhase") /\ to \in Opponents(current)
  /\ \E b \in NewAttack(1, current, to, TRUE) :
       Becomes(<<UseCard, Frame("BeforeAttack"), b, Frame("AfterAttack")>>)
  /\ Acts(<<"open">>, <<>>)
  /\ UNCHANGED <<area, shield, energy>>

\* basicMagic: poison and weaken are in Cards.  The shield comes with its state.
Shield(to) ==
  /\ On("ActionPhase") /\ to \notin shield
  /\ Becomes(<<Frame("BeforeMagic"), UseCard, Shielded(to, TRUE), Frame("AfterMagic")>>)
  /\ Acts(<<>>, <<>>)
  /\ UNCHANGED <<area, shield, energy>>

\* v_missile asks nothing of the target, which may be of the own team.
BasicMissile(to) ==
  /\ On("ActionPhase")
  /\ Becomes(<<Frame("BeforeMagic"), UseCard, Missile(current, to), Frame("AfterMagic")>>)
  /\ Acts(<<>>, <<current, to>>)
  /\ UNCHANGED <<area, shield, energy>>

AfterSpecial == <<Frame("BeforeSpecial"), Frame("AfterSpecial")>>

\* basicSpecial.  v_buy and v_synthesize see to it that the three cards find room.
Buy ==
  /\ On("ActionPhase")
  /\ \E g, k \in {0, 1} : area' = [area EXCEPT ![Color] = AddCrystal(AddGem(@, g), k)]
  /\ Becomes(<<Frame("BeforeSpecial"), Draw(current, 0), Frame("AfterSpecial")>>)
  /\ Acts(<<>>, <<>>)
  /\ UNCHANGED <<shield, energy>>

Won(a) == a.cup = 5

\* The other side loses one morale, and the game is over at the fifth cup.
Synthesize ==
  LET victim == Nearest(current, FALSE, Opponents(current)) IN
  /\ On("ActionPhase")
  /\ \E g \in 0 .. 3 :
       /\ g <= area[Color].gem /\ 3 - g <= area[Color].crystal
       /\ area' = [area EXCEPT ![Color].gem = @ - g, ![Color].crystal = @ - (3 - g),
                               ![Color].cup = @ + 1]
  /\ Becomes(<<Frame("BeforeSpecial"), Draw(current, 0), Morale("BeforeLoseMorale", victim, 1)>>
             \o (IF Won(area'[Color]) THEN <<GameOver(Color)>> ELSE <<>>)
             \o <<Frame("AfterSpecial")>>)
  /\ Acts(<<>>, <<>>)
  /\ UNCHANGED <<shield, energy>>

\* The player keeps what fits, the team loses all that was asked for.
Extract ==
  /\ On("ActionPhase") /\ energy[current] < EnergyMax
  /\ \E g \in 0 .. area[Color].gem, k \in 0 .. area[Color].crystal :
       /\ area' = [area EXCEPT ![Color].gem = @ - g, ![Color].crystal = @ - k]
       /\ energy' = [energy EXCEPT ![current] = Min({@ + g + k, EnergyMax})]
  /\ Becomes(AfterSpecial)
  /\ Acts(<<>>, <<>>)
  /\ UNCHANGED shield

\* magicSkill, attackSkill and specialSkill: what the skill does is left to hooks.
SkillStates ==
  {<<Frame("BeforeAttack"), Frame("AttackSkill"), Frame("AfterAttack")>>,
   <<Frame("BeforeMagic"), Frame("MagicSkill"), Frame("AfterMagic")>>,
   <<Frame("BeforeSpecial"), Frame("SpecialSkill"), Frame("AfterSpecial")>>}

Skill ==
  /\ On("ActionPhase")
  /\ \E frames \in SkillStates : Becomes(frames)
  /\ Acts(<<>>, <<>>)
  /\ UNCHANGED <<area, shield, energy>>

\* unactional: the state stays and asks again after the hand was exchanged; with no
\* card in the hand the game is lost.
Unactional ==
  /\ On("ActionPhase") /\ idle < MaxIdle /\ idle' = idle + 1
  /\ Pushes(<<UseCard, Draw(current, 0)>>)
  /\ UNCHANGED <<combat, current, quota, energy, turns>>

NoCards ==
  /\ On("ActionPhase")
  /\ area' = [area EXCEPT ![Color].morale = 0]
  /\ Becomes(<<GameOver(Other(Color))>>)
  /\ UNCHANGED <<cross, shield, attacks, relays, hooks, turn>>

\* mutant: the turn ends in any case
CheckTurnEnd_NoElse ==
  (IF quota > 0 THEN <<Frame("AdditionalAction")>> ELSE <<>>) \o <<Frame("TurnEnd")>>

\* setStateCheckTurnEnd
CheckTurnEnd == IF quota > 0 THEN <<Frame("AdditionalAction")>> ELSE <<Frame("TurnEnd")>>

\* ACTION_NONE, and no answer where one may give up; else the question is repeated.
NoAction ==
  /\ On("ActionPhase") /\ Top.giveUp
  /\ Becomes(CheckTurnEnd)
  /\ UNCHANGED <<combat, turn>>

\* The action is over and its histories are forgotten.
AfterAction ==
  /\ \E k \in {"AfterAttack", "AfterMagic", "AfterSpecial"} : On(k)
  /\ Becomes(CheckTurnEnd)
  /\ attacks' = <<>> /\ relays' = <<>>
  /\ UNCHANGED <<area, cross, shield, hooks, turn>>

\* p_additional_action
AdditionalAction ==
  /\ On("AdditionalAction") /\ quota > 0
  /\ quota' = quota - 1
  /\ Becomes(<<ActionPhase(TRUE)>>)
  /\ UNCHANGED <<combat, current, energy, turns, idle>>

\* ACTION_NONE, or no answer
NoMoreActions ==
  /\ On("AdditionalAction")
  /\ Becomes(<<Frame("TurnEnd")>>)
  /\ UNCHANGED <<combat, turn>>
-----------------------------------------------------------------------------
(* The turn ends *)

\* StateAfterTurnEnd, setStateCurrentPlayer: additional actions that were not taken
\* are forgotten when the player's next turn begins.
AfterTurnEnd ==
  /\ On("AfterTurnEnd") /\ turns < MaxTurns
  /\ current' = Post(current) /\ quota' = 0
  /\ Becomes(<<Frame("BeforeTurnBegin")>>)
  /\ turns' = turns + 1
  /\ UNCHANGED <<combat, energy, idle>>

\* Hooks of the phases of the turn: additional actions, and the extra turn of
\* YueNv::p_after_turn_end, which pops the state by itself.
HookAction ==
  /\ MayHook
  /\ \E k \in {"AfterAttack", "AfterMagic", "AfterSpecial", "TurnBegin", "Boot"} : On(k)
  /\ quota' = quota + 1
  /\ UNCHANGED <<stack, area, cross, shield, attacks, relays, current, energy, turns, idle>>

HookTurn ==
  /\ MayHook /\ On("AfterTurnEnd") /\ turns < MaxTurns
  /\ Becomes(<<Frame("BeforeTurnBegin")>>)
  /\ quota' = 0 /\ turns' = turns + 1
  /\ UNCHANGED <<area, cross, shield, attacks, relays, current, energy, idle>>

\* A hook of a phase of the turn asks for a harm.
HookTurnHarm(p) ==
  /\ MayHook
  /\ \E k \in {"BeforeTurnBegin", "TurnBegin", "Boot", "AfterAttack", "TurnEnd"} : On(k)
  /\ Pushes(<<Harm("Timeline3", p, 1, "magic")>>)
  /\ UNCHANGED <<area, cross, shield, attacks, relays, turn>>

\* EX_TIAO_XIN of YongZhe: the action may be given up although it is not one more.
HookGiveUp ==
  /\ MayHook /\ On("ActionPhase") /\ ~Top.giveUp
  /\ Becomes(<<ActionPhase(TRUE)>>)
  /\ UNCHANGED <<area, cross, shield, attacks, relays, turn>>
-----------------------------------------------------------------------------
GoesOn == Passes \/ CheckBasicEffect \/ WeakenSkips \/ NoAction \/ AfterAction
          \/ NoMoreActions \/ AfterTurnEnd \/ (Resolves /\ UNCHANGED turn)

PlayerActs ==
  \/ \E p \in Players : BasicAttack(p) \/ Shield(p) \/ BasicMissile(p)
  \/ Buy \/ Synthesize \/ Extract \/ Skill \/ Unactional \/ NoCards
  \/ Weakened \/ AdditionalAction
  \/ (Answers /\ UNCHANGED turn)

RoleActs ==
  \/ HookAction \/ HookTurn \/ HookGiveUp
  \/ \E p \in Players : HookTurnHarm(p) \/ (RoleHooks(p) /\ UNCHANGED turn)
  \/ \E p \in Opponents(current) : HookNewAttack(current, p) /\ UNCHANGED turn

Next == GoesOn \/ PlayerActs \/ RoleActs

Spec == Init /\ [][Next]_vars

\* The game thread goes on, and questions time out; nobody has to answer.
FairSpec == Spec /\ WF_vars(GoesOn)
-----------------------------------------------------------------------------
(* Properties *)

Bottom == stack[Len(stack)]
AtPhase(k) == stack = <<Bottom>> /\ Bottom.kind = k
AtGameOver == \E i \in 1 .. Len(stack) : stack[i].kind = "GameOver"
IsOver == On("GameOver")

\* Exactly one state of the stack says how far the turn is, and it is at the bottom,
\* whatever actions, hooks and harms have been pushed: so every action comes back
\* to its turn, and no turn has two ends.  Only the end of a game in the action phase
\* leaves none.
OneTurn ==
  /\ stack # <<>>
  /\ Bottom.kind \in TurnStates \/ (stack = <<Bottom>> /\ IsOver)
  /\ \A i \in 1 .. Len(stack) - 1 : stack[i].kind \notin TurnStates

\* Every attack of an action, the counterattacks among them, is settled once, as a
\* hit or a miss: while it is open exactly one state is about it, no counterattack
\* goes on before the attack it answers is through, and none is open when the action
\* is over.
AttacksSettleOnce ==
  LET about(n) == {i \in 1 .. Len(stack) :
                     stack[i].kind \in {"Timeline1", "Attacked"} /\ stack[i].n = n}
      misses   == {i \in 1 .. Len(stack) : stack[i].kind = "Timeline2Miss"}
  IN
  /\ \A n \in 1 .. Len(attacks) :
       Cardinality(about(n)) = (IF attacks[n] = "open" THEN 1 ELSE 0)
  /\ \A n \in 1 .. Len(attacks) : \A i \in about(n), j \in misses : j < i
  /\ (\E k \in TurnStates : AtPhase(k)) => \A n \in 1 .. Len(attacks) : attacks[n] # "open"

\* The game ends for a reason and at once: who wins has five cups or has left the
\* other side without morale, a side without morale does not play on, and a fifth
\* cup wins before the turn goes on, unless a loss of morale on the way to it ends
\* the game first.
RightWinner ==
  /\ \A i \in 1 .. Len(stack) : stack[i].kind = "GameOver" =>
       area[stack[i].color].cup = 5 \/ area[Other(stack[i].color)].morale = 0
  /\ \A c \in Colors : area[c].morale = 0 => Top = GameOver(Other(c))
  /\ \A c \in Colors : area[c].cup = 5 =>
       AtGameOver /\ \A k \in TurnStates : ~On(k)

\* A team never has more than five gems and crystals, though each is counted by
\* itself when both are bought at once, or when attacks and counterattacks hit.
EnergyWithinLimit == \A c \in Colors : area[c].gem + area[c].crystal <= 5

\* A missile goes round: who passes it on sends it to an opponent, and nobody has it a
\* second time before all others have had it, though one set of marks serves both
\* teams and is forgotten as a whole when one of them has no one left.  That is so if
\* who played it chose an opponent; sent to a team-mate first, it may come back when
\* only one of the teams has had it.
MissileGoesRound ==
  LET had(p)   == \E i \in 1 .. Len(relays) : relays[i] = p
      twice(p) == \E i, j \in 1 .. Len(relays) : i # j /\ relays[i] = p /\ relays[j] = p
      round(c) == \A q \in Players : TeamOf[q] = c => had(q)
  IN
  /\ \A i \in 2 .. Len(relays) - 1 : relays[i + 1] \in Opponents(relays[i])
  /\ \A p \in Players : relays # <<>> /\ twice(p) =>
       \/ relays[2] = relays[1]
       \/ IF relays[2] \in Opponents(relays[1]) THEN \A c \in Colors : round(c)
                                               ELSE \E c \in Colors : round(c)

\* Nobody holds up the game but the current player at the choice of an action: the
\* rest goes on when players do not answer, until that choice or the end.
GoesOnWithoutAnswers ==
  []<>(\/ stack = <<ActionPhase(FALSE)>> \/ IsOver
       \/ (AtPhase("AfterTurnEnd") /\ turns = MaxTurns))

\* The turns of TurnLife: the state at the bottom of the stack is the phase.
Phase ==
  IF IsOver THEN "over"
  ELSE CASE Bottom.kind = "ActionPhase" -> "act"
         [] Bottom.kind \in {"AfterAttack", "AfterMagic", "AfterSpecial", "AdditionalAction"} -> "acted"
         [] Bottom.kind \in {"TurnEnd", "AfterTurnEnd"} -> "end"
         [] OTHER -> "begin"

Life == INSTANCE TurnLife WITH player <- current, phase <- Phase

FollowsTurnLife == Life!Spec
=============================================================================
