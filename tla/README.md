# A verification of the Asteriated Grail game server

The repository is the server of *Codify Asteriated Grail*, an online card game
for two teams (C++, boost::asio, protobuf, MySQL; `src/`).  This directory holds
TLA+ models of it, the TLC runs that check them and the proofs about them.  Every
definition is translated from the source; `PROJECT.json` names for each the file
and lines (`map`), for each property of a passing run a change of the code that
breaks it (`mutants`), and every place of the code that is hard to test (`hazards`).

## 1. The system

Three kinds of threads share everything without a common lock:

    I/O threads (asio)              main thread                      one game thread a room
    accept, read, check timer       zService::main loops over        GameGrail::GameRun
        |                           serviceCallback:                     |
        |  MessageQueue::put        - GameManager::Check: delete     handle() of the state on
        +------ ring ------------>    dead rooms                      top of the stack; most of
                                    - zTCPServer::Check: delete      them wait for an answer
                                      recycled sessions                  |
                                    - doCmd: run the commands  ---->  m_ready, token, buf
                                      of every session          <----  sendMessage

| Component | State it keeps | Operations | Correct when |
|---|---|---|---|
| **Session command queue** `base/MessageQueue.h` | ring `cmdQueue` of (full, command), `queueWrite`, `queueRead`, spill-over `queueCmd` | put (I/O thread), get/erase/doCmd (main), clear (destructor) | commands are handled whole, once, in order; nothing leaks |
| **Sessions** `UserTask`, `UserSessionManager`, `zTCPTask`, `zSocket2`, `zTCPServer` | `m_state`, `m_bQuit`, check timer, `m_bAuthen`, `m_tableId`, `m_userIdMap`, `m_userMap` | accept, log-in, heartbeat, loss, SetQuit, recycle, delete | no map leads to a deleted session; lost sessions go; a seat is connected only while someone can report otherwise |
| **Rooms and seats** `GameManager`, `GameGrail` | `m_playerContexts` (user, connected, ready), `m_guestList`, `m_playing`, `m_dead` | create, enter, leave, ready, Check | one seat a user; a connected seat has a session; abandoned rooms go |
| **Questions to players** `GameGrail.cpp` 330-470 | `m_token`, `m_ready`, `m_interrupted`, `buf` of each seat | waitForOne, waitForAll, waitForAllConnected, tryNotify, falseNotify, setBuf | answers are kept, owned once, used for the question they answer; who returns is asked; waits end |
| **Game thread scheduler** `GameRun`, polls, `StateGameOver` | stack of states, `error`, `m_roleInited`, `m_gameover`, `dying`, `m_dead` | handle, pop after errors, poll when players are missing | the game stops while someone is missing, goes on when they return, ends when all have left; the result is recorded once |
| **Cards, basic effects, covers** `Deck`, `setStateMove...`, `StateHandChange` ... | pile, discards, hand/effects/covers of each player, `handCardsMax`, morale | deal, draw, move, reshuffle, overload, Weaken, Poison | every card is in one place; hands keep to the limit; morale pays for overload |
| **Team choice and seats** `setTeam`, `assignTeam`, `assignColor` | `teamA`, `teamB`, order and colour of the seats | choose a team, leave, arrange | teams are even and kept, everybody sits once |
| **Role drafts** `StateRoleStrategy...`, `BP`, `CM`, `StateLeaderElection` | cards dealt, answers, alternatives and their marks, step, captains | random, one of five, ban and pick, captains | no role twice, everybody gets one, bans and picks are even, repeated handlers keep what was answered |
| **Turn flow** `StateBeforeTurnBegin` ... `StateTurnEnd` | bottom of the stack, additional actions, current player | phases, actions, additional actions, time-outs, hooks of every role | one state of the turn whatever is pushed, each player in turn, nobody holds it up |
| **Combat** `StateAttacked`, `StateTimeline1..6`, missile | harm, context, counterattack chain, marks of the missile | attack, answer, harm in six stages | each attack is settled once and in order, the missile goes round |
| **Team area** `TeamArea` | gems, crystals, cups, morale | buy, synthesize, refine | limits kept, five cups or no morale end the game, for the right side |
| **Roles** `role/*.cpp` (38 files) | tokens, energy, own states | skills as hooks of the states above | each keeps the rules of cards and energy |

The remaining parts (`CardEntity`, GM commands, `Communication`, generated
protocol classes, database access, start-up, logger, tinyxml) keep no protocol
of their own; `PROJECT.json` lists them with the reason.

How they interact: a packet is framed by an I/O thread and *put* in the queue of
its session; the main thread runs it.  Log-in, entering and leaving change the
maps of sessions and the seats of rooms; an answer to a question goes by
`GameGrail::tryNotify` into the seat's buffer and wakes the room's game thread.
That thread runs the handler of the state on top of its stack; the handler pops
itself, pushes others, changes entities and asks players.  Leaving and returning
interrupts (`falseNotify`) whatever the game thread waits for.

What is hard: queue, maps, seats, answers and the stack are touched by two or
three threads without locks; players leave and return at any moment; sessions are
raw pointers, deleted when two flags of different threads agree; handlers are
entered again after an interruption or a hook; moves of cards are promises on a
stack, kept after other states have run.

## 2. Modules

| Module | Models | Composition |
|---|---|---|
| `Fifo` | what the queue promises: put in, handled in order | abstract |
| `MsgQueue` | `MessageQueue` memory access by memory access | implements `Fifo` (`INSTANCE ... WITH q <- ...`) |
| `MsgQueue_proof`, `WaitNotify_proof`, `GameRun_proof`, `Sessions_proof`, `Room_proof`, `SeatsAndRoles_proof`, `Cards_proof`, `Turn_proof` | the theorems about these modules (`SeatsAndRoles`: about `SeatArrange` and `RoleDraft`) | extend them |
| `WaitNotify` | the three waits against tryNotify and falseNotify | |
| `RoomLife` | what the life of a room promises: lobby, game, over, dead | abstract |
| `GameRun` | the loop of the game thread, the polls, the end | implements `RoomLife` |
| `Sessions` | a session from accept to delete, and the maps | |
| `Room` | rooms, seats, guests, sessions that go to and fro | takes from `Sessions` that a session is gone, from `GameRun` that a thread may end |
| `SeatArrange` | the choice of teams in the lobby against the arrangement of seats | the "seatArrange" of `GameRun`, read access by read access |
| `RoleDraft` | the five role strategies and the election of captains | the "draft" of `GameRun`, on the seats `SeatArrange` leaves (`SeatsAreFair`); its waits are those of `WaitNotify` |
| `Cards` | the cards and the stack of states that moves them | one game of `GameRun` in "play" |
| `Combat` | team areas, attacks, missile, harm, morale, the end | a part of `Turn` |
| `TurnLife` | what the turns promise: round the table, begin, act, end | abstract |
| `Turn` | the turns and all actions | extends `Combat`, on one stack; implements `TurnLife`; the other half of "play" beside `Cards` |

`MC*.tla` give the constants their values, one `.cfg` a run.

### MsgQueue

`full[i]`/`cmd[i]` are `cmdQueue[i].first/.second`; commands are numbered in the order
of `put`, `Free` is no buffer.  `Put`, `Drain`, `DrainStore`, `DrainFlag`
(`putQueueToArray`), `TestSlot`, `Store`, `Flag`, `Push` are the accesses of `put`;
`Get`, `Handle`, `EraseDelete`, `EraseRelease` those of `doCmd`, `get`, `erase`;
`Destroy` and `ClearErase` are the destructor, in the place of the producer.  The code
uses plain fields: the model takes their stores in program order, as x86 and the
compilers of this build keep them; on a weaker machine the flag could overtake the
pointer and nothing here would hold.

### WaitNotify

A *kind* is the pair (state, step) that a packet claims to answer.  `gpc` and
`mpc` say where the two threads are; every read or write of `token`, `ready`,
`interrupted`, `buf`, `top` is a step of its own.  One-player states use
`waitForOne`, drafts `waitForAll`, polls `waitForAllConnected`; a draft that is
interrupted keeps the answers it has (`isSet`).  `leaked` are answers that nobody
points to any more: an answer that comes when a handler has popped its state and
not yet pushed the next makes tryNotify throw past the delete.  Assumed of the
client, which is not in the repository: one answer to a question.
`taken` are the answers that counted when a handler ran, `IsLate` the check of
`tryNotify` as it looks when it stores.  `NoAnswerTwice` speaks of answers whose
seat was ready when they were used: a packet that is stored for one question and
marked ready in the next counts there, which is the first finding below, and does not
count again.

### GameRun

`stack` is `m_states` by kind: the lobby, the arrangement of seats, drafts, play, the
end, the two polls.  "play" may end in any way a handler may end: return, error,
interrupt, push, replace, pop, game over; a draft may fail as well as go on.  `poll()`
begins with `resetReady(-1)`, which clears an interruption that came before it, and
counts the votes whether another comes meanwhile or not (`ForceWait`, `CountVotes`).
`Check` is the part of the loop that counts players once and decides about the end and
the poll. An exception of the database in a handler of the end (`DatabaseThrows`) is
an error that leaves the stack as it is, so the handler runs again: with it the result
may be recorded twice and, after four of them, the play go on; the properties that
would not hold then say so.  States of the same kind are not told apart; `error` is
capped at 4 because the code only asks `> 3`.

### Sessions

`state`, `quitFlag`, `timer` of each session, changed by its I/O thread (`Start`,
`ConnectionLost`, `HeartbeatMissed`, `QuitCheck`) and by the main thread
(`LogIn`, `Kick`, `EnterRoom`, `EnterAnother`, `LeaveRoom`, `Recycle`).  `SetQuit` of
another session is two stores, `LogIn` and `Kick`.  `online` stands for `isConnected`
in the one room there is; `EnterAnother` is entering a room that is not this one, which
leaves this one first.  `Recycle` is the delete by `zTCPServer::Check` with
`~UserTask`, which removes by the *present* name.  Each access to a map is one step;
the lock that `AddUserById` lacks is a hazard without a property.

Nothing is assumed of the client here.  `name` is `m_username`: a connection may log in
at any time and again, under the same name (it then kicks itself) or another, and may
enter a room before it has logged in, as `handleLogIn` and `handleEnterRoom` let it.  A
seat entered without a name belongs to nobody and is left out.  `givenUp` remembers the
names a connection had before: the entry under such a name is what `~UserTask` does not
find, and the properties say that this is the *only* way a map comes to lead to a deleted
session, or a seat to stay connected with nobody to report otherwise.

### Room

Commands are steps of the main thread, except creating a room, which starts its
thread before the creator has entered.  The game thread counts, waits in the
lobby, arranges seats and ends; what happens in between is `GameRun`'s.  Which
user each session has is chosen at the start from `LogIns` and stays: a second log-in
under another name is in `Sessions` only.  Passwords and the contexts of rooms are not
modelled.

### Cards

`setStateMoveCards` only checks: it takes cards from the pile and puts them on the
discards at once and leaves hands, effects and covers to states on the stack.
`zone`, `handMax`, `morale`, `stack` follow the code; the head of the sequence is
the top.  `Turn` asks for the moves that the core and the roles ask for, in any
order: draws, harms, moves of one player's cards, requests, covers, changed limits
(for two players in one handler, as WuNv does), `unactional`, the effects before
a turn: Poison, Weaken, and WuXiShuFu of FengYin, which asks the same as Weaken does and
adds to the cards that are drawn (`WuXiShuFu`, from two to four; the request keeps how
many).  Hooks of roles change limits inside `HandChange` and `MoraleFalls`.  Any
card of the pile may come, since it is shuffled.  Left out: how roles mitigate a
loss of morale, `StateShowHand`, the special cases of role 32, and moves *out of*
the discards (XinYueBiHu).  Assumed of the client: the cards of an answer differ.
Drawing throws `GE_CARD_NOT_ENOUGH` when pile and discards are too few and gives
up what it has taken; with 150 cards a game does not come near it, the model
keeps it and counts those cards in `lost`.  The properties that speak of every player
and team need no bound; the deck and the players are finite (`FiniteAssumption`) and
morale begins above zero, as `TeamArea` has it.

### SeatArrange

`setTeam` of the main thread is two steps, `SetTeam` (off both lists) and `JoinTeam`
(onto one, unless it is full: then the player has no team and is not told).  The
game thread copies `teamA` and `teamB` one after the other (`CopyA`, `CopyB`), which
is `assignTeam`; `Fill` is the rest of it and `Color` is `assignColor`.  `Sit` is one
round of the loop of `StateSeatArrange`.  Lists are sets, since they are shuffled.
`createGame` takes any mode with any number of players, so all five modes are in the
model: RBBRRB is written for six, and of its six colours four players use the first four,
which are even; 3COMBO may give four players three seats of one side and one of the other;
for eight players both have two colours too few.  `ModesFor` names the modes that are
even.  In the others the loop reads past the colours or calls `back()` on an empty list
(`RunsOut`); what comes then is undefined, and the model stops in "broken".
`setTeam` does not ask for the lobby, so it may run while the lists are copied: a
player who moves from the second list to the first between the copies sits nowhere,
and from the first to the second twice; `moved` remembers who was on the move then,
and what the properties say of single players excepts them.

### RoleDraft

`phase` says whether the handler of the state on top is about to run or waits.
`Deal31`, `AskAll`, `AnswerAll`, `Interrupt`, `WaitIsOver` are the states that ask all
players; `AskOne`, `AskAgain` and `NextStep` those that ask one (BP, CM).  The
handlers do not look at `role_ids(0)`: a player may send any of `Numbers`, a role that
is banned, taken or not offered, one of an extension, or a number that is no role
(`Sends`, with the bound `Wish` on what is tried).  A ban that matches no alternative
marks nothing and still uses the step, or the one ban before a pick; a pick is given
as it was sent.  `stray` remembers who sent what was not offered, for the properties:
they say that nobody else's role is touched by it.  `createRole` throws at a number it
does not know (`Created`): then the state stays where it is (`Starts`).  The orders of
the shuffled cards are given by `Decks`.  `Nth` is `red[k]` and `blue[k]`: the seat of
a side with `k` seats of that side before it.  CM is only modelled with six players:
the switch over its steps names three picks a side, whatever the number of players.
31 with eight players needs forty roles; with fewer it would read behind the deck
(`StrategyAssumption`).  In ANY the default of a player is the role with the number of
his seat, which must exist. A player who is asked alone and never answers holds up BP
and CM for ever: the handler asks again.

### Combat and Turn

`stack` is `m_states`, the top first, as records of what each state keeps.  A step is
one call of `handle` of the state on top together with the `setState...` it calls:
`Becomes` replaces the top, `Pushes` puts states above it.  `attacks` and `relays`
are histories of one action for the properties: what became of each attack, and who
had the missile.  `Resolves` is what happens when nobody answers, `Answers` what
players choose, `RoleHooks` what the 38 roles do inside the states: more harm, other
points, attacks that cannot miss, another attack, additional actions and turns.
How often they interfere is bounded (`MaxHooks`).  Cards are in `Cards`: here a
player may have any, and a draw may overload by up to its size.

The state at the bottom of the stack is the phase of the turn; an action leaves the
state that follows it there and pushes its own states above it.  Answers that a
`v_...` function refuses are left out; their conditions are the guards.  The state
that asked asks again, but each refusal is an error of the handler, and the loop of
the game thread pops a state after four errors in succession (`error` in `GameRun`);
`Turn` looks at games in which no state is lost that way.  `v_missile` does not look
at the target (the check is commented out), so a missile may be sent to anybody, to a
team-mate or to the player himself (`BasicMissile`); the players it reaches send it on
to their opponents.  A player may extract more than fits: the team loses it all the
same (`Extract`), as in the code.  Whoever YongZhe has provoked (EX_TIAO_XIN) may give up
even the first action (`HookGiveUp`); that he may only attack otherwise is not looked at,
since kinds of actions are not told apart.  `quota` stands for the additional actions of the
current player.

## 3. Runs

| Run | Bound | What it shows |
|---|---|---|
| `msgqueue` | ring of 3, 7 commands | only whole commands are read; nothing leaks; in order and once; implements `Fifo`; a command in the ring is handled |
| `wait_notify` | 2 players, a one-player state, a draft and a poll, 2 answers | accepted answers survive interruptions; an answer has one owner; who returns is asked; no answer that was ready is used twice; waits end |
| `wait_notify_race` | one more one-player state | **violation**: an answer may be read by the next question |
| `game_run` | 4 seats, 3 states deep | the poll is on top and votes find it; no play with somebody missing that has been counted; one result; an abandoned room ends; a complete one resumes; implements `RoomLife` |
| `sessions` | two users, two connections that log in again and again | maps lead to live sessions and a connected seat has a session, except under names that a session gave up; lost sessions go |
| `sessions_kick` | same | **violation**: the old session takes the new one out of the map |
| `room` | 2 connections, one or two users, rooms of 2 and 1 seats | one seat a user; connected seats have a session; abandoned rooms are deleted |
| `cards` | 4 cards (2 Poison, 1 Weaken), 2 players, 3 moves, WuXiShuFu of one card | every card is in one place; limits are kept; morale pays for overload; moves settle |
| `cards_blown` | same | **violation**: FengZhiJieJing takes a card out of the game |
| `seats` | 4 players, 4 moves, all five seat modes | everybody sits once, half of them red, and the lists run out only in a mode that is not for four; teams that were chosen are kept; which modes are even for 4, 6 and 8 |
| `draft` | 6 players, 5 strategies, 30 roles and two other numbers, 2 interruptions | no role twice among those who took what was offered; bans and picks are even, and never more than that; one captain a side; the draft ends |
| `turn` | 4 players, 2 turns, 1 hook, 2 counterattacks, 4 relays, 1 exchange of the hand before an action | one state of the turn; attacks are settled once; the right winner; a missile goes to and fro and round; implements `TurnLife`; nobody but who chooses an action holds it up |

Why the bounds are enough to meet the cases: a ring of 3 with 7 commands fills,
spills, is drained while it is emptied and wraps twice; two players and two answers
give every order of answer, loss, return and timeout of two seats, and an answer that
comes in the next question; four seats are the smallest real room and its threshold
(half of them) differs from one and from all; two connections and two names let each
kick the other and itself, under the name it has or one it gave up, while the other is
lost, recycled or deleted; a room of one seat besides one of two gives a user
somewhere else to go and a seat that is taken; four cards dealt two and two leave an
empty pile, so that every draw reshuffles, and a limit that falls from two to one
makes overload nest three deep; with hands of two, WuXiShuFu of one card more is
enough to overload after Weaken or without it.  Four moves let two players change
teams, one of them in the middle of a copy; six players are the only number every
strategy allows; in `draft` one player, who is captain in some runs, sends a role that
is taken, one that is not offered or no role at all, at the steps `MCWish` names.  In
`turn` the first team is one cup from winning with three gems to pay for it and the
second has one morale left, so that both ends come within one action and together; two
players of a team sit side by side, which makes nearest opponents of both directions
differ; four relays bring a missile round and on to its second round; two
counterattacks follow each other; the player of seat 1 has a cross and that of seat 3
a shield.  `seats` has symmetry in the players, who are only names there, and no
liveness; the other models have none, since liveness would not be sound with it.

`CHECK_DEADLOCK FALSE` where the system stops by itself: the destroyed queue, a dead
room, sessions and rooms whose bound of connections is used up, seats and roles that
are given, and a game that is over (or has used its moves or turns).  `wait_notify`
never stops and is checked for deadlock.

### Fairness

- `MsgQueue`: weak fairness of the main thread's steps (the loop goes round);
  none of the producer: nobody has to send.
- `WaitNotify`: weak fairness of the game thread, strong fairness of its timeout
  (`timed_wait` returns at last even though every notification wakes it, since
  every wait starts a new one); none of the players.
- `GameRun`: weak fairness of the game thread; leaving and returning are free.
- `Sessions`: weak fairness of the timers and of the second store of a kick,
  strong fairness of deleting: the main loop comes to Check again and again, but
  a kick in progress disables it for a moment.
- `Room`: weak fairness of the creator's entering and of the game threads, strong
  fairness of deleting for the same reason.
- `Cards`: weak fairness of handling the state on top.
- `RoleDraft`: weak fairness of the game thread, whose waits for all players time
  out; none of the players.  Interruptions are bounded: somebody who keeps leaving
  and returning can hold up a draft.
- `Turn`: weak fairness of `GoesOn`, the handlers with the default each has for a
  player who does not answer; none of the answers and none of the hooks.

### What disagrees with its own words

`findings` in `PROJECT.json` quotes the lines.  In short:

1. `tryNotify` checks state and step and stores without the mutex; the next
   question may read an answer that was not meant for it (`wait_notify_race`).
2. The old session of a user who logs in again removes the *new* one from the
   user map when it is deleted, by name (`sessions_kick`).
3. FengZhiJieJing (and TianShiZhiGe) push a state of their own instead of
   `setStateMove...`; the card is nowhere afterwards (`cards_blown`).

`hazards` also lists what was found in reading or in models and contradicts no promise
of the repository that could be quoted: `error` of GameRun survives the pop it causes,
so a state may be popped that never failed; a kick after the timer has given a session
up turns `recycle` back into `quit`, and nothing deletes it any more; LeaveRoom keeps
the session's seat number; `setTeam` to a full team takes the player off the other;
from the second round of a missile on marks of both sides are lost when one has none
left, so a player may have it a third time before a team-mate has it twice; a hook of
YueNv pops the state whose handler runs; a connection that logs in under a second name
leaves the first in the user map, where it leads to a deleted session later, and its
first seat stays connected; a player may draft a role that is taken, banned or does
not exist, since `role_ids(0)` is not checked; answers that leak when a handler is
between two states, an overload that asks for too many cards when two limits change in
one handler, cards that XinYueBiHu makes exist twice, the context that Check erases of
the wrong room.

## 4. Proofs

`MsgQueue_proof`, checked by tlapm, assumes only what `MsgQueue` assumes of its
constants: `QueueSize \in Nat \ {0}`, `MaxPut \in Nat`.

- `TypeCorrect`: `Spec => []TypeOK`; both indexes stay inside the ring.
- `WholeCommands`: `Spec => []ReadsWholeCommand`.
- `InOrder`: `Spec => HandledInOrder`, an action property: what is handled is
  always the command after the last one.
- `LeakFree`: `Spec => []NothingLeaks`.
- `IsFifo`: `Spec => ImplementsFifo`, the refinement.

None of the properties is inductive: that a flag is up says nothing about where
the *next* flag is up.  The invariant `IInv` is `TypeOK` and the existence of a
length `c` and a first command `b` such that (`Shape`) exactly the `c` slots from
`queueRead` on are full (`Window`), they hold `b, b+1, ...` and all others hold
nothing, but for a payload stored before its flag or deleted before its release
(`Payload`), the spill-over continues the sequence up to the last command given to
put (`SpillOver`), and the reader is at `b` (`Reader`).  `RingArithmetic` is what
the proofs need of the indexes: distances from a slot, going round, are distinct,
and change by one when an end moves.  `NextInv` gives for each action the new
witness `c` and `b` (`Store`'s flag: `c + 1`; `EraseRelease`: `c - 1`, `b + 1`), one
step for each part of `Shape`.

For the refinement, the abstract queue is a sequence made by the ring and the list
joined; `AsFunction`, `Joined` and `QueueEnds` say what appending and taking do to such
a sequence, `Queued` and `QueueIs` that it is the commands from the one after the last
handled to the last one put.  While the session lives it is determined by these two
numbers (`OpenSteps`); once it is being destroyed, by how many commands are left, so
that each erasure drops one (`ClosingSteps`).

`Sessions_proof` assumes that `NoName` is no user's name and `None` is no session; the
sets of sessions and users may be infinite.

- `NoDanglingSession`, `TimerStopsFirst`, `SeatHasReporter`: the maps lead to a deleted
  session only under a name that it gave up; a session is deleted only without a timer;
  a connected seat has a session, or its name was given up.  And `TypeCorrect`.

`MapsLeadToLiveSessions` alone is not inductive: a kick could put a session into the map
that was deleted meanwhile, and a session that is recycled could be in the map under a
name that it neither has nor had.  `IInv` adds that `m_userIdMap` is exactly the set of
live sessions (`MapOfIds`); that what the user map holds under a name is live and has
that name, or gave it up (`MapOfUsers`); that a session has a name only once it was
accepted and a timer only while nobody may delete it (`Timers`); and that a kick in
progress has its new session alive, since the main thread, which is in it, deletes
nothing (`KickInProgress`).

`GameRun_proof` assumes `MaxPlayers` and `MaxDepth` in `Nat \ {0}`.

- `TypeCorrect`, `PollOnTop`, `VotesFindPoll`, `PlayWaits`, `OneResult`: the
  invariants of the run.
- `GoesThroughPhases`: `Spec => FollowsRoomLife`, the refinement.

`IInv` says of each state on the stack what it implies about the flags and how deep
it may lie (`Fits`): the poll about the missing is the last, after the draft and
before the end; the poll of the end comes with `gameover`; the play with
`roleInited`.  `Ending` explains why the result is not recorded twice: from the end
on the last poll is on top and the error count is 0, so nothing pops it but itself,
and then the room is dying.  `Counted` is what the loop knew when it called the
handler.  Four lemmas about pushing, popping and replacing the top carry `Fits`
through every handler.  For the refinement, `PhaseFacts` reads the phase off flags
and stack, `FlagsStay` and `FlagsRise` say which flag may change where.

`Turn_proof` assumes of the constants what `Combat` and `Turn` name:
`PlayersAssumption` (4, 6 or 8 players, as many on either side, in any seating: what
`StateSeatArrange` gives, as `SeatArrange` shows), `BoundsAssumption` (the bounds are
numbers) and `TurnAssumption` (team areas to begin with that are within their limits,
without five cups and with some morale).

- `StackHasOneTurn`, `TheRightSideWins`: `OneTurn` and `RightWinner` of the run.
- `EnergyIsCapped`: a team never has more than five gems and crystals together.
- `AttacksAreSettledOnce`, `MissileFliesRound`: `AttacksSettleOnce` and
  `MissileGoesRound` of the run.
- `TypeCorrect`, with what every state on the stack keeps.
- `ImplementsTurnLife`: `Spec => FollowsTurnLife`, the refinement.

`IInv` is the types, `OneTurn`, `EnergyWithinLimit`, `RightWinner`, and that a player
has no more additional actions than hooks have given.  The stack is what makes the
proof long: 40 actions write it.  They are brought down to three ways: a state above
that of the turn gives way to others (`AboveGivesWay`, `TopIsCovered`), to the end of
the game (`GameIsLost`), or the state of the turn gives way to states above a next one
(`TurnGoesOn`); `Loose` are the frames that may lie above the turn, and `KindOfFrame`
says what a state keeps by its kind.  Each of the three says which ends of the game
the stack holds afterwards (`Overs`), from which `WinnerFrom` has `RightWinner` again:
without an end on the stack nobody has five cups, and morale is 0 only under the end
that says so.  `CombatStep` and `TurnStep` are these lemmas made ready for an action;
what is left to each is that the frames it pushes are of their kinds, that team areas
stay in range (`Earning`, `Spending`, `Synthesizing`, `MoraleLost`), and that a missile
has somebody to fly to (`NearestIsPlayer`, from the well-foundedness of `<`).  For the
refinement every action also says which state of the turn follows which (`Follows`),
or that the bottom of the stack stays (`TurnStays`).

Attacks and missiles need a second invariant, `Marks`.  `AttacksFit`: the states about
attacks are about exactly the open ones, one for each, nothing that has missed lies
below them, and an attack skill lies just above the turn. `MissilesFit`: at most one
state is a missile, it is passed on to opponents (`ToAndFro`) and goes round
(`GoesRound`): nobody has had it twice (`OnceEach`), or one of the teams has had it
(`RoundOver`), or who played it sent it to himself (`SentHome`).  Until then it is in
its `FirstRound`, when the marks are of exactly those who passed it on, once each.
Only if it was sent to an opponent at the start (`SentAcross`) have both teams had it
equally often, but for the one who has it now (`Even`): then, when all opponents have
had it, everybody has, which is where equal teams come in.  Sent to a team-mate, it
may be back at a player when the other team has not had it; the property says which.
The steps are brought to six kinds: nothing about attacks moves (`QuietSteps`,
`QuietPush`), an attack action begins (`NewAction`), an attack is settled
(`SettledMarks`) or goes on (`GoingOnMarks`), the missile is passed on (`RelayMarks`).

`WaitNotify_proof` assumes `MaxPlayers` in `Nat \ {0}`, `MaxReply` in `Nat` and that
the kinds of one-player states, drafts and polls differ.

- `TypeCorrect`; `AnswersSurvive`: `Spec => AnswersAreKept`, an action property: an
  interruption of a draft loses no answer.
- `OneOwner`: `Spec => []RepliesOwnedOnce`, so nothing is deleted twice.
- `WhoReturnsIsAsked`: `Spec => []ReturningPlayerIsAsked`.
- `AnswersAreUsedOnce`: `Spec => NoAnswerTwice`.

The threads share their fields without a lock, so an invariant can only say for a place
of one thread what holds wherever the other one is.  `Owned` splits the answers that
have come into the main thread's hand, the buffers, what is freed and what is leaked.
`PassedIsAsked` strengthens `ReturningPlayerIsAsked` by how far the sending loop is:
whom it has passed was sent the request, or is missing, or the interruption that his
return causes is on the way.  `Drafts` and `HeardIsReady` tell where a draft keeps
what it has heard; `UsedIsOld` says that from the reset on the answers used before are
not ready.

`Room_proof` assumes of `LogIns`, `NoUser`, `MaxRoom` and `MaxPlayers` what `Room` does
(rooms have one to eight seats); there may be any number of rooms, sessions and users.

- `TypeCorrect`; `SeatsAreUnique`: `Spec => []OneSeatPerUser`; `SeatHasSession`:
  `Spec => []ConnectedSeatHasSession`.

The two need each other: leaving frees the *first* seat of the user, which is the
session's seat only because there is one; and a user may be given a seat in another
room only because a session that stays in a room is found there.  `IInv` adds that
deleted rooms have nobody connected, that a connected seat is somebody's, and that a
room that is being created is there until its creator has entered.  A command is two
functions of the seats (`Hall`), leaving and entering: `HallOK` is kept by each, and
`NobodyCame` says that leaving connects nobody.

`SeatsAndRoles_proof` is about two modules, one after the other.  Of `SeatArrange` it
assumes finitely many players, four, six or eight of them, and `MaxMoves \in Nat`; the
room may have any of the five modes.

- `TypeCorrect`; `EverybodyHasSeat`: `Spec => []EverybodySits`.
- `TeamsSitTogether`: `Spec => []TeamsAreKept`.
- `ModesAreFair`: `Spec => []ModesFit`, which modes are even for which numbers: its
  lemmas are `EveryModeFits`, one lemma for each mode, `OthersAreNotEven` for those that
  are not, and `ColoursOfModes`.

The proof follows the players from list to list: in the lobby nobody is on both lists
and none is too long (`LobbyLists`); while they are copied, who is not on the move is
where he was when the copying began (`CopiedLists`).  A player on the move may get
onto both copies, so nothing can be said of all players from there on; but each copy
alone is at most half, and `ListsFill` counts that there are always enough players
without a team to fill both exactly.  `Enough` carries that to the seats: each list
has as many players as seats of its colour are free, so in the modes for that number
of players `back()` is never called on an empty list (`NeverRunsOut`).  `Sides` (of
who stayed, whether he still waits or sits already) and `Once` (if nobody was on the
move) are not changed by sitting down.

Of `RoleDraft` it assumes what the module names: a fair seating, decks that are orders
of the finitely many roles, of which there are as many as alternatives are drawn, and
what CM, 31 and ANY need.  The seating is no free assumption:

- `SeatsAreFair`: `Spec => []SeatsFitDraft`, what `SeatArrange` leaves is a
  `FairSeating`, unless somebody changed teams between the copies of the two lists.
- `DraftTypeCorrect`; `RolesAreDistinct`: `DraftSpec => []RolesDistinct`, about the roles
  of those who only sent what they were offered, whatever the others sent.
- `DraftsAreEven`: `DraftSpec => []DraftIsEven`, limits whatever is sent, and exact numbers
  as long as nobody has sent what was not offered.
- `EachSideIsLed`: `DraftSpec => OneCaptainEach`.

Neither of the two invariants is inductive: both speak of the end of a draft.  The
proof first counts seats: since there are as many seats as players nobody has two
(`OneSeatEach`), each side has half of them (`SidesAreEven`), and the number of seats
of a side before one of them runs through 0 to half less one, each once
(`SeatsAreCounted`), so `Nth` names every player of a side exactly once (`NthOfSide`).
From this, every player has one step of BP in which he bans and one in which he picks,
and no step is two players' (`TurnsOfBP`), and every player one step of CM
(`PickersOfCM`).  The invariant `DraftIInv` (also checked by TLC on the bounds of the
run) then needs one part for each strategy.  `OptionsStay`: in 31 the five options of
each are dealt before anybody can answer and are not dealt again, so an answer given
before an interruption is still one of them; `DealtFive` shows that nobody shares an
option. `OneOfEach`: the roles of those who were given one fairly (`FairlyGiven`) are
marked and differ; who strays may take a role another has and change its mark, but
leaves none unmarked that was marked.  `BPSteps`: the marks are steps that are over,
each on one role at most, and who picked in the step of a mark has its role;
`BPExact`, while nobody strays: all steps that are over are marks, and a player has
the role of the pick step that was his and no other, so in the end the bans of a side
match the numbers of its seats (`BansOfBP`).  `CMSteps` and `CMExact`: how many
alternatives bear which mark at most, or exactly, in which step, and whether a ban
before a pick is spent; `MarkInCM` counts the marks when one is added, moved or lost.

`Cards_proof` assumes the constants' types, a finite deck and finitely many players
(limits are numbers of cards), and `InitMorale` in `Nat \ {0}`.

- `TypeCorrect`; `CardsConserved`: `Spec => []CardsAreConserved`.
- `HandsAreLimited`: `Spec => []HandLimitKept`.
- `MoraleIsPaid`: `Spec => []MoralePaysForOverload`.

Conservation is not inductive, since it says how *many* places a card has and is silent
about the stack, from which cards come back.  `CardsInv` says of each card where it is
with what the stack will do taken as done (`OnePlace`, `IsAt`, `Held`): in the pile, on
the discards, in a zone from which no state will take it, in a state that will put it
into a zone, given up or blown away.  For that no card may be put twice or taken twice
from a zone (`AddOnce`, `TakeOnce`), what is taken must still be there
(`TakenIsThere`), hands and covers must give away before anything else happens
(`FromTop`), and basic effects must never be put on and taken off at the same time
(`EffectsOneWay`), because the handler of Poison or Weaken reads the effects while
other states wait.  `OneWeaken` is why a request for Weaken finds its card.  Each
action changes the location of some cards and is brought to one of four lemmas: cards
move with the top state taken away, states are pushed for cards that move, zones change
together with their state, or nothing moves.

Limits: `HandLimitKept` speaks of the turn only, when everything above is done.  Before,
some state *serves* each player who has too many cards (`Serves`, `Served`): it asks for
as many cards as are too many, or it is a move of cards that will ask.  `Forced` says
that a request for overload cannot be refused.  Morale: `Owes(s, t, n)` says that the
states of `s` will cost team `t` exactly `n`, as a function summing from the bottom
of the stack, since a recursive operator cannot be reasoned about here; the morale that
is left is the initial one less what overload has cost so far, and what is owed is not
paid yet.  `Carry`, `Below` and `Mild` are the lemmas that carry both over a push, a
pop and a change of the cards.

## 5. Only model-checked

Liveness (`RingIsServed`, `WaitEnds`, `EmptyRoomEnds`, `GameResumes`,
`LostSessionsGo`, `AbandonedRoomsGo`, `MovesSettle`, `DraftEnds`,
`GoesOnWithoutAnswers`): the prover has no rules for fairness and ENABLED.  Every other
property of a passing run is also a theorem.

## 6. Plan

Order: what decides whether a game can be played at all came first (queue,
questions, scheduler, sessions, rooms), then what the rules rest on (cards), then
the way into a game (seats, roles) and its turns.  What is left:

1. `Cards` extended by the discards as a source (XinYueBiHu) and by
   `StateShowHand`.
2. Roles with states of their own as actions of `Turn` and `Combat` instead of the
   hooks that stand for them now; first the roles that change a hand limit (the link
   and the forms of WuNv, the marks of AnSha, DieWu and MoNv), whose question is
   whether the limit returns to its formula after every form is left.
3. Contexts and passwords in `Room`; the reading handlers in `Sessions`.

## 7. Not modelled, and why

Most lines under `src/` are not the program's own: the classes protoc generates
(`protocal/*.pb.*`), headers of protobuf and tinyxml make up nearly four fifths
of the implementation, and have no behaviour to model here.  Of the rest the
largest part are the roles, 38 files whose skills are variations of the same few
hooks; the models have what hooks may do to the flow and to the cards, not each
skill.


Wording and filling of messages and the framing of packets (pure I/O); generated
protocol classes; SQL; the configuration, logger and start-up; tinyxml; the
console of GM commands, which changes a game in the middle of anything and
promises nothing.  Accesses to freed memory (a second answer while the first is
read, `popGameState` against `tryNotify`, the last line of a game thread) have no
outcomes a property could be about; they are hazards with a note.
