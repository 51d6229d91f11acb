# A TLA+ model of the rlmap740x game server

This directory holds TLA+ specifications of the server under `src/source`, the TLC
configurations that check them on small instances, and proofs that TLAPS checks. File and
line references are to `src/source`.

## 1. The system

The server is one process with three threads.

| thread | code | what it does |
|---|---|---|
| io | `main()` -> `ServiceManager::run` -> `io_service::run` | runs the handlers of finished socket operations and timers, one at a time; afterwards joins the other two |
| scheduler | `Scheduler::schedulerThread` | sleeps until the earliest event is due, hands it to the dispatcher |
| dispatcher | `Dispatcher::dispatcherThread` | runs every game task, one after the other, and sends what they wrote (`OutputMessagePool::sendAll`) |

### Components

| component | state | operations | interacts with | what is hard | what makes it correct |
|---|---|---|---|---|---|
| Dispatcher, Scheduler (`tasks.*`, `scheduler.*`) | task list, event heap, active event ids, thread states | addTask, addEvent, stopEvent, the two loops, stop, shutdown, flush, join | everybody: all game work is a task | notify after unlock, heap changes during a timed wait, stopEvent against the timeout, shutdown order | one owner per task, a stopped event never runs, none early, none lost, no wakeup lost, shutdown ends |
| Connection (`connection.*`) | state, pending reads and writes, errors, socket, timers, `m_refCount` | parseHeader, parsePacket, send, onWriteOperation, timeouts, closeConnection(+Task), releaseConnection, onStopOperation | io thread for I/O, dispatcher for close and release tasks, pool, Protocol | any handler may fail or race a timer or a close; three kinds of references keep it alive | one write at a time, always one read, closed once, deleted after its last user, always deleted |
| OutputMessagePool, Protocol (`outputmessage.*`, `protocol.*`) | free messages, auto-send list, to-add list, current buffer, `m_refCount` | getOutputMessage, send, sendAll, release tasks, releaseProtocol | Connection (locks in both orders), dispatcher | custom deleter posts a task; counts without a common lock; two lock orders | counts match messages, none leaks, ripe messages are sent |
| ProtocolGame (`protocolgame.*`) | player, `eventConnect`, `m_acceptPackets` | login, connect, logout, disconnectClient, one parse function per packet, one send function per event | Game by tasks, Connection by closeConnection, WaitingList | tasks with bare `this`; a second client of the same player | a bound task runs before the protocol is detached |
| WaitingList (`waitlist.*`) | the list | clientLogin, getClientSlot, cleanUpList | ProtocolGame::login, Status | retries and timeouts in any order, premium priority | one place each, order, nobody overtaken |
| Server (`server.*`) | acceptors, death timer | add, run, stop, die, accept, onAccept, open | Connection, Scheduler | reopening a port | - |
| Trade (`game.cpp`, `player.cpp`) | partner, state and item of each player, `tradeItems` | request, accept, close, and the hooks that cancel | item moves | items move, players leave or trade again between the steps | items are conserved, an accepted offer is the one transferred |
| Creatures (`game.cpp`, `creature.cpp`, `player.cpp`, `monster.cpp`) | `useCount`, buckets of checkCreatures, friends, targets, master, summons, `ToReleaseThings` | checkCreatures, placeCreature, removeCreature, FreeThing, moves, convince, summon, hits, death | spawns, clients, spells and scripts | lists that change while they are walked, deferred deletion, a pointer to the master that is not counted | a count matches the holders; whoever must think will; nobody keeps a pointer to a freed creature |
| Spawns (`spawn.*`) | `spawnedMap`, `checkSpawnEvent` | startup, checkSpawn, cleanup, removeMonster | creatures, scheduler | a monster may go in many ways | a spawn that misses a monster has its check scheduled |
| Item moves (`cylinder.*`, `tile.*`, `container.*`, `depot.*`, `player.cpp`) | contents of every cylinder | internalMoveItem, internalAddItem, internalRemoveItem, transformItem | scripts, trade, houses | query and act on different cylinders, splits and merges | conservation of counts |
| Houses, beds, saving (`house.*`, `beds.*`, `iomapserialize.*`, `ioplayer.*`) | owner, rent, access lists, rows in the database | setHouseOwner, payHouses, transfer document, save, load | trade, database | a crash between two saves | an item exists once |
| Party (`party.*`) | leader, members, invitations, and the players' pointers back | invite, revoke, join, pass leadership, leave, disband | chat, logout | members who leave the game in any role | both ends of every pointer agree |
| Chat, reports (`chat.*`, `game.cpp`) | private, party and normal channels, their users; reports of rule violations | list, open, close, create, invite, exclude; report, answer, close | party, logout, reconnect | bare pointers to players; a list of channels that is out of date | users are in the game and belong to the channel |
| Bans, Raids, Guilds | their lists | ban, look-up; recurring events; ranks | players, scheduler | - | - |
| Combat, spells, conditions, npcs, decay, path finding, scripts, loaders, databases, encodings | - | - | - | sequential code of one task | - |

`PROJECT.json` lists the same parts with their sources and says which are modelled;
under `hazards` it lists what in this code is hard to test, each at its line.

## 2. Modules

| module | content |
|---|---|
| `EventService` | what callers of Dispatcher and Scheduler may rely on, without threads |
| `TaskRuntime` | Dispatcher, Scheduler and main() with their locks, waits and notifications |
| `TaskRuntimeProofs` | theorems about `TaskRuntime`, and that it implements `EventService` |
| `Connection` | one Connection with its Protocol and OutputMessages, on the io thread and the dispatcher |
| `ConnectionProofs`, `ConnectionReferenceProofs` | theorems about `Connection`, and about the references its messages hold |
| `WaitingList` | WaitingList::clientLogin and its caller |
| `WaitingListProofs` | theorems about `WaitingList` |
| `RecursionLemmas` | induction and recursive functions in a form that other proofs can cite |
| `Trade` | the trade of two players and the hooks that cancel it |
| `TradeProofs` | theorems about `Trade` |
| `Groups` | parties, chat channels and reports of rule violations, and players who come and go |
| `GroupsProofs` | theorems about `Groups` |
| `Creatures` | the life of players and monsters: counts, buckets, who notices whom, summons, a spawn |
| `CreaturesProofs` | theorems about `Creatures` |
| `MC...` | instances for TLC |

In all modules an operator `X_How` is `X` with a bug that somebody could have written. No
specification uses it; it serves to show that a property notices the bug.

### TaskRuntime and the code

A step is a critical section or what a thread does between two of them. `schedPc` and
`dispPc` say where the two loops are:

| place | code |
|---|---|
| `schedPc`: test, lock, wait, timed, handoff, done | scheduler.cpp:48, 54, 60, 66, 91, 108 |
| `dispPc`: test, lock, wait, woken, run, exec, done | tasks.cpp:57, 61, 68, 75, 85, 87, 104 |
| `dispPc`: schedStop, dispStop | game.cpp:160, 161 (setGameState) |
| `dispPc`: schedShutdown, dispShutdown, flush, flushExec, stuck | game.cpp:4403, 4404; tasks.cpp:142, 145; addTask from a flushed task |
| `mainPc`: run, joinSched, joinDisp, exited | otserv.cpp:255-262 |

`eventNotify` and `taskNotify` are the callers that have unlocked and not yet called
`notify_one`. A notification moves a waiting thread on and is lost if nobody waits; threads
may also wake without one. The scheduler's `timed_wait` compares with `schedUntil`, the due
time of the event that was on top when the wait began. A task is any value of `Tasks`; while it runs, `AddTask`, `AddEvent`, `StopEvent` and `AskShutdown` stand for whatever it does.
`outcome` and `cancelled` are history: they record what became of a task and for which
`stopEvent` answered TRUE, and no guard reads them except that a task is submitted once.

`addEvent` counts an id up, skips 0, and does not look whether the id is in use. Two events share one when the first is
still in the heap after the generator went once around; `stopEvent` of either then stops both, and whichever times out first
makes the other be deleted. The history `since` (how many ids were given out since the task got its own, modulo their number) tells
the model when that happens, and `lapped` is the set of the tasks it happened to: `StoppedNeverRuns` and the second
clause of `ActiveIdsAreQueued` promise nothing for them, and `ActiveIdsAreQueued` says that nobody else shares an id.

`EventService` has one clock, one status per task, a flag and the same account of ids (`Lapping`, `Forget`): that an event may be
lost to another one with its id is part of what callers must expect. The refinement mapping is at
the end of `TaskRuntime` (`StatusOf`): an event popped by the scheduler thread is already
"ready", a task is "started" from the moment the expiration test lets it pass.

### Connection and the code

The io thread's handlers are a queue of records (`ioQueue`), the dispatcher's tasks on this
connection another (`tasks`). A handler or task that runs under `m_connectionLock` is one
step. In a sweep, `sweepAt = 0` is the first loop of `sendAll`, over `m_toAddQueue`; from 1 on it is the place
in `m_autoSendOutputMessages`. Two lock orders matter and are kept apart: `sendAll` holds `m_outputPoolLock` while
`dispPc = "sweep"` and needs `m_connectionLock` for each message; `parsePacket` holds
`m_connectionLock` and needs the pool's lock while `ioPc = "parsing"` (disconnectClient, for a refused login or an unknown
packet) and while `ioPc = "kicking"`.

`BadPackets` says what a client that plays may send besides good packets: `"unknown"` ones and `"overrun"` ones, shorter than
they claim to be. The latter end in `Player::kickPlayer` (protocolgame.cpp:647-653, player.cpp:2674), which runs a whole
logout on the io thread: `ParseOverrun` closes the connection, and `KickPlayer` is each message that the removal of the
player writes to its own client and for which the current buffer has no room, so that the io thread takes the pool's lock and
counts references. (What else this logout does to the game without a lock is not modelled: the game's state is not part of this
module.)

`refCount` and `protoRefs` are the plain integers of the code: when `addRef` runs between the two ends of
`internalReleaseMessage`, either update may be lost (`raced`), and `miscounted` remembers that one was. From then on the counts
can be anything, and what depends on them is not promised: the protocol may be deleted while messages point to it. That
is the hazard at outputmessage.cpp:162; everything else holds after a lost update too. The shared pointers are modelled by
where a message can be: `autoSend`, `toAdd`, the running write, a handler, a release task.

boost::asio is modelled from its use: a closed socket aborts its operations, whose handlers
then run with an error; a cancelled timer whose handler is already queued still runs it; a
`weak_ptr` handler finds nothing after `onStopOperation`.

### WaitingList and the code

`login` runs as one task, so each branch of `clientLogin` with what its caller does is one step:
`LoginAlways`, `LoginWithRoom`, `LoginFromList`, `WaitLonger`, `Join`. An entry stores the seconds
it has left. `told` remembers the last player whose client got the "You are at place" message.

### Trade and the code

A request, an acceptance, a move and a logout are tasks of the dispatcher, so each is one step. `tradeState`,
`tradePartner` and `tradeItem` are the fields of `Player`, `tradeItems` is the map of `Game`. `at` says which cylinder an item
is in (a tile, a player's slots, a bag); `pos` where a player stands. `MoveItem` is `Game::internalMoveItem`,
`internalAddItem` (from `Nowhere`) and `internalRemoveItem` (to `Nowhere`), called by anybody; `ChangeItem` is an update in
place or a replacement.

| operator | code |
|---|---|
| `onRemove`, `onUpdate`, `onAdd` | the hooks of player.cpp 1541-1572, 1791-1899: whose trade ends |
| `Witnesses` | whom tile.cpp, container.cpp (two tiles) and player.cpp (the owner) call |
| `internalCloseTrade(S, touched)` | game.cpp 2993 for the players in S one after the other |
| `queryDestination` | player.cpp 3130: where an added item may go; the code takes the first one, the model any |
| `Transfer` | game.cpp 2801-2872: two tests, two moves whose results are ignored |

A request for an item too far away makes the player walk and repeats itself after 400 ms: that is the same request at a later
time. TRADE_TRANSFER lasts only during `Transfer`, where it keeps the hooks of the two traders silent (`others`).
A swap of two items by one move is two moves here. `Transfer` assumes that what `internalRemoveItem` allows in the
test (it ignores "not moveable") `internalMoveItem` allows too: in `data/items` every pickupable item is moveable.
`intact` is history: FALSE would mean that something was moved or changed and is on offer still.

### Groups and the code

Every packet of a player, and the player's leaving the game (`LeaveGame`, which is
`Player::onCreatureDisappear`), is one task and one step. The variables are the fields and maps of
the code; `owner` and `guests` are the fields of a private channel, `users` the users of any channel.
`leaveParty` is split as the code splits it: who succeeds (`Succession`), which parties end
(`Disband`, with the lists as they are by then) and what becomes of their channels (`Remaining`).

| abstraction | code |
|---|---|
| members of a party are a set, any of them may succeed | `memberList.front()` becomes leader |
| any free id for a private channel | the lowest of 100..9999 |
| leaving the party may be refused at any time | CONDITION_INFIGHT, which nothing here sets |
| a normal channel stands for the guild channels too | `getGuildChannel` by guild id |
| `Login` after `LeaveGame` is the same element of `Players` | a new object with the same guid, by which `guests` go |

Two things that the client's dialogs do not offer leave pointers behind, and the code refuses neither.

- `game.cpp:3156` does not ask whether the guest of a new party is its founder. Who invited himself is in `selfInvited` until he
  leaves the game: he is invited where he already is, and `leaveParty` takes him out of `inviteList` and leaves the
  party in his `invitePartyList`, also when it is deleted. `clearPartyInvitations` (player.cpp:4267) follows that pointer at his logout. In
  the model he then finds the list of a party that was made at the same place, or none; what a deleted one answers is undefined.
- `playerOpenChannel` checks the invitation nowhere: `getChannel` and `addUser` let anybody in who names the id of a
  private channel, and `removeUserFromAllChannels` looks only where the player is invited. Who came in that way is in `uninvited`; if he
  leaves the game he stays in `m_users`, freed, which is what `ghosts` records.

`PartiesAgree` and `ChannelUsersBelong` name these two as the only exceptions, and hold whatever the clients ask for.

### Creatures and the code

`crea` is a record per object in memory: free ("none"), placed ("in") or removed ("gone"). Operators take
the whole function and return it (`useThing2`, `setIdle`, `onCreatureFound`, `removeCreature` and so on have the
names of the code); an action applies one of them. `useCount` is counted up and down as the code does
it, and `CountsMatchHolders` compares it with the places that hold the creature.

| steps | code |
|---|---|
| `StartWalk`, `Think` / `Die` / `Unlist` for each creature, `EndWalk` | game.cpp 3740-3795: checkCreatures, one creature of the bucket at a time, then cleanup |
| `Login`, `Connect`, `Disconnect`, `Logout` | protocolgame.cpp: the client that holds a player |
| `Walk` | checkCreatureWalk with its cleanup |
| `ThinkPlayer` | player.cpp 1957: a player without a client, one whose pings have no answer and one who is idle too long are removed |
| `Attack` | game.cpp 3107: whom a player attacks, and with it the player's summons |
| `Hit`, `Convince`, `Summon` | what spells, runes and scripts do |
| `checkSpawn` | spawn.cpp, one monster at a time |
| `Destroy` | the destructor when `releaseThing2` comes to zero; nothing else happens before it |

The map is a set of areas: who is in the same one sees and is seen, and `Far` says which are more than 30 tiles apart, where a
master loses its summons. Spectators are told of an event one after the other in any order (`Orders`): the code's order is that of tiles
and of their creature lists. An entry of `ToReleaseThings` is counted in `release`.
`attacked` is `attackedCreature`: a bare pointer that moves with the orders of a master (`setAttackedCreature` asks each summon for its own
sight) and with the targets of a monster (`selectTarget`), and that only the events of a spectator clear. A monster without a master also selects a target inside the notification of a move (`PickTarget`,
monster.cpp:238-333), before the next spectator has been told; whom it picks, `Picks`, is any opponent it sees then, since whom it follows and
what stands in its way is left out. `AttackedAreInSight` says that these
events are enough, also when a creature is removed or lost sight of while its attackers are told one after the other.

## 3. Runs

| run | shows | instance |
|---|---|---|
| `task_safety` | who owns a task, what stopEvent promises, ids, flush; implements `EventService` | 3 tasks, 2 ids, clock to 3, delays below and above the minimum, symmetric tasks |
| `task_live` | no wakeup is lost | 2 tasks, fair threads |
| `task_runfile` | **violated**: shutdown does not end the process | 1 task |
| `connection_handlers` | socket, writes, reads, closes, counts and life times | 2 messages, every fault and both kinds of bad packets |
| `connection_live` | a closing connection is released | 1 message, every fault, good packets, fair |
| `connection_messages` | every message returns to the pool | 2 messages, every fault but silence, good packets, fair |
| `connection_locks` | **violated**: two lock orders | 2 messages, unknown packets, no faults |
| `waiting_safety` | order of the list, nobody overtaken | 5 waiting players, 2 premium, 1 staff, 2 places |
| `waiting_place` | **violated**: a premium player without a place | 1 place |
| `trade` | both sides agree, offers are listed, untouched and in reach; all or nothing changes hands | 3 players, 2 bags, 1 coin, tiles 0, 1, 3 |
| `groups` | pointers of parties, channels and reports agree and point into the game; leadership stays in the party | 3 players, one a gamemaster, one who reports; 2 parties, 1 private channel that two use, the rule channel; one asks for what no dialog offers |
| `creatures` | counts, who thinks, who notices whom, summons, whom they attack | 1 player, 2 monsters, 2 areas far apart, 1 bucket, a spawn of 1 |

Bounds, and why they are enough. Three tasks: one on its way through the scheduler thread, one
on top of the heap and one that overtakes it, or one running and two queued. Two event ids make the generator
wrap, and the third event gets the id of the first, which may still be in the heap: this is what the code does after 2^32 - 1
events. The clock stops at `MaxTime`; an event beyond it is not scheduled, so that time
reaches every event. `TaskExpiration` = 1 lets a task expire in the queue. Two messages: one in
a write, one that waits; a third only adds to the same lists. `MaxProtocolTasks` bounds the packets
a client can send ahead. In `connection_live` one message suffices: it holds up the close by its write, its handler or its
release. `connection_messages` has the second one, which waits in `m_toAddQueue` while the first is
written and may be dropped there after 10 s; the read timer, which asks for a close as a failed read does, is left to the other runs. `TimeStep` divides every timeout.

`trade`: tiles 0, 1 and 3 give every distance the code distinguishes (0, 1, 2, more). Two bags and a coin give
an offer in a bag in a bag. The third player is the one who asks a player who trades. One slot and two places in a bag
make that one item fits and the other does not; `MaxOffer` = 2 stands for the 100 items of game.cpp:2735 and refuses a bag with two things in it.

`groups`: with three players one can lead, one be a member and one be invited or be the heir; two parties allow
an invitation to one while in another. One private id means that the ids run out. `Reporters`, `Chatters` and `Custom` bound
who reports, who uses private channels, and who invites himself or opens channels uninvited: one player of each kind meets all others.
The actions themselves do not ask for these sets. Only the rule channel is asked for a
gamemaster, so other normal channels would add nothing.

`creatures`: two monsters can be each other's friend, target or master, or one a player's summon that the
wild other one meets. One bucket already has the states
"waits for a bucket", "in a bucket", "in it and no longer thinking"; more buckets only delay the visit. `MaxReleases` bounds
how often a player connects while earlier references wait in `ToReleaseThings`. Two areas that are far apart are walked between
in one step, as a teleport does.

`connection_live` and `connection_messages` have no bad packets: after one the two threads may wait for each other for
ever, which is what `connection_locks` shows, and then neither property holds.

### Fairness

`TaskRuntime`: the operating system runs a thread that can run (WF for each thread's steps and each owed
notification), a timed wait whose moment has come returns (SF, because notifications may
interrupt it over and over), task bodies return, time goes on. Nothing is assumed of spurious
wakeups and of callers.

`Connection`: both threads run what is queued, timers fire, messages get older, scheduled
retries come back (SF: other tasks come in between). `releaseMessage` pushes its task to the front, so a release
task is always taken first; other tasks wait in a first-in first-out queue behind finitely many, hence SF for the
close task and for login and logout. `GameTask` stands for the tasks that the server runs all the time
(checkCreatures, every 100 ms), after which sendAll runs. The client may do nothing, send too much or fall silent.

### What was found

1. `Scheduler::shutdown` does not notify. If the scheduler thread is in the untimed wait when
   the game shuts down, `main()` never ends its join, and `closeRunfile` does not run
   (otserv.cpp:122-123 says it must).
2. `sendAll` and a player's unknown packet take `m_outputPoolLock` and `m_connectionLock` in opposite orders; the server
   stops sending. The kick after a packet that is too short does the same.
3. A premium player who meets a full server is told a place on the waiting list, and is not on it
   (waitlist.cpp:115-125).

## 4. Proofs

`TaskRuntimeProofs` proves for all values of the constants (any set of tasks, delays, id width and clock)
that every reachable state of `TaskRuntime` satisfies `TypeOK`, `StoppedNeverRuns`, `SingleOwner`, `TimeoutHasDueEvent`,
`EventsNeverExpire`, `ActiveIdsAreQueued` and `NothingStranded`. The only assumption is
`ConstantsAssumption`.

None of these is inductive alone. The invariant `IInv` adds

- `PcInv`: which places of the two loops go with which values of `cur`, `schedTask` and the states;
- `ShutdownInv`: how far a shutdown has come (the state of the scheduler and the dispatcher, who holds the shutdown task);
- `StoppedInv`: a stopped task is still in the heap with an id that is no longer active, or is in the scheduler's hands with
  `schedRun` FALSE, or is gone; this is what makes `StoppedNeverRuns` hold when the timeout comes after the answer;
- `WindowInv`: the id of a queued event and `since` add up to the last id given out, or to that plus the number of ids; hence two queued
  events share an id only if one of them has seen all the others go by;
- `ExpiryInv`: a task with an event id has no deadline once it has left the heap;
- `TerminatedInv`: a terminated dispatcher's queue is being flushed or is empty.

One lemma per group of actions shows that `IInv` is kept; `Invariance` combines them, and each theorem is
a consequence. Lemmas about sequences (what pushing and popping do to membership and injectivity) are
stated first and cited by name.

It also proves `Spec => ImplementsEventService`. One lemma for each action of `EventService` says what has to
happen to the status and the deadline of one task (all others keep theirs, `SameBut`); one lemma for each step of the three threads
finds the facts that one of these asks for. Most steps map to nothing at all: waits, wakeups and notifications
(`Quiet`), but also the end of a body. A popped event is released or, if it was stopped, nothing; the hand-over to a closed
dispatcher, a refused `addTask` or `addEvent`, and `Scheduler::shutdown` abandon tasks. Two facts come on top of `IInv`:

- `SchedulingInv`: a queued event without an active id was stopped or has shared its id, so that the event the scheduler deletes is one whose caller knows;
- `ClosingInv`: the scheduler is closed before the dispatcher, and from `Game::shutdown` on, so that nothing is refused by an open service
  and an overdue task runs in the flush only.

`TradeProofs` proves, for any players, items, bags and tiles and from `TradeAssumption` alone, that `TypeOK`, `PartnersAgree` and
`OffersRegistered` hold (together they are inductive: a new offer is put on a free line of `tradeItems` only because a player
without an offer makes it, and ending a trade leaves no partner behind only because partners are mutual, `PartnersClosed`),
and `AgreementStands`. Every action either starts a trade (`StartKeepsInv`) or ends the trades of some set of players
(`EndKeepsInv`); which set the hooks come to does not matter for these, so the nesting of bags never enters this part.

Its second part is about the items: `OffersDisjoint`, `OffersIntact`, `TradersInReach` and `ExchangeOrNothing`. The invariant
`WorldInv` adds to these `Grounded(at)`: of any set of bags, one is in none of them, so that bags are never in a circle.

- `Outward`, which walks from bag to bag, is a recursive function. `OutwardSteps` shows that it exists and what its steps are
  (`RecursionExists`), and a pigeonhole argument that it leaves the bags in as many steps as there are bags
  (`OutwardLeavesBags`). From there on only `HoldsStep` and `TopStep` are used (what holds an item is its bag and what
  holds that), with `OutwardInduction`: what passes from a bag to what is in it is true of all items.
- `PutKeepsGrounded`, `PutLeavesOthers`, `PutKeepsContents` and `PutArrives` say what one move does to the nesting.
- `MovesAreHeard` and `ChangesAreHeard` are the heart: whoever's offer a move or change concerns, from the inside, from the
  outside or as the offer itself, is among those whom the hooks reach. They need that the owner is near, which is
  `TradersInReach`; so the three invariants only hold together.
- `SecondStillFits`: after the first of the two moves of a trade the place where the second offer was to go is still good for it.

`GroupsProofs` proves, for any players, parties and channels, `TypeOK` and `PartiesAgree` (inductive together; who invited himself
is kept apart throughout, since his own invitation can keep a party alive and his pointer can outlive it), `LeadersComeFromWithin`, `ReportsHaveBothEnds` (needs only the types), and
`ChannelUsersBelong` (needs the parties: who leaves a party is one of those whom `removeUserFromAllChannels` or the end
of the party takes out of its channel). `DisbandAgrees` and `LeavePartyAgrees` carry the proof: they say what the
lists look like after any set of parties ended, whatever led to it, so that leaving, revoking and logging out share them.

`ConnectionProofs` proves, for any number of messages, any faults and any packets, `CloseTaskMatchesState`, `OneWriteAtATime`,
`OpenMeansListening` and `SocketOutlivesItsUsers`. Handlers and tasks are counted by kind (`Count`, with one lemma for each thing
that is done to a queue), and the invariant is four statements about these counts:

- `CloseInv`: there is a close task exactly in REQUEST_CLOSE;
- `WriteInv`: on an open socket `m_pendingWrite` is the running write or its handler, and at most 1;
- `ReadInv`: an open connection has one read, or its handler, or is being parsed;
- `StopInv`: the stop handler is queued, owed by a retry, or has run exactly when the state is CLOSED, which no working socket
  ever is, and nothing but timers comes after it in the queue. This is what makes `onStopOperation` the last user.

`ConnectionReferenceProofs` proves `TypeOK`, `RefsMatchMessages` and `ProtocolOutlivesItsUsers` for any packets, and that
without bad ones no update of a count is lost (`CountsAreExact`). Its invariant adds

- `HeldInv`: a message out of the pool is in exactly one place, any other in none;
- `RefInv`: until an update is lost both counts are the number of these messages, and the current buffer is still in a list;
- `ProtoInv`: who may know of the protocol in each stage of its life. While the io thread refuses a first packet no message is
  out, so that no count is taken down at the same moment; and no task bound to the protocol is queued behind a close, so that the
  close task finds none left when it detaches the protocol;
- `CountInv`: the io thread takes a message out of the pool while the dispatcher returns one only for a bad packet of a player who
  plays.

`WaitingListProofs` proves `ListIsOrdered` and `NobodyIsOvertaken` for any accounts, limits and timeouts. `cleanUpList` is a recursive
function of the list; `CleanUpKeepsAPart` shows by induction over the list that what it leaves is a part of it in the same order. The
invariant adds to `ListIsOrdered` that only finitely many players are online, and that what an entry has left is a whole
number of steps of the clock.

`RecursionLemmas` is where induction comes from. The induction theorems of the library take a predicate as a parameter, which the
provers at hand cannot instantiate; `NatSetInduction` and `IntervalInduction` state induction for sets instead, and follow from the
well-foundedness of inclusion among finite sets. `RecursionExists` says that a function over an interval that is defined by its steps
exists.

`CreaturesProofs` proves every invariant of the run, `TypeOK`, `CountsMatchHolders`, `NobodyIsForgotten`, `SummonsHaveMasters`,
`AttackedAreInSight` and `MonstersWakeInSight`, for any players, monsters, areas, orders of spectators and sizes of the spawn. The
only assumption is `CreaturesAssumption`. For all but the last the invariant is `IInv`:

- `Good(crea)`: masters and summons know each other, the summons of creatures in the game are in it and have none themselves, and no
  summon is in it without its master (`Families`); free memory holds nothing that counts (`Fresh`); who is to be checked is in the game and
  listed (`Tidy`); players, monsters that are awake and the dying are to be checked (`Awake`); who attacks sees whom it attacks (`Aims`);
- `Accounts`: for each creature `Balance`, what is left of `useCount` after the references that the records of creatures show (friends,
  targets and summons, the map, the client, the lists of additions and releases), is what the spawn and the buckets hold; and a creature
  that is listed is once in a bucket or on its way into one;
- `Bounded`: how often a creature is, or may come to be, in `ToReleaseThings`, which includes what a walk over a bucket has yet to do;
- `Watched`: the spawn remembers only objects that exist, and if it misses a monster its check is scheduled;
- `Books`: the ranges of the variables other than `crea`.

The operations of the code call each other several levels deep, so the lemmas say of each what it does to a world, not which
conjunct it keeps: `Steady` operations wake monsters, put them to rest and change whom they know; `Waning` ones also hurt, remove and separate
creatures; `Even` says that every reference that came or went has been counted. All three are transitive. A loop over spectators is a recursive function
over an order of the creatures; for each loop a lemma named `...Turns` says that there is a sequence of worlds, one per turn, that ends in
what the loop returns. A relation kept by a turn is then kept by the loop, and what a turn establishes for its spectator
stands at the end if the later turns keep it.

A target that is selected inside a notification loop is neither `Waning` nor `Mindful` by itself. `Turning` is what the turns of such a loop do
to `Aims`: who attacks anew sees whom it attacks at that moment, and nobody changes areas after the move itself, so that the lemma
`PickTargetTurning` and transitivity carry `Aims` to the end of the loop; `PickTargetMindful` does the same for `Alert`.

`MonstersWakeInSight` needs one conjunct more, `Alert`, the property in the form that single operations keep, and the relation
`Mindful(K, L, x)`: from `K` to `L` nobody but `x` has come to be noticed, and nobody noticed has been forgotten. A move, a
placement and a conversion break `Alert` for the creature they are about; each turn of a spectator restores it between the two, and `Mindful`
carries it through the turns that follow. A removal takes summons and attackers along, each removed by its own loop, so `removeCreature` is
shown to be `Mindful` before the operations that call it.

Only model-checked: the liveness properties (`EventsLeaveTheHeap`, `TasksLeaveTheQueue`, `ClosingConnectionIsReleased`, `MessagesReturn`),
since neither fairness nor ENABLED is within the provers' reach. Every invariant and every action property of the passing runs is a theorem.

## 5. Not modelled

Within the modelled parts: the content of packets and encryption; ConnectionManager::closeAll (called by nobody); the pool's
`stop()`; other connections that share the pool; the loader task; in `Creatures` npcs, conditions, `semiIdle`, placements that
fail, protection zones, and whom a creature follows (`followCreature` is set and cleared next to `attackedCreature`, except that a summon
also follows its master); in `Trade` the shortcut of `Player::__queryDestination` (player.cpp:3140-3149) that tries the bag which took the last
item first: that bag is remembered only under `FLAG_IGNOREAUTOSTACK`, which no call in the source passes.

Not modelled at all: item moves between cylinders, houses and the saved map, decay, raids, bans, guilds, the
login, status and admin protocols, databases. Combat formulas, spells, path finding, the script engine, loaders and encodings are sequential
code of one task without state that others share.

## 6. What comes next

1. `Houses` with the transfer document that `Trade` leaves out; saving and a crash between two saves.
2. `Items`: moves between cylinders with conservation of counts when stacks split and merge.
3. `followCreature` in `Creatures`.
4. Composition of `Connection` with the dispatcher's shutdown (tasks refused after stop(), flush under `m_taskLock`).
