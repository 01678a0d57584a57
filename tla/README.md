# Verification of the Knight Online servers

TLA+ specifications of the concurrent and message-passing parts of this
repository (`src/`), TLC configurations that check them on small instances, and
TLAPS proofs of what is proved for every instance. Paths below are relative to
`src/src/` unless they start with `tests/` or `docs/`.

## 1. Inventory

### The system

The game runs as a set of processes built from the same server library:

```
 game client --TCP--> VersionManager                    (login, patch list)
 game client --TCP--> Ebenezer  <--TCP-->  AIServer     (game world / NPCs)
                      Ebenezer  <--shared memory queues-->  Aujard  --> database
                      Ebenezer  ---shared memory queue--->  ItemManager (log)
 operator ---telnet--> every server
```

Every server is an `AppThread` (start-up, stop requests, exit code); every
server that listens has a `TcpServerSocketManager` with a fixed pool of session
slots; bytes travel through circular buffers. On top of these lie the handlers
of the game: some 90 packet handlers in `Server/Ebenezer/User.cpp` and the NPC
logic of `Server/AIServer`.

| Component | State | Operations | Interacts with |
|---|---|---|---|
| Circular buffer (`shared/CircularBuffer`, `shared/ExpandableCircularBuffer`) | storage, head, tail | PutData, GetData, HeadIncrease, SetEmpty, BufferResize | session pool: send path fixed, receive path expandable |
| Packet framing (`TcpServerSocket::PullOutCore`) | none beyond the receive buffer | ReceivedData, PullOutCore | session pool, packet handlers |
| Session pool (`Server/shared-server/TcpSocket*`, `TcpServerSocketManager`) | id queue, socket arrays, per slot: state, send queue and ring, flags, error count | accept, QueueAndSend, AsyncSend, AsyncReceive, Close, CloseProcess, shutdown | worker threads of asio, every handler that sends |
| Client sockets (`TcpClientSocket*`) | as the session pool, connect instead of accept | Connect, Close | Ebenezer's link to AIServer |
| Process life cycle (`shared/Thread`, `shared-server/AppThread`) | `_canTick`, `_isShutdown`, status, exit code, `s_shutdown` | start, shutdown, join, signal handler, `/exit` | every thread of every server |
| Telnet console (`TelnetThread`, `TelnetClientThread`) | client map, acceptor | accept, commands, shutdown | AppThread |
| Timers and read threads (`TimerThread`, `ReadQueueThread`, `SendWorkerThread`) | small loops over `Thread` | tick, dispatch | users, queues |
| Shared-memory queue (`SharedMemoryQueue`) | bounded message queue | PutData with retries, GetData | Ebenezer, Aujard, ItemManager |
| AI server send thread (`AIServer/SendThreadMain`) | insertion queue, round-robin index | queue, tick, clear | NPC threads, game sockets |
| AI link (`Ebenezer/AISocket`, `AIServer/GameSocket`) | connection, user and NPC copies | connect, reconnect, resend all | Ebenezer, AIServer |
| Account session (`Ebenezer/User`, `EbenezerReadQueueThread`, `Aujard`) | account, character, user data cache | login, select, save, logout, heartbeat | database |
| Player trade (`Ebenezer/User` 6476-7053, client `SubProcPerTrade`) | partner, lists, mirror, window state | request, agree, add, decide, cancel | inventory, log-out |
| Party (`Ebenezer/User` 5993-6474) | party map, index per user | create, invite, accept, remove, delete | AIServer copy |
| Inventory, shops, warehouse, quests, upgrade (`Ebenezer/User`) | item array, gold | move, trade, get, exchange | trade, save |
| Combat and magic (`MagicProcess`, `Attack`) | hit points, durations | attack, cast | NPCs |
| NPCs and path finding (`AIServer/Npc`, `PathFind`) | NPC state, position, target | tick per state | send thread |
| Clans and kings (`KnightsManager`, `KingSystem`) | clans, elections | create, join, vote | database agent |
| Version and item manager | session lists, log file | version check, log | session pool, queue |
| Connection pool (`db-library`) | pooled connections | pull, restore, expire | servers with a database |
| Game client and engine, tools, formats | rendering, user interface, files | - | - |

### What is hard, and what correct means

* **Session pool.** Worker threads run completion handlers in any order while
  any thread queues packets or closes; slots are reused by id. Correct: one
  write in flight per connection, no queued packet overwritten or stranded, a
  requested close happens and only after the queue is written, a slot is never
  free and in use, nothing of one connection reaches the next.
* **Circular buffer.** Wrap of either cursor; full and empty look alike; the
  expandable one doubles its storage with bytes wrapped behind the old end.
  Correct: it is a FIFO byte sequence.
* **Process life cycle.** Stop requests from signals, telnet and failing
  start-up at any point. Correct: the process ends, with the right exit code.
* **Send thread.** Producers, a consumer that sleeps, a shutdown. Correct: no
  packet lost, doubled or reordered, no sleep on a non-empty queue.
* **Player trade.** Two clients' messages cross; gold is deducted when offered,
  the bag is rewritten from a mirror. Correct: gold and items are conserved, a
  trade is made only if both want it.
* **Party.** Invitations outstanding while members leave and indices are
  reused. Correct: members and indices agree.
* **Account session.** Two bounded queues, replies that name only a slot, two
  threads of the agent, a heartbeat that saves and logs out everybody, crashes of
  either process. Correct: one session per account, a character is loaded once,
  what was earned is saved and never overwritten by something older.
* **AI link.** Ten connections that overtake each other and break; both processes
  may end; users come and go while all of them are being sent. Correct: the
  copies converge.
* **Telnet console.** A map of clients filled on one thread, emptied on another
  and walked over by a third. Correct: clients are served, the process ends, no
  client calls a server that is gone.
* **Timers, connection pool.** Expiry. Correct: no operation waits for ever.
* **Inventory, combat, NPC, clans.** Mostly sequential under one mutex;
  correctness is about values (weights, counts, clamps).

`PROJECT.json` lists the hazards one by one, at the line where each bites, with
the properties that cover it or the reason why none does.

## 2. The modules

| Module | Models |
|---|---|
| `RingOps` | the cursor arithmetic of a ring, shared by `CircularBuffer` and `TcpServerSocket` |
| `ByteFifo` | what a bounded byte queue promises (abstract specification) |
| `CircularBuffer` | `shared/CircularBuffer.cpp` and `shared/ExpandableCircularBuffer.cpp`; implements `ByteFifo` |
| `CircularBuffer_proofs` | type correctness and the refinement, for every size |
| `TcpServerSocket` | the session pool; uses `RingOps` for each slot's send ring |
| `TcpServerSocket_proofs` | the slot accounting and the shutdown, types and the send chain of every slot, for any number of slots |
| `AppThread` | `Thread` and `AppThread`: start, stop, join, exit code |
| `Telnet` | the telnet console, composed with `AppThread`, which it extends and implements |
| `Telnet_proofs` | the process with its console, for any number of clients |
| `SendThreadMain`, `SendThreadMain_proofs` | the AI server's send thread; types, order, and that no packet is lost |
| `Exchange`, `Exchange_proofs` | the player trade: server handlers, client and the channels; types, bags, partners, gold |
| `Party`, `Party_proofs` | parties: server handlers, the AI server's copy, client window and the channels; types, lists, indices, copy, invitations |
| `AccountSession`, `AccountSession_proofs` | accounts and characters between game server and database agent, the two shared-memory queues, crashes of both; sessions, copies, saves, progress |
| `AiLink`, `AiLink_proofs` | the connections between game server and AI server: users and NPCs after breaks and restarts; types, and who is still known |
| `MC*` | the instances TLC checks, with one `.cfg` per run |

Definitions named `X_Something` and commented "Faulty variant" stand before the
definition `X` they vary. No specification uses them: they are the plausible
mistakes each property was tried against.

### RingOps, ByteFifo, CircularBuffer

`buffer`, `headPos`, `tailPos` are the fields `_buffer`, `_headPos`, `_tailPos`,
`size` is the length of the storage, and `expandable` says which of the two
classes the object is. One slot stays free, so a put of `len` bytes finds no
room when `len` is not smaller than the free room (`IsOverFlowCondition`): the
fixed class then refuses it (`PutRefused`), the expandable one doubles its
storage until it fits (`PutExpanding`; `TailMoved` and `Resized` are
`BufferResize`). A put that crosses the end of the storage is two copies
(`FirstCopyLen`, `Written`); a get wraps the same way. `passed` is the data that
crosses the interface: what the last put was given or the last get wrote through
its pointer. The assertions of `GetData` and `HeadIncrease` are obligations of
the caller and therefore guards.

`ByteFifo` is a sequence of bytes with append, read, remove from the front and
clear (a refused put changes nothing), over the same `passed`; `CircularBuffer` maps its valid
bytes, read from head to tail, to that sequence.

### TcpServerSocket

One record of variables per slot (`_state`, `_pendingDisconnect`,
`_socketErrorCount`, `_sendInProgress`, `_sendQueue`, the ring's cursors), the
manager's `_socketIdQueue` and `_socketArray`, and the outstanding operations:
asynchronous writes and reads, posted `OnPostClose` calls, and threads inside
`Close()` before and after its unlocked test. Actions are the handlers, split
exactly where the code holds no lock:

* accept: `AcceptArrives`, `AcceptAcquire` (under `_mutex`), `SetSocket` and
  `AcceptInit` (`InitSocket`; both without a lock, the assignments inside
  `InitSocket` taken as one step), `AcceptReceive` (first read, re-arm);
* send: `QueueAndSend`, `QueueOverflow`; a write's completion is `SendSucceeds`
  (error count, under `_mutex`) followed by `SendChain` (`AsyncSend(true)` under
  `_sendMutex`), or `SendFails` (`AbortSend`, `Close`);
* close: `CloseTest`, `CloseLocked`, `OnPostClose`/`ProcessClose`,
  `FinishClose` (the part of `CloseProcess` under `_sendMutex`, and the release);
* receive: `ReceiveData`, `ReceiveEnd`, `ReceiveForgiven` (the first error other
  than eof, after which the code posts no further read), `ReceiveFails`;
* shutdown: `StopAccept`, `ShutdownRelease`, `PoolStop`.

Packets are spans of the ring tagged with the connection that queued them; their
bytes are not modelled. A write may take a part of its span when
`PartialWrites` is set, as `async_write_some` may; the code then pops the whole
span. `unsent` is a history variable: the bytes such writes left in the ring.
Assertions are those of a release build, that is, they do nothing.

`AcquireSocket` puts the slot into `_socketArray` before it is set up, and
`GetSocketUnchecked` hands it out to anybody; `QueueAndSend` tests
`_pendingDisconnect` and nothing else. So packets are queued on a slot between
`AcceptAcquire` and `AcceptInit`, and between two connections too. A write
posted there is still under way when `InitSocket` resets `_sendInProgress` and
the ring and keeps `_sendQueue`: the next packet starts a second write beside
it. `overlapped` is a history variable, the slots whose connection began so;
`SendChainIntact` and `NoForeignBytes` speak of all others (`CleanStart`), and
without that exception both fail within ten steps.

`LateCompletions` says whether a slot may be acquired again while handlers of
its former connection are still to run. The slot accounting is checked with it,
and proved either way; a write of a former connection that is still under way at
`AcceptInit` is an overlap like any other, so the theorems about the send chain
need no assumption. That a posted close finds the queue empty
(`CloseFlushesQueue`) is not true with it, since a close posted for the former
connection ends the new one, and is checked and proved without. The assumption
without it is that ids are reused in FIFO order from pools of 3000 (Ebenezer's
players) or 100 (AI server) slots, so that a slot's completion handlers run
before its id comes round again; it says nothing of what happens after
`AcceptAcquire`.

### AppThread

`main`, the application thread and the signal handler have a program counter
each. `shutdown`, under `_mutex`, is one step; the application thread's loop
tests `CanTick` outside the mutex and waits without a predicate, and those are
two steps. The handler interrupts the main thread only and does not nest.
Logging and configuration values are left out, and telnet appears as a source of
`/exit` and of an exception that nobody catches (`TelnetThrows`) only: `Telnet`
says more.

### Telnet

`Telnet` extends `AppThread` with the console's threads: the telnet thread
(`loop`, `tick`), which listens and reaps clients that have ended; the one pool
thread that runs the acceptor's handlers (`accept`, the chain that re-arms
itself) and what completes the clients' reads (`PoolFree`); one thread per client
(`client`, `socket`), which writes by itself and reads with the pool thread's
help; and main, which stops the console in `~AppThread` (`closer`), clears
`s_instance` and destroys the map, with the clients still in it, and the pool.
`_telnetThreadMap` is `listed`; main and the
telnet thread walk over it without a lock, so a walk may or may not meet what is
put in meanwhile, and `missed` remembers the clients it need not meet. The
actions of `AppThread` are used unchanged but for the four that meet the
console: starting it, `/exit`, an exception, and the return of main. That the
composition implements `AppThread` (`ImplementsAppThread`, with the variables of
the same names) says that those four still are steps of the process alone.

What the code does there, and the properties allow by name: an address that is
not on the whitelist ends the accept chain for good (`TelnetThread.cpp:207`); a
client may be reaped between being listed and being started, and a client
accepted while main walks over the map is never disconnected, so that main waits
for its peer; a connection that the peer has reset makes `remote_endpoint()` throw
in the accept handler, at any time (`TelnetThread.cpp:238`), and `shutdown` in a
destructor (`TelnetClientThread.cpp:47`), and either terminates the process.
A client reaped before it was started is destroyed by the accept handler, which
joins its thread on the one pool thread; if the client is reading by then, only
that thread could complete the read, and neither goes on (`PoolDeadlock`): no
client is served or read any more, and main joins for ever. A damaged container, a
client joined by two threads at once, an accept posted on an acceptor that is
destroyed already and a client put into a map that is being destroyed are not
modelled.

### SendThreadMain

`queue()` pushes under the lock and notifies after releasing it; the thread
tests, waits with a predicate, swaps the queues and sends. The round-robin
counter keeps the code's double increment. Sockets become usable and unusable
at any time.

### Exchange

The server's handlers run one at a time (`ReceivedData` is called under the
manager's `_mutex`), so a handler is one action; between client and server there
are two FIFO channels per user, and messages of different users overtake each
other. The client side is the trade's state machine (`window`, `waiting`) with
the one exception that matters: message boxes can be answered while the trade
window waits. `mirror` is `m_MirrorItem`, the bag as it will be; `offerGold` and
`offerItems` are `m_ExchangeItemList`. Handlers of `ExchangeCancel` call the
partner's `ExchangeCancel`: `Cancelled` is the set such a chain reaches.

A user is a slot. Whoever leaves is saved with what is in his purse and bag, and
another one may enter (`LogIn`) with gold and items of those who are saved
(`storedGold`, `storedItems`). `CUser::Initialize` resets partner and decision
but neither list nor mirror, so a user who leaves with offers and no partner
leaves them to the next; `inherited` is the history of the slots where that has
happened, and the run also starts with such a list.

Left out: the 13-entry limit of the list (the client's grid holds 12), merging
of countable items and their clamps, weights (a refusal for weight is a
nondeterministic outcome of `ExchangeDecide`), serial numbers, the clamp of gold
at `MAX_CURRENCY`, the messages OTHERADD and OTHERDECIDE (they change no modelled
state), and changes of the bag from outside the trade.

### Party

Server, channels and message boxes are as in `Exchange`; here any number of
boxes may be open, one for each inviter's name. `index` is every user's
`m_sPartyIndex`, `party` the map of `userSocketIds`, `aiParty` the AI server's
`_partyMap`, `members` the client's party window. `PartyRequest` with `bCreate`
is `PartyCreate`, without it `PartyRequest`; `PartyDelete`, `PartyRemove` and
`PartyCancel` call each other as in the code, and `later` stands for the packets
the caller sends afterwards. A slot that logs out may be given to another user.

The AI server answers nothing about parties and gets its packets in order, so
its copy is written in the step that sends. A request may be refused for nation
or level at any time. Left out: hit points and levels in the list, item routing,
the party bulletin board, the loss of the AI server's connection, and the leave
command of a client whose window has one member (it sends a packet without its
subcommand, `GameProcMain.cpp:1684-1718`).

The game-time thread changes zones without the lock of the packet handlers; a
zone change is one step here whoever makes it.

`strayed` is a history variable: the users to whom one of three things has
happened that the code does not guard against. They are listed already and an
answer to an older invitation arrives; they accept and the party has filled up
meanwhile; somebody whose own party is gone removes them while they are in
another one. The properties speak of everybody else.

### AccountSession

A slot has the client's `stage`, the `account` logged in, and `data`, its block
of shared memory: whose character, its account (`m_Accountid`, which only a
selection that succeeds writes), and how much has been earned (`value`).
`toAgent` and `toGame` are the two `SharedMemoryQueue`s: a put into a full one is
refused, and what the caller then does is part of the caller's action; their
contents outlive a process. Packet handlers of the game server hold one mutex and
are one step each; the thread that reads the answers does not hold it, so the
answer to a selection takes two steps (`SelectionSucceeds`, `SendLoginInfo`). The
agent has two threads: the read thread serves one request at a time (`hand`), the
other watches the heartbeat (`scan`, `heard`). Both log users out
(`HandleUserLogout`, `job`), step by step: the test, the row in `CURRENTUSER`,
the save, the reset of the block. `AccountLogout` fails when there is no row to
delete, and the block is then saved but not reset (`LogoutAccount`). Faults are failures of the database, a
heartbeat that is late although the game server lives, and the end and restart of
either process.

`early` and `harmed` are history variables. A slot is `early` when its client left
while a login or a selection was out: answers name the slot only, and whoever is
connected there next takes them for his. An account is `harmed` when one of the
faults has touched it. The properties say which of the two they except.

One account has one character, so one name stands for both. Left out: the choice
of a nation, the creation and deletion of characters, the warehouse's contents, a
log-out for a change of server (`m_bLogout` 2).

### AiLink

`link` is the state of each of the `MAX_AI_SOCKET` connections, `toAi` and
`toGame` what is under way on each; `Send_AIServer` takes them in turn, so a
message may take any that is not known to be down, and is lost on one that is
broken. Each side counts connections made in one go (`answers`, `reAnswers`,
`connects`, `reconnects`) and sends its users or NPCs when all of them are there;
a count is given up when it is older than two minutes (`reAge`, `aiReAge`,
`Minute`). The game-time thread looks at one socket after the other
(`TickSocket`), reconnects it, and at the end of a round in which none was
connected deletes the NPCs (`TickEnd`). `SendAllUserInfo` walks over the slots and
sends the users in batches (`TakeUser`, `SendBuffer`, `EndSending`), while users
enter and leave. It takes no lock and looks at no state: `TakeUser` takes whatever
connection the slot has, also one that is not in the game yet, and one whose
`LogOut` has been passed and whose slot is not released yet (`UserLeaves` is the
point at which `CUser::LogOut` sends; the release comes later), if the slot's block
still names a character, and takes a user whose block has been emptied as nobody.
`LogOut` may also return before it sends (`LogOutReturns`). When a buffer is full
depends on connections without a character as well, which take places in it, so
the model leaves open whether it is sent when a user has been taken or only later,
and whether the rest is one short of full and not sent.

`astray` and `troubled` are history variables. `astray` has the users of whom the
last that was sent was lost, not sent, or may have been overtaken, or who were
taken wrongly by `SendAllUserInfo`; any later message of theirs that goes out in
order takes them out of it again. `troubled` says whether a count was given up or
NPCs were lost. One `NPCS` stands for the NPCs of all zones and
one `END` for all their ends, on one connection; ticks that begin with no
connection known to be down are left out, since they change nothing. The data
race on the round-robin index and the parties in `SendAllUserInfo` are not
modelled.

## 3. The runs

| Run | Checks | Instance |
|---|---|---|
| `ring` | `TypeOK`, `ImplementsFifo` (refinement) | 3 bytes of storage, growing to 6; packets of up to 4 bytes over 2 byte values |
| `sessions` | `TypeOK`, `SendChainIntact`, `NoForeignBytes`, `CloseFlushesQueue`, `CloseCompletes` (liveness) | 1 slot, 3 connections, 4 packets in a ring of 4 bytes, short writes |
| `pool` | `SlotPartition`, `ConnectedIsActive`, `ShutdownLeavesAtMostOne` | 2 slots, 3 connections, late completions, shutdown |
| `telnet` | `ConsoleTypeOK`, `ExitCodeTellsStartup`, `ClientsEndBeforeServer`, `ImplementsAppThread` (refinement), `StopOutsideGapExits`, `StopEndsProcess`, `EveryClientIsServed` (liveness) | 2 clients, 1 stop |
| `send_thread` | `TypeOK`, `PacketsAccountedFor`, `SentInOrder`, `EveryPacketSettles` (liveness) | 2 sockets, 3 packets |
| `trade` | `TypeOK`, `MirrorDividesBag`, `GoldAccountedFor`, `PartnersMutual` | 3 users, 2 requests, 1 offer, one slot left and entered again |
| `party` | `TypeOK`, `MembersAgree`, `InvitationsCanBeAnswered`, `AiServerAgrees` | 3 users, 3 places, 2 party indices, 3 invitations, 2 departures |
| `account` | `TypeOK`, `OneSessionPerAccount`, `OneSlotPerCharacter`, `SessionPlaysItsCharacter`, `LoginRecordHasOwner`, `SavedNeverRegresses`, `ProgressKept` | 2 slots, 2 accounts, queues of 2, 3 events: connections, saves and kick-outs asked for, faults |
| `account_crash` | `CrashSavesEveryone` (liveness) | 2 slots, 1 account, queues of 2, 3 events: connections, saves and kick-outs asked for, faults |
| `ai_link` | `NoGhosts`; `UsersConverge`, `NpcsConverge` (liveness) | 2 connections, 1 user, 3 events: entries, log-outs, users taken wrongly, at most 1 break, at most 1 crash |
| `lost_wakeup` | `StopExits` is violated | 2 stops |
| `trade_approval` | `BothApproved` is violated | 2 users, 2 requests, 1 offer |

### What they show

* Both rings are FIFO byte queues, across every wrap and the growth of the
  storage; a put is all or nothing.
* In the session pool, under all interleavings of the instance: a live
  connection has one write in flight exactly when `_sendInProgress` says so and
  has something queued; the queued spans, and what short writes left behind,
  fill the used part of the ring exactly, so no put overwrites a span that is
  being written; nothing of a former connection is sent to the next; a
  pending disconnect waits for the queue to empty and is carried out.
* The slots are partitioned between the id queue and the active array until
  shutdown, late completions included, and shutdown leaves at most the one
  connection standing whose accept had passed its test.
* A server process told to stop ends, unless the stop falls between the loop's
  test and its wait, or a console client connected too late to be disconnected
  keeps it, or the console's pool thread and a client wait for each other; a
  failed start-up ends it with exit code 1; an exception of the console may
  terminate it before. With its console the process does nothing that `AppThread`
  does not allow. Whoever connects to the console is served, until somebody was
  refused or that deadlock.
* The send thread accounts for every packet, in order, and always joins.
* In a trade, with a third user asking either of two partners or answering late,
  no cancel, refusal, decision or log-out leaves one of two partners behind, but
  in the ways the property names; offers and mirror divide the bag, but in a slot
  with a former user's list or mirror; gold is lost only by the two kinds of step
  the property names, never created, and a cancel returns all of it. It stays
  with its owner until a decision, or until another user enters the slot.
* An account never has two sessions and a character is never loaded twice,
  through evictions, late log-outs, late heartbeats, crashes and restarts; a save
  never takes a character back; what was earned reaches the database unless one
  of the named faults touched the account; after a crash of the game server the
  agent saves everybody and leaves nobody in the game, if it has heard of the game
  server; it does not empty every slot.
* The AI server keeps nobody who is not in the game, but while his log-out is
  under way, or when the last message of his was lost, overtaken or not sent, or
  his connection was taken into a batch while it was not in the game. After breaks
  and restarts it comes to know exactly the users in the game, and the game server comes to have NPCs again, but for what the history
  variables name: each of those exceptions is reached in the instance.
* Whatever invitations, answers, leaves, zone changes and log-outs cross, a
  party's list, its members' indices and the AI server's copy agree, and an
  index without a place is an invitation that can still be answered; the three
  kinds of steps that break this are named in the module and happen in the
  instance.

### Disagreements with comments

Two are kept as runs that TLC must find violated; `PROJECT.json` quotes the
lines under `findings`:

* `lost_wakeup`: a stop between the loop's test of `CanTick` and its wait is
  notified to nobody, and the server waits for ever.
* `trade_approval`: a decision sent in a trade that the other user cancelled
  meanwhile counts for the next trade.

The same models have further behaviours a maintainer will want to know. They
are part of the modelled control and are not runs of their own:

* A short write drops the rest of its packet from the queue
  (`TcpSocket.cpp:126`).
* When the peer's eof is processed between a write's completion and its handler,
  `assert(_sendInProgress)` (`TcpSocket.cpp:65`) fails in a debug build; a release
  build finds an empty queue and goes on.
* A connection accepted while shutdown releases the slots outlives it, and its
  close releases a slot that is not active (`TcpSocketManager.cpp:96`).
* A signal handled between the construction of the server and `start()` stops
  nothing and makes all later ones ignored (`AppThread.cpp:232-236`).
* A stop during start-up is reported as STARTING or READY again
  (`AppThread.cpp:174,182`).
* With an even number of sockets the send thread skips a packet without having
  tried every second socket (`SendThreadMain.cpp:86,91`).
* An AGREE that was overtaken by a cancel and a new request clears the lists of
  both users with gold in them (`User.cpp:6888`).
* `ExchangeReq` makes two users partners without a backup; two stale decisions
  then complete a trade with empty mirrors, and the bags are overwritten with
  them (`User.cpp:7036`).
* Who logs out with gold listed and no partner any more is saved without it, and
  the next user of the slot is paid it by his first cancel: `Initialize` clears
  neither list nor mirror (`User.cpp:126-127`, `6864-6872`).
* An ADD that meets a cancelled trade is not answered, and the client's trade
  window waits (`User.cpp:6601`).
* With three users, a user can be the partner of two; a trade whose second party
  has a partner of its own may leave an item in two bags.
* An answer that was on its way while its party was dissolved and its sender
  changed zones is taken for the next party's invitation; the second answer then
  lists the user twice, or drops his index while he stays listed
  (`User.cpp:6237`, `6061`).
* Two invitees of a party with one free place may both accept; the second is
  told of the members, gets no place, and keeps the index, so that nobody can
  invite him (`User.cpp:6278-6292`).
* A leader who invites a second user before the first has answered is refused,
  and his window is emptied (`GameProcMain.cpp:5216`); when the first accepts,
  the window shows one member and can neither leave nor dissolve the party.
* The answer to a log-out that comes late closes the session that has the slot
  by then, if its character is loaded; the selection screen of a session evicted
  by a second login gets no answer any more.
* A session's log-out is skipped silently when another session holds its account
  (`HeldElsewhere`): the other one's log-out does the work.
* A game server that ends with a `WIZ_LOGIN_INFO` on its way leaves a row in
  `CURRENTUSER` that no session owns; the next login of that account is refused
  once, which removes the row.
* An agent that is restarted while the game server is down has not heard of it
  and saves nobody (`AujardApp.cpp:1140`).
* A log-out of an account that has no row in `CURRENTUSER` (a client that leaves
  between its selection and `WIZ_LOGIN_INFO`, a row that a kick-out or a first
  log-out whose save failed has deleted, a block whose warehouse did not load and
  that holds no account) saves the character and never empties its slot
  (`DBAgent.cpp:1143-1148`, `AujardApp.cpp:368-396`). Whoever selects the
  character is then not answered, until the slot is loaded for another one or the
  game server restarts.
* The count of reconnections is not reset when a single connection was lost and
  made again; after a later restart of the AI server the game server then never
  counts to ten at the right moment and its users are never sent
  (`AISocket.cpp:251`). An AI server that ends before its first ten connections
  are counted is not reconnected at all.
* A user who logs out after `SendAllUserInfo` has read him into its batch, or
  whom it reads after his log-out was sent and before his slot is released, or
  whose log-out overtakes his entry on another connection, or is not sent because
  his block is empty or another session has his account (`User.cpp:1440-1451`),
  stays known to the AI server; a rest of one user less than a full batch is not sent at all, and a
  message on a broken connection is lost silently.
* A tick that has just reconnected the links may delete the NPCs that came with
  them, or leave their use disabled; NPCs of an AI server that was restarted
  quickly are refused because the old ones are still there.
* A game server restarted within ten seconds finds the users of its former life
  still known to the AI server until each of them enters again.

### Bounds, and why they are enough

* Ring of 3 bytes (2 usable) growing to 6: puts wrap at every offset, meet the
  full ring, and double it with bytes wrapped behind the old end and without;
  a packet of 4 bytes does not fit the fixed ring even when it is empty.
* `sessions` has one slot: its properties speak of one slot each, and slots
  share nothing but the id queue. With two connections what the first leaves
  behind, and what is queued between them, can meet the second; three packets in
  a ring of four bytes make the ring wrap with a span in flight and one behind
  it, and overflow. Three connections with four packets were checked too.
* `pool` has two slots and three connections: a slot is reused while the other
  is live, and an accept finds the id queue empty.
* `telnet` has two clients: one can be served, reaped or refused while the next
  is being accepted or disconnected. One stop is enough there; two stops race
  each other and the start-up in `lost_wakeup`.
* Three packets and two sockets: one is in flight, one is queued behind it, one
  arrives after the swap.
* `trade` has three users, the fewest with which a partner can have another
  partner; two requests and one offer let a message of one trade meet the next.
  A client sends the next packet when the server has handled the one before
  (`MaxBacklog` 1): the server's handlers still come in every order, since a client
  that waits for longer sees no less. The first user's slot may start with a coin
  in its list, and may be left and entered by penniless users any number of times.
  Two users with two offers, and three with three requests, were checked with an
  earlier form of the model, with the same results.
* Two slots and two accounts: an account can log in a second time, a character
  be loaded while its former slot is still being logged out, and a slot be reused
  under an answer. Queues of two fill up. Three events are three connections,
  two connections and a crash or a kick-out, or a connection, a save and a fault.
  With any number of saves and kick-outs beside the three events the instance was
  checked too, with the same result (2.2 million states).
* Two connections stand for ten: with two there is a first, a last and a single
  one that is lost; a break takes any set of them. One user who enters and leaves
  can be overtaken by himself. He need not share a buffer with others for it to
  be full, or one short of full, when his place is taken: connections without a
  character do that, and the batches of other users do not concern him. A crash
  and a break are enough for a count left standing to meet the next reconnection,
  and leave one event for a user who enters, logs out or is taken wrongly between
  them; with one of the two a user can do two of these.
* Three users, three invitations and two departures: a user can be invited,
  change zones and be invited again with the first answer on its way, and a
  party can fill up. Two indices come round after the second party. Four users
  with three invitations and one departure were checked too: there three
  different users compete for two places.

Bounds are constants named `Max...` (`Leavers` for log-outs), guards of the
actions that feed the system. `CHECK_DEADLOCK FALSE` is used where the bounds
make a run stop. Symmetry is used in runs without liveness only, over slots,
users or accounts that the instance does not tell apart.

### Fairness

* `TcpServerSocket`: the operating system completes every write (weakly fair
  completion per slot), and asio's workers run every posted handler and thread
  inside `Close`. Nothing is assumed of peers, of the callers of `Close` or of
  reads.
* `AppThread`: each thread that can run does. Stop requests and spurious
  wakeups are not assumed.
* `Telnet`: the same, and the console's threads with the signal handler together
  are weakly fair: each of them has a finite number of steps to take with a finite
  number of clients and stops, so one condition makes all of them finish. Nothing
  is assumed of peers. The process may really stop for good where the pool thread
  and a client wait for each other: `Stuck` lets it, and any other deadlock is an
  error of the run.
* `AccountSession`: the agent's two threads run. Nothing is assumed of clients,
  the game server, or its restart.
* `AiLink`: the game-time thread and the worker thread of each side run. Nothing
  is assumed of users, of time, of faults, nor that an AI server that has ended
  is started again.
* `SendThreadMain`: the thread runs when it can, a `queue()` that pushed gets on
  to its notify, an owner that began to shut down gets on to `clear`. That any
  shutdown or any usable socket ever comes is not assumed.
* `Exchange` and `Party` are checked for safety only.

## 4. The proofs

Every theorem is about `Spec` with arbitrary constants: any number of slots,
users, clients, any capacities and bounds. The assumptions are the named
`ASSUME`s of the modules (finite sets, a `No...` value outside them, positive
sizes, bounds that are numbers); nothing else is taken for granted. Where a
theorem needs more it says so in its statement. Each inductive invariant was
first checked by TLC on an instance.

* `CircularBuffer_proofs`: `TypeCorrect`, and `RingImplementsFifo`: every step of
  the ring is a step of the FIFO or a stutter. The i-th oldest byte lies at
  `Position(size, head, i)`; the lemmas `PutCursors`, `PutStorage` and
  `PutContents` say what a put that fits does to the cursors, the storage and the
  contents, and `GrowthKeepsContents` that `BufferResize` leaves the contents
  alone. A put into a buffer that had to grow is then a put that fits, applied to
  the resized storage.
* `TcpServerSocket_proofs`: `SlotsPartitioned`, `ConnectedSlotsActive`,
  `OneLeftStanding`, with short writes, late completions and shutdown. None of
  the three is inductive. `Accounted` says two things: while the pool serves,
  `PoolInv` (a slot under accept or close is active, not connected and not the
  other one: without it a second `FinishClose` could release a slot twice); and
  once shutdown has released the slots, `ReleasedInv` (two connections cannot both
  be left, because an accept that is still on its way finds nobody connected).
  Facts about the id queue as a sequence are lemmas of their own. For each slot
  apart: `TypeCorrect`, `ChainIntact` and `BytesOfOwnConnection`, without further
  assumption. The invariant `SlotSound` speaks of a slot between two connections
  too: a queue that is not empty has a write under way, even on a dead slot or on
  one that began badly, so a slot on which nothing is being written has an empty
  queue. That is what lets `InitSocket` leave `_sendQueue` alone.
  `FlushedBeforeClose`, under `~LateCompletions`, rests on `CloseSound`: no close
  is posted to a slot that is being set up, because `Close()` tests the state.
  The ring lemmas `RingPut` and `RingPop` say that a packet
  that fits lies behind the others and that popping one, fully written or not,
  leaves the others where they are.
* `SendThreadMain_proofs`: `TypeCorrect`; `OrderKept`: what was sent, what is
  being processed and what waits are increasing sequences, each before the next,
  across the swap, the skipping of packets and `clear`; and `NothingLost`.
  `PlaceInv` divides the packets between the two queues, the sockets and the
  skipped and deleted ones, and says why the shutdown leaves nothing: only a
  thread in its tick has packets in hand, and once the owner has cleared the
  queue no tick can start.
* `Telnet_proofs`: `ConsoleTypeCorrect`; `ConsoleImplementsProcess`, the
  refinement of `AppThread` by the composition, by one case per step of the
  console; `ExitCodeSound`, which follows from the process alone and carries over
  by the refinement; `ClientsGone`, from an invariant that says which clients
  main has still to meet at each point of its walk.
* `Exchange_proofs`: `TypeCorrect`, `BagsDivided`, `PartnersPartTogether`,
  `GoldKept`. The chain of `ExchangeCancel` calls is the least set that holds the
  canceller and with every user his partner; two facts about it are enough. The
  action property has one lemma per handler, which says who of two partners it
  can part. `ListsDivide` adds to the property of the bags that an empty slot
  holds no list and no mirror, unless it passes them on. The gold of all users is a fold over a set, a recursive function on its
  subsets. That the sum exists, does not depend on the order and grows with its
  terms is proved by induction over finite sets, stated for sets of sets
  (`SetInduction`); the lemmas `SumFirst`, `SumTake`, `SumMonotone` and `SumPlus`
  then reduce every handler to the two or three users it touches. `NoSelfTrade`
  (nobody trades with himself, nor has a request to himself on its way) is needed
  because paying a user in his own trade would count his gold twice.
* `Party_proofs`: `TypeCorrect`, `MembersKeepTheirParty`, `CopyKept`,
  `InvitationsStayOpen`. `PartyInv` says of every
  user who was not led astray that he is online when listed, has that party's
  index and one place; that every list has a leader; and that the copy agrees.
  Online is what keeps the next connection in a slot out of its predecessor's
  party. `ChannelTypes` adds the packets under way. `InviteInv` is the invitation
  of an unlisted index followed from the server's packet over the client's window
  to the answer; each handler that takes one of the three away must clear the
  index, list the user, or lead him astray.
* `AccountSession_proofs`: `TypeCorrect`, `OneSession`, `OneCopy`, `SavesAdvance`,
  `PlaysItsCharacter`, `RecordsOwned`, `ProgressSafe`.
  A character is loaded once and its copy is never behind the database; a save
  writes such a copy, a load makes one, and no other step changes either. That is
  `CopyInv`, into which the queues enter through their type only. The last three
  need what the queues hold, in order; the request in the reader's hand counts as
  the first of its queue (`Line`). `SInv` speaks of every session that no answer
  for a former session of its slot can reach: it has at most one login or
  selection out, as a request or as an answer, and no older log-out or selection
  can follow what it was granted. `DInv` adds, for characters that no named fault
  touched: one that is unsaved or recorded as in the game is played by its session or
  has a log-out in the line, and no selection for its slot is served before one
  (`PreciousGuarded`); a row of the login record is, or is about to be, of a loaded
  character (`LoginInfoLoaded`, `CurrentLoaded`), which is in its slot under its
  own account (`Filed`); and a thread in the middle of a
  log-out has done the earlier parts of it (`JobDone`, `ReaderJob`, `KeeperJob`).
* `AiLink_proofs`: `TypeCorrect` and `GhostsGo`. `Faithful` says of every user who
  is neither astray nor in the buffer being filled that all messages about him are
  on one connection, that the last of them says whether he is in the game, and
  that the AI server knows him only if he is, when there are none; and that a
  user in the buffer is in the game or astray. The converse, that the AI server
  knows everyone who is in the game, is no invariant: it forgets them when it ends
  and is told again.

Only model-checked: everything under fairness (`CloseCompletes`,
`StopOutsideGapExits`, `StopEndsProcess`, `EveryClientIsServed`,
`EveryPacketSettles`, `CrashSavesEveryone`, `UsersConverge`, `NpcsConverge`),
which the prover does not reach. Every invariant, action property and refinement
that a run finds to hold is a theorem, and `AiLink`'s `TypeOK` is proved without
a run of its own. What the send chain does on a connection that began with a
write under way, and a close with late completions, are neither proved nor
checked: the properties are false there, as described above.

## 5. What is not modelled

* Packet framing (`PullOutCore`): sequential parsing over the expandable ring;
  the part of it that is hard to get right, the ring, is modelled and proved.
* The effect of inventory operations on a running trade: the handlers of item
  moves, shops, warehouse and upgrade test the partner first; loot that a party
  member's kill routes into a trading user's bag does not, and is outside the
  trade model.
* The alive check and the other timers (`TimerThread`, `ReadQueueThread`,
  `SendWorkerThread`): small loops over `Thread` whose work is an action of the
  modules above.
* The unlocked interleavings inside one handler (zone changes by the game-time
  thread, the round-robin index of the AI link, the telnet map): data races whose
  outcome is not bounded by the code; each module says where it takes such a
  step as one.
* Combat, magic and NPC behaviour, path finding: formulas over values and
  positions. Clans and kings: requests to the agent, one at a time, and an
  election schedule. The version and item managers: request and response over
  the session pool, a log writer. The connection pool of `db-library`: one
  thread per pool user. The client's rendering and user interface, tools and file
  formats: input and output, where a model checker has little to add to a test.
