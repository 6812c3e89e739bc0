# Landlord in TLA+

Landlord is the server of the card game Dou Dizhu (three players, one of them
the landlord), written in C++ on the frame of a MaNGOS/TrinityCore world server.
This directory models it: the rooms and the players in them, cards and accounts,
the AI players that fill the seats, sessions and sockets, the threads, and the
library code under `shared/`.  The server has no tests and no documents beyond
its comments and `worldserver.conf.dist`; the modules are translated from the
source, whose paths below are relative to `src/src/server/`.

## 1. Inventory

| component | state | operations | talks to |
|---|---|---|---|
| Main loop (`worldserver/Main.cpp`) | tick times | `WorldUpdateLoop`, shutdown | World, io threads |
| World (`game/World`) | session map, queue of new sessions, configuration | `Update`, `AddSession_`, `UpdateSessions` | WorldSession, RoomManager |
| WorldSession (`game/Server`) | socket, player, packet queue, timeout | `Update`, six packet handlers, destructor | Player, RoomManager, WorldSocket |
| WorldSocket, Socket (`game/Server`, `shared/Networking`) | buffers, write queue, closing flags, session pointer | read header/data, `AsyncWrite`, `CloseSocket` | WorldSession, on io threads |
| Packet log (`game/Server/Protocol`) | a file | `LogPacket` | io threads, world thread |
| RoomManager, RoomUpdater (`game/Room`) | room map, interval timer; workers, request count, token | `Update`, `schedule_update`, `wait`, `deactivate`, `WorkerThread` | Room, ProducerConsumerQueue |
| ProducerConsumerQueue (`shared/Threading`) | queue, shutdown flag, condition | `Push`, `WaitAndPop`, `Cancel` | the threads |
| Room (`game/Room`) | player map, queues of one, two, three | `Update` and its four loops, `AddPlayer`, dealing | Player, AiPlayerPool |
| Player (`game/Player`) | status, type, queue flag, neighbours, session, clocks, bid, landlord, cards, account | `Update` and its seven checks, `addPlayer`, `logOutPlayer`, `UpdatePlayerData` | the two neighbours, the session |
| AiPlayerPool (`game/AI`) | stack of AI players, a lock | `getAiPlayer`, `releasePlayer` | all rooms |
| OutCardAi (`game/AI`) | none | picks the cards an AI plays | Player |
| ByteBuffer, WorldPacket (`shared/Packets`) | bytes, two positions | append, read, put, the header | sockets, handlers |
| Logging (`shared/Logging`) | loggers, appenders, files | configuration, reload, `SetLogLevel`, `_write` | every thread |
| Timers, EventMap, EventProcessor, Util (`shared/Utilities`) | their own | library code; EventMap and EventProcessor have no caller in the server | |
| Configuration, crash reports, services, priorities | read once, or none | calls of the operating system | |

What is hard here:

* **Threads without player locks.** Handlers on the world thread and
  `Room::Update` on the workers change the same players; only the order of the
  tick keeps them apart.  That order is one counter, two locks and two condition
  variables.  The io threads read a session pointer without any lock.
* **Raw pointers.** A player is held by its session, its room's map, one of three
  queues and two neighbours, and deleted by whichever notices that it has left.
* **A protocol of statuses.** One byte per player carries the lobby, the bidding,
  the turns, the end of the round and the logout; neighbours write each other's,
  and the order of a hash map decides who is visited first.
* **Leaving.** At once when the connection is lost (`~WorldSession`), in the next
  `Player::Update` when asked for (`HandlLogout`), in the lobby or in the middle
  of a game, where an AI takes the seat and the cards.
* **Time.** Silence, waiting and AI delays are counted in ticks whose length is
  computed from a 32-bit clock and the sleep of the tick before.

What makes each component correct: the updater keeps session handlers and rooms
apart, updates each room once per tick, and shuts down without touching a deleted
room; a room has each player in one place, deletes it when nothing points at it,
finds a game for everyone who waits, and gives its AIs back; the players of a
table form a ring, agree on the landlord, and take turns until the round ends; a
hand is what was dealt without what was played, and an account the sum of its
rounds; a session has one owner and ends when its client is silent; a connection
delivers whole messages in order and writes what it was given.

## 2. Modules

| module | models |
|---|---|
| `TickBarrier` | what the updater promises (abstract): session phase, room phase, each room once |
| `RoomUpdater`, `RoomUpdater_proof` | `RoomManager::Update/UnloadAll`, `RoomUpdater`, `ProducerConsumerQueue`; their theorems |
| `Player`, `Player_proof` | the methods of `Player` as operators on a memory of players; what each keeps of it |
| `Room`, `Room_proof` | one room with its map, queues and AI pool, the session handlers and the clients; its theorems |
| `Hands`, `Hands_proof` | shuffling, dealing, playing and relaying cards at one table, `OutCardAi`, leaving with cards; its theorems |
| `Account` | `PlayerInfo`: gold, level, score and rounds through logins and ends of rounds |
| `SharedPool`, `SharedPool_proof` | `AiPlayerPool` with its lock under rooms on workers of their own; its theorem |
| `Session`, `Session_proof` | connections, `WorldSession::Update`, the session map and `addSessQueue`, timeouts, logout, the io thread's pointer; their theorems |
| `Channel` | what a connection promises its reader (abstract): whole messages in order, until it is closed |
| `Framing` | the reader of `Socket` with its two `MessageBuffer`s |
| `WriteQueue` | `AsyncWrite`, `WriteHandler`, `CloseSocket`, `DelayedCloseSocket` under several threads |
| `Socket_proof` | the theorems of both sides of a socket |
| `ByteBuffer`, `Packet` | the encodings as operators; a packet from writer to reader, cut or whole |
| `PacketLog` | the packet log, its `FILE`, its threads and a killed server |
| `Logging` | `LoadFromConfig`, loggers, appenders, reload, `SetLogLevel`, prefixes |
| `LogFile` | `AppenderFile`: modes, sizes, backups, one file per parameter, threads and crashes |
| `WorldLoop`, `Timers` | the loop of the main thread with the clock and `RoomManager`'s interval; the four timer classes |
| `Words_proof` | the theorems of what is added up in words: `Account`, `WorldLoop`, `Timers` |
| `EventMap`, `EventProcessor` | the two schedulers |
| `Text`, `Utf8` | tokens, blanks, money, periods, case; UTF-8 and UTF-16 of `Util.cpp` over `utf8cpp` |
| `MCRoomUpdater`, `MCRoom`, `MCSession` | instances of one module for TLC |
| `MCNetwork`, `MCGame`, `MCShared` | instances of several modules for TLC |

Components that share state are one module (the players, queues, pool and
sessions of a room; the pool under two rooms; the io and the world thread of a
session).  Where one component only relies on another's promise the promise is
stated and checked by itself: no handler of `Room` interleaves with its loops,
which is what `RoomUpdater` implements `TickBarrier` for; `Session` receives
whole packets in order, with bodies that are as long as what is read of them, which
is what `Framing` implements `Channel` for (up to the first that is not).

**The last three MC modules.**  `MCNetwork`, `MCGame` and `MCShared` each hold
several parts that share no variable.  The variable `part` is chosen in the first
state and never changes; only the chosen part takes steps.  The states of the run
are the disjoint union of the states of its parts, so an invariant that is about
one part is checked on exactly the states of that part.  A property that is true
only in one instance of a module says so (`part = "turns" => ...`), and where a
module has two instances each property is stated in those it is claimed for.
`MCNetwork` extends `Session`, `Framing` and `WriteQueue`, and `MCGame` extends
`SharedPool`, `Hands` and `Account`: the properties of these modules that the runs
check are the very definitions that the theorems are about.  The other parts are
instances; `Turns` and `Dealing` are instances of `Hands` with other constants on the
same variables, and `HandsInit` to `HandsSpec` and `AccountInit` to `AccountSpec` are
named so that the modules can be extended together.

**Composite properties.** What one component promises is one property of a run: a
conjunction of named parts, each stated with its comment in the module of the
component.  A counterexample of TLC falsifies one of the parts.

| property | parts |
|---|---|
| `WaitsEnd` | `TickCompletes`, `ShutdownCompletes` |
| `TablesAgree`, `RoundsBegin` | `SeatedOnce`, `TablesLinked`, `LandlordAgreed`; `StartedIsDealt`, `DealtIsPlayed` |
| `SessionsAreSound` | `SessionsOwned`, `OneLinked` |
| `PacketsAreHandled` | `HandledInOrder`, `NoNullPlayer`, `NoStaleUse` |
| `SessionsProgress` | `SilentSessionEnds`, `LoginIsAnswered` |
| `ImplementsChannel` | the refinement of `Channel`, `BuffersAreRecent` |
| `NothingWaits` | `AllDelivered`, `Flushes`, `WriteQueue!InOrder` |
| `TurnsAreKept` | `PlaysInTurn`, `EarnsItsLead`, `AiAnswers` |
| `CardsAreTrue` | `DealIsFair`, `HandIsTrue`, `PlayedOnce`, `NoOverrun` |
| `AccountAddsUp` | `GoldIsSum`, `ScoreIsEarned`, `LevelIsRank`, `AisOnlyPlay` |
| `AisHaveOnePlace` | `OwnedOnce`, `SeatedIsVisited`, `ForgottenUnlessTaken` |
| `EventsAreInTime` | `WaitIsReal`, `QueriesAreExact`, `ExecutesTheNext` |
| `EventsAreOwned` | `OwnedOnce`, `DeletedAfterCall`, `AbortedDontExecute`, `ExecutesTheEarliest`, `UpdateReturns` |
| `PacketsArrive` | `RoundTrip`, `WholeIsRead`, `CutIsNoticed`, `HeaderIsPlain` |
| `TimeAddsUp` (`MCShared`) | `RoomsGetAll`, `WorldLoop!TimeAddsUp`, `SleepBalances`, `IntervalsAddUp`, `TrackersAgree`, `NeverEarly`, `KeepsPace` |
| `TextIsKept` | `TokensRejoin`, `StrippedIsClean`, `MoneyIsAllOrNothing`, `PeriodsAreReadBack`, `CaseComesBack`, `AcceptsUnicode`, `TextRoundTrips`, `WideRoundTrips`, `TruncatesToPrefix` |
| `LogsAreWhole` | `LinksExist`, `ReloadIsClean`, `SetTakesEffect`, `OwnPrefix`, `NothingLost`, `LogFile!InOrder`, `SizeIsLimited`, `FileParses`, `LogIsComplete` |

**RoomUpdater.** A critical section of the code is one action.  A thread that
waits on a condition variable is `asleep`; `notify_one` and `notify_all` move
sleepers back to the test of their loop, and so may a spurious wakeup at any time
(`MainWakesUp`, `WorkerWakesUp`).  `main` is the place of the world thread (loop,
wait, the steps of `deactivate`), `worker[w]` that of each `WorkerThread`.
`pending` is counted and the request pushed in one step because `schedule_update`
holds `_lock` over both, and the workers touch the count only under `_lock`.  The
history variable `lag` is the time that has passed and that a room has not been
told.  `UnloadAll` has no caller in the program; it is modelled as a step the
world thread may take between two ticks.

**Player.** The methods of a player read and write its neighbours and its
session, so the state is a memory: the `Player` objects, the `_player` pointer of
each session, and `fault`, which is set when a null or freed player, or the null
session of a user, is dereferenced.  After a fault the code's behaviour is
undefined and the model stops.  An operator is one method (`CheckOutPlayer` is
`checkOutPlayer`, and so on); a long method is cut at its blank lines
(`AiTakesTurn`, `AnnounceBid`, `SettleBids` make `CheckGrabLandlord`).  The
recursion of `checkOutPlayer` and `checkRoundOver` along a table is unrolled: the
method is an operator that takes the method of the neighbour as a parameter
(`CheckOut`, `RoundIsOver`), applied to itself as often as a table is deep
(`CheckOut1` to `CheckOutPlayer`), and a fault marks a call deeper than that.  Cards and gold are in `Hands` and
`Account`: no status, link or queue depends on them.  `desk` is history: the
neighbours that the last `SMSG_DESK_THREE` described.

**Room.** `pc` is `"sessions"` while session handlers may run, or the loop of
`Room::Update` that is running: `map`, `one`, `two`, `three`.  One iteration of a
loop is one action: `Visit` is one player's `Update` with the erasing, deleting
and queueing after it; `MatchThree`, `MatchTwo`, `MatchOne` are the branches of
`UpdateOne`; `BreakPair` and `FillPair` those of `UpdateTwo`; `BreakTable` and
`ServeTable` those of `UpdateThree`.  The map is a sequence in the order of
iteration; a new entry may come anywhere in it (`AnyOrder`), one with a known id
replaces the old one.  The session handlers are the client actions;
`AskToLogOut` is `CMSG_LOG_OUT`, `Drop` the destructor of the session.  The client
program is not part of the repository.  The model takes from the server's code
what a client can know: it bids when it is first or when its left neighbour has
bid, plays when it is the landlord and nobody has played or when its left
neighbour has played, and ends the round when the last cards have been relayed,
or when somebody has ended it.  It logs in with `start = 0` in its player data.

**Hands.** `mem[p]` is the array `_cards` with the `_baseCards` behind it in
memory, which `OutCardAi` reads as one.  The room's update of the three players
is one action per player in one of the orders of `Orders`; between two ticks the
users' clients play, pass, end the round and leave.  `turn`, `passes`, `last` and
`played` are history, kept by what the packets say and not by the statuses.

**Account.** One `PlayerInfo` through login or `configureAiPlayer`, the reports of
rounds and `UpdatePlayerData`, in words of the width `Word`.

**SharedPool.** The pool under its lock, one action per statement that another
worker can interleave with; of a room only what takes, seats, visits, releases
and forgets AIs.

**Session.** `account` is what each connection logs in with.  The io thread reads
packets, creates the session and fills its queue; the world thread takes it from `addSessQueue`, runs `WorldSession::Update`
packet by packet and deletes it.  Nothing orders the two but the locks of the
queues: a header and its body are two completions, and each statement that follows
`_worldSession` is a step (`Follow`; a packet of the game resets the timer in one,
`ReadGamePacket`, and is queued in another, `QueueGamePacket`), so the world thread may
delete the session between any two of them.  When the pointer that is followed is null
or its session deleted, `faults` records it: the behaviour is undefined, and the model
stops.  Clients send anything at any time; `kept` is history and says whether a client
has kept to what the game asks of it: no ping before its login, nothing after
`CMSG_LOG_OUT`.  `RoomManager::getPlayer` returns a null pointer always
(`RoomManager.cpp:89`), so every login that a session handles makes a player, whatever
players of the account are left in the rooms; of players only the session's link is kept
here.

**Framing, WriteQueue.** A byte is its place in the client's stream, so that a
byte in the wrong message is seen.  A message is what its header claims and what
`ReadDataHandler` reads of its body at least (8 bytes to be skipped, more for the login).
`IsValid` accepts sizes from 4 while the header has 8 bytes: of the sizes 4 to 7
`WorldSocket.cpp:40` makes a body of almost 2^64 bytes, for which `Grow` throws, and a
body that is shorter than what is read of it, also the empty one of `Socket.h:90`, makes
the reading throw (`WorldSocket.cpp:58`).  Nothing in the io thread catches either
(`Main.cpp:48`): `reading` is then `"aborted"`, and nothing is read any more.  What is
done under `_writeLock` is one step; `IsOpen` is tested before it in a step of its own.

**LogFile, PacketLog.** A `FILE` is its buffer and the file behind it, so that a
killed server keeps what was flushed.  A step is a library call.

**Logging, Packet, Timers, WorldLoop, EventMap, EventProcessor, Text, Utf8** are
their methods as operators with the calls of a user as actions.  History
variables (`sent`, `changed`, `elapsed`, `toWorld`, `toRooms`, `left` times of
events) carry what the properties compare with.  `left` is what the user asked for,
counted without the timer; a delay that is greater than the timer marks the events
as `cut`.  A packed time goes through `localtime_r` and back through `mktime`, with
the calendar of years 2000 to 2031, in a zone without daylight saving time that is
`Timezone` seconds from UTC.  The conversions of `Util.cpp` say when they write past the
end of their wide string (`overrun`).

## 3. Runs

| run | instance | shows |
|---|---|---|
| `updater` | 3 workers, 4 rooms, interval 2, steps of 0..3, fairness | the count is exact, handlers run alone, no dangling call, `IndInv`, `TickBarrier` is implemented, every tick and every shutdown ends |
| `updater_inline` | no workers, 6 rooms (the default), interval 5 | without threads: session handlers run when every room has been updated and told all the time but what the interval timer holds |
| `solo` | 1 user, 3 AIs, rounds without end, connections lost in a game, fairness | no fault, AIs return to the pool, nobody is stranded, the landlord is agreed; a started user is dealt to, bidding ends, the turn comes |
| `table` | 3 users, bids 0 and 2, AI delay 0; they leave in the lobby in both ways and lose connections in the game, and come back | types, sessions and players linked, no fault, one place each, the table stays a ring, the landlord is agreed |
| `mixed` | 2 users, 1 AI, connections lost in the game | no fault, users know their desk before the deal |
| `network` | `MCNetwork`: 2 connections of one account with a shutdown, 2 of an account each that repeat a login; 3 messages of 7 sizes and kinds read in all cuts; 3 threads writing 2 packets each | sessions have one owner, packets are handled once and in order, at most one connection of an account moves a player; a deleted session is followed only for a closed socket or a client that goes on after its logout, and a null pointer only for such a client or an early ping; `Channel` is implemented, writes do not overlap and are not forgotten; a silent client loses its session, a login is answered or turned down, what is queued is written |
| `game` | `MCGame`: a deck of 7 with a user landlord, with users leaving, and dealt with every random number; accounts of 8-bit words; two rooms with a pool of one | turns go round, AIs answer and lead only when they may, arrays are not overrun, hands are true, cards are played once, deals are fair; levels, gold and scores add up; an AI has one owner |
| `shared` | `MCShared`: every module of `shared/`, the main loop and the packet log | what each promises its callers, see the comments in `MCShared` |
| `stranded` | 3 users | **violation**: a waiting user in no queue |
| `untimed` | 3 users | **violation**: a waiting user whose wait does not run |
| `desk` | 3 clients, 5 logins | **violation**: a table counts as synchronised, one user was never sent its desk |
| `unclosed` | 1 connection | **violation**: a deleted session leaves its socket open |

Why the bounds are enough.

* *Updater.* Three workers and four rooms let a worker be asleep, one popping and
  one updating while requests are queued, and `notify_one` choose; the theorems
  cover every number.
* *Rooms.* A table has three seats and its recursion three levels, so one table
  with its queues, one or two users more than seats (`desk`, and the logins again
  in `table`), and as many AIs as seats reach each branch of `Room::Update`.  The
  wait and the AI delay are 0 or 1 units: the clocks only matter as "still
  positive" or "run out", and one unit lets others act before.  Named bounds:
  `MaxDiff`; `AiBound` (time passes only while the instance can supply another
  AI, since the server allocates them without limit); the sets `Users`, `Ais` and
  `AiIds`.
* *Cards.* Two cards each and one base card let a hand be played in one, two or
  three turns and a landlord play the base card; the AI delay of two ticks lets
  others act during it.  `Dealing` shuffles the deck of seven by all random
  numbers, once: that cards are dealt again is part of the other tables.
* *Accounts.* Two logins, a loss larger than the gold, and four rounds reach every
  level and the wrap of the word.
* *Sessions.* Two connections are what can collide in the map; a timeout of two
  updates has one before the last; a limit of one packet per update makes the rule
  of 101 packets be two.  Of two connections of one account one plays and the other only
  pings; connections of two accounts may repeat a login (`SessionBound`).
* *Bytes.* With headers of three bytes and blocks of two, messages without a body, of
  one, of two and of four bytes put every boundary inside a header, inside a body and
  between messages.  Sizes from 2 are valid, so that one of them is less than the header;
  a word of 16 and buffers of at most 8 bytes make its body one that throws.  A body of
  one byte is too short for every handler, one of three for the login, and one message
  has an unknown opcode.  The packet values hold each type with the extremes its
  encoding tells apart (times: a leap day, the last minute of 2031 in the zone, and the
  next one, whose year needs a sixth bit); octets and units are those at the limits of
  the encodings.
* *Time and files.* The loop of 5 ms has updates shorter than, as long as and
  longer than a tick; its words wrap at 12.  Files hold two lines, and one crash
  falls anywhere.  Bounds: `MaxTime`, `MaxClock`, `MaxGiven`, `MaxLines`,
  `MaxCrashes`, `MaxEvents`, `MaxPackets`, `MaxSent`, `MaxGame`, `Logins`,
  `MaxRounds`, `MaxSeats`, `MaxText`, `MaxOctets`, `MaxUnits`, `MaxValues`.

Which environments the properties hold in is part of the result.

* `NoFault` holds when users lose connections in a game (`DEALED` to `OUT_CARDED`)
  or leave in the lobby with users only.  It does not hold, and the runs keep out
  of it by `DropAt`, `LogoutAt`, `LateLeaves` and `FreshIds`, when a user leaves
  by packet in a game as the last user (links of the neighbours dangle), leaves
  while cards are being dealt or a round is being closed, leaves a pair with an AI
  before the AI has been visited once, or when two AIs draw the same id.
* `PlaysInTurn` and `AiAnswers` (in `TurnsAreKept`) hold with a user landlord and nobody who leaves.  A
  user that leaves in the tick after it has played is an AI that plays again, and
  an AI landlord that waits again may play again before its neighbours have
  answered; the instance with leaving users checks the cards.
* `NoStaleUse` and `NoNullPlayer` (in `PacketsAreHandled`) say when the code follows a
  pointer to nothing, which it does.  The world thread closes the socket of a session
  that it deletes, except of one that has no player any more; what was being read then is
  handled all the same, and uses the deleted session.  A client that goes on after
  `CMSG_LOG_OUT` meets a session without a player, or a deleted one on an open
  socket.  A ping before the login follows a null pointer (`WorldSocket.cpp:71`).  A
  second login reads the name of the session's player, also unguarded
  (`WorldSocket.cpp:65`); that the player is there by then is not modelled.
* `ImplementsChannel` and `AllDelivered` speak of the messages before the first that is
  turned down or that throws in the io thread.
* `WaitIsReal` (in `EventsAreInTime`) holds of events that have not been delayed by more
  than the timer.  `TruncatesToPrefix` and the buffers of `TextRoundTrips` hold of texts
  without code points above 0xffff; the first says that the others overrun.  A packed
  time is read back (`RoundTrip`) as its minute, `Timezone` seconds later, and if its
  year is 2031 or less.
* `NothingLost` of a log file (in `LogsAreWhole`) needs a second between two backups (`Seconds`):
  backups of one second have one name.  `SizeIsLimited` needs messages to be
  written one at a time (`Strand`), which the server does not do: it gives the log
  no io_service.  With two threads and a limit one may print to the `FILE` that
  the other has closed.
* `UpdateReturns` needs an Execute not to add events that are already due.
  `SleepBalances` and `WorldLoop!TimeAddsUp` need a clock that is not set back.
  `LevelIsRank` needs a score below the last entry of `LevelTable`, behind which
  the search reads on.

**Findings.** Each contradicts a sentence of the repository; `PROJECT.json` has
the quotations.  `stranded`: `UpdateOne` pops two or three players, and if one of
them has logged out the others are not put back.  `untimed` and `desk`: a player
that a table of three leaves alone keeps its flag `QUEUE_FLAGS_THREE`; its wait is
never counted, and when it sits down with two others it is not sent the new desk.
`unclosed`: `WorldSession::Update` forgets its socket when the player is gone, so
the destructor has none to close.

**Other disagreements** that were met while translating, and that have no run:

* `DelayedCloseSocket` with an empty write queue never closes (`Socket.h:144`); it
  has no caller.
* Nothing reads `m_aborting`, which is to keep events out during an abort
  (`EventProcessor.cpp:63`).
* `ByteBufferPositionException` is thrown with the size of the value where the
  size of the buffer is expected and the other way round, so its message is wrong (`ByteBuffer.h:57`).
* The default logger `server` is assigned to the `Logger&` of the root logger: the
  assignment copies, and what follows renames the root (`Log.cpp:257`); a root logger with a wrong level
  keeps the defaults away although none is usable (`Log.cpp:244`).
* The difference of two clock values across the wrap is one too small
  (`Timer.h:36`).
* `gold < 0` never holds of a `uint32`, so a loss that is greater than the gold
  wraps (`Player.cpp:449`).
* `utf8truncate` and `Utf8toWStr` size a `wstring` by code points and fill it with UTF-16
  units, two for each code point above 0xffff (`Util.cpp:310-313`).
* `DelayEvents` promises that a delay that is greater than the timer "will be 0"
  (`Util.h:728`); it puts the timer to 0, so the events are delayed by what the timer was.
* `ReadPackedTime` adds `timezone` to the result of `mktime`, which is UTC already
  (`ByteBuffer.h:402`): what is read is not what was written unless the zone is UTC.
* The size in a server's header is said to be that of the payload and the opcode
  (`ServerPktHeader.h:29`); it is that of the payload and the whole header, 8.
* `IsValid` of a client's header accepts sizes 4 to 7, less than the header's own
  (`WorldSocket.h:51`).
* `HandlePlayerLogin` asks whether the account plays already (`WorldSession.cpp:201`), but
  `RoomManager::getPlayer` never finds a player.

**Mutants.** Every property of a passing run has a mutant, an operator such as
`WaitReturn_Early` beside the definition that it changes the way a bug would, and
that TLC refutes under the same configuration.  The parts of a composite property
have further mutants of their own beside the definitions they break; `PROJECT.json`
lists one per property.

## 4. Fairness

`RoomUpdater!FairSpec`: weak fairness of each step of the world thread inside a
tick or a shutdown, and of each worker: threads are not suspended for ever and
mutexes are released.  None for starting a tick, for unloading, or for spurious
wakeups.

`Room!FairSpec`: an update that has begun goes on and another one begins with time
passed (the world loop has no other way to go); the client that logged in presses
start (weak), and bids when it may again and again (strong, because its turn is
interrupted by updates).  These are the assumptions of a game that is being
played; no fairness is given to playing cards, ending a round or leaving.  The
conditions of the first two are written out instead of `ENABLED`, which is
equivalent here and much cheaper for TLC.

`SessionFairSpec`: weak fairness of the world thread, which goes on updating its
sessions and its rooms.  Clients owe nothing, not even the body of a header.  `FramingFairSpec`: the
handler of a read that has bytes runs.  `WriteQueue!FairSpec`: a thread inside
`AsyncWrite` gets the lock, and a write that has started completes or fails.
`EventProcessor!FairSpec`: an `Update` that has begun goes on.  `MCNetwork` and
`MCShared` repeat these with the part that is running.

## 5. Proofs

`RoomUpdater_proof` proves, for any number of rooms and any finite set of
workers, that the specification implies

* `TypeOK`, which is a part of `IndInv`, and the inductive invariant `IndInv` (`UpdaterTypeCorrect`,
  `UpdaterInvariant`),
* `CountIsExact`, `SessionsRunAlone`, `NoDanglingCall` (`PendingIsExact`,
  `SessionsAreAlone`, `CallsAreSafe`),
* the refinement of `TickBarrier` (`UpdaterRefinesBarrier`).

The assumptions are `NumRoomsAssumption`, `TimeAssumption`, `WorkersAssumption`
and `NoRequestAssumption`.  `CountIsExact` is not inductive: that the count is
right after a pop needs to know that a worker holds a request exactly from the pop
to `update_finished` (`HoldsItsRequest`) and that a room is never in two requests,
which needs that the requests in flight are of rooms before the iterator
(`QuietOutsideTicks`).  That no worker exits with a request in its hand, which
would stop `wait` for ever, needs that the token is set only after the rooms are
gone, when nothing is in flight (`TeardownOrder`).  `SessionsRunAlone` and the
refinement also need what each room has been told (`DiffIsCurrent`, `LagIsKnown`).

`Session_proof` proves, for any number of connections and accounts, any time-out
and limit, and clients that send anything, in any order, from
`SessionAssumption`: the types (`SessionTypesCorrect`), `SessionsAreSound`
(`SessionsSound`) and `PacketsAreHandled` (`PacketsHandled`).  The inductive
invariant `SessionInv` has one part per connection (`Sound`: what its socket, its
queue and its player know of each other) and a few that join them.  That a packet of the
game finds a player needs that what is queued follows the login (`Ordered`), that a
client that keeps to the game has nothing behind its logout (`Sent`), and that a session
that has handled its login has a player until then (`HasPlayer`).  That a deleted
session is followed only for a closed socket or such a client needs the reason of each
deletion (`Gone`), and that a session whose timer has run out is the one in `Update`,
its socket closed (`Timed`).  That only one connection of an account moves a player
needs that a session has handled nothing before it is the one in the map, and which
session is in which of the world's hands (`Owners`, `Cursor`).

`Socket_proof` proves of the reader, for any sizes of header and block, any sizes that
the headers claim, those that wrap included, and any need of the handlers, however the
stream is cut, from `FramingAssumption`, that it implements `Channel` for the messages
before the first that is turned down or ends the program, and that its buffers hold
nothing but the current message (`FramingImplementsChannel`), and the types (`FramingTypesCorrect`).  The invariant `FramingInv` says where in
the stream each byte of the two buffers comes from.  Sums over messages are a
recursive function, and what needs induction over it is shown by a least
counterexample (`LeastNatural`).

Of the writer it proves, for any set of threads and any number of packets, that
at most one write is flying and it is of the front of the queue
(`OneWriteAtATime`), that the queue of an open socket is being written
(`QueueIsDrained`), and that the packets of a thread reach the connection in the
order it sent them, once and without a gap (`PacketsInOrder`), from
`WriteQueueAssumption`.  The inductive invariant of the first two (`WritingInv`) is
both together with the types: a sender that finds the queue empty must know that
nothing is being written before it starts a write, and that the completed packet is
the head that is popped; and a queue that a completion leaves behind is written again
only because the completion was of the front.  The order needs `OrderInv`: what is
written and what waits is one line, in which a completion moves nothing, since it was
of the front; and a thread that waits for the lock has all it sent before in the line,
while one that does not may have lost packets only to a socket that is closed, which
takes no more.

`SharedPool_proof` proves, for any number of rooms and AIs, from
`SharedPoolAssumption`, that an AI has one owner through every interleaving of the
workers, is visited by the room it sits in and forgotten by the room that gave it
back (`AisAreOwned`).  The invariant `PoolInv` adds where the lock is, that the AI
a worker has read is still the back of the pool when it pops (`AtTheEnd`), and
that pool, tables and hands are disjoint (`Apart`).

`Room_proof` proves, for any number of users, AIs and clients and without any of
the limits that the runs put on logouts, from `PlayerAssumption`,
`PlayerTimeAssumption` and `RoomAssumption`: the types, with every iterator of
`Room::Update` within its list (`RoomTypesCorrect`), and `SessionLink`
(`SessionsLinked`).  The inductive invariant `RoomInv`
says that the memory is `Sound` and that only players with an id are in the
lists: otherwise the third player of a table might enter the map without one.
`Sound` is what `SessionLink` rests on: a player with a session is a live user
that has not logged out and that its session points at, and only objects of the
AI pool are of type AI, so that what is given back to the pool came from it.
`Player_proof` shows for each method of `Player` that it is either *calm* (no
session, type, id or logout changes; true of all but two) or, for `checkOutPlayer`,
that it keeps the memory sound.  Its recursion goes
through memories that are not: in the middle of a logout the player has left and
still has its session (`Leaving`), and the neighbours that leave with it have to
be sound before `DropSession`.

`Hands_proof` proves, for any deck of up to four colours and thirteen ranks, any
split of it into hands and base cards, any random numbers and orders, any AIs and
leavers, under the hypothesis `HandsAssumption` (which `MCGame` evaluates for its three
tables, and which the numbers of the server, 54 cards, 17 in a hand, `_baseCards` of 7,
satisfy), the types (`HandsTypesCorrect`) and `CardsAreTrue` (`CardsStayTrue`).  The
invariant `HandsInv` has two halves.  `DeckInv` says that the deck is a rearrangement
of the fresh one, in which no card is twice (`WholeDeck`), that every entry of a hand is
a place of the deck (`DealtFromDeck`), and that the memory behind the base cards is
`CARD_TERMINATE` when cards are dealt, also when they are dealt again because nobody
bids (`CleanEnd`): the length of a hand depends on it.  `PlayInv` says that every array
has an end (`ArraysEnd`) and that the array of a player lists, in the order of the deal
and up to its end, what it was dealt without what it has played (`HandsListed`).  That
is kept because `rearrangeCards` takes one card out of such a list and moves the rest
down (`RearrangeTakesOut`), so that by a least counterexample `updateCardsFace` takes out
all of them.  That no card is played twice needs that the cards a user has sent are
still in its hand when the room relays them (`MovesReady`), also when it leaves before;
and that what an AI plays first is its own and not the landlord's base card, which
follows it in memory: a hand begins with its own cards, and nobody is updated with an
empty hand (`StillIn`), because somebody's client ends the round before the next tick.

`Words_proof` proves what is added up in words of any width.

* Of an account, for any table of levels, rooms, logins and reports under
  `AccountAssumption`: `AccountAddsUp` (`AccountsAddUp`).  The invariant `AccountInv`
  adds that what the next count takes is the last report (`Reported`), which is 0 of an
  AI and of a player that is not there, and that gold, score and games are words.  The
  sums are a recursive function of the reports (`SumOfAppend`), counted in the
  arithmetic of the word (`ModAdd`); the level is found by `LevelCounts`.  The win rate is
  left out: it divides by the number of games, which may have wrapped to 0.
* Of the main loop under `WorldLoopAssumption`: that the rooms get what the world is
  given on any clock (`RoomsGetAllTime`); and on a clock that is not set back, when no
  update and no sleep takes as long as the clock takes to wrap (`ClockGoesOn`, 49 days),
  that the world is given all the time that passes but one millisecond for each wrap
  (`WrapsLoseOne`), and before the first wrap all of it, with sleeps that fill their
  ticks (`NoTimeIsLost`).  The invariant `LoopInv` bounds what can have passed since the
  last reading, so that at most one wrap lies in between, and says that a difference
  holds the sleep before it.
* Of the timers under `TimersAssumption`, with steps and periods that an int32 counts
  (`FitsInt32`, 24 days): types, `IntervalsAddUp`, `TrackersAgree`, `NeverEarly` and
  `KeepsPace` (`TimersKeepTime`).  A periodic timer is never before its time (`Due`).

What is only model-checked, and why.

* `NoFault`, `PoolConserved`, `NobodyStranded`, `TablesAgree`, `LandlordAgreed`,
  `DeskKnown` of `Room` do not hold in every instance (section 3 says which steps
  break them, and the runs `stranded` and `desk` show two): a theorem would need the
  limits of the runs as hypotheses, and an invariant that describes every moment
  of a table that dissolves.
* `TextIsKept` rests on the recursive operators of `Text` and `Utf8`, which the provers
  cannot use.  `PacketsArrive`, `LogsAreWhole`, `EventsAreInTime` and `EventsAreOwned` are
  properties of the instances of `MCShared`, with the packets, texts and events it chooses;
  no proof of them was attempted.  Of `TimeAddsUp` the parts
  are theorems of `WorldLoop` and `Timers`.
* `TurnsAreKept`: its third part counts the ticks an AI may take, and the other two hold
  of one kind of table only (section 3).
* `TypesOK` of the MC modules: of its parts `SessionTypeOK`, `FramingTypeOK`, the
  `TypeOK` of `WriteQueue`, `HandsTypeOK` and `TimersTypeOK` are theorems.
* Of `NothingWaits` the safety part is a theorem (`PacketsInOrder`).
* All liveness: the provers have no rule for fairness and `ENABLED`.

## 6. Not modelled

* `Config.cpp`: the file is read once with a parser of boost; `Reload` has no
  caller.
* `WheatyExceptionReport`, `ServiceWin32`, `ProcessPriority.h`, `Errors.cpp`: calls
  of the operating system, the first two on Windows only.
* `Main.cpp` besides its loop: start, signals, the joining of io threads.  The
  settings of `World`, its stop flag and exit code.
* `SFMT` and the parts of `utf8cpp` without a caller; `Callback.h`,
  `Containers.h`, `flag96`, `HookList`: no caller, or plain containers.
* The dumps of `ByteBuffer`, the colours of the console, the wording of packets
  and logs, `GetMainPartOfName` (Russian declension, no caller).
