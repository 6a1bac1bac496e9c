# Verification of the NosTale packet logger

TLA+ models of the packet logger in this repository, the TLC configurations that check them, and
TLAPS proofs about them. The models are translated from the C++ of `linux/src/dll` and the
Python of `linux/host/ntpl`; each definition is mapped to its lines in `PROJECT.json`.

## The system

The logger is a DLL inside the game's process and a set of native hosts outside it.

| Component | Source (under `src/`) | State it keeps | Operations |
|---|---|---|---|
| Capture ring | `linux/src/dll/packet_queue.h` | slots, `head_`, `tail_`, `dropped_`, spinlock | `push` (any hook thread), `pop` (worker) |
| Hooks | `linux/src/dll/hooks.S`, `packetlogger.cpp` | `g_enabled`, hook status, the two addresses `send_packet` needs | `initialize`, `install_hooks`, the two callbacks, `send_packet`, `set_enabled`, `remove_hooks` |
| Worker | `linux/src/dll/dllmain.cpp` | `g_quit`, the loop's position, the last status tick | accept, poll and handle commands, drain both rings, tick, shut down |
| Host session | `linux/src/dll/tcp_server.cpp` | `g_listen`, `g_client`, `g_pending` | `start`, `accept_client`, `poll_command`, `send_line`, `stop` |
| File log | `linux/src/dll/log.cpp` | an open `FILE*` | `log_packet`, `log_flush`, `logf`, `log_close` |
| Client calls | `clientmove.cpp`, `clienttarget.cpp` | an entity cache | MoveTo, select, read the position |
| Packet client | `linux/host/ntpl/client.py` | socket, buffer, inbox, reader thread | connect, send, receive, close, reuse |
| Commands | `linux/host/ntpl/cli.py` | what a command has sent and read, its deadline | send, cast, walk, scan, find, read, status, replay, monitor |
| Engine | `linux/host/ntpl/engine.py` | `WorldState` | one handler per opcode |
| MCP broker and service | `linux/host/ntpl/mcp_server.py` | upstream socket, client table, two locks, last status, engine | fan out, greet, forward, tools that send and wait |
| Bot and travel | `linux/host/ntpl/gui.py` | goals, route, timers, pending walk, cooldowns, queued callbacks | tick, start, stop, click, travel, arrive |
| Window | `linux/host/ntpl/gui.py` | the reader thread's client, the portals of the map | connect again, merge and save portals, save configurations |
| Map data | `linux/host/ntpl/mapdata.py` | portal store | A*, map choice, save and load |
| Bot configuration, log replay | `botconfig.py`, `spawnlog.py` | files | clamp, save, load, seed |
| Injector, memory access, client tables | `injector.cpp`, `memory.cpp`, `monsternames.py`, ... | none of their own | not modelled |
| Windows tree | `windows/` | the earlier build with named pipes | not modelled |

How they interact. Game threads run into the hooks and push into one of two rings. The worker owns
everything else in the DLL: it pops, writes the file log, sends `RECV|` and `SEND|` lines to the
one attached host, and between two drains reads that host's command lines. `SEND|` makes it call
the game's send function, which runs into the send hook and so into the ring it drains. A host is
a packet client (CLI, GUI) or the broker, which shares its one session among several clients. The
engine folds the packets into a world that bot, GUI and MCP tools read, and they act by sending
command lines again.

What is hard: several game threads and the worker on one ring with wrapping counters; a host that
stalls, hangs up or is cut off in the middle of a line while packets keep coming; shutdown with a
thread still inside a hook; the two directions reaching a host in another order than they happened;
on the host side requests matched to answers by time, timers that survive a stop, and a reader
thread that dies silently. `PROJECT.json` lists these hazards at their lines, with the properties
that cover them.

What makes each part correct:

- ring: mutual exclusion, no slot written while it holds a packet, whole packets in order, a drop
  only when full, the lock always released;
- worker, session and log together: a complete log; a host that sees a gapless window of it; commands
  handled whole, once and in order; durability after each pass; nothing left behind at shutdown;
  progress whatever the host does;
- client and broker: every line reaches the consumer once, a lost connection is noticed, one slow
  client does not stop the others, an answer goes to its request;
- engine: what it learns (slots, portals, own position) is true of the game that produced the packets;
- bot and travel: after Stop nothing moves the character; a route ends, loops or times out;
- map data: A* finds a shortest legal path and reports none only when there is none.

## Modules

| Module | What it is |
|---|---|
| `BoundedFifo` | what a ring promises: a bounded FIFO with a drop counter |
| `PacketQueue` | the ring as the code has it, one step per shared access |
| `PacketQueueProofs` | its inductive invariant; type correctness, mutual exclusion, disjoint slots; it implements `BoundedFifo` |
| `DllWorker` | hooks, worker, host session and log, over two rings |
| `DllWorkerProofs` | its types and limits, the complete log, the command stream, what is on disk, what a stop leaves behind, the window a host sees |
| `Engine` | the handlers of `engine.py`, as functions of a world and a packet |
| `EngineSession` | a game, its server and two wires that feed an engine |
| `SessionProofs` | what the handlers keep, for every packet; what a host knows of the game it follows: view, gates, portals, place, posture, skills |
| `LogReplay` | `spawnlog.py`: what a host that attaches late takes from the log, over `EngineSession` |
| `LogProofs` | what such a host reads is true, and what it then knows of the game too |
| `Broker` | the broker of the MCP server: upstream thread, listener, clients, locks, sockets that fill up |
| `GameService` | the tools of an agent, composed with `Broker` |
| `GameServiceProofs` | queues and locks, the stream and the status of each client, true selects |
| `Bot` | bot and click-to-walk, with the game they play |
| `BotProofs` | types; Stop and a change of map are final; when a rest is sent twice; why a bot stops |
| `PacketClient` | `client.py` between the window's two threads |
| `Commands` | the commands of `cli.py` |
| `PathFinding` | `astar`, step by step, against a reference |
| `PathProofs` | the path it returns is legal and no way is shorter, on every map |
| `PortalStore` | the portal operations of `mapdata.py` and the tick that applies them |
| `SavedFiles` | the atomic replace of the portals and of a configuration |
| `HostProofs` | of three parts of the host: true exit codes, the packet client's stream, whole files |
| `MCPacketQueue`, `MCDllWorker`, `MCEngine`, `MCBot`, `MCMcp`, `MCHost` | instances for TLC |

What composes what: `DllWorker` is built on what `PacketQueue` is proved to implement; `GameService`
extends `Broker` and feeds it; `LogReplay` extends `EngineSession`, which extends `Engine`. `MCHost` puts
five modules that share no state side by side, each in behaviours of its own.

### PacketQueue

`lock`, `head`, `tail`, `dropped`, `data` and `len` are the members of the class; `arg`, `index`,
`tmp` and `out` are the registers and the stack of a call. `Acquire` is the `test_and_set` that
succeeds, `Release` the `clear`. The steps of `push` and `pop` are cut at every access to shared
memory, so a lock that does not exclude shows as a torn slot. An index is a number modulo
`IndexMod`; the assumption `IndexMod % Capacity = 0` holds for the capacities in the code (512
and 4096 divide 2^32) but is not among its static assertions, so it is stated here.

### DllWorker

It is built on `BoundedFifo`: because `RingImplementsFifo` is proved, a push or a pop is one step.
`pc` is the worker's place in `main_thread`:

    start -> top -> poll <-> handle
              ^       |
              |       v
             tick <- send <- recv          (drain RECV, drain SEND)
    top -> grace -> finalRecv -> finalSend -> unhook -> done     (once g_quit is set)

`link` holds `g_client`, `g_pending` and what `send` accepted for each session; `log` and `synced`
the file and how much of it has been flushed. `send_line` maps a link to the set of links it can
leave: the line is taken, or, when the peer has gone or does not read, the host is closed.
A command line is a sequence of pieces of which the last holds the newline, and `recv` returns any
prefix of what has arrived. `HookEnter` is the passed check of `g_enabled`, `HookPush` the push, so
that QUIT can fall between them. `Startup` chooses among the setups that `initialize` and
`install_hooks` can produce (`SetupAssumption` checks the choice against the code's conditions).

`accepted`, `executed` and `joined` are histories; only properties read them.

### Engine and EngineSession

`Engine` is pure: one operator per handler, `Feed` the dispatch. A world is the record of the
fields of `WorldState` that other fields depend on; a cell stands for two coordinates.

`EngineSession` plays a game against it. `game` is the truth (map, cell, posture, what is near, what
lies on the ground), `asked` the requests the server has not answered, `wire` the captured packets
of each direction. `Deliver` takes the first packet of either wire: the worker empties RECV before
SEND, and how long each ring takes to fill is up to the game, so across directions every order
occurs. `Gap` is a host that connects again: `gui.py` and `mcp_server.py` keep the engine and its
world, and the first packets of both wires are lost. A host begins with an empty world, attached in
the middle of a game, or with the one that follows the login. The server is external and answers
as the captures in `docs/protocol` show it to: it takes a walk, rejects it with a `tp` or ignores it,
answers a `u_s` with `su` or `cancel`, and announces a new map as leaving `c_map`, perhaps `mapout`,
`at`, entering `c_map`, the lists of `gp` and `wp`, and what is near. That posture survives a change
of map is an assumption. `told` and `mishaps` are histories:
what the host was told since it last lost packets, and what happened that it cannot see. Each
property says which of them it needs:

| Property | needs | does not need |
|---|---|---|
| `ViewIsCurrent` | the character was seen to enter the map | order across directions, patience, an earlier gap |
| `GatesExact`, complete | the same | the same |
| `GatesExact`, exact | no gap ever | order across directions |
| `RestTrue` | an own `rest` after an `at` | order across directions, an earlier gap, that others keep still |
| `PositionTrue` | an `at`, and no gap, overtaking, second request under way, ignored walk or teleport | that walks are accepted: a `tp` follows a rejection |
| `PortalsTrue` | no gap, overtaking, second request under way, teleport, or another's steps taken for its own | having seen the login, that walks are answered |
| `SkillsTrue` | no gap, overtaking, second request under way, or wrong own id | casts that succeed |

The conditions are not for convenience. Without any one of them TLC finds a counterexample: a walk
read after the `c_map` it caused leaves the portal one cell off; a teleport is learned as a portal; a `gp`
list read after a gap is stored under the map the host still believes in, for ever, so the "exact and
complete for every visited map" of `docs/engine.md` does not survive a reconnection; a cancelled
`u_s` leaves its slot pending, and a hit that overtakes its own `u_s` is paired with that slot,
although the comment at `engine.py:505` says it must not. A host that took its id from another's `rest`
(the finding of `engine_self`) takes that player's `mv` for its own steps, and stores a portal at
the cell where the other one stood; that takes a third cell to tell from a portal, and came up when the proof
of `PortalsTrue` failed at `_on_move`. What the model shows is that the engine is
right of everything else.

### LogReplay

`seeded` is "early" for a host that was there from the start, and otherwise "no" until `Seed` reads the
log, once. The loaders of `spawnlog.py` go through the log from its first line, so the module keeps what
they return for the log as it is (`log`) and folds each packet into it as the worker drains it, also those
a gap keeps from the host. `LogTrue` is about that fold. The loaders take some packets more
loosely than the engine does: the last step of any player is taken for an own one. `own` and `sure`
remember whether that has happened, and the property asks for the place only when it has not.

### Broker and GameService

Each thread of the process has its program counter (`upstream`, `listener`, `thread`, `tool`), the
two locks their holder, each socket a bounded sequence of lines. A `sendall` to a full socket of a client
blocks, and with it the upstream thread in the middle of a broadcast; the DLL, which then cannot send,
gives up after its own two seconds and hangs up, which is what frees everyone (`DllTimesOut`). Registration,
reading the last status and sending the greeting are three steps, as in `_listen_loop`, so a
status can be broadcast between any two of them. A tool call is a list of commands, each with what is waited
for after it; a wait ends when the predicate holds or at its deadline, which may pass
at any time. A command sent after the DLL has hung up is refused, or taken by the socket and lost, as the first one usually is.
A call of `game_rest` for a posture that is the known one returns at once. `all`, `since`, `heard`, `seen` and `overtaken` are histories.

`SelectTrue` speaks of a call during which no other client selects (`alone`): answers are matched by
prefix and time, and with two selects under way either takes the answer of the other. That is a limit of
the protocol, which has no request numbers.

### Bot

Everything runs on the one thread of GTK, so a handler is one action; what can go wrong is the order of
the handlers and the callbacks that outlive what started them. `bot` and `trip` are the fields of
the window that the bot and a click-to-walk use; `later` are the calls of `_start_travel` that wait their 700
ms, `idle` those of `_start_bot` that `_finish_travel` leaves with `GLib.idle_add`. A deadline (`stand_sent_until`,
`attack_until`, ...) is an element of `waits` until it elapses; the age of a walk counts
its deadlines. `_bot_tick` tries its stages in the order of the code, each of which is an action of
its own here, guarded by the ones before it (`TickStand`, `TickRecover`, `TickFight`, ...).

The map is a row of cells, where A* is exact; `PathFinding` covers the search in two dimensions.
`game` is the truth, served by one action per command: a walk arrives, is refused or is blocked, a rest
toggles, an attack kills or does not, a target that is dead is refused, and any answer may be lost with
the link. `halt` and `left` remember the last Stop or change of map and the callbacks that were then
waiting; `StopIsFinal` and `MapStops` except exactly those callbacks, which are a finding. `mishaps`
remembers what excuses a second rest: a deadline that passed before the answer (`late`), a click or Start of the user
(`clicked`), a start that had to wait (`queued`), the stand-up of a click beside a running bot (`both`), recovery that does not
know the posture (`guessed`), and the end of recovery (`resumed`).

`Flip` is the user at a toggle while the bot runs: the code reads `get_active` at each use, so recovery may be switched
off while the bot is recovering, and Loop in the last leg. Why a running bot may stop is said by four names, of which
`StopsForAReason` is the disjunction: `Interrupted` (an event, a lost link, another grid, three walks that timed
out), `RouteDone` (there is a route, Loop is off and every goal has been walked to or stood on), `NothingToDo` (there
is none, and no toggle gives a bot without one anything to do), and `ChaseTakenForRoute`. The last is a finding: at the end of the
first leg of a chase `_advance_path` takes the empty route for a finished one, and with Loop off the bot
stops. `StationaryGoesOn` states what the comment at `gui.py:4113` promises instead, and `bot_chase` refutes it.
Each of the four is needed: without any one of them TLC finds a stop it alone explains.

### The parts of the host

`PacketClient`: the worker thread of `_start_client` connects, reads and connects again while the main
thread sends on the same object and closes it when a send fails; the two parts of `close`
(`closed = True`, then the socket) and of `connect` are separate steps. Lines are two halves each, and
a `recv` takes any number of them. `Commands`: one command of the CLI against a stream in which lines of
other hosts look like its answer; the deadline is checked after a line is taken. `PathFinding`: one step per cell
taken from the frontier; a cost `a + b * sqrt(2)` is the pair `<<a, b>>`, compared exactly. `PortalStore`:
the tick of the sidebar as one function of the portals, applied until nothing changes. `SavedFiles`: names
lead to inodes; opening, writing and replacing are three steps, and a window may fail or end between any two.

## Runs

| Run | Shows | Bounds |
|---|---|---|
| `packet_queue` | mutual exclusion, disjoint slots, refinement of `BoundedFifo`, the lock is released | 2 hooks and the worker, 2 slots, indices wrap after 4, slots of 3 bytes, a text that fits and one that is clipped |
| `dll_capture` | log complete, host window, durability, nothing left behind | 3 packets, ring of 1, 2 hosts with one line each |
| `dll_commands` | types and limits, command stream | 2 hosts with up to 3 pieces, pending limit 2, 2 packets, 2 setups |
| `dll_liveness` | packets reach the log, QUIT stops, a waiting host is served | 5 setups, 2 hosts, 1 packet |
| `engine` | view, gates, portals, own place, posture, skills, and what a late host takes from the log | 2 maps with a portal each way, 2 cells, one other player, one monster, one item, 2 skills, 3 requests, events and gaps together (2 if a host attaches late), 2 requests under way |
| `bot` | Stop and a new map stop everything, no second toggle, no stop without a reason, walks and recovery end, a corpse is forgotten | a row of 6 cells with a wall, 3 maps of which one has no grid, 2 events, less those a setup has used up, 11 setups; Loop, Auto-attack and Recover may be flipped |
| `mcp` | types and locks, a gapless stream to each client, the current status, true selects; every call returns, the broker reconnects | 2 clients, a line on each socket, up to 5 events, 5 setups |
| `host` | the packet client's stream and its recovery, exit codes, shortest paths, portals at rest, whole files | 4 sessions of 2 lines with 1 fault; 2 foreign lines; every map of 4 by 3 cells; 8 places, 2 gates or crossings, 3 saved portals; 2 windows with 5 saves |
| `bot_chase` (violation) | a bot without a route does not go on until Stop as `gui.py:4113` says: with Loop off its first chase leg ends it | the setups of `bot` before a monster out of range, toggles left alone |
| `engine_self` (violation) | `self_id` is not the own id that `docs/engine.md:76` says it is: the client's sit toggle becomes it | as `engine`, 2 events |
| `dll_send_stream` (violation) | SEND lines are not FIFO as `docs/ipc.md:54` says: the echo of an injection overtakes | 1 host, 2 packets |
| `dll_overflow` (violation) | a host is dropped over 64 KiB although a newline arrived, unlike `docs/ipc.md:16` | as `dll_commands` |

Why the bounds are enough. Two producers meet the consumer in every order, and with two slots and
four index values a run wraps many times and is full and empty at every index. A ring of one packet
is full as soon as it is not empty, so drops happen in every place. Two sessions are what it takes
for one to leave something to the next; three packets are what it takes to have one logged before,
one during and one after a session. Pieces 1 to 3 around a limit of 2 give a line that fits,
one that is cut, one that overflows with and without a newline. Three events let the character cross,
meet a change on the new map and lose packets between, or cross and come back, or cancel one
skill and hit with another while the wires are read in any order. On arrival the monster is not
near, so one kept from the old map shows.

`bot`: each setup puts the character where one hazard begins (sitting before a click, at the end of a route,
before a monster out of range with Loop on and with Loop off, with low health), so that two events of the user, the game or the network reach it
and interfere with it; the bound of two commands and one message lets the next command leave before the
last is answered. Six cells hold a walk that takes two legs, a wall, and a monster outside the range of the attack.
`mcp`: with one line per socket every send can block, and two clients are what it takes for one to hold
up the other. Each of the five setups leaves out what the others have: two clients that come and go,
a lost DLL, a client that stops reading, two selects, and every tool against every reason to wait.
`host`: 4 by 3 cells hold every turn around an obstacle, a corner that must not be cut, and a goal
that is walled off, and all 4096 maps are tried. Four sessions let a late failure of the first
close the third. Two windows meet in every order, and five saves leave a temporary file behind, take it
up again and lose it to the other window. The portals need eight places in a row for two clusters and a gap.

The deadlock check is off but for the ring: the DLL stops after QUIT, commands exit, searches end, and the bounds
end games, agents and users. The liveness properties show that nothing stops before its time.

Fairness. `PacketQueue`: weak fairness of each step a thread takes while it holds the lock, since it
is runnable and calls nothing that blocks; none for a spinning thread. `DllWorker`: weak fairness
of the worker as a whole, since every call it makes returns (`select` polls, `send` gives up after
two seconds, `Sleep` ends), and of a game thread that is inside a hook. Nothing is assumed of the
game or of the hosts. Because a behaviour has finitely many packets, the game is eventually quiet:
`drain` loops until its ring is empty, and the code gives no bound under a game that never is.
`GameService`: threads run, sockets carry, waits time out and the DLL gives up on a blocked send; no agent
has to call, no client to speak, and one that stopped reading need never read again. `PacketClient`: threads
run, a socket nobody refers to is closed, and a game that has ended is started again, as the loop of
`_start_client` supposes. `Bot`: the main loop runs every timer and callback that is due and deadlines pass;
strong fairness of `_bot_tick` and of the service of a command, because the timer fires again and again whatever
happens in between and the client's queue is first come, first served; a character that sits
heals. Neither the user, the network nor chance owes anything: a walk may be refused for ever.

`GraceHolds` says that `Sleep(100)` outlasts a push in flight. `NothingLeftBehind` is stated under it;
`dll_commands` runs without it.

## Proofs

`PacketQueueProofs`. `TypeCorrect` is inductive with the modulo lemmas. `MutexHolds` needs only that
a thread in the critical section is the one in `lock`, which is inductive with the types.
`SlotsAreDisjoint` is not: `IInv` adds that the index a producer loaded is still `head`, that of the
worker still `tail`, and that a producer past the test has found room; it uses mutual exclusion to
know that nobody else moves the indices, and the lemmas about `%` to know that distinct
distances below `Capacity` are distinct slots, which is where `IndexMod % Capacity = 0` enters.

`RingImplementsFifo`, in the same module. The abstract buffer is the sequence of slots from `tail` to `head`.
A publish appends to it, an advance takes its head, a full push counts, and every other step leaves
it unchanged: a write into a slot under `IInv` hits none of the packets that wait. The worker's
stack copy counts as taken from the moment `tail` moves.

`DllWorkerProofs`. `TypeOK` is inductive as it stands; `MinInSet` shows that a newline that is in the
bytes has a first position, by the well-foundedness of strict inclusion on the intervals up to it.
`LogComplete` is inductive relative to the types: a push appends to both sides, a drained packet
moves across, nothing else touches either. `CommandStream` is not: a session that is accepted must
start with nothing read or handled. `StreamInv` adds that a host that is absent or waits in the
backlog is fresh and not attached, that it waits once (`SessionOrder`), and that a line is only
handled while a session is attached (`Attached`).

The second half of the module. `Settled`: outside a drain that has written something, the flushes cover both directions;
a drain that wrote ends with a flush, and all that happens elsewhere leaves the two logs alone or flushes.
`Leaving` follows the shutdown from place to place: disabled, so nothing enters a hook; after the grace
period nothing is in one; so a ring that a final drain has emptied stays empty. Both rest on the types. `HostWindow` is not inductive:
`WindowInv` says it element by element and adds that the attached host has been greeted, and that a host
which is absent or in the backlog has been told nothing, so that its window can begin at its accept. An accept and a
drain are the two steps that concern the window; every other step tells no host a packet (`Untold`) and puts nobody back
among the waiting (`OutsideShrinks`), the latter from `StreamInv`.

`BotProofs`. `BotInv` has five parts. `TypeOK`, which the run `bot` leaves to the theorem `BotTyped`, is inductive: `Advance` and the handlers keep the index of a route
positive, and `Route`, which is recursive, is a path whatever waypoints are drawn, because there is no least number of
them for which it is not (`Least`; the library's induction theorems cannot be instantiated, well-foundedness can).
`Halted` says after a Stop or a new map that found no callback waiting that nothing runs, walks or waits to start:
`StopIsFinal` alone does not keep a start that waits for a position, or a callback left with GLib, from
beginning again what was stopped. `Led` says that each goal before the one a running bot is at, and that one once it walks there,
has been ordered, and that timed-out walks are counted: a bot that stops by itself then has one of the four reasons, which
`Reason` states of a step and `StopsHold` of the specification. `Linked` and `Once` are about the rest packet. The answer of the server is on its
way in one queue or the other, and until it is read the window knows the posture there was before (`Known`): positions sent
before the answer tell the old posture, those after it the new one (`PostureTrue`). At most one rest is on its way
(`AtMostOne`), and a bot that runs meanwhile has the deadline of its own (`DriverWaits`), so neither the stand stage nor
recovery sends a second. Every step of the window is first shown to be of one of two kinds (`HostStep`): it sends no
rest, or one that no other is on its way with, unless one of the exceptions has occurred.

`SessionProofs` begins with the handlers. `FeedTyped`: one lemma per group of handlers shows that each takes a world to a world; a
departure is a place because `RememberDeparture` wants both the map and the cell to be known. `OthersChangeNothing`:
once the own id is known, the packets that bear an id change nothing of the character's own when it is another's.

Of the session none of the six properties is inductive: they speak of a host that has read everything. `SessionInv`
says what the packets that are still on the way will tell. For each field there is a set of packets that touch it; of
those on the way the last one (`LastIn`) shows the truth of the game, and if none is on the way
(`Free`) the world has it already, provided the host was told since its last gap. `ViewInv` and `DropsInv` say so of each entity and item, `RestInv`
of the posture. A gate has no map of its own, so `ListInv` says that between one packet that names a map and the
next every `gp` and `wp` is of that map and that the last map's list is complete, and `GatesInv` carries that over to what
the host holds; `Followed` (every `at` is followed by its `c_map`) is what makes the two agree. Sends append to the wire and
reads take its head, so each part needs the lemmas on `LastIn` and `Free` under `Append`, `Tail` and `\o`, and
what the packets of an arrival hold (`ArrivalAt`).

The place, the portals and the skills relate a request on one wire to its answer on the other. Their
invariant rests on `Alive`: while one of the wires is empty nothing can be overtaken, and once both hold packets, either
is read first and the mishap is remembered. `AskInv`: with no overlap at most one request is
open, and it is the last packet on its wire. `PlaceInv`: what the host will have heard (`Heard`) is the cell of the game or, while
a walk is open, that of the walk; `PortalsInv`: an `at` on the way ends a crossing whose beginning the
host holds in `departure` or is about to read; `SkillsInv`: a hit on the way is that of the pending slot. A step of
the session is first shown to be one of a dozen shapes (`Step`: a request asked, served, a packet said, a change of map,
a packet read, ...), and each part of the invariant is proved over these.

`LogProofs`. The log says nothing yet of the packets on the way, so the invariant speaks of what the loaders will return behind
each of them (`Behind`, a function of the sequence that exists and is determined by induction on its length). A packet
that is sent adds one more such log at the end, and the packets the worker drains, which are a prefix of each wire (`Drains`), change none
behind those that stay (`BehindPart`). `After` lists what one packet does to the log, over all loaders. `Charted`: the own id,
the map, the gates, the Time-Spaces and who is near are true behind every packet and current behind the last; the
requests touch none of them, so this holds whatever order the wires are drained in and whatever a host lost. A change
of map is the hard step: `Journey` says that up to its `at` the log is of the old map, and from there on of the new one.
`InOrder` says of the place, the portals and the skills that while one wire is empty the packets of the other teach nothing
false, as `Alive` does for the session.

`LateHostHolds` carries the six properties of the session over to `LateSpec`: to a host that starts with an empty world, hears what
it hears, and then takes the map, the place and the own id from the log, which may say more than it has read. `SessionInv` alone
does not survive `Seed`: nothing in it says what a host without a map has heard, and a gate read next would be stored for a map
it is not of. `Mapless` says that such a host knows of no departure and was told of no map, and that unless packets were lost each
gate or Time-Space on the way comes behind a packet that names its map. `Placed` relates the log to the packets on the way: while nothing
was lost or overtaken, the log has the character where the walk that was read leads, and an `at` on the way ends
a crossing from there, so that the portals the host then learns are true. A log that is ahead of the host (`ahead`) or whose last step is
another player's (`misplaced`) voids the place and the portals, which the properties name, and nothing else.

`GameServiceProofs`. `ServiceInv` has four parts above the types. `Registered`: a client that is served is in
the registry, once, which is what `Without` must keep when `_client_loop` and a failed broadcast both remove it. `Windows`: what a
client was sent is the segment of all lines that begins at its registration, and lacks at most the
line being broadcast, exactly as long as the client is still in the list of that broadcast. `Statuses`: the same of the last status, with
the three steps of the greeting in between. `Selects`: while a select is alone every line on the way, in every queue and
hand, that speaks of a target speaks of that of the call (`Own`), and an answer on the way is true of the game. `TypeOK` needs besides that
a lock is held by who is about to use it.

`HostProofs` holds three modules that share no state:

- `ExitHolds`: `CliInv` says of each line on the way that it is justified, by the fate of the request or by another host's,
  and that past its deadline a command looks at the clock before it takes a second line (`LooksFirst`).
- `FilesHold`: `FilesWhole` says nothing of the inode that will become the file. `FilesInv` adds that it
  is not the file's, that it is torn until it is written and then holds the save's text, and
  that no other window has it: of a configuration because each temporary file has a name of its own, of the portals
  because no two saves have met.
- `StreamIsWhole`: `StreamWhole` speaks of the inbox alone. `LinkInv` adds where the next line comes from: while the
  worker is in a session, which is the last one made, what it has not taken from the buffer and then what is on the way go on
  where the inbox ends, half by half (`Reads`), and in `clear` the buffer is that of an earlier session, which is why it
  must be emptied before the first `recv`. Whoever shuts the socket, the flow is kept or lost as a whole (`Continues`).

`PathProofs`. `PathIsShortest` is the textbook argument for A* with a consistent estimate, for the costs and the tie
breaks of this code. Costs are pairs `<<a, b>>` for a + b * sqrt(2) and the model compares them in integers; that the comparison
is a linear order which addition keeps (`Widened`, `MixedSum`, `Trichotomy`, ...) needs that no square is twice
another (`Irrational`). `Consistent`: the octile distance of a cell is at most the cost of a step plus the distance of the
cell it leads to. `SearchInv`: every cell looked at has a score and, but for the start, a cell it came from, one step away and cheaper by it
(`CameFrom`); the neighbours of a closed cell are in the frontier or closed, and none is dearer than through that cell (`LookedAt`);
what is taken from the frontier is never cheaper than what was closed (`InOrder`). So when the goal is taken no way
is cheaper (`NoneCheaper`, along any way, by its first cell that is not closed), and when the frontier is empty there is none. The way
back ends at the start: scores fall along it, and by the pigeonhole principle it cannot go on longer than there are cells (`BackEnds`).
The reference is a fixpoint reached after as many rounds as there are cells (`ReachedIs`). Recursive functions are
shown to exist by `Iterated`, and facts about all their values by `Induct`, which states induction for a set of numbers
and follows from their well-foundedness.

Assumptions: those named `...Assumption` in the modules, which TLC evaluates in every run that extends them. What they ask:
`None` is none of the other values; a map's cells and the ids of a game are finitely many and no player is a monster
(`SessionAssumption`: the order in which a list of packets is sent is any sequence of a finite set); the calls, clients and lines a setup of
`GameService` names are calls, clients and lines, and those of `Bot` games, routes and toggles with which a bot may run, and the toggles that may be flipped exist
(`SetupsAssumption`); bounds are numbers. Of `SavedFiles` and
`Engine` the proofs need none but that of `None`.

Only model-checked:

- liveness, which is outside the prover's reach;
- `SendStreamFifo`, `OverflowHasNoLine`, `SelfIsMe` and `StationaryGoesOn`, which the code violates;
- `PortalsSettle`, which says that the tick comes to rest within a bound, `MaxBusy`, that is right for the size of the instance
  and not for every size.

## Findings

`PROJECT.json` lists, with both quotations, where code and documents disagree. Four have a run of their own
(`expect: violation`); the others came up as the exception a property had to name before it held: the two
callbacks that survive a Stop, the second `rest` of a bot at full health, the stand-up of a click that meets a running
bot and the bot that sits down without knowing whether it sits (both came up in the proof of `TogglesOnce`), tools of
the MCP server whose packets lack `SEND|`, `game_travel` that ends short of the goal, the greeting that tells an older status, a `c_map` that ends the upstream thread, `read` that exits with 0
after a failure, portals that are saved every second for ever, the shared temporary name of the portals,
the steps of others in the log, a packet that is too long and clipped instead of dropped, and the backlog in which a second host waits.

## Not modelled

- Of the engine: facing, chat, stat, the combat log, the last attacker, the selected target, the
  count of cancels, all but the first skill of a list, and packets whose fields do not parse.
- Of the bot: spell rules (one attack stands for them), retaliation, the choice among several monsters or items; that a `tp`
  which ends a walk also teaches the own id, which a character whose position is known has told before.
- Of the window: widgets, drawing, tooltips, the spell picker, statistics: they change no state the program
  acts on. They are most of the lines of `gui.py`.
- Of the MCP server: the JSON of the protocol, the tools that only read (`game_state` stands for them, since it takes
  both locks), `close` at the end of the process, a bind that fails. A line is sent as a whole: the greeting and a broadcast share
  no lock, so on a socket that is full in the middle of a line the two could mix. `game_select` drops a refused entity from
  the world, which no tool that sends or waits reads.
- Of the log: that a `su` must name the target of the `u_s` it answers (`spawnlog.py:403`); the model pairs more than the code does, so what
  `LogTrue` says of slots holds of fewer pairs too. `Seed` changes the engine's world; that gates, crossings and Time-Spaces of the log are also merged
  into the window's portals (`gui.py:1064-1089`) is the merge that `PortalStore` has, from another source.
- Of the client: the reader thread and its inbox, which only `monitor` uses, on
  one connection: in `Commands` it reads the stream. The close after 64 KiB without a newline (`client.py:160`): only the answer to a
  command of about that length is as long, and no host sends one.
- Of the map data: portals in two dimensions (`PortalStore` has the places of one row), the archive's parser, and the scores of `choose_map_for_positions`: the map chosen is a choice.
- Clamping and defaults of `from_dict`, environment variables, game tables: pure conversions.
- The bytes of hooks and patches, the signature scan and the memory readers, MoveTo and the selection routine inside the
  client: their outcomes are choices in `DllWorker`, `Broker` and `Bot`.
- A log file that cannot be opened; `PacketQueue::size`, which nothing calls; the overflow of the drop counter
  in `DllWorker`; the injector, a sequence of Win32 calls; the Windows tree, which the Linux port supersedes.

## What could follow

1. An abstract specification of a capture session that `DllWorker` implements.
2. A composition of `DllWorker` with `PacketClient` over one socket.
