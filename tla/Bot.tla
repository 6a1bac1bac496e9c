--------------------------------- MODULE Bot ---------------------------------
(***************************************************************************)
(* The bot and the click-to-walk of gui.py, and the game they play.        *)
(*                                                                         *)
(* Every handler runs on the one thread of GTK and is one action: the      *)
(* buttons, the map clicks, _drain, _bot_tick, _travel_tick and the two    *)
(* callbacks that travelling leaves with GLib.  A deadline is an element   *)
(* of `waits` while it runs and elapses on its own; the age of a walk is   *)
(* how many of its deadlines have passed.                                  *)
(*                                                                         *)
(* A map is a line of cells with walls, and astar is exact on a line.      *)
(* There is one monster and one item.  The client, the server and the DLL  *)
(* are external: one action serves the oldest command.                     *)
(***************************************************************************)
EXTENDS Integers, Sequences, FiniteSets

CONSTANTS
  None,
  Last,       \* cells are 0 .. Last
  Walls,      \* cells that are not walkable
  Maps,
  Gridded,    \* maps the archive has a grid of
  Foe,        \* the cell of the monster
  Entry,      \* the cell at which a map is entered
  Clicked,    \* the cells the user clicks on
  BasicRange, \* of the basic attack
  Setups,     \* the game, the drawn route and the toggles to start with
  Options,    \* settings of the toggles that a configuration may bring
  Flipped,    \* the toggles the user flips
  MaxCmds,    \* commands the DLL has not served
  MaxInbox,   \* messages the window has not drained
  MaxLater,   \* stand-up calls that wait for their 700 ms
  MaxEvents   \* what the user, the game and the network do on their own

Cells   == 0 .. Last
MaybeAt == Cells \cup {None}
Timers  == {"stand", "sit", "attack", "walk", "block", "pick"}

ASSUME BotAssumption ==
  /\ Last \in Nat /\ None \notin Cells \cup Maps /\ Walls \subseteq Cells /\ {Foe, Entry} \subseteq Cells \ Walls
  /\ Clicked \subseteq Cells
  /\ Gridded \subseteq Maps /\ BasicRange \in Nat
  /\ {MaxCmds, MaxInbox, MaxLater, MaxEvents} \subseteq Nat \ {0} /\ MaxCmds > 1

Games    == [map : Maps, cell : Cells, dest : MaybeAt, sitting : BOOLEAN, hp : {"low", "full"},
             foe : BOOLEAN, item : BOOLEAN]
Drawings == [way : Seq(Cells), start : MaybeAt, path : Seq(Cells), draw : BOOLEAN]
Toggles  == [loop : BOOLEAN, attack : BOOLEAN, recover : BOOLEAN, pickup : BOOLEAN]

\* A bot that runs has a route or something to do in its place (_start_bot).
ASSUME SetupsAssumption ==
  /\ Options \subseteq Toggles /\ Flipped \subseteq {"loop", "attack", "recover", "pickup"}
  /\ \A setup \in Setups :
       /\ setup.game \in Games /\ setup.opt \in Toggles /\ setup.ui \in Drawings
       /\ setup.count \in Nat /\ setup.located \in BOOLEAN /\ setup.running \in BOOLEAN
       /\ setup.running =>
            setup.ui.path # <<>> \/ setup.opt.attack \/ setup.opt.pickup \/ setup.opt.recover

VARIABLES
  game,    \* the truth: map, cell, destination, posture, health, monster, item
  view,    \* what engine and window believe of it
  ui,      \* the drawn route
  opt,     \* the toggles
  bot,     \* the fields of the bot
  trip,    \* the fields of a click-to-walk
  later,   \* _start_travel calls that wait for the character to stand
  idle,    \* _start_bot calls queued with GLib.idle_add
  waits,   \* deadlines that have not passed
  cmds, inbox, link,
  count,   \* events so far
  halt,    \* the last event: Stop, another map, or neither
  left,    \* callbacks that were waiting when halt was set
  streak,  \* walks in a row that timed out
  ordered, \* goals walked to since Start
  mishaps  \* what excuses a second rest: "late", "clicked", "queued", "both", "guessed", "resumed"

host  == <<ui, opt, bot, trip, later, idle>>
past  == <<halt, left, streak, ordered, mishaps>>
vars  == <<game, view, host, waits, cmds, inbox, link, count, past>>

-----------------------------------------------------------------------------
(* Cells, paths and legs. *)

Dist(a, b) == IF a < b THEN b - a ELSE a - b
Between(a, b) == IF a < b THEN a .. b ELSE b .. a

Astar(a, b) ==
  IF Walls \cap Between(a, b) # {} THEN None
  ELSE [i \in 1 .. Dist(a, b) |-> IF a < b THEN a + i ELSE a - i]

\* Every third cell, and the last one.
Legs(path) ==
  LET n == Len(path)
  IN [i \in 1 .. (n + 2) \div 3 |-> IF 3 * i <= n THEN path[3 * i] ELSE path[n]]

NoTrip == [targets |-> <<>>, index |-> 1, pending |-> None, age |-> 0, then |-> FALSE, on |-> FALSE]

Blank == [way |-> <<>>, start |-> None, path |-> <<>>, draw |-> FALSE]

\* The position POS last reported, while it is fresh, else the engine's.
PlayerCell == IF view.real # None THEN view.real ELSE view.pos

\* A route with one more waypoint, if that can be reached.
Onward(so, cell) ==
  IF Astar(so.at, cell) = None THEN so ELSE [at |-> cell, path |-> so.path \o Astar(so.at, cell)]

\* The route drawn from a through the waypoints that can be reached.
Route(a, way) ==
  LET Walk[i \in 0 .. Len(way)] ==
        IF i = 0 THEN [at |-> a, path |-> <<>>] ELSE Onward(Walk[i - 1], way[i])
  IN Walk[Len(way)].path

Rebuilt(u) ==
  LET from == IF u.start # None THEN u.start ELSE PlayerCell
  IN [u EXCEPT !.path = IF view.grid = None \/ from \in Walls \cup {None} THEN <<>>
                        ELSE Route(from, u.way)]

-----------------------------------------------------------------------------

NewBot ==
  [running |-> FALSE, goals |-> <<>>, index |-> 1, pending |-> None, age |-> 0, seen |-> FALSE,
   rejected |-> 0, located |-> FALSE, recovering |-> FALSE, tries |-> 0]

\* The bot as _start_bot leaves it.
Begun ==
  [NewBot EXCEPT !.running = TRUE, !.goals = IF ui.path # <<>> THEN Legs(ui.path) ELSE ui.way]

Unlocated(g) == [map |-> None, grid |-> None, pos |-> None, real |-> None, resting |-> "unknown",
                 char |-> FALSE, hp |-> "unknown", foe |-> g.foe, item |-> g.item]

Located(g) == [map |-> g.map, grid |-> IF g.map \in Gridded THEN g.map ELSE None,
               pos |-> g.cell, real |-> g.cell,
               resting |-> IF g.sitting THEN "sitting" ELSE "standing",
               char |-> TRUE, hp |-> g.hp, foe |-> g.foe, item |-> g.item]

Init ==
  /\ \E setup \in Setups :
       /\ game = setup.game /\ opt = setup.opt /\ ui = setup.ui /\ count = setup.count
       /\ view = IF setup.located THEN Located(game) ELSE Unlocated(game)
       /\ bot = IF setup.running THEN Begun ELSE NewBot
  /\ trip = NoTrip /\ later = <<>> /\ idle = 0
  /\ waits = {} /\ cmds = <<>> /\ inbox = <<>> /\ link = TRUE
  /\ halt = "no" /\ left = {} /\ streak = 0 /\ ordered = {} /\ mishaps = {}

-----------------------------------------------------------------------------
(* Stop, travel and Start. *)

Event == count < MaxEvents /\ count' = count + 1

Send(commands) ==
  /\ Len(cmds) + Len(commands) <= MaxCmds
  /\ cmds' = IF link THEN cmds \o commands ELSE cmds

Rest    == [op |-> "rest"]
Move(c) == [op |-> "move", cell |-> c]
Target  == [op |-> "target"]

\* _cast_spell: the monster is selected and the skill sent in the same tick.
Strike  == <<Target, [op |-> "attack"]>>

Stopped(b) ==
  [b EXCEPT !.running = FALSE, !.located = FALSE, !.pending = None, !.age = 0, !.seen = FALSE,
            !.recovering = FALSE]

StopBotOnly == bot' = Stopped(bot) /\ waits' = waits \ {"block"} /\ UNCHANGED trip

\* _stop_bot.
StopBot == bot' = Stopped(bot) /\ trip' = NoTrip /\ waits' = waits \ {"block"}

\* What a handler made of the bot; if it called _stop_bot, the rest of that too.
Became(b) ==
  IF b.running THEN bot' = b /\ UNCHANGED <<trip, waits>>
  ELSE bot' = b /\ trip' = NoTrip /\ waits' = waits \ {"block"}

PathFinished(b) == Stopped(b)

AdvanceEarly(b) ==
  IF b.index + 1 < Len(b.goals) THEN [b EXCEPT !.index = @ + 1]
  ELSE IF opt.loop THEN [b EXCEPT !.index = 1] ELSE PathFinished(b)

Advance(b) ==
  IF b.index < Len(b.goals) THEN [b EXCEPT !.index = @ + 1]
  ELSE IF opt.loop THEN [b EXCEPT !.index = 1]
  ELSE PathFinished([b EXCEPT !.index = @ + 1])

Toggled == Send(<<Rest>>)

\* _start_travel to a cell, after which the bot is started or not.
StartTravel(cell, then, calls) ==
  LET path == Astar(PlayerCell, cell)
      must == view.resting = "sitting"
      walk == Legs(path)
  IN IF view.grid = None \/ PlayerCell \in {None, cell}
       THEN trip' = NoTrip /\ later' = calls /\ UNCHANGED cmds
     ELSE IF must
       THEN /\ trip' = NoTrip
            /\ IF view.char /\ link THEN Toggled /\ later' = Append(calls, [cell |-> cell, then |-> then])
               ELSE later' = calls /\ UNCHANGED cmds
     ELSE /\ trip' = IF path = None THEN NoTrip
                     ELSE [NoTrip EXCEPT !.targets = walk, !.then = then, !.on = TRUE]
          /\ later' = calls /\ UNCHANGED cmds

Stationary == opt.attack \/ opt.pickup \/ opt.recover

\* _start_bot, called when the bot is b.
StartBot(b) ==
  IF b.running \/ (ui.path = <<>> /\ ~Stationary)
    THEN bot' = b /\ UNCHANGED <<trip, later, waits, cmds, streak, ordered>>
  ELSE IF PlayerCell = None
    THEN bot' = [b EXCEPT !.located = TRUE] /\ UNCHANGED <<trip, later, waits, cmds, streak, ordered>>
  ELSE IF ui.start \notin {None, PlayerCell}
    THEN /\ Len(later) < MaxLater
         /\ bot' = [b EXCEPT !.located = FALSE]
         /\ StartTravel(ui.start, TRUE, later)
         /\ UNCHANGED <<waits, streak, ordered>>
  ELSE /\ bot' = [Begun EXCEPT !.located = b.located]
       /\ waits' = waits \cap {"block"}
       /\ streak' = 0 /\ ordered' = {}
       /\ UNCHANGED <<trip, later, cmds>>

\* The rests sent to which the window has not read the answer.
Unanswered == Cardinality({i \in DOMAIN cmds : cmds[i].op = "rest"}) +
              Cardinality({i \in DOMAIN inbox : inbox[i].op = "rest"})

Excused(kind) == mishaps' = mishaps \cup (IF Unanswered > 0 THEN {kind} ELSE {})

Pending(kinds) == {k \in kinds : \/ k = "later" /\ later # <<>>
                                 \/ k = "idle" /\ idle > 0
                                 \/ k = "located" /\ bot.located}

-----------------------------------------------------------------------------
(* The user. *)

Acts == Event /\ halt' = "no" /\ left' = {} /\ UNCHANGED <<game, view, idle, inbox, link>>

ResetIndex == bot' = [bot EXCEPT !.index = 1]

Click(cell) ==
  /\ view.grid # None /\ cell \notin Walls
  /\ Acts
  /\ IF ~bot.running /\ ~ui.draw
       THEN /\ Len(later) < MaxLater
            /\ StartTravel(cell, FALSE, later)
            /\ Excused("clicked")
            /\ UNCHANGED <<ui, bot>>
     ELSE /\ ui' = IF ~bot.running /\ ui.start = None
                     THEN Rebuilt([ui EXCEPT !.start = cell, !.way = <<>>])
                   ELSE Rebuilt([ui EXCEPT !.way = Append(@, cell)])
          /\ ResetIndex
          /\ UNCHANGED <<trip, later, cmds, mishaps>>
  /\ UNCHANGED <<opt, waits, streak, ordered>>

Undo ==
  /\ view.grid # None
  /\ \/ ui.way # <<>> /\ ui' = Rebuilt([ui EXCEPT !.way = SubSeq(@, 1, Len(@) - 1)])
     \/ ui.way = <<>> /\ ui.start # None /\ ui' = Rebuilt([ui EXCEPT !.start = None])
  /\ ResetIndex
  /\ Acts
  /\ UNCHANGED <<opt, trip, later, waits, cmds, streak, ordered, mishaps>>

DrawPath ==
  /\ ui' = [ui EXCEPT !.draw = ~@]
  /\ Acts
  /\ UNCHANGED <<opt, bot, trip, later, waits, cmds, streak, ordered, mishaps>>

ClearPath ==
  /\ ui' = [Blank EXCEPT !.draw = ui.draw]
  /\ bot' = [bot EXCEPT !.index = 1, !.pending = None, !.age = 0, !.seen = FALSE]
  /\ trip' = NoTrip
  /\ Acts
  /\ UNCHANGED <<opt, later, waits, cmds, streak, ordered, mishaps>>

Start ==
  /\ StartBot(bot)
  /\ Excused("clicked")
  /\ Acts
  /\ UNCHANGED <<ui, opt>>

Stop ==
  /\ Event
  /\ StopBot
  /\ halt' = "stop" /\ left' = Pending({"later", "idle"})
  /\ UNCHANGED <<game, view, ui, opt, later, idle, cmds, inbox, link, streak, ordered, mishaps>>

LoadConfig(o) ==
  /\ o # opt /\ opt' = o
  /\ bot' = IF bot.running THEN Stopped(bot) ELSE [bot EXCEPT !.pending = None, !.age = 0]
  /\ trip' = IF bot.running THEN NoTrip ELSE trip
  /\ waits' = waits \ (IF bot.running THEN {"attack", "walk", "block"} ELSE {"attack", "walk"})
  /\ Acts
  /\ UNCHANGED <<ui, later, cmds, streak, ordered, mishaps>>

\* The user flips a toggle, also while the bot runs; nothing but a tick or a start looks at it.
Flip(kind) ==
  /\ opt' = [opt EXCEPT ![kind] = ~@]
  /\ Event
  /\ UNCHANGED <<game, view, ui, bot, trip, later, idle, waits, cmds, inbox, link, past>>

-----------------------------------------------------------------------------
(* _drain. *)

ChangesBotTo(m) ==
  /\ IF m \notin Gridded \/ m = view.grid \/ ~bot.running THEN UNCHANGED <<bot, waits>>
     ELSE bot' = Stopped(bot) /\ waits' = waits \ {"block"}
  /\ ui' = [Blank EXCEPT !.draw = ui.draw] /\ UNCHANGED trip

\* _auto_map_tick and _select_map: another map stops everything, if it has a grid.
ChangesTo(m) ==
  IF m = view.grid \/ m \notin Gridded THEN UNCHANGED <<ui, bot, trip, waits>>
  ELSE /\ ui' = [Blank EXCEPT !.draw = ui.draw]
       /\ IF bot.running THEN bot' = [Stopped(bot) EXCEPT !.goals = <<>>, !.index = 1] /\ waits' = waits \ {"block"}
          ELSE bot' = [bot EXCEPT !.goals = <<>>, !.index = 1, !.pending = None, !.age = 0]
               /\ UNCHANGED waits
       /\ trip' = NoTrip

Drained == inbox # <<>> /\ inbox' = Tail(inbox)
           /\ UNCHANGED <<game, opt, later, idle, cmds, link, count, streak, ordered, mishaps>>

Posture(sitting) == IF sitting THEN "sitting" ELSE "standing"

DrainMap ==
  /\ Drained
  /\ LET m == Head(inbox)
     IN /\ m.op = "at"
        /\ view' = [view EXCEPT !.map = m.map, !.grid = IF m.map \in Gridded THEN m.map ELSE @,
                                !.pos = m.cell, !.char = TRUE, !.foe = FALSE, !.item = FALSE]
        /\ ChangesTo(m.map)
        /\ IF m.map \notin Gridded \ {view.grid} THEN UNCHANGED <<halt, left>>
           ELSE halt' = "map" /\ left' = Pending({"later", "idle", "located"})

\* While the server has named no map, the one that fits the positions best is taken.
DetectMap(m) ==
  /\ view.map = None /\ view.pos # None /\ view.foe /\ m \in Gridded \ {view.grid}
  /\ view' = [view EXCEPT !.grid = m]
  /\ ChangesTo(m)
  /\ Event /\ halt' = "map" /\ left' = Pending({"later", "idle", "located"})
  /\ UNCHANGED <<game, opt, later, idle, cmds, inbox, link, streak, ordered, mishaps>>

RefusedKept(m) == view

\* A monster the client has no object for is forgotten.
Refused(m) == IF m.gone THEN [view EXCEPT !.foe = FALSE] ELSE view

\* POS answers, packets of the own character and of others, and refusals of TARGET.  A tp at the end
\* of a walk also teaches the own id, which a character whose position is known has told before.
Seen(m) ==
  CASE m.op = "pos"  -> [view EXCEPT !.pos = m.cell, !.real = m.cell, !.char = TRUE,
                                     !.resting = Posture(m.sitting)]
    [] m.op = "walk" -> [view EXCEPT !.pos = m.cell]
    [] m.op = "tp"   -> IF view.char THEN [view EXCEPT !.pos = m.cell] ELSE view
    [] m.op = "rest" -> [view EXCEPT !.resting = Posture(m.sitting), !.char = TRUE]
    [] m.op = "stat" -> [view EXCEPT !.hp = m.hp]
    [] m.op = "st"   -> [view EXCEPT !.foe = FALSE]
    [] m.op = "get"  -> [view EXCEPT !.item = FALSE]
    [] m.op = "err"  -> Refused(m)
    [] OTHER         -> view

DrainOther ==
  /\ Drained
  /\ LET m == Head(inbox)
     IN /\ m.op # "at"
        /\ view' = Seen(m)
        /\ bot' = IF m.op \in {"tp", "mv"} /\ bot.pending # None THEN [bot EXCEPT !.seen = m.cell = bot.pending] ELSE bot
        /\ waits' = IF m.op = "err" THEN waits \cup {"block"} ELSE waits
  /\ UNCHANGED <<ui, trip, halt, left>>

Drain == DrainMap \/ DrainOther

\* The end of _drain.
StartLocated ==
  /\ bot.located /\ ~bot.running /\ PlayerCell # None
  /\ StartBot([bot EXCEPT !.located = FALSE])
  /\ Excused("queued")
  /\ UNCHANGED <<game, view, ui, opt, idle, inbox, link, count, halt, left>>

-----------------------------------------------------------------------------
(* What travelling leaves with GLib, and its tick. *)

Quiet == UNCHANGED <<game, view, ui, opt, inbox, link, count, halt, left>>

\* The 700 ms are over: a character that still sits is told to stand once more, also while a bot runs
\* that does the same.
StandUpOver ==
  /\ later # <<>>
  /\ StartTravel(Head(later).cell, Head(later).then, Tail(later))
  /\ mishaps' = mishaps \cup (IF Unanswered > 0 THEN {"late"} ELSE {}) \cup (IF bot.running THEN {"both"} ELSE {})
  /\ UNCHANGED <<bot, idle, waits, streak, ordered>> /\ Quiet

IdleStart ==
  /\ idle > 0 /\ idle' = idle - 1
  /\ StartBot(bot)
  /\ Excused("queued") /\ Quiet

\* _finish_travel.
Arrived ==
  /\ trip.then => idle = 0
  /\ trip' = NoTrip
  /\ idle' = IF trip.then THEN idle + 1 ELSE idle
  /\ UNCHANGED cmds

NextLeg == trip' = [trip EXCEPT !.index = @ + 1, !.pending = None, !.age = 0] /\ UNCHANGED <<idle, cmds>>

LastLeg == trip.index >= Len(trip.targets)

TravelWaitsForever ==
  /\ trip.pending # None
  /\ IF LastLeg /\ PlayerCell = trip.pending THEN Arrived ELSE UNCHANGED <<trip, idle, cmds>>

TravelWaits ==
  /\ trip.pending # None
  /\ LET near == PlayerCell # None /\ Dist(PlayerCell, trip.pending) <= 1
     IN IF LastLeg /\ PlayerCell = trip.pending THEN Arrived
        ELSE IF ~LastLeg /\ near /\ trip.age > 0 THEN NextLeg
        ELSE IF trip.age < 2 THEN UNCHANGED <<trip, idle, cmds>>
        ELSE IF LastLeg THEN trip' = NoTrip /\ UNCHANGED <<idle, cmds>>
        ELSE NextLeg

TravelWalks ==
  /\ trip.pending = None
  /\ IF trip.index > Len(trip.targets) THEN Arrived
     ELSE LET target == trip.targets[trip.index]
          IN IF PlayerCell = target THEN NextLeg
             ELSE IF ~link THEN trip' = NoTrip /\ UNCHANGED <<idle, cmds>>
             ELSE /\ Send(<<Move(target)>>)
                  /\ trip' = [trip EXCEPT !.pending = target, !.age = 0]
                  /\ UNCHANGED idle

\* _travel_tick.
TravelTick ==
  /\ trip.on
  /\ IF bot.running THEN trip' = [trip EXCEPT !.on = FALSE] /\ UNCHANGED <<idle, cmds>>
     ELSE TravelWaits \/ TravelWalks
  /\ UNCHANGED <<bot, later, waits, streak, ordered, mishaps>> /\ Quiet

-----------------------------------------------------------------------------
(* _bot_tick, one action per stage: a stage is reached if no earlier one returned. *)

Ticks == bot.running /\ UNCHANGED <<later, idle>> /\ Quiet

TickUnlinked ==
  /\ Ticks /\ ~link
  /\ StopBot
  /\ UNCHANGED <<cmds, streak, ordered, mishaps>>

Recovers   == opt.recover /\ view.char /\ view.hp # "unknown"
Resting    == bot.recovering \/ view.hp = "low"
MustStand  == view.resting = "sitting" /\ view.char /\ "stand" \notin waits
MustPick   == opt.pickup /\ view.item /\ view.char /\ PlayerCell # None
              /\ bot.tries < 3 /\ "pick" \notin waits
Recovery   == Recovers /\ Resting

TickResume ==
  /\ Ticks /\ link /\ Recovery /\ view.hp = "full"
  /\ bot' = [bot EXCEPT !.recovering = FALSE]
  /\ IF view.resting = "sitting" THEN Toggled /\ mishaps' = mishaps \cup {"resumed"}
     ELSE UNCHANGED <<cmds, mishaps>>
  /\ UNCHANGED <<trip, waits, streak, ordered>>

TickRecoverOnce ==
  /\ Ticks /\ link /\ Recovery /\ view.hp = "low"
  /\ IF bot.recovering \/ view.resting = "sitting" THEN UNCHANGED cmds ELSE Toggled
  /\ bot' = [bot EXCEPT !.recovering = TRUE, !.pending = None, !.age = 0, !.seen = FALSE]
  /\ UNCHANGED <<trip, waits, streak, ordered, mishaps>>

TickRecover ==
  /\ Ticks /\ link /\ Recovery /\ view.hp = "low"
  /\ LET on == IF bot.recovering THEN waits ELSE waits \ {"attack"}
     IN IF view.resting # "sitting" /\ "sit" \notin waits
          THEN /\ Toggled /\ waits' = on \cup {"sit"}
               /\ mishaps' = mishaps \cup (IF view.resting = "unknown" THEN {"guessed"} ELSE {})
          ELSE UNCHANGED <<cmds, mishaps>> /\ waits' = on
  /\ bot' = IF bot.recovering THEN bot
            ELSE [bot EXCEPT !.recovering = TRUE, !.pending = None, !.age = 0, !.seen = FALSE]
  /\ UNCHANGED <<trip, streak, ordered>>

\* What the later stages see: recovery that was switched off is over.
Awake == [bot EXCEPT !.recovering = FALSE]
Left(b) == [b EXCEPT !.pending = None, !.age = 0, !.seen = FALSE]

HasNext   == bot.index < Len(bot.goals) \/ opt.loop
HandsOff  == HasNext /\ PlayerCell # None /\ Dist(PlayerCell, bot.pending) <= 1 /\ bot.age >= 1
Confirmed == (view.pos = bot.pending \/ bot.seen) /\ bot.age >= 2

TickWalking ==
  /\ Ticks /\ link /\ ~Recovery /\ bot.pending # None
  /\ LET again == [Left(Awake) EXCEPT !.rejected = @ + 1]
     IN IF HandsOff \/ Confirmed
          THEN Became(Advance([Left(Awake) EXCEPT !.rejected = 0])) /\ streak' = 0
        ELSE IF bot.age < 3 THEN Became(Awake) /\ UNCHANGED streak
        ELSE /\ streak' = streak + 1
             /\ Became(IF again.rejected >= 3 THEN Stopped(again) ELSE Advance(again))
  /\ UNCHANGED <<cmds, ordered, mishaps>>

Free == Ticks /\ link /\ ~Recovery /\ bot.pending = None

TickStandAgain ==
  /\ Free /\ view.resting = "sitting" /\ view.char
  /\ Toggled /\ bot' = Awake
  /\ UNCHANGED <<trip, waits, streak, ordered, mishaps>>

TickStand ==
  /\ Free /\ MustStand
  /\ Toggled /\ waits' = waits \cup {"stand"} /\ bot' = Awake
  /\ UNCHANGED <<trip, streak, ordered, mishaps>>

TickPickup ==
  /\ Free /\ ~MustStand /\ MustPick
  /\ Send(<<[op |-> "get"]>>) /\ waits' = waits \cup {"pick"}
  /\ bot' = [Awake EXCEPT !.tries = @ + 1]
  /\ UNCHANGED <<trip, streak, ordered, mishaps>>

Idles == Free /\ ~MustStand /\ ~MustPick

Monster == opt.attack /\ view.foe /\ "block" \notin waits /\ PlayerCell # None
InRange == Dist(PlayerCell, Foe) <= BasicRange

\* A spell or the basic attack; the monster stays in range, so the route waits.
TickFight ==
  /\ Idles /\ Monster /\ InRange
  /\ IF "attack" \in waits THEN UNCHANGED <<cmds, waits>>
     ELSE Send(Strike) /\ waits' = waits \cup {"attack", "walk"}
  /\ bot' = Awake
  /\ UNCHANGED <<trip, streak, ordered, mishaps>>

Walking(b, cell) == [b EXCEPT !.pending = cell, !.age = 0, !.seen = FALSE]

Chases == /\ Monster /\ ~InRange /\ bot.goals = <<>> /\ "attack" \notin waits /\ view.grid # None
          /\ Astar(PlayerCell, Foe) # None

\* _chase_step: four cells at a time.
TickChase ==
  /\ Idles /\ Chases
  /\ IF "walk" \in waits \/ Dist(PlayerCell, Foe) < 2 THEN bot' = Awake /\ UNCHANGED cmds
     ELSE LET path == Astar(PlayerCell, Foe)
              leg  == path[IF Len(path) < 4 THEN Len(path) ELSE 4]
          IN Send(<<Target, Move(leg)>>) /\ bot' = Walking(Awake, leg)
  /\ UNCHANGED <<trip, waits, streak, ordered, mishaps>>

TickStays ==
  /\ Idles /\ bot.goals = <<>> /\ ~(Monster /\ InRange) /\ ~Chases
  /\ Became(IF Stationary THEN Awake ELSE PathFinished(bot))
  /\ UNCHANGED <<cmds, streak, ordered, mishaps>>

TickRoute ==
  /\ Idles /\ bot.goals # <<>> /\ ~(Monster /\ InRange)
  /\ LET at == IF bot.index > Len(bot.goals) THEN 1 ELSE bot.index
         b  == [Awake EXCEPT !.index = at]
         goal == bot.goals[at]
     IN IF bot.index > Len(bot.goals) /\ ~opt.loop
          THEN Became(PathFinished(bot)) /\ UNCHANGED <<cmds, ordered>>
        ELSE IF PlayerCell = goal
          THEN Became(Advance(b)) /\ ordered' = ordered \cup {at} /\ UNCHANGED cmds
        ELSE IF "walk" \in waits
          THEN Became(b) /\ UNCHANGED <<cmds, ordered>>
        ELSE Send(<<Move(goal)>>) /\ Became(Walking(b, goal)) /\ ordered' = ordered \cup {at}
  /\ UNCHANGED <<streak, mishaps>>

Stages == TickWalking \/ TickStand \/ TickPickup \/ TickFight \/ TickChase \/ TickStays \/ TickRoute

BotTick == TickUnlinked \/ TickResume \/ TickRecover \/ Stages

-----------------------------------------------------------------------------
(* Time. *)

Passes == UNCHANGED <<game, view, ui, opt, later, idle, cmds, inbox, link, halt, left, streak, ordered>>

\* A rest that is not answered in time may be repeated.
Late(t) == t \in {"stand", "sit"} /\ Unanswered > 0

Elapse(t) ==
  /\ t \in waits /\ waits' = waits \ {t}
  /\ IF Late(t) THEN Event /\ mishaps' = mishaps \cup {"late"} ELSE UNCHANGED <<count, mishaps>>
  /\ UNCHANGED <<bot, trip>> /\ Passes

BotAges  == bot.pending # None /\ bot.age < 3 /\ bot' = [bot EXCEPT !.age = @ + 1]
            /\ UNCHANGED <<trip, waits, count, mishaps>> /\ Passes
TripAges == trip.pending # None /\ trip.age < 2 /\ trip' = [trip EXCEPT !.age = @ + 1]
            /\ UNCHANGED <<bot, waits, count, mishaps>> /\ Passes

-----------------------------------------------------------------------------
(* The DLL, the client, the server and the network. *)

World == UNCHANGED <<ui, opt, bot, trip, later, idle, waits, halt, left, streak, ordered, mishaps>>

Tell(messages) == Len(inbox) < MaxInbox /\ inbox' = IF link THEN inbox \o messages ELSE inbox

\* The positions are polled as long as there is a link.
Answer ==
  /\ inbox = <<>> /\ link
  /\ Tell(<<[op |-> "pos", cell |-> game.cell, sitting |-> game.sitting]>>)
  /\ UNCHANGED <<game, view, cmds, link, count>> /\ World

\* No answer to POS for a second and a half.
PosGoesStale ==
  /\ view.real # None /\ view' = [view EXCEPT !.real = None]
  /\ IF link THEN Event ELSE UNCHANGED count
  /\ UNCHANGED <<game, cmds, inbox, link>> /\ World

ServeMove(c) ==
  \/ /\ ~game.sitting
     /\ game' = [game EXCEPT !.dest = c] /\ Tell(<<[op |-> "walk", cell |-> c]>>)
     /\ UNCHANGED count
  \/ game.sitting /\ UNCHANGED <<game, inbox, count>>
  \/ ~game.sitting /\ Event /\ UNCHANGED game /\ Tell(<<[op |-> "tp", cell |-> game.cell]>>)

ServeRest ==
  /\ game' = [game EXCEPT !.sitting = ~@, !.dest = None]
  /\ Tell(<<[op |-> "rest", sitting |-> ~game.sitting]>>)
  /\ UNCHANGED count

\* The client refuses a monster that is gone, and now and then one that is not.
ServeTarget ==
  \/ game.foe /\ UNCHANGED <<game, inbox, count>>
  \/ ~game.foe /\ UNCHANGED <<game, count>> /\ Tell(<<[op |-> "err", gone |-> TRUE]>>)
  \/ game.foe /\ Event /\ UNCHANGED game /\ Tell(<<[op |-> "err", gone |-> FALSE]>>)

\* The monster may die, and the server may not say so.
ServeAttack ==
  \/ UNCHANGED <<game, inbox, count>>
  \/ /\ game.foe /\ game' = [game EXCEPT !.foe = FALSE] /\ Event
     /\ Tell(<<[op |-> "st"]>>) \/ UNCHANGED inbox

ServeGet ==
  \/ UNCHANGED <<game, inbox, count>>
  \/ game.item /\ game' = [game EXCEPT !.item = FALSE] /\ Tell(<<[op |-> "get"]>>) /\ UNCHANGED count

Serve ==
  /\ cmds # <<>> /\ cmds' = Tail(cmds)
  /\ LET c == Head(cmds)
     IN \/ c.op = "move" /\ ServeMove(c.cell)
        \/ c.op = "rest" /\ ServeRest
        \/ c.op = "target" /\ ServeTarget
        \/ c.op = "attack" /\ ServeAttack
        \/ c.op = "get" /\ ServeGet
  /\ UNCHANGED <<view, link>> /\ World

Step ==
  /\ game.dest \notin {None, game.cell} /\ ~game.sitting
  /\ game' = [game EXCEPT !.cell = IF game.dest > @ THEN @ + 1 ELSE @ - 1]
  /\ UNCHANGED <<view, cmds, inbox, link, count>> /\ World

Heal ==
  /\ game.sitting /\ game.hp = "low"
  /\ game' = [game EXCEPT !.hp = "full"]
  /\ Tell(<<[op |-> "stat", hp |-> "full"]>>)
  /\ UNCHANGED <<view, cmds, link, count>> /\ World

Hurt ==
  /\ game.hp = "full" /\ game' = [game EXCEPT !.hp = "low"]
  /\ Tell(<<[op |-> "stat", hp |-> "low"]>>)
  /\ Event /\ UNCHANGED <<view, cmds, link>> /\ World

Warp(m) ==
  /\ m # game.map
  /\ game' = [game EXCEPT !.map = m, !.cell = Entry, !.dest = None, !.foe = FALSE, !.item = FALSE]
  /\ Tell(<<[op |-> "at", map |-> m, cell |-> Entry]>>)
  /\ Event /\ UNCHANGED <<view, cmds, link>> /\ World

OtherMoves(c) ==
  /\ Tell(<<[op |-> "mv", cell |-> c]>>)
  /\ Event /\ UNCHANGED <<game, view, cmds, link>> /\ World

LoseLink ==
  /\ link /\ link' = FALSE /\ cmds' = <<>>
  /\ Event /\ UNCHANGED <<game, view, inbox>> /\ World

Reconnect ==
  /\ ~link /\ link' = TRUE
  /\ UNCHANGED <<game, view, cmds, inbox, count>> /\ World

-----------------------------------------------------------------------------

User ==
  \/ \E c \in Clicked : Click(c)
  \/ Undo \/ DrawPath \/ ClearPath \/ Start \/ Stop
  \/ \E o \in Options : LoadConfig(o)
  \/ \E kind \in Flipped : Flip(kind)

Window == Drain \/ (\E m \in Maps : DetectMap(m)) \/ StartLocated \/ StandUpOver \/ IdleStart \/ TravelTick \/ BotTick

Time == (\E t \in Timers : Elapse(t)) \/ BotAges \/ TripAges \/ PosGoesStale

Rules == Serve \/ Step \/ Heal

Chance ==
  \/ Hurt
  \/ \E m \in Maps : Warp(m)
  \/ \E c \in {Entry, bot.pending} \ {None} : OtherMoves(c)
  \/ LoseLink \/ Reconnect

Next == User \/ Window \/ Time \/ Answer \/ Rules \/ Chance

Spec == Init /\ [][Next]_vars

\* The main loop runs what is due, deadlines pass, the DLL answers and a character that
\* sits heals.  Nothing is asked of the user, of the network or of chance.
Fairness ==
  /\ WF_vars(Drain) /\ WF_vars(StandUpOver) /\ WF_vars(IdleStart) /\ WF_vars(StartLocated)
  /\ WF_vars(TravelTick) /\ SF_vars(BotTick)
  /\ \A t \in Timers : WF_vars(Elapse(t))
  /\ WF_vars(BotAges) /\ WF_vars(TripAges)
  /\ WF_vars(Answer) /\ SF_vars(Serve) /\ WF_vars(Step) /\ SF_vars(Heal)

FairSpec == Spec /\ Fairness

-----------------------------------------------------------------------------
(* Correctness. *)

Still == ~bot.running /\ ~trip.on

Views == [map : Maps \cup {None}, grid : Gridded \cup {None}, pos : MaybeAt, real : MaybeAt,
          resting : {"unknown", "sitting", "standing"}, char : BOOLEAN, hp : {"unknown", "low", "full"},
          foe : BOOLEAN, item : BOOLEAN]

Bots  == [running : BOOLEAN, goals : Seq(Cells), index : Nat \ {0}, pending : MaybeAt, age : 0 .. 3,
          seen : BOOLEAN, rejected : Nat, located : BOOLEAN, recovering : BOOLEAN, tries : 0 .. 3]
Trips == [targets : Seq(Cells), index : Nat \ {0}, pending : MaybeAt, age : 0 .. 2, then : BOOLEAN,
          on : BOOLEAN]
Calls == [cell : Cells, then : BOOLEAN]

Commands == [op : {"rest", "target", "attack", "get"}] \cup [op : {"move"}, cell : Cells]

Messages ==
  [op : {"pos"}, cell : Cells, sitting : BOOLEAN] \cup [op : {"rest"}, sitting : BOOLEAN]
  \cup [op : {"walk", "tp", "mv"}, cell : Cells] \cup [op : {"stat"}, hp : {"low", "full"}]
  \cup [op : {"st", "get"}] \cup [op : {"err"}, gone : BOOLEAN] \cup [op : {"at"}, map : Maps, cell : Cells]

\* Every variable keeps its type: the queues their bounds, no walk outlasts its deadlines, no goal,
\* leg or command is off the map, an item is tried three times and one start at most is queued.
TypeOK ==
  /\ game \in Games /\ view \in Views /\ ui \in Drawings /\ opt \in Toggles
  /\ bot \in Bots /\ trip \in Trips
  /\ later \in Seq(Calls) /\ Len(later) <= MaxLater /\ idle \in 0 .. 1
  /\ waits \subseteq Timers /\ link \in BOOLEAN /\ count \in Nat
  /\ cmds \in Seq(Commands) /\ Len(cmds) <= MaxCmds
  /\ inbox \in Seq(Messages) /\ Len(inbox) <= MaxInbox
  /\ halt \in {"no", "stop", "map"} /\ left \subseteq {"later", "idle", "located"}
  /\ streak \in Nat /\ ordered \subseteq Nat \ {0}
  /\ mishaps \subseteq {"late", "clicked", "queued", "both", "guessed", "resumed"}

\* After Stop nothing walks, fights or starts until the user acts again, unless one of the
\* two callbacks was waiting: the 700 ms of a character told to stand (_start_travel) or
\* the start queued at the end of a walk (_finish_travel), which _stop_bot does not cancel.
StopIsFinal == halt = "stop" /\ left = {} => Still /\ ~bot.located /\ later = <<>> /\ idle = 0

\* The same of a change to a map with a grid: no goal, waypoint or walk of the old map is
\* followed on the new one (_select_map).
MapStops == halt = "map" /\ left = {} => Still

\* The user, another map, a lost link, or three walks in a row that timed out.
Interrupted == view'.grid # view.grid \/ count' > count \/ ~link \/ streak' >= 3

\* The end of a route without Loop: every goal has been walked to or stood on.
RouteDone == bot.goals # <<>> /\ ~opt.loop /\ DOMAIN bot.goals \subseteq ordered'

\* Every toggle that gave a bot without a route something to do is off.
NothingToDo == bot.goals = <<>> /\ bot.pending = None /\ ~Stationary

\* A leg of a chase without Loop, which _advance_path takes for the last of a route.
ChaseTakenForRoute == bot.goals = <<>> /\ bot.pending # None /\ ~opt.loop

\* A running bot stops by itself only when it is interrupted, at the end of a route all of whose
\* goals it has walked to or stood on, or without a route when there is nothing left to do; and, which
\* is a finding, without Loop at the end of a leg of a chase.
StopsForAReason ==
  [][bot.running /\ ~bot'.running =>
       Interrupted \/ RouteDone \/ NothingToDo \/ ChaseTakenForRoute]_vars

\* "Stationary mode: combat/pickup/recovery continue until Stop" (gui.py:4113): a bot without a route
\* that has something to do goes on until it is interrupted.  A leg of a chase ends it without Loop.
StationaryGoesOn ==
  [][bot.running /\ ~bot'.running /\ bot.goals = <<>> /\ Stationary => Interrupted]_vars

\* The rest packet toggles, so a second one before the answer undoes the first: none is
\* sent, unless a deadline passed before the answer came, the user asked again, a start that
\* had to wait found the first under way, the stand-up of a click met a running bot, the bot
\* sat down without knowing whether it sat, or it stood up because its health was full
\* (which the stand stage repeats).
TogglesOnce == mishaps = {} => Unanswered <= 1

\* A walk to a clicked cell ends: it arrives, times out, or is called off.
TravelEnds == trip.on ~> ~trip.on

FullUntold == view.hp = "low" /\ game.hp = "full" /\ \A i \in DOMAIN inbox : inbox[i].op # "stat"

\* A bot that recovers does not do so for ever, however often the rest is repeated in
\* vain, unless the message of its full health was lost with a link.
RecoveryEnds == bot.recovering ~> ~bot.recovering \/ FullUntold

\* A stationary bot that goes on attacking does not attack a corpse for ever when the server said
\* nothing of the death: the client refuses to select it, and _drain forgets it.
CorpseForgotten ==
  bot.running /\ bot.goals = <<>> /\ view.grid # None /\ opt.attack /\ view.foe /\ ~game.foe
    ~> ~bot.running \/ ~view.foe \/ ~opt.attack

=============================================================================
