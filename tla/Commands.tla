------------------------------ MODULE Commands ------------------------------
(***************************************************************************)
(* cli.py: the commands that send requests to the DLL and read the stream  *)
(* until a line answers them or their deadline passes; replay, which sends *)
(* and never reads; and monitor, which reads until it is told to stop.     *)
(*                                                                         *)
(* To a command a line is "yes" or "no", success or failure of what it     *)
(* asked for, or neither.  Behind the broker of the MCP server other hosts *)
(* ask too, and their answers come on the same stream.                     *)
(***************************************************************************)
EXTENDS Integers, Sequences

CONSTANT MaxOther   \* bound: lines that answer nothing this command asked

ASSUME CommandAssumption == MaxOther \in Nat

VARIABLES
  command,  \* its name, where it is, the requests it has not sent and the exit code
  stream,   \* lines on the way, and whether the connection is lost behind them
  request,  \* what became of the request: "none", "sent", "done" or "failed"
  alike,    \* the "yes" and "no" lines of others so far
  late      \* the deadline has passed, and the lines taken since

cliVars == <<command, stream, request, alike, late>>

Running == 9

Names == {"send", "cast", "walk", "scan", "find", "read", "status", "replay", "monitor"}

\* cast may ask to stand and to select first; status and monitor only read.
Requests(name) == CASE name = "cast" -> 1 .. 3 [] name = "replay" -> 0 .. 2 [] name \in {"status", "monitor"} -> {0} [] OTHER -> {1}

\* Those the DLL answers when it cannot do what they ask.
Refusable == {"send", "cast", "walk", "read"}

CliInit ==
  /\ \E name \in Names, n \in 0 .. 3 :
       n \in Requests(name) /\ command = [name |-> name, at |-> "connect", toSend |-> n, code |-> Running]
  /\ stream = [lines |-> <<>>, lost |-> FALSE]
  /\ request = "none"
  /\ alike = [lines |-> {}, count |-> 0]
  /\ late = [passed |-> FALSE, taken |-> 0]

-----------------------------------------------------------------------------
(* The command. *)

Exits(code) == command' = [command EXCEPT !.at = "exit", !.code = code]
At(place)   == command' = [command EXCEPT !.at = place]

Connects ==
  /\ command.at = "connect"
  /\ At("send") \/ Exits(2)
  /\ UNCHANGED <<stream, request, alike, late>>

Sends ==
  /\ command.at = "send"
  /\ IF command.toSend = 0
       THEN /\ IF command.name = "replay" THEN Exits(0) ELSE At("loop")
            /\ UNCHANGED request
       ELSE \/ /\ command' = [command EXCEPT !.toSend = @ - 1]
               /\ request' = IF command.toSend = 1 /\ ~stream.lost THEN "sent" ELSE request
            \/ stream.lost /\ Exits(2) /\ UNCHANGED request
  /\ UNCHANGED <<stream, alike, late>>

\* A mutant: the deadline is that of one recv only.
LooksNever ==
  /\ command.at = "loop"
  /\ At("recv")
  /\ UNCHANGED <<stream, request, alike, late>>

\* The deadline is looked at before each recv; monitor has none.
Looks ==
  /\ command.at = "loop"
  /\ IF late.passed /\ command.name # "monitor" THEN Exits(1) ELSE At("recv")
  /\ UNCHANGED <<stream, request, alike, late>>

\* What a line does: no is the exit code for a refusal, Running where the command reads on.
Judges(line, no) ==
  CASE line = "malformed" -> Exits(2)
    [] line = "yes" -> Exits(0)
    [] line = "no" /\ no # Running -> Exits(no)
    [] OTHER -> At("loop")

cmd_send(line)   == Judges(line, 1)
cmd_cast(line)   == Judges(line, 1)
cmd_walk(line)   == Judges(line, 1)
cmd_scan(line)   == Judges(line, Running)
cmd_status(line) == Judges(line, Running)
cmd_find(line)   == Judges(line, Running)

\* "READ failed" begins as a dump does, so read succeeds with it.
cmd_read(line) == Judges(line, 0)

\* The reader thread ends its stream at a malformed line.
cmd_monitor(line) == IF line \in {"quit", "malformed"} THEN Exits(0) ELSE At("loop")

Handle(line) ==
  CASE command.name = "send"   -> cmd_send(line)
    [] command.name = "cast"   -> cmd_cast(line)
    [] command.name = "walk"   -> cmd_walk(line)
    [] command.name = "scan"   -> cmd_scan(line)
    [] command.name = "status" -> cmd_status(line)
    [] command.name = "find"   -> cmd_find(line)
    [] command.name = "read"   -> cmd_read(line)
    [] OTHER                   -> cmd_monitor(line)

Takes ==
  /\ command.at = "recv" /\ stream.lines # <<>>
  /\ Handle(Head(stream.lines))
  /\ stream' = [stream EXCEPT !.lines = Tail(@)]
  /\ late' = [late EXCEPT !.taken = @ + IF late.passed THEN 1 ELSE 0]
  /\ UNCHANGED <<request, alike>>

\* recv returns None at the deadline and raises when the connection is lost; the reader of monitor
\* ends its stream instead, as /quit does.
TakesNothing ==
  /\ command.at = "recv" /\ stream.lines = <<>>
  /\ \/ late.passed /\ command.name # "monitor" /\ At("loop")
     \/ stream.lost /\ Exits(IF command.name = "monitor" THEN 0 ELSE 2)
  /\ UNCHANGED <<stream, request, alike, late>>

Quits ==
  /\ command.name = "monitor" /\ command.at = "recv"
  /\ Exits(0)
  /\ UNCHANGED <<stream, request, alike, late>>

-----------------------------------------------------------------------------
(* The DLL, the other hosts and the clock. *)

Says(line) == ~stream.lost /\ stream' = [stream EXCEPT !.lines = Append(@, line)]

Answers ==
  /\ request = "sent"
  /\ \/ request' = "done" /\ (Says("yes") \/ UNCHANGED stream)
     \/ request' = "failed" /\ (IF command.name \in Refusable THEN Says("no") ELSE UNCHANGED stream)
  /\ UNCHANGED <<command, alike, late>>

Others ==
  /\ alike.count < MaxOther
  /\ \E line \in {"yes", "no", "packet", "malformed", "quit"} :
       Says(line) /\ alike' = [lines |-> alike.lines \cup {line}, count |-> alike.count + 1]
  /\ UNCHANGED <<command, request, late>>

Drops ==
  /\ ~stream.lost /\ command.at # "connect"
  /\ stream' = [stream EXCEPT !.lost = TRUE]
  /\ UNCHANGED <<command, request, alike, late>>

Passes ==
  /\ ~late.passed /\ command.at # "connect"
  /\ late' = [late EXCEPT !.passed = TRUE]
  /\ UNCHANGED <<command, stream, request, alike>>

CliNext ==
  \/ Connects \/ Sends \/ Looks \/ Takes \/ TakesNothing \/ Quits
  \/ command.at # "exit" /\ (Answers \/ Others \/ Drops \/ Passes)

CliSpec == CliInit /\ [][CliNext]_cliVars

-----------------------------------------------------------------------------

\* The exit code says what became of the request: 0 that it was done, or that a line of another
\* host said the like; 1 that it failed, or nothing said so before the deadline; 2 that the
\* connection failed or a line was malformed.  However many lines come, at most one is taken after
\* the deadline.  read also exits with 0 when the DLL could not read.
ExitTruth ==
  /\ command.code = 0 /\ command.name \notin {"replay", "monitor"} =>
       request = "done" \/ "yes" \in alike.lines \/ (command.name = "read" /\ (request = "failed" \/ "no" \in alike.lines))
  /\ command.code = 1 => late.passed \/ request = "failed" \/ "no" \in alike.lines
  /\ command.code = 2 => request = "none" \/ stream.lost \/ "malformed" \in alike.lines
  /\ command.name # "monitor" => late.taken <= 1

=============================================================================
