----------------------------- MODULE GameService -----------------------------
(***************************************************************************)
(* The GameService of mcp_server.py on top of the Broker: one thread that  *)
(* runs the tool calls of an agent, one after the other.  A call sends     *)
(* commands through send_upstream like a client's thread does, and waits   *)
(* on a condition until what the upstream thread feeds makes its predicate *)
(* true or its time is over.                                               *)
(***************************************************************************)
EXTENDS Broker

CONSTANT
  Setups      \* who may connect, what may be called and what the game may send

Requests == [op : {"move", "travel"}, arg : Int]
            \cup [op : {"select", "attack", "buff", "pickup", "rest", "sit", "stand", "send", "memory", "wait", "state"},
                  arg : Targets \cup {None}]

ASSUME SetupsAssumption ==
  \A setup \in Setups :
    /\ setup.clients \subseteq Clients /\ setup.calls \subseteq Requests /\ setup.lines \subseteq Spoken
    /\ setup.attached = {} \/ \E c \in Clients : setup.attached = {c}
    /\ setup.state \in {"in", "stalled"}

VARIABLES
  plan,       \* one of Setups
  world,      \* of the engine: the cell, the posture, the items on the ground
  tool        \* the call: pc, the request, the steps left; what was fed since it started

vars == <<brokerVars, plan, world, tool>>

Request(op, arg) == [op |-> op, arg |-> arg]
Idle == [pc |-> "idle", call |-> Request(None, None), todo |-> <<>>, answer |-> None,
         news |-> {}, old |-> FALSE, alone |-> FALSE]

Init ==
  /\ plan \in Setups
  /\ BrokerInit(plan.attached, plan.state) /\ count = plan.spent
  /\ world = [pos |-> None, resting |-> None, drops |-> Targets]
  /\ tool = Idle

-----------------------------------------------------------------------------
(* What a call is made of: commands, each with what is waited for after it. *)

Then(command, arg, until) == [line |-> [op |-> command, arg |-> arg, by |-> Tool], until |-> until]

\* astar on a row of cells without walls.
Path(from, to) == [i \in 1 .. (IF from < to THEN to - from ELSE from - to) |->
                     IF from < to THEN from + i ELSE from - i]

\* game_travel walks to every second cell of the path (the leg of 4 in small): what is left
\* of the path is not walked to.
Legs(path) == [i \in 1 .. Len(path) \div 2 |-> Then("move", path[2 * i], "there")]

game_move(cell)     == <<Then("move", cell, "there")>>
game_travel(cell)   == Legs(Path(world.pos, cell))
game_select(target) == <<Then("target", target, "answer")>>
game_send           == <<Then("raw", None, "now")>>
\* Nothing to do if the posture is the one asked for; otherwise it waits until the character
\* sits, whichever of the two it was asked for.
game_rest(op)       == IF \/ op = "sit" /\ world.resting = TRUE
                          \/ op = "stand" /\ world.resting = FALSE
                       THEN <<>> ELSE <<Then("raw", None, "sits")>>
game_pickup         == <<Then("raw", None, "taken")>>
game_wait_for       == <<[line |-> None, until |-> "tick"]>>
game_memory         == <<Then("raw", None, "unknown")>>

\* A monster is selected first; another target is announced and the skill sent at once.
game_cast(op, target) ==
  (IF op = "attack" THEN game_select(target) ELSE <<Then("raw", None, "now")>>) \o <<Then("raw", None, "hit")>>

Steps(call) ==
  CASE call.op = "move"   -> game_move(call.arg)
    [] call.op = "travel" -> game_travel(call.arg)
    [] call.op = "select" -> game_select(call.arg)
    [] call.op \in {"attack", "buff"} -> game_cast(call.op, call.arg)
    [] call.op \in {"rest", "sit", "stand"} -> game_rest(call.op)
    [] call.op = "pickup" -> game_pickup
    [] call.op = "send"   -> game_send
    [] call.op = "memory" -> game_memory
    [] call.op = "wait"   -> game_wait_for
    [] OTHER              -> <<>>   \* game_state

Goes(t, todo) ==
  [t EXCEPT !.todo = todo,
            !.pc = IF todo = <<>> THEN "ok" ELSE IF Head(todo).line = None THEN "wait" ELSE "check"]

Met ==
  LET want == Head(tool.todo).until
  IN CASE want = "now"    -> TRUE
       [] want = "there"  -> world.pos = Head(tool.todo).line.arg
       [] want = "answer" -> tool.answer # None
       [] want = "sits"   -> world.resting = TRUE
       [] want = "taken"  -> tool.call.arg \notin world.drops
       [] OTHER           -> want \in tool.news

\* A TARGET, or its answer, of someone is under way.
InFlight ==
  LET Entries(lines) == {lines[i] : i \in 1 .. Len(lines)}
      line == Entries(up \o down) \cup {dll.line} \cup (UNION {Entries(asks[c]) : c \in Clients})
              \cup {thread[c] : c \in {d \in Clients : thread[d] # Off}}
              \cup (IF upstream.pc = "feed" THEN {upstream.line} ELSE {})
  IN \E l \in line \ {None} : l.op \in {"target", "selected", "refused"}

-----------------------------------------------------------------------------
(* The calls. *)

\* A call that needs what is not known fails before it sends.
Known(call) == call.op = "travel" => world.pos # None

Started(t, call) ==
  [(IF call.op = "state" THEN [t EXCEPT !.pc = "lock service"] ELSE Goes(t, Steps(call)))
     EXCEPT !.call = call, !.old = upstream.pc = "feed", !.alone = ~InFlight]

CallKeepsAnswer(call) ==
  /\ tool.pc = "idle" /\ svcLock = None /\ Event /\ Known(call)
  /\ tool' = Started(tool, call)
  /\ UNCHANGED <<links, threads, clients, history, plan, world>>

Call(call) ==
  /\ tool.pc = "idle" /\ svcLock = None /\ Event /\ Known(call)
  /\ tool' = Started(Idle, call)
  /\ UNCHANGED <<links, threads, clients, history, plan, world>>

Calls == \E call \in plan.calls : Call(call)

\* _require_connection.
Check ==
  /\ tool.pc = "check" /\ upLock = None
  /\ tool' = [tool EXCEPT !.pc = IF held THEN "lock" ELSE "error"]
  /\ UNCHANGED <<brokerVars, plan, world>>

Lock ==
  /\ tool.pc = "lock" /\ TakeUpLock(Tool)
  /\ tool' = [tool EXCEPT !.pc = "send"]
  /\ UNCHANGED <<links, upstream, svcLock, status, listener, clients, count, history, plan, world>>

Send ==
  /\ upLock = Tool /\ Forwards(Head(tool.todo).line) /\ upLock' = None
  /\ tool' = [tool EXCEPT !.pc = IF held' THEN "wait" ELSE "error"]
  /\ UNCHANGED <<upstream, svcLock, status, listener, clients, count, history, plan, world>>

\* The answer to a TARGET is the last one since the call started, whoever asked.
WaitEnds ==
  /\ tool.pc = "wait" /\ svcLock = None /\ Met
  /\ tool' = IF Head(tool.todo).until = "answer" /\ tool.answer.op = "refused"
             THEN [tool EXCEPT !.pc = "error"] ELSE Goes(tool, Tail(tool.todo))
  /\ UNCHANGED <<brokerVars, plan, world>>

Timeout ==
  /\ tool.pc = "wait" /\ svcLock = None /\ ~Met
  /\ tool' = [tool EXCEPT !.pc = "error"]
  /\ UNCHANGED <<brokerVars, plan, world>>

\* game_state asks the broker for its connection with the lock of the service held.
LockService ==
  /\ tool.pc = "lock service" /\ svcLock = None /\ svcLock' = Tool
  /\ tool' = [tool EXCEPT !.pc = "peek"]
  /\ UNCHANGED <<links, upstream, upLock, status, listener, clients, count, history, plan, world>>

Peek ==
  /\ tool.pc = "peek" /\ upLock = None /\ svcLock' = None
  /\ tool' = [tool EXCEPT !.pc = "ok"]
  /\ UNCHANGED <<links, upstream, upLock, status, listener, clients, count, history, plan, world>>

\* The answer is written to the agent.
Return ==
  /\ tool.pc \in {"ok", "error"} /\ tool' = [Idle EXCEPT !.answer = tool.answer]
  /\ UNCHANGED <<brokerVars, plan, world>>

Works == Check \/ Lock \/ Send \/ WaitEnds \/ Timeout \/ LockService \/ Peek \/ Return

-----------------------------------------------------------------------------
(* The rest of the system, and what of it the service sees. *)

\* _feed_packet and _feed_status.  A packet parsed before the call started is too old for it.
Feed ==
  /\ FeedService
  /\ LET line == upstream.line
     IN /\ world' = CASE line.op = "walk" -> [world EXCEPT !.pos = line.arg]
                      [] line.op = "rest" -> [world EXCEPT !.resting = line.arg = 1]
                      [] line.op = "get"  -> [world EXCEPT !.drops = @ \ {line.arg}]
                      [] OTHER            -> world
        /\ tool' = [tool EXCEPT
             !.answer = IF line.op \in {"selected", "refused"} THEN line ELSE @,
             !.news = IF \/ tool.pc = "idle"
                         \/ tool.old /\ ~IsStatus(line)
                         \/ line.op = "hit" /\ line.arg # tool.call.arg
                      THEN @ ELSE @ \cup {line.op},
             !.old = FALSE]
  /\ UNCHANGED plan

Speaks == \E line \in plan.lines : DllSpeaks(line) /\ UNCHANGED <<plan, world, tool>>

Writes(c) ==
  \E command \in Commands :
    /\ command.by = c /\ Request(command.op, command.arg) \in plan.asks
    /\ ClientWrites(c, command)
    /\ tool' = [tool EXCEPT !.alone = @ /\ command.op # "target"]
    /\ UNCHANGED <<plan, world>>

Rest == UNCHANGED <<plan, world, tool>>

Drops  == plan.drops /\ DllGoes /\ Rest
Stalls == \E c \in plan.clients : plan.stalls /\ ClientStalls(c) /\ Rest
Leaves == \E c \in plan.clients : plan.leaves /\ ClientGoes(c) /\ Rest

Others == (Connect \/ ReadLine \/ Cast \/ CastEnds \/ LoseUpstream \/ FallOut) /\ Rest

Next ==
  \/ Calls \/ Works
  \/ Feed \/ Others
  \/ DllServes /\ Rest
  \/ Speaks
  \/ DllWrites /\ Rest
  \/ DllTimesOut /\ Rest
  \/ Drops
  \/ \E c \in plan.clients : Thread(c) /\ Rest
  \/ \E c \in plan.clients : Accept(c) /\ Rest
  \/ ReadStatus /\ Rest
  \/ Greet /\ Rest
  \/ \E c \in plan.clients : Writes(c)
  \/ \E c \in plan.clients : ClientReads(c) /\ Rest
  \/ Stalls
  \/ Leaves

Spec == Init /\ [][Next]_vars

\* Threads run, sockets carry, waits time out and the DLL gives up on a send; nothing makes an
\* agent call, a client speak or a stalled client read.
FairSpec ==
  /\ Spec
  /\ WF_vars(Works) /\ WF_vars(Feed \/ Others)
  /\ WF_vars(DllServes /\ Rest) /\ WF_vars(DllWrites /\ Rest) /\ WF_vars(DllTimesOut /\ Rest)
  /\ WF_vars((ReadStatus \/ Greet) /\ Rest)
  /\ \A c \in Clients : WF_vars(Thread(c) /\ Rest) /\ WF_vars(ClientReads(c) /\ Rest)

-----------------------------------------------------------------------------
(* Properties. *)

\* Sockets and queues keep their bounds, the locks their holders, and a thread that waits for a
\* lock does not hold it: whoever holds _upstream_lock is about to send.
TypeOK ==
  /\ sess \in {"none", "open", "hungup"} /\ held \in BOOLEAN
  /\ Len(up) \in 0 .. MaxUp /\ Len(down) \in 0 .. MaxDown
  /\ upstream.pc \in {"connect", "recv", "feed", "cast", "raised", "dead"}
  /\ upLock \in Senders \cup {None} /\ svcLock \in {Tool, None}
  /\ (upLock = Tool) = (tool.pc = "send") /\ (svcLock = Tool) = (tool.pc = "peek")
  /\ upLock \in Clients => thread[upLock] \in Commands
  /\ \A c \in Clients : /\ peer[c] \in {"out", "in", "stalled", "gone"}
                        /\ Len(buf[c]) \in 0 .. MaxBuf
                        /\ thread[c] \in Commands \cup {None, Off}
  /\ held => sess # "none"
  /\ tool.pc \in {"idle", "check", "lock", "send", "wait", "lock service", "peek", "ok", "error"}

\* A client that is registered is sent every line broadcast since, once and in order, whatever
\* happens to the other clients: what it was sent is a window of the whole without a gap.
ClientWindow ==
  \A c \in Clients : /\ Len(heard[c]) <= Len(all) - since[c]
                     /\ heard[c] = SubSeq(all, since[c] + 1, since[c] + Len(heard[c]))

\* Someone left in the registry is in the broadcast under way or has been sent all of it.
Current(c) ==
  /\ peer[c] \in {"in", "stalled"} /\ c # listener.client /\ thread[c] # Off
  /\ upstream.pc \in {"recv", "connect"}

\* A client that is served and has been greeted was last told the status that holds, or nothing
\* when there is none.  (A greeting that a newer status has overtaken comes after it.)
StatusCurrent ==
  \A c \in Clients : Current(c) /\ c \notin overtaken =>
    seen[c] = IF status = Empty THEN None ELSE status

\* A select that is alone is true: OK means the game has this target selected, an error that it
\* cannot be selected or that the connection was lost or the answer late.
SelectTrue ==
  tool.call.op = "select" /\ tool.alone =>
    /\ tool.pc = "ok" => dll.target = tool.call.arg
    /\ tool.pc = "error" /\ tool.answer # None /\ tool.answer.op = "refused" => tool.call.arg \notin Alive

\* Every call returns, whatever the clients do: one that stops reading holds up the upstream
\* thread, the DLL and whoever holds the lock, until the DLL gives up on its send.
CallsReturn == tool.pc # "idle" ~> tool.pc = "idle"

\* The broker is connected again and again, unless a handler has raised or a client that stops
\* reading keeps the upstream thread.
Reconnects ==
  []<>(held \/ upstream.pc = "dead" \/ \E c \in Clients : peer[c] = "stalled")

=============================================================================
