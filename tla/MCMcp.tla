-------------------------------- MODULE MCMcp --------------------------------
(***************************************************************************)
(* Instances of GameService: two clients that come, read, stop reading or  *)
(* go while the DLL speaks and is lost; a client that stops reading beside *)
(* the calls of an agent; a client that selects beside an agent that does. *)
(***************************************************************************)
EXTENDS GameService

CONSTANTS c1, c2, t1, t2

Some(members, calls, lines, writes, spent) ==
  [clients |-> members, calls |-> calls, lines |-> lines, asks |-> writes, spent |-> spent,
   drops |-> FALSE, stalls |-> FALSE, leaves |-> FALSE, attached |-> {}, state |-> "in"]

Tick(n) == Told("tick", n)
Ticks   == {Tick(1), Tick(2)}
Plays   == {Tick(1), Told("walk", 0), Told("rest", 0), Told("rest", 1), Told("get", t1), Told("hit", t1)}

Watch  == [Some({c1, c2}, {}, Ticks, {}, 0) EXCEPT !.leaves = TRUE]
Lose   == [Some({c1}, {Request("send", None)}, {Tick(1), Told("malformed", None)}, {Request("quit", None), Request("raw", None)}, 1)
             EXCEPT !.drops = TRUE, !.leaves = TRUE]
Stall  == [Some({c1}, {Request("state", None), Request("send", None)}, {Tick(1)}, {}, -1)
             EXCEPT !.attached = {c1}, !.state = "stalled", !.leaves = TRUE]
Select == [Some({c1}, {Request("select", t) : t \in {t1, t2}}, {}, {Request("target", t1)}, 1)
             EXCEPT !.attached = {c1}, !.stalls = TRUE]
Act    == Some({}, {Request("move", 2), Request("travel", 3)} \cup {Request(op, t1) : op \in {"attack", "buff", "pickup"}}
                   \cup {Request(op, None) : op \in {"rest", "sit", "stand", "memory", "wait", "state"}}, Plays, {}, 2)

All == {Watch, Lose, Stall, Select, Act}

=============================================================================
