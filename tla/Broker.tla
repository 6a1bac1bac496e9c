-------------------------------- MODULE Broker --------------------------------
(***************************************************************************)
(* The Broker of mcp_server.py: the one host of the DLL, which hands what  *)
(* the DLL sends to local clients and their commands to the DLL.           *)
(*                                                                         *)
(* Four kinds of threads meet here: the upstream thread, the listener, one *)
(* thread per client and the thread of the tools (GameService).  A socket  *)
(* is a bounded sequence of lines, and a send blocks while it is full.     *)
(* Only the DLL's sends time out.                                          *)
(***************************************************************************)
EXTENDS Integers, SequencesExt

CONSTANTS
  None, Clients, Targets, Cells,
  Alive,      \* the targets the game client can select
  MaxUp,      \* lines on their way from the DLL
  MaxDown,    \* lines on their way to the DLL
  MaxBuf,     \* lines a client has not read
  MaxEvents   \* lines the game causes, commands, connections, failures

Tool    == "tool"
Senders == Clients \cup {Tool}

\* A line of text is what it says: an op and an argument, and who caused it.
Ops     == {"target", "move", "raw", "quit", "selected", "refused", "unknown", "tick", "walk", "rest", "get",
            "hit", "malformed", "lost", "joined", "waiting", "off"}
AnyLine == [op : Ops \ {"move", "walk"}, arg : Targets \cup Int \cup {None}, by : Senders \cup {None}]
           \cup [op : {"move", "walk"}, arg : Int, by : Senders \cup {None}]

\* What the game may make the DLL say.
Spoken == {line \in AnyLine : line.op \in {"tick", "walk", "rest", "get", "hit", "malformed"} /\ line.by = None}

ASSUME BrokerAssumption ==
  /\ None \notin Senders /\ None \notin Targets /\ None \notin Int /\ None \notin AnyLine
  /\ Tool \notin Clients /\ Alive \subseteq Targets /\ Cells \subseteq Int
  /\ {MaxUp, MaxDown, MaxBuf, MaxEvents} \subseteq Nat \ {0}

VARIABLES
  dll,       \* the line the DLL is writing, or None, and what the game has selected
  sess,      \* the socket to the DLL: "none", "open", "hungup" by one of its ends
  held,      \* _upstream is not None
  up, down,  \* lines in the socket
  upstream,  \* the upstream thread: pc, the line it handles, the clients it has still to send it to
  upLock,    \* who holds _upstream_lock
  svcLock,   \* who holds the lock of the GameService
  status,    \* _last_status
  listener,  \* the client it greets, and with what
  reg,       \* _clients, in the order of their registration
  peer,      \* state of a client: "out", "in", "stalled", "gone"
  buf,       \* what a client has not read
  asks,      \* what it wrote and its thread has not read
  thread,    \* of a client: the line it forwards, None, or Off when it does not run
  count,     \* events so far
  all,       \* every line broadcast
  since,     \* how many had been when the client was registered
  heard,     \* the lines broadcast to a client
  seen,      \* the last status a client was sent
  overtaken  \* clients whose greeting came after a newer status

links   == <<dll, sess, held, up, down>>
threads == <<upstream, upLock, svcLock, status, listener>>
clients == <<reg, peer, buf, asks, thread>>
history == <<all, since, heard, seen, overtaken>>
brokerVars == <<links, threads, clients, count, history>>

-----------------------------------------------------------------------------
(* Lines. *)

Told(op, arg) == [op |-> op, arg |-> arg, by |-> None]

Lost   == Told("lost", None)
Joined == Told("joined", None)
Empty  == Told("waiting", None)
Off    == Told("off", None)

\* STATUS lines of the DLL, and those the broker makes up.
IsStatus(line) == line.op \in {"tick", "selected", "refused", "unknown"}
IsOwn(line)    == line.op \in {"lost", "joined", "waiting"}

Commands == [op : {"target"}, arg : Targets, by : Senders] \cup [op : {"move"}, arg : Cells, by : Senders]
            \cup [op : {"raw", "quit"}, arg : {None}, by : Senders]

\* The broker has just started, or runs with one client that has read up to the first broadcast.
BrokerInit(attached, state) ==
  LET on == attached # {}
      For(a, b) == [c \in Clients |-> IF c \in attached THEN a ELSE b]
  IN /\ dll = [line |-> None, target |-> None]
     /\ sess = (IF on THEN "open" ELSE "none") /\ held = on /\ up = <<>> /\ down = <<>>
     /\ upstream = [pc |-> IF on THEN "recv" ELSE "connect", line |-> None, todo |-> <<>>]
     /\ upLock = None /\ svcLock = None /\ status = Empty
     /\ listener = [client |-> None, text |-> None]
     /\ reg \in {s \in [1 .. Cardinality(attached) -> attached] : Cardinality(attached) <= 1}
     /\ peer = For(state, "out") /\ buf = For(<<Joined>>, <<>>)
     /\ asks = For(<<>>, <<>>) /\ thread = For(None, Off)
     /\ all = (IF on THEN <<Joined>> ELSE <<>>) /\ since = For(0, 0) /\ heard = For(<<Joined>>, <<>>)
     /\ seen = For(None, None) /\ overtaken = {}

Event == count < MaxEvents /\ count' = count + 1

-----------------------------------------------------------------------------
(* The DLL.  It serves one command at a time, and a send that does not finish in two *)
(* seconds closes the session. *)

Answer(command) ==
  CASE command.op = "target" -> [op |-> IF command.arg \in Alive THEN "selected" ELSE "refused",
                                 arg |-> command.arg, by |-> command.by]
    [] command.op = "move"   -> Told("walk", command.arg)
    [] OTHER                 -> Told("unknown", None)

DllServes ==
  /\ sess = "open" /\ dll.line = None /\ down # <<>>
  /\ LET line == Answer(Head(down))
     IN dll' = [line |-> line, target |-> IF line.op = "selected" THEN line.arg ELSE dll.target]
  /\ down' = Tail(down)
  /\ UNCHANGED <<sess, held, up, threads, clients, count, history>>

DllSpeaks(line) ==
  /\ sess = "open" /\ dll.line = None /\ Event
  /\ dll' = [dll EXCEPT !.line = line]
  /\ UNCHANGED <<sess, held, up, down, threads, clients, history>>

DllWrites ==
  /\ sess = "open" /\ dll.line # None /\ Len(up) < MaxUp
  /\ up' = Append(up, dll.line) /\ dll' = [dll EXCEPT !.line = None]
  /\ UNCHANGED <<sess, held, down, threads, clients, count, history>>

HangsUp == sess' = "hungup" /\ dll' = [dll EXCEPT !.line = None] /\ down' = <<>>
           /\ UNCHANGED <<held, up, threads, clients, history>>

DllWaitsForEver == FALSE /\ UNCHANGED brokerVars

DllTimesOut ==
  /\ sess = "open" /\ dll.line # None /\ Len(up) = MaxUp
  /\ HangsUp /\ UNCHANGED count

DllGoes == sess = "open" /\ HangsUp /\ Event

-----------------------------------------------------------------------------
(* The upstream thread. *)

CastingPastGreeted(line) ==
  /\ upstream' = [pc |-> "cast", line |-> line, todo |-> SelectSeq(reg, LAMBDA c : c # listener.client)]
  /\ all' = Append(all, line)

Casting(line) ==
  /\ upstream' = [pc |-> "cast", line |-> line, todo |-> reg]
  /\ all' = Append(all, line)

\* _upstream_loop up to the first broadcast.
Connect ==
  /\ upstream.pc = "connect" /\ sess = "none" /\ upLock = None
  /\ sess' = "open" /\ held' = TRUE
  /\ Casting(Joined)
  /\ UNCHANGED <<dll, up, down, upLock, svcLock, status, listener, clients, count, since, heard, seen, overtaken>>

\* _on_upstream_line: _last_status is set before the service and the clients are told.
ReadLine ==
  /\ upstream.pc = "recv" /\ up # <<>>
  /\ up' = Tail(up)
  /\ upstream' = [upstream EXCEPT !.pc = "feed", !.line = Head(up)]
  /\ status' = IF IsStatus(Head(up)) THEN Head(up) ELSE status
  /\ UNCHANGED <<dll, sess, held, down, upLock, svcLock, listener, clients, count, history>>

\* on_packet and on_status take the lock of the service; what they change is in GameService.
FeedService ==
  /\ upstream.pc = "feed" /\ svcLock = None
  /\ IF upstream.line.op = "malformed" THEN upstream' = [upstream EXCEPT !.pc = "raised"] /\ UNCHANGED all
     ELSE Casting(upstream.line)
  /\ UNCHANGED <<links, upLock, svcLock, status, listener, clients, count, since, heard, seen, overtaken>>

Lines(c, line) == /\ buf' = [buf EXCEPT ![c] = Append(@, line)]
                  /\ seen' = [seen EXCEPT ![c] = IF IsStatus(line) THEN line ELSE @]

Without(c) == RemoveFirst(reg, c)

\* A client that is gone is taken out; one that does not read keeps the thread waiting.
CastTo(c) ==
  /\ IF peer[c] = "gone" THEN reg' = Without(c) /\ UNCHANGED <<buf, heard, seen>>
     ELSE /\ Len(buf[c]) < MaxBuf
          /\ Lines(c, upstream.line) /\ heard' = [heard EXCEPT ![c] = Append(@, upstream.line)]
          /\ UNCHANGED reg
  /\ overtaken' = IF listener.client = c /\ listener.text \notin {None, upstream.line} /\ IsStatus(upstream.line)
                  THEN overtaken \cup {c} ELSE overtaken

CastStopsAtFirstError ==
  /\ upstream.pc = "cast" /\ upstream.todo # <<>>
  /\ CastTo(Head(upstream.todo))
  /\ upstream' = [upstream EXCEPT !.todo = IF peer[Head(@)] = "gone" THEN <<>> ELSE Tail(@)]
  /\ UNCHANGED <<links, upLock, svcLock, status, listener, peer, asks, thread, count, all, since>>

\* _broadcast goes on with the next client of its snapshot.
Cast ==
  /\ upstream.pc = "cast" /\ upstream.todo # <<>>
  /\ CastTo(Head(upstream.todo))
  /\ upstream' = [upstream EXCEPT !.todo = Tail(@)]
  /\ UNCHANGED <<links, upLock, svcLock, status, listener, peer, asks, thread, count, all, since>>

CastEndsInRecv ==
  /\ upstream.pc = "cast" /\ upstream.todo = <<>>
  /\ upstream' = [upstream EXCEPT !.pc = "recv", !.line = None]
  /\ UNCHANGED <<links, upLock, svcLock, status, listener, clients, count, history>>

CastEnds ==
  /\ upstream.pc = "cast" /\ upstream.todo = <<>>
  /\ upstream' = [upstream EXCEPT !.pc = IF upstream.line = Lost THEN "connect" ELSE "recv", !.line = None]
  /\ UNCHANGED <<links, upLock, svcLock, status, listener, clients, count, history>>

\* recv returns nothing or fails: the socket is closed, the clients are told and the loop
\* starts again.
LoseUpstream ==
  /\ upstream.pc = "recv" /\ up = <<>> /\ sess = "hungup" /\ upLock = None
  /\ sess' = "none" /\ held' = FALSE
  /\ Casting(Lost)
  /\ UNCHANGED <<dll, up, down, upLock, svcLock, status, listener, clients, count, since, heard, seen, overtaken>>

FallOutHolding ==
  /\ upstream.pc = "raised"
  /\ sess' = "none" /\ up' = <<>> /\ down' = <<>> /\ dll' = [dll EXCEPT !.line = None]
  /\ upstream' = [pc |-> "dead", line |-> None, todo |-> <<>>]
  /\ UNCHANGED <<held, upLock, svcLock, status, listener, clients, count, history>>

\* An exception of a handler leaves the loop through its finally: the thread is gone for good.
FallOut ==
  /\ upstream.pc = "raised" /\ upLock = None
  /\ sess' = "none" /\ held' = FALSE /\ up' = <<>> /\ down' = <<>> /\ dll' = [dll EXCEPT !.line = None]
  /\ upstream' = [pc |-> "dead", line |-> None, todo |-> <<>>]
  /\ UNCHANGED <<upLock, svcLock, status, listener, clients, count, history>>

Upstream == Connect \/ ReadLine \/ FeedService \/ Cast \/ CastEnds \/ LoseUpstream \/ FallOut

-----------------------------------------------------------------------------
(* send_upstream, by whoever holds the lock; sendall blocks while the socket is full. *)

TakeUpLock(who) == upLock = None /\ upLock' = who

Forwards(line) ==
  \/ ~held /\ UNCHANGED links
  \/ /\ held /\ sess # "open" /\ held' = FALSE
     /\ \E n \in 0 .. Len(up) : up' = SubSeq(up, 1, n)  \* what recv has already returned
     /\ UNCHANGED <<dll, sess, down>>
  \/ held /\ sess = "hungup" /\ UNCHANGED links          \* the first send after the peer went: taken, and lost
  \/ held /\ sess = "open" /\ Len(down) < MaxDown /\ down' = Append(down, line)
     /\ UNCHANGED <<dll, sess, held, up>>

\* The thread of a client.
ThreadReads(c) ==
  /\ thread[c] = None /\ asks[c] # <<>>
  /\ asks' = [asks EXCEPT ![c] = Tail(@)]
  /\ thread' = [thread EXCEPT ![c] = IF Head(asks[c]).op = "quit" THEN None ELSE Head(asks[c])]
  /\ UNCHANGED <<links, threads, reg, peer, buf, count, history>>

ThreadLocks(c) ==
  /\ thread[c] \notin {None, Off} /\ TakeUpLock(c)
  /\ UNCHANGED <<links, upstream, svcLock, status, listener, clients, count, history>>

ThreadSends(c) ==
  /\ upLock = c /\ Forwards(thread[c])
  /\ upLock' = None /\ thread' = [thread EXCEPT ![c] = None]
  /\ UNCHANGED <<upstream, svcLock, status, listener, reg, peer, buf, asks, count, history>>

ThreadEnds(c) ==
  /\ thread[c] = None /\ asks[c] = <<>> /\ peer[c] = "gone"
  /\ thread' = [thread EXCEPT ![c] = Off] /\ reg' = Without(c)
  /\ UNCHANGED <<links, threads, peer, buf, asks, count, history>>

Thread(c) == ThreadReads(c) \/ ThreadLocks(c) \/ ThreadSends(c) \/ ThreadEnds(c)

-----------------------------------------------------------------------------
(* The listener: a client is registered, then the last status is read, then it is greeted. *)

Accept(c) ==
  /\ listener.client = None /\ peer[c] = "out" /\ Event
  /\ listener' = [client |-> c, text |-> None]
  /\ reg' = Append(reg, c) /\ since' = [since EXCEPT ![c] = Len(all)]
  /\ peer' = [peer EXCEPT ![c] = "in"]
  /\ UNCHANGED <<links, upstream, upLock, svcLock, status, buf, asks, thread, all, heard, seen, overtaken>>

ReadStatus ==
  /\ listener.client # None /\ listener.text = None
  /\ listener' = [listener EXCEPT !.text = status]
  /\ UNCHANGED <<links, upstream, upLock, svcLock, status, clients, count, history>>

Greet ==
  /\ listener.client # None /\ listener.text # None
  /\ LET c == listener.client
     IN /\ IF peer[c] = "gone" THEN UNCHANGED <<buf, seen>>
           ELSE Len(buf[c]) < MaxBuf /\ Lines(c, listener.text)
        /\ thread' = [thread EXCEPT ![c] = None]
  /\ listener' = [client |-> None, text |-> None]
  /\ UNCHANGED <<links, upstream, upLock, svcLock, status, reg, peer, asks, count, all, since, heard, overtaken>>

Listener == (\E c \in Clients : Accept(c)) \/ ReadStatus \/ Greet

-----------------------------------------------------------------------------
(* The clients. *)

ClientWrites(c, command) ==
  /\ peer[c] \in {"in", "stalled"} /\ asks[c] = <<>> /\ Event
  /\ asks' = [asks EXCEPT ![c] = <<command>>]
  /\ UNCHANGED <<links, threads, reg, peer, buf, thread, history>>

ClientReads(c) ==
  /\ peer[c] = "in" /\ buf[c] # <<>>
  /\ buf' = [buf EXCEPT ![c] = Tail(@)]
  /\ UNCHANGED <<links, threads, reg, peer, asks, thread, count, history>>

ClientStalls(c) ==
  /\ peer[c] = "in" /\ Event /\ peer' = [peer EXCEPT ![c] = "stalled"]
  /\ UNCHANGED <<links, threads, reg, buf, asks, thread, history>>

ClientGoes(c) ==
  /\ peer[c] \in {"in", "stalled"} /\ Event
  /\ peer' = [peer EXCEPT ![c] = "gone"] /\ buf' = [buf EXCEPT ![c] = <<>>]
  /\ UNCHANGED <<links, threads, reg, asks, thread, history>>

=============================================================================
