----------------------------- MODULE DllWorker -----------------------------
(***************************************************************************)
(* The injected DLL: the game threads that run its hooks, the worker       *)
(* thread of dllmain.cpp and the loopback host session of tcp_server.cpp.  *)
(*                                                                         *)
(* The hooks push what the game receives and sends into two rings; the     *)
(* worker moves it to the file log and to the host, if one is attached,    *)
(* and obeys the lines the host writes.  A ring is the bounded FIFO that   *)
(* PacketQueue is proved to implement, so a push or a pop is one step.     *)
(*                                                                         *)
(* A packet is its number.  A command line arrives as pieces, the last of  *)
(* which carries the newline and names the command; recv may cut the       *)
(* stream between any two of them.                                         *)
(***************************************************************************)
EXTENDS Integers, FiniteSets, SequencesExt

CONSTANTS
  GameThreads,   \* game threads that receive, send or use skills
  Capacity,      \* packets in a ring (4096)
  Setups,        \* outcomes of startup: which hooks are in, send_packet usable, port bound
  Commands,      \* what the hosts write: SEND, QUIT, and REPLY for every other line
  MaxPending,    \* kMaxPending, in pieces (64 KiB)
  MaxChunk,      \* what one recv returns at most, in pieces (4 KiB)
  GraceHolds,    \* whether Sleep(100) outlasts every push that was in a hook when it began
  MaxBacklog,    \* connections that wait for accept (listen(listener, 4))
  MaxPackets,    \* bound: packets the game and the hosts send in a behaviour
  MaxSessions,   \* bound: hosts that connect in a behaviour
  MaxPieces      \* bound: pieces one host writes

Dirs     == {"RECV", "SEND"}
Kinds    == Dirs \cup {"MANUAL_SEND"}
Packets  == 1 .. MaxPackets
Sessions == 1 .. MaxSessions
NoHost   == 0
NoPacket == [dir |-> "NONE", id |-> 0]

\* initialize: the signatures found in this client build, and whether the trampoline of the send
\* hook could be allocated within reach of a near jump.
Scans == [found : SUBSET {"recv", "send", "skill", "tnt"}, trampoline : BOOLEAN]

\* A missing send path does not disable a working recv hook; skill alone installs nothing.
SignaturesOk(scan) == scan.found \cap {"recv", "send"} # {}

\* install_hooks: every prepared hook is tried, and each may fail to be written.
InstallOutcomes(scan) ==
  IF SignaturesOk(scan)
  THEN SUBSET (scan.found \cap ({"recv", "skill"} \cup (IF scan.trampoline THEN {"send"} ELSE {})))
  ELSE {{}}

\* send_packet needs both of its addresses, not the send hook.
CanInject(scan) == {"send", "tnt"} \subseteq scan.found

ASSUME SetupAssumption ==
  \A u \in Setups :
    /\ u \in [hooked : SUBSET {"recv", "send", "skill"}, inject : BOOLEAN, serving : BOOLEAN]
    /\ \E scan \in Scans : u.hooked \in InstallOutcomes(scan) /\ u.inject = CanInject(scan)

ASSUME BoundAssumption ==
  /\ Capacity \in Nat \ {0}
  /\ MaxPending \in Nat /\ MaxChunk \in Nat \ {0} /\ MaxBacklog \in Nat \ {0}
  /\ GraceHolds \in BOOLEAN
  /\ MaxPackets \in Nat /\ MaxSessions \in Nat /\ MaxPieces \in Nat

ASSUME CommandAssumption == Commands \subseteq {"SEND", "QUIT", "REPLY"}

VARIABLES
  pc,        \* where the worker is in main_thread
  quit,      \* g_quit
  enabled,   \* g_enabled
  hooked,    \* the hooks whose bytes are patched into the game
  inject,    \* ntpl_send_addr and ntpl_tnt_client are both known
  serving,   \* server_up
  ring,      \* g_recv_queue and g_send_queue
  drops,     \* their drop counters
  inHook,    \* the packet of a game thread that passed the g_enabled check and has not pushed yet
  log,       \* packets written to the file log, by direction tag
  synced,    \* how many of them the last fflush covers
  wrote,     \* drain's flag
  link,      \* g_client, g_pending, and per session what send() took and the line it began with
  command,   \* the line poll_command returned, as its pieces
  backlog,   \* hosts that connected and were not accepted, oldest first
  peer,      \* the host's end of each session
  written,   \* the pieces each host wrote
  read,      \* how many of them recv returned
  offered,   \* packets numbered so far
  accepted,  \* history: packets each ring accepted
  executed,  \* history: pieces of the lines handled, by session
  joined     \* history: how much was logged when the session was accepted

ringVars == <<ring, drops, accepted>>
logVars  == <<log, synced, wrote>>
hostVars == <<backlog, peer, written, offered>>
cmdVars  == <<command, read, executed, joined>>
modVars  == <<hooked, inject, serving>>

vars == <<pc, quit, enabled, modVars, ringVars, inHook, logVars, link, cmdVars, hostVars>>

NoLog == [k \in Kinds |-> 0]

Init ==
  /\ pc = "start" /\ quit = FALSE /\ enabled = FALSE
  /\ hooked = {} /\ inject = FALSE /\ serving = FALSE
  /\ ring = [d \in Dirs |-> <<>>] /\ drops = [d \in Dirs |-> 0]
  /\ inHook = [t \in GameThreads |-> NoPacket]
  /\ log = [k \in Kinds |-> <<>>] /\ synced = NoLog /\ wrote = FALSE
  /\ link = [client |-> NoHost, pending |-> <<>>,
             wire |-> [s \in Sessions |-> [d \in Dirs |-> <<>>]],
             echoes |-> [s \in Sessions |-> <<>>],
             first |-> [s \in Sessions |-> "none"]]
  /\ command = <<>> /\ backlog = <<>>
  /\ peer = [s \in Sessions |-> "absent"]
  /\ written = [s \in Sessions |-> <<>>] /\ read = [s \in Sessions |-> 0]
  /\ offered = 0
  /\ accepted = [d \in Dirs |-> <<>>]
  /\ executed = [s \in Sessions |-> <<>>]
  /\ joined = [s \in Sessions |-> NoLog]

-----------------------------------------------------------------------------
(* The game threads: hooks.S and the two callbacks of packetlogger.cpp. *)

\* RECV packets pass the recv hook; SEND packets the send hook or, for the client's own u_s, the
\* skill hook, whose call site the send hook does not see.
Captured(d) == IF d = "RECV" THEN "recv" \in hooked ELSE hooked \cap {"send", "skill"} # {}

\* The call got past the g_enabled check.  A packet that is not captured changes nothing here.
HookEnter(t) ==
  \E d \in Dirs :
    /\ Captured(d) /\ enabled
    /\ inHook[t] = NoPacket
    /\ offered < MaxPackets
    /\ offered' = offered + 1
    /\ inHook' = [inHook EXCEPT ![t] = [dir |-> d, id |-> offered + 1]]
    /\ UNCHANGED <<pc, quit, enabled, modVars, ringVars, logVars, link, cmdVars, backlog, peer,
                   written>>

\* push: a full ring refuses the packet and counts it.
Push(d, id) ==
  IF Len(ring[d]) < Capacity
  THEN /\ ring' = [ring EXCEPT ![d] = Append(@, id)]
       /\ accepted' = [accepted EXCEPT ![d] = Append(@, id)]
       /\ UNCHANGED drops
  ELSE /\ drops' = [drops EXCEPT ![d] = @ + 1]
       /\ UNCHANGED <<ring, accepted>>

HookPush(t) ==
  /\ inHook[t] # NoPacket
  /\ Push(inHook[t].dir, inHook[t].id)
  /\ inHook' = [inHook EXCEPT ![t] = NoPacket]
  /\ UNCHANGED <<pc, quit, enabled, modVars, logVars, link, cmdVars, hostVars>>

-----------------------------------------------------------------------------
(* The hosts, external to the DLL: each connects once, writes, may stop     *)
(* reading its socket for a while, and closes it.                           *)

HostConnect(s) ==
  /\ serving
  /\ peer[s] = "absent" /\ \A r \in Sessions : r < s => peer[r] # "absent"
  /\ Len(backlog) < MaxBacklog
  /\ peer' = [peer EXCEPT ![s] = "reading"]
  /\ backlog' = Append(backlog, s)
  /\ UNCHANGED <<pc, quit, enabled, modVars, ringVars, inHook, logVars, link, cmdVars, written,
                 offered>>

\* What a host does after the DLL closed its socket reaches nothing any more.
Live(s) == peer[s] # "closed" /\ (link.client = s \/ s \in ToSet(backlog))

\* A SEND line carries a packet of its own; the other lines carry none.
HostWrite(s) ==
  \E text \in Commands \cup {"part"} :
    /\ Live(s)
    /\ Len(written[s]) < MaxPieces
    /\ text = "SEND" => offered < MaxPackets
    /\ LET id == IF text = "SEND" THEN offered + 1 ELSE 0
           piece == [from |-> s, n |-> Len(written[s]) + 1, text |-> text, id |-> id]
       IN /\ written' = [written EXCEPT ![s] = Append(@, piece)]
          /\ offered' = IF text = "SEND" THEN id ELSE offered
    /\ UNCHANGED <<pc, quit, enabled, modVars, ringVars, inHook, logVars, link, cmdVars, backlog,
                   peer>>

HostChange(s) ==
  /\ Live(s)
  /\ \E next \in {"reading", "stalled", "closed"} \ {peer[s]} : peer' = [peer EXCEPT ![s] = next]
  /\ UNCHANGED <<pc, quit, enabled, modVars, ringVars, inHook, logVars, link, cmdVars, backlog,
                 written, offered>>

-----------------------------------------------------------------------------
(* tcp_server.cpp.  A call of send_line maps a link to the set of links it  *)
(* can leave.                                                               *)

Connected(l) == l.client # NoHost

ClosedKeepingPending(l) == [l EXCEPT !.client = NoHost]

Closed(l) == [l EXCEPT !.client = NoHost, !.pending = <<>>]

\* What send_line puts on the wire: captured packets by direction, and the echoes of injected ones,
\* each with the number of SEND packets before it.  STATUS text is not kept, only that the session
\* began with one.
Delivered(l, line) ==
  LET s == l.client
      begun == [l EXCEPT !.first[s] = IF @ = "none" THEN line.kind ELSE @]
  IN CASE line.kind = "STATUS" -> begun
       [] line.kind = "ECHO" -> [begun EXCEPT !.echoes[s] = Append(@, [id |-> line.id, after |-> Len(l.wire[s]["SEND"])])]
       [] OTHER -> [begun EXCEPT !.wire[s][line.kind] = Append(@, line.id)]

SendLineKeepsHost(l, line) ==
  IF ~Connected(l) THEN {l}
  ELSE {Delivered(l, line)} \cup (IF peer[l.client] = "reading" THEN {} ELSE {l})

SendLineWaits(l, line) ==
  IF ~Connected(l) THEN {l}
  ELSE IF peer[l.client] = "stalled" THEN {} ELSE {Delivered(l, line)}

\* send fails when the peer is gone, or when it has not read for the two seconds of SO_SNDTIMEO;
\* before that the socket buffer may still take the line.
SendLine(l, line) ==
  IF ~Connected(l) THEN {l}
  ELSE {Delivered(l, line)} \cup (IF peer[l.client] = "reading" THEN {} ELSE {Closed(l)})

StatusLine == [kind |-> "STATUS", id |-> 0]
PacketLine(d, i) == [kind |-> d, id |-> i]
\* To the host a SEND line like any other.
EchoLine(i) == [kind |-> "ECHO", id |-> i]

\* logf, which send_line calls when it drops the host, flushes all of the file.
Flushed(l) == [k \in Kinds |-> Len(l[k])]

FlushedIfLost(l, after) == IF Connected(link) /\ ~Connected(after) THEN Flushed(l) ELSE synced

IsNewline(piece) == piece.text # "part"

LineEnds(bytes) == {i \in 1 .. Len(bytes) : IsNewline(bytes[i])}

HasLine(bytes) == LineEnds(bytes) # {}

FirstLine(bytes) == SubSeq(bytes, 1, Min(LineEnds(bytes)))
RestAfterLine(bytes) == SubSeq(bytes, Min(LineEnds(bytes)) + 1, Len(bytes))

\* What recv may return together with what is pending: any cut of the bytes that arrived.
Arrivals(s) ==
  {n \in 1 .. MaxChunk : read[s] + n <= Len(written[s])}

After(s, n) == link.pending \o SubSeq(written[s], read[s] + 1, read[s] + n)

-----------------------------------------------------------------------------
(* The worker: main_thread.  Its program counter names the place it is at. *)

At(here, next) == pc = here /\ pc' = next

\* Signature scan, install_hooks and the attempts to bind the port.
Startup ==
  /\ At("start", "top")
  /\ \E u \in Setups :
       /\ hooked' = u.hooked /\ inject' = u.inject /\ serving' = u.serving
       /\ enabled' = (u.hooked # {})
  /\ UNCHANGED <<quit, ringVars, inHook, logVars, link, cmdVars, hostVars>>

HostWaits == serving /\ ~Connected(link) /\ backlog # <<>>

\* accept_client, and the status line that greets the host.
Accept ==
  /\ At("top", "poll") /\ ~quit
  /\ HostWaits
  /\ LET s == Head(backlog)
     IN /\ link' \in SendLine([Closed(link) EXCEPT !.client = s], StatusLine)
        /\ joined' = [joined EXCEPT ![s] = Flushed(log)]
  /\ backlog' = Tail(backlog)
  /\ synced' = Flushed(log)
  /\ UNCHANGED <<quit, enabled, modVars, ringVars, inHook, log, wrote, command, read, executed,
                 peer, written, offered>>

NoAcceptIgnoringQuit ==
  /\ At("top", "poll")
  /\ ~HostWaits
  /\ UNCHANGED <<quit, enabled, modVars, ringVars, inHook, logVars, link, cmdVars, hostVars>>

NoAccept ==
  /\ At("top", "poll") /\ ~quit
  /\ ~HostWaits
  /\ UNCHANGED <<quit, enabled, modVars, ringVars, inHook, logVars, link, cmdVars, hostVars>>

-----------------------------------------------------------------------------
(* poll_command, called until it returns false. *)

\* A line is complete in bytes: it is returned and the rest stays pending.
TakeLine(bytes) ==
  /\ command' = FirstLine(bytes)
  /\ link' = [link EXCEPT !.pending = RestAfterLine(bytes)]

PollBuffered ==
  /\ At("poll", "handle")
  /\ Connected(link) /\ HasLine(link.pending)
  /\ TakeLine(link.pending)
  /\ UNCHANGED <<quit, enabled, modVars, ringVars, inHook, logVars, read, executed, joined, hostVars>>

\* recv returned n pieces to a session whose pending bytes hold no line.
Received(n) ==
  /\ Connected(link) /\ ~HasLine(link.pending)
  /\ n \in Arrivals(link.client)
  /\ read' = [read EXCEPT ![link.client] = @ + n]
  /\ UNCHANGED <<quit, enabled, modVars, ringVars, inHook, log, wrote, executed, joined, hostVars>>

TooMuchOffByOne(bytes) == Len(bytes) > MaxPending + 1

TooMuch(bytes) == Len(bytes) > MaxPending

PollOverflow ==
  /\ At("poll", "recv")
  /\ \E n \in 1 .. MaxChunk : Received(n) /\ TooMuch(After(link.client, n))
  /\ link' = Closed(link)
  /\ synced' = Flushed(log)
  /\ UNCHANGED command

PollLine ==
  /\ At("poll", "handle")
  /\ \E n \in 1 .. MaxChunk :
       LET bytes == After(link.client, n)
       IN Received(n) /\ ~TooMuch(bytes) /\ HasLine(bytes) /\ TakeLine(bytes)
  /\ UNCHANGED synced

PollPartial ==
  /\ At("poll", "recv")
  /\ \E n \in 1 .. MaxChunk :
       LET bytes == After(link.client, n)
       IN /\ Received(n) /\ ~TooMuch(bytes) /\ ~HasLine(bytes)
          /\ link' = [link EXCEPT !.pending = bytes]
  /\ UNCHANGED <<command, synced>>

HungUp == Connected(link) /\ peer[link.client] = "closed"

PollClosedOnErrorOnly ==
  /\ At("poll", "recv")
  /\ HungUp /\ ~HasLine(link.pending)
  /\ UNCHANGED <<quit, enabled, modVars, ringVars, inHook, logVars, link, cmdVars, hostVars>>

\* recv returned 0 at the end of the stream, or an error for what the reset of a closed host lost.
PollClosed ==
  /\ At("poll", "recv")
  /\ HungUp /\ ~HasLine(link.pending)
  /\ link' = Closed(link)
  /\ UNCHANGED <<quit, enabled, modVars, ringVars, inHook, logVars, cmdVars, hostVars>>

PollNothing ==
  /\ At("poll", "recv")
  /\ Connected(link) => /\ ~HasLine(link.pending)
                        /\ Arrivals(link.client) = {} /\ ~HungUp
  /\ UNCHANGED <<quit, enabled, modVars, ringVars, inHook, logVars, link, cmdVars, hostVars>>

-----------------------------------------------------------------------------
(* handle_command. *)

Handle(text) ==
  /\ At("handle", "poll")
  /\ Last(command).text = text
  /\ executed' = [executed EXCEPT ![link.client] = @ \o command]
  /\ command' = <<>>
  /\ UNCHANGED <<enabled, modVars, inHook, wrote, read, joined, hostVars>>

\* The allocation of the packet's string is assumed to succeed.
SendPacketWorks == inject /\ enabled

\* send_packet calls the game's send function; when the send hook is in, the call runs into it and
\* the packet enters the ring as the game's own would.  The worker then echoes it to the host.
HandleSend ==
  /\ Handle("SEND")
  /\ SendPacketWorks
  /\ LET id == Last(command).id
     IN /\ IF "send" \in hooked THEN Push("SEND", id) ELSE UNCHANGED ringVars
        /\ log' = [log EXCEPT !["MANUAL_SEND"] = Append(@, id)]
        /\ \E l \in SendLine(link, EchoLine(id)) : link' \in SendLine(l, StatusLine)
  /\ synced' = FlushedIfLost(log', link')
  /\ UNCHANGED quit

HandleSendRefused ==
  /\ Handle("SEND")
  /\ ~SendPacketWorks
  /\ link' \in SendLine(link, StatusLine)
  /\ synced' = FlushedIfLost(log, link')
  /\ UNCHANGED <<quit, ringVars, log>>

HandleQuit ==
  /\ Handle("QUIT")
  /\ quit' = TRUE
  /\ UNCHANGED <<ringVars, log, synced, link>>

\* Every other line is answered with one STATUS line; what MOVE or TARGET make the game send
\* reaches the hooks as any packet of a game thread does.
HandleReply ==
  /\ Handle("REPLY")
  /\ link' \in SendLine(link, StatusLine)
  /\ synced' = FlushedIfLost(log, link')
  /\ UNCHANGED <<quit, ringVars, log>>

-----------------------------------------------------------------------------
(* drain and the status tick. *)

Drains == [recv |-> "RECV", send |-> "SEND", finalRecv |-> "RECV", finalSend |-> "SEND"]
AfterDrain == [recv |-> "send", send |-> "tick", finalRecv |-> "finalSend", finalSend |-> "unhook"]

DrainOneForHostOnly ==
  /\ pc \in DOMAIN Drains
  /\ LET d == Drains[pc]
         id == Head(ring[d])
     IN /\ ring[d] # <<>>
        /\ ring' = [ring EXCEPT ![d] = Tail(@)]
        /\ log' = IF Connected(link) THEN [log EXCEPT ![d] = Append(@, id)] ELSE log
        /\ link' \in SendLine(link, PacketLine(d, id))
  /\ wrote' = TRUE
  /\ synced' = FlushedIfLost(log', link')
  /\ UNCHANGED <<pc, quit, enabled, modVars, drops, accepted, inHook, cmdVars, hostVars>>

DrainOne ==
  /\ pc \in DOMAIN Drains
  /\ LET d == Drains[pc]
         id == Head(ring[d])
     IN /\ ring[d] # <<>>
        /\ ring' = [ring EXCEPT ![d] = Tail(@)]
        /\ log' = [log EXCEPT ![d] = Append(@, id)]
        /\ link' \in SendLine(link, PacketLine(d, id))
  /\ wrote' = TRUE
  /\ synced' = FlushedIfLost(log', link')
  /\ UNCHANGED <<pc, quit, enabled, modVars, drops, accepted, inHook, cmdVars, hostVars>>

DrainEndFlushesForHost ==
  /\ pc \in DOMAIN Drains
  /\ ring[Drains[pc]] = <<>>
  /\ pc' = AfterDrain[pc]
  /\ synced' = IF wrote /\ Connected(link) THEN Flushed(log) ELSE synced
  /\ wrote' = FALSE
  /\ UNCHANGED <<quit, enabled, modVars, ringVars, log, inHook, link, cmdVars, hostVars>>

DrainEnd ==
  /\ pc \in DOMAIN Drains
  /\ ring[Drains[pc]] = <<>>
  /\ pc' = AfterDrain[pc]
  /\ synced' = IF wrote THEN Flushed(log) ELSE synced
  /\ wrote' = FALSE
  /\ UNCHANGED <<quit, enabled, modVars, ringVars, log, inHook, link, cmdVars, hostVars>>

\* Every five seconds a host hears about dropped packets.
Tick ==
  /\ At("tick", "top")
  /\ \/ UNCHANGED link
     \/ /\ \E d \in Dirs : drops[d] # 0
        /\ link' \in SendLine(link, StatusLine)
  /\ synced' = FlushedIfLost(log, link')
  /\ UNCHANGED <<quit, enabled, modVars, ringVars, log, wrote, inHook, cmdVars, hostVars>>

-----------------------------------------------------------------------------
(* Shutdown, once the loop sees g_quit. *)

DisableAtUnhook ==
  /\ At("top", "grace") /\ quit
  /\ link' \in SendLine(link, StatusLine)
  /\ synced' = Flushed(log)
  /\ UNCHANGED <<quit, enabled, modVars, ringVars, log, wrote, inHook, cmdVars, hostVars>>

Disable ==
  /\ At("top", "grace") /\ quit
  /\ link' \in SendLine(link, StatusLine)
  /\ enabled' = FALSE
  /\ synced' = Flushed(log)
  /\ UNCHANGED <<quit, modVars, ringVars, log, wrote, inHook, cmdVars, hostVars>>

\* Sleep(100).
Grace ==
  /\ At("grace", "finalRecv")
  /\ GraceHolds => \A t \in GameThreads : inHook[t] = NoPacket
  /\ UNCHANGED <<quit, enabled, modVars, ringVars, inHook, logVars, link, cmdVars, hostVars>>

RemoveHooks == hooked' = {} /\ enabled' = FALSE

\* Connections still in the backlog are reset with the listening socket.
StopServer == link' = Closed(link) /\ backlog' = <<>> /\ serving' = FALSE

\* The module stays mapped: a game thread inside a stub runs on.
Stop ==
  /\ At("unhook", "done")
  /\ RemoveHooks /\ StopServer
  /\ synced' = Flushed(log)
  /\ UNCHANGED <<quit, inject, ringVars, inHook, log, wrote, cmdVars, peer, written, offered>>

-----------------------------------------------------------------------------

Poll ==
  PollBuffered \/ PollOverflow \/ PollLine \/ PollPartial \/ PollClosed \/ PollNothing

Command == HandleSend \/ HandleSendRefused \/ HandleQuit \/ HandleReply

Worker ==
  \/ Startup \/ Accept \/ NoAccept \/ Poll \/ Command \/ DrainOne \/ DrainEnd \/ Tick
  \/ Disable \/ Grace \/ Stop

Game == \E t \in GameThreads : HookEnter(t) \/ HookPush(t)

Host == \E s \in Sessions : HostConnect(s) \/ HostWrite(s) \/ HostChange(s)

Next == Worker \/ Game \/ Host

Spec == Init /\ [][Next]_vars

\* The worker is a thread of its own and blocks on nothing for ever: select has no timeout to wait
\* for, send gives up after two seconds, Sleep ends.  A game thread inside a hook runs on.  The
\* game and the hosts owe nothing.
FairSpec ==
  /\ Spec
  /\ WF_vars(Worker)
  /\ \A t \in GameThreads : WF_vars(HookPush(t))
-----------------------------------------------------------------------------
(* Properties. *)

\* A SEND line carries the number of its packet.
Pieces ==
  {p \in [from : Sessions, n : 1 .. MaxPieces, text : Commands \cup {"part"}, id : 0 .. MaxPackets] :
     p.text = "SEND" => p.id \in Packets}

Echoes == [id : Packets, after : Nat]

Links ==
  {l \in [client : Sessions \cup {NoHost}, pending : Seq(Pieces),
          wire : [Sessions -> [Dirs -> Seq(Packets)]], echoes : [Sessions -> Seq(Echoes)],
          first : [Sessions -> {"none", "STATUS", "ECHO"} \cup Dirs]] :
     Len(l.pending) <= MaxPending}

Places == {"start", "top", "poll", "handle", "tick", "grace", "unhook", "done"} \cup DOMAIN Drains

ControlOK ==
  /\ pc \in Places
  /\ quit \in BOOLEAN /\ enabled \in BOOLEAN /\ wrote \in BOOLEAN
  /\ hooked \subseteq {"recv", "send", "skill"} /\ inject \in BOOLEAN /\ serving \in BOOLEAN
  /\ inHook \in [GameThreads -> [dir : Dirs, id : Packets] \cup {NoPacket}]
  /\ offered \in 0 .. MaxPackets

RingOK ==
  /\ ring \in [Dirs -> Seq(Packets)] /\ accepted \in [Dirs -> Seq(Packets)]
  /\ drops \in [Dirs -> Nat]
  /\ \A d \in Dirs : Len(ring[d]) <= Capacity

LogOK ==
  /\ log \in [Kinds -> Seq(Packets)] /\ synced \in [Kinds -> Nat]
  /\ joined \in [Sessions -> [Kinds -> Nat]]

HostOK ==
  /\ backlog \in Seq(Sessions) /\ Len(backlog) <= MaxBacklog
  /\ peer \in [Sessions -> {"absent", "reading", "stalled", "closed"}]
  /\ written \in [Sessions -> Seq(Pieces)] /\ \A s \in Sessions : Len(written[s]) <= MaxPieces

CommandOK ==
  /\ command \in Seq(Pieces) /\ (pc = "handle") = (command # <<>>)
  /\ executed \in [Sessions -> Seq(Pieces)]
  /\ read \in [Sessions -> Nat] /\ \A s \in Sessions : read[s] <= Len(written[s])

\* Every variable keeps its type: a ring never holds more than Capacity packets, the pending bytes
\* never more than kMaxPending, and the backlog never more connections than listen asked for.
TypeOK == ControlOK /\ RingOK /\ LogOK /\ link \in Links /\ HostOK /\ CommandOK

\* The file log is a complete record (dllmain.cpp:51-53): of each direction, every packet the ring
\* accepted is in the file, once and in order, or still in the ring; no host that stalls, hangs up
\* or is exchanged for another makes it miss one.
LogComplete == \A d \in Dirs : accepted[d] = log[d] \o ring[d]

\* A session is sent a window of the log, from what was logged after its accept on, without a gap,
\* a repetition or a packet of the time before; up to now as long as it is the host attached, and
\* its first line is the status line of the handshake.
HostWindow ==
  \A s \in Sessions :
    /\ link.first[s] \in {"none", "STATUS"}
    /\ \A d \in Dirs :
         LET got == link.wire[s][d]
             from == joined[s][d]
         IN /\ from + Len(got) <= Len(log[d])
            /\ got = SubSeq(log[d], from + 1, from + Len(got))
            /\ link.client = s => from + Len(got) = Len(log[d])

\* The command lines of a session are handled whole, once and in the order its host wrote them,
\* however recv cuts the stream; bytes a dropped host left behind never enter a line of the next.
CommandStream ==
  /\ \A s \in Sessions : IsPrefix(executed[s], written[s])
  /\ LET s == link.client
     IN s # NoHost => executed[s] \o command \o link.pending = SubSeq(written[s], 1, read[s])
  /\ link.client = NoHost => link.pending = <<>>

\* A game process that dies loses no packet of an earlier pass of the loop: whatever was drained
\* has been flushed when the worker is back at the top.
DrainedIsDurable ==
  pc \in {"top", "poll", "handle"} => \A d \in Dirs : synced[d] = Len(log[d])

\* After QUIT nothing is left behind (dllmain.cpp:332-339): if the 100 ms are enough for a push
\* in flight, both rings are empty and everything is on disk when the module has stopped.
NothingLeftBehind ==
  (pc = "done" /\ GraceHolds) =>
    /\ \A d \in Dirs : ring[d] = <<>>
    /\ \A t \in GameThreads : inHook[t] = NoPacket
    /\ \A k \in Kinds : synced[k] = Len(log[k])

\* seq holds a somewhere before b.
BeforeIn(seq, a, b) == \E i, j \in 1 .. Len(seq) : i < j /\ seq[i] = a /\ seq[j] = b

\* docs/ipc.md:54 says "ordering within one direction is FIFO": a SEND line that echoes a packet
\* stands among the SEND lines a host reads as the packet does among those the game sent.
SendStreamFifo ==
  \A s \in Sessions : \A echo \in ToSet(link.echoes[s]) :
    LET got == link.wire[s]["SEND"]
    IN \A i \in 1 .. Len(got) :
         got[i] # echo.id /\ echo.id \in ToSet(accepted["SEND"])
           => (i <= echo.after <=> BeforeIn(accepted["SEND"], got[i], echo.id))

\* docs/ipc.md:16 says "a longer line without a newline disconnects the host" and the log line at
\* tcp_server.cpp:177 repeats it: the bytes a host is dropped for hold no newline.
OverflowHasNoLine ==
  [][\A n \in 1 .. MaxChunk :
       (PollOverflow /\ Received(n)) => ~HasLine(After(link.client, n))]_vars

\* Every packet a ring accepts reaches the file log, whatever the host does with its socket.
EventuallyLogged ==
  \A d \in Dirs : \A i \in Packets : (i \in ToSet(accepted[d])) ~> (i \in ToSet(log[d]))

\* A QUIT line that reached the host's socket stops the module, unless its session ends first.
QuitStops ==
  \A s \in Sessions :
    (link.client = s /\ \E i \in 1 .. Len(written[s]) : written[s][i].text = "QUIT")
      ~> (pc = "done" \/ (link.client # s /\ ~quit))

\* A host that hangs up makes room: the one that waits first in the backlog is then accepted.
WaitingHostIsServed ==
  \A s \in Sessions :
    (backlog # <<>> /\ Head(backlog) = s /\ (link.client = NoHost \/ HungUp))
      ~> ((\A i \in 1 .. Len(backlog) : backlog[i] # s) \/ quit)

=============================================================================
