---------------------------- MODULE PacketClient ----------------------------
(***************************************************************************)
(* client.py as the window uses it: one PacketClient that a worker thread  *)
(* connects, reads and connects again, while the main thread sends on it.  *)
(* Neither takes a lock for the socket, the flag or the buffer.            *)
(*                                                                         *)
(* A connection is a session.  TCP delivers what the DLL wrote in pieces   *)
(* of any length: here each line is two halves, and recv takes any number  *)
(* of them.  The DLL is external; it serves one session and leaves the     *)
(* others in its backlog, where connect succeeds all the same.             *)
(***************************************************************************)
EXTENDS Integers, Sequences

CONSTANTS
  MaxSessions,  \* bound: connections made
  MaxLines,     \* bound: lines of one session
  MaxFaults     \* bound: sessions dropped, games ended, malformed lines

ASSUME LinkAssumption == MaxSessions \in Nat /\ MaxLines \in Nat /\ MaxFaults \in Nat

VARIABLES
  client,   \* the PacketClient: sock (0 is None), closed, buffer, and what the worker put in the inbox
  worker,   \* the thread of _start_client: where it is and the socket its recv has read
  sender,   \* the main thread in send_raw, likewise
  session,  \* the sessions: dll is "queued", "served" or "gone"; open is this end; flow is on the way
  dll       \* up, and the faults so far

linkVars == <<client, worker, sender, session, dll>>

LinkInit ==
  /\ client = [sock |-> 0, closed |-> FALSE, buffer |-> <<>>, inbox |-> <<>>]
  /\ worker = [at |-> "connect", sock |-> 0]
  /\ sender = [at |-> "idle", sock |-> 0]
  /\ session = <<>>
  /\ dll = [up |-> TRUE, faults |-> 0]

-----------------------------------------------------------------------------
(* close, which both threads call: the flag first, then the socket. *)

\* What is on the way to a socket that is shut goes with it.
Shut(n) == [session EXCEPT ![n].open = FALSE, ![n].flow = <<>>]

CloseSet(thread) == thread.at = "closing" /\ client' = [client EXCEPT !.closed = TRUE]

CloseSwap(thread) ==
  /\ thread.at = "swapping"
  /\ client' = [client EXCEPT !.sock = 0]
  /\ session' = IF client.sock = 0 THEN session ELSE Shut(client.sock)

Usable == client.sock # 0 /\ ~client.closed

-----------------------------------------------------------------------------
(* The worker. *)

\* create_connection and the assignment of the socket.  Without a DLL it fails, and is tried again.
Connect ==
  /\ worker.at = "connect" /\ dll.up /\ Len(session) < MaxSessions
  /\ session' = Append(session, [dll |-> "queued", open |-> TRUE, flow |-> <<>>, sent |-> 0])
  /\ client' = [client EXCEPT !.sock = Len(session) + 1]
  /\ worker' = [worker EXCEPT !.at = "clear"]
  /\ UNCHANGED <<sender, dll>>

\* A mutant: the buffer is kept.
ClearFlagOnly ==
  /\ worker.at = "clear"
  /\ client' = [client EXCEPT !.closed = FALSE]
  /\ worker' = [worker EXCEPT !.at = "recv"]
  /\ UNCHANGED <<sender, session, dll>>

Clear ==
  /\ worker.at = "clear"
  /\ client' = [client EXCEPT !.buffer = <<>>, !.closed = FALSE]
  /\ worker' = [worker EXCEPT !.at = "recv"]
  /\ UNCHANGED <<sender, session, dll>>

RecvBegins ==
  /\ worker.at = "recv"
  /\ worker' = IF Usable THEN [at |-> "take", sock |-> client.sock] ELSE [at |-> "connect", sock |-> 0]
  /\ UNCHANGED <<client, sender, session, dll>>

LineEnds == {i \in 1 .. Len(client.buffer) : client.buffer[i].half = 2}
LineEnd  == CHOOSE i \in LineEnds : \A j \in LineEnds : i <= j

\* The halves of one line, or what a reader makes of halves that are not.
Line ==
  LET last == client.buffer[LineEnd]
  IN IF LineEnd = 2 /\ client.buffer[1] = [last EXCEPT !.half = 1, !.ok = TRUE]
       THEN last ELSE [last EXCEPT !.number = 0]

\* _take_line and Message.parse: a malformed line raises, and the worker connects again without
\* having closed the socket.
TakeLine ==
  /\ worker.at = "take" /\ LineEnds # {}
  /\ LET rest == SubSeq(client.buffer, LineEnd + 1, Len(client.buffer))
     IN IF Line.ok
          THEN /\ client' = [client EXCEPT !.buffer = rest,
                                           !.inbox = Append(@, <<Line.session, Line.number>>)]
               /\ worker' = [at |-> "recv", sock |-> 0]
          ELSE /\ client' = [client EXCEPT !.buffer = rest]
               /\ worker' = [at |-> "connect", sock |-> 0]
  /\ UNCHANGED <<sender, session, dll>>

Selects == worker.at = "take" /\ LineEnds = {}

Chunk ==
  /\ Selects /\ session[worker.sock].open
  /\ LET flow == session[worker.sock].flow
     IN \E n \in 1 .. Len(flow) :
          /\ client' = [client EXCEPT !.buffer = @ \o SubSeq(flow, 1, n)]
          /\ session' = [session EXCEPT ![worker.sock].flow = SubSeq(flow, n + 1, Len(flow))]
  /\ UNCHANGED <<worker, sender, dll>>

\* The peer has closed the socket, or the other thread has.
Dead == ~session[worker.sock].open \/ (session[worker.sock].dll = "gone" /\ session[worker.sock].flow = <<>>)

\* A mutant: the empty read is taken for no data yet.
RecvFailsIgnored ==
  /\ Selects /\ Dead
  /\ worker' = [at |-> "recv", sock |-> 0]
  /\ UNCHANGED <<client, sender, session, dll>>

RecvFails ==
  /\ Selects /\ Dead
  /\ worker' = [at |-> "closing", sock |-> 0]
  /\ UNCHANGED <<client, sender, session, dll>>

\* Half a second without a byte.
RecvTimesOut ==
  /\ Selects /\ ~Dead /\ session[worker.sock].flow = <<>>
  /\ worker' = [at |-> "recv", sock |-> 0]
  /\ UNCHANGED <<client, sender, session, dll>>

WorkerCloses ==
  \/ CloseSet(worker) /\ worker' = [worker EXCEPT !.at = "swapping"] /\ UNCHANGED <<sender, session, dll>>
  \/ CloseSwap(worker) /\ worker' = [worker EXCEPT !.at = "connect"] /\ UNCHANGED <<sender, dll>>

Worker == Connect \/ Clear \/ RecvBegins \/ TakeLine \/ Chunk \/ RecvFails \/ WorkerCloses

-----------------------------------------------------------------------------
(* The main thread in send_raw. *)

Send ==
  /\ sender.at = "idle" /\ Usable
  /\ sender' = [at |-> "sending", sock |-> client.sock]
  /\ UNCHANGED <<client, worker, session, dll>>

Sent ==
  /\ sender.at = "sending" /\ session[sender.sock].open
  /\ sender' = [at |-> "idle", sock |-> 0]
  /\ UNCHANGED <<client, worker, session, dll>>

SendFails ==
  /\ sender.at = "sending"
  /\ ~session[sender.sock].open \/ session[sender.sock].dll = "gone"
  /\ sender' = [at |-> "closing", sock |-> 0]
  /\ UNCHANGED <<client, worker, session, dll>>

SenderCloses ==
  \/ CloseSet(sender) /\ sender' = [sender EXCEPT !.at = "swapping"] /\ UNCHANGED <<worker, session, dll>>
  \/ CloseSwap(sender) /\ sender' = [sender EXCEPT !.at = "idle"] /\ UNCHANGED <<worker, dll>>

-----------------------------------------------------------------------------
(* The sockets nothing refers to any more, and the DLL. *)

Collected ==
  /\ \E n \in DOMAIN session :
       /\ session[n].open /\ n \notin {client.sock, worker.sock, sender.sock}
       /\ session' = Shut(n)
  /\ UNCHANGED <<client, worker, sender, dll>>

Served == {n \in DOMAIN session : session[n].dll = "served"}

DllAccepts ==
  /\ dll.up /\ Served = {}
  /\ \E n \in DOMAIN session :
       /\ session[n].dll = "queued" /\ \A k \in 1 .. n - 1 : session[k].dll # "queued"
       /\ session' = [session EXCEPT ![n].dll = "served"]
  /\ UNCHANGED <<client, worker, sender, dll>>

\* Whether a line is well-formed shows at its end.
DllSpeaks ==
  \E n \in Served, ok \in BOOLEAN :
    LET half == 1 + (session[n].sent % 2)
    IN /\ session[n].open /\ session[n].sent < 2 * MaxLines
       /\ ok \/ (half = 2 /\ dll.faults < MaxFaults)
       /\ session' = [session EXCEPT ![n].sent = @ + 1,
            ![n].flow = Append(@, [session |-> n, number |-> 1 + (session[n].sent \div 2), half |-> half, ok |-> ok])]
       /\ dll' = [dll EXCEPT !.faults = @ + IF ok THEN 0 ELSE 1]
       /\ UNCHANGED <<client, worker, sender>>

DllNotices ==
  /\ \E n \in Served : ~session[n].open /\ session' = [session EXCEPT ![n].dll = "gone"]
  /\ UNCHANGED <<client, worker, sender, dll>>

\* The DLL drops its host, or the game ends; what was on the way arrives or does not.
DllDrops ==
  /\ dll.faults < MaxFaults
  /\ \E all, lost \in BOOLEAN :
       /\ IF all THEN dll.up ELSE Served # {}
       /\ session' = [n \in DOMAIN session |->
            IF all \/ n \in Served
              THEN [session[n] EXCEPT !.dll = "gone", !.flow = IF lost THEN <<>> ELSE @]
              ELSE session[n]]
       /\ dll' = [up |-> dll.up /\ ~all, faults |-> dll.faults + 1]
  /\ UNCHANGED <<client, worker, sender>>

DllStarts == ~dll.up /\ dll' = [dll EXCEPT !.up = TRUE] /\ UNCHANGED <<client, worker, sender, session>>

LinkNext ==
  \/ Worker \/ RecvTimesOut
  \/ Send \/ Sent \/ SendFails \/ SenderCloses
  \/ Collected \/ DllAccepts \/ DllSpeaks \/ DllNotices \/ DllDrops \/ DllStarts

LinkSpec == LinkInit /\ [][LinkNext]_linkVars

\* Threads run, an unreferenced socket is closed, a game that has ended is started again.
LinkFair ==
  /\ WF_linkVars(Worker) /\ WF_linkVars(Sent \/ SendFails) /\ WF_linkVars(SenderCloses)
  /\ WF_linkVars(Collected) /\ WF_linkVars(DllAccepts) /\ WF_linkVars(DllNotices) /\ WF_linkVars(DllStarts)

-----------------------------------------------------------------------------
(* Correctness. *)

\* However the stream is cut, whichever thread closes the client and whatever a session left in
\* the buffer, the inbox holds lines the DLL wrote, those of a session are its first ones, in order
\* and each once, and no line of a session comes after one of a later session (connect, recv, close).
StreamWhole ==
  \A i \in DOMAIN client.inbox :
    LET line == client.inbox[i]
    IN IF i = 1 \/ client.inbox[i - 1][1] # line[1]
         THEN line[2] = 1 /\ (i > 1 => client.inbox[i - 1][1] < line[1])
         ELSE line[2] = client.inbox[i - 1][2] + 1

\* When the DLL is no more restarted and neither drops its host nor writes malformed lines, the worker
\* is in the end reading a session the DLL serves, and stays with it, although a send that failed on
\* an earlier session can close it under the worker (_start_client, close).
LinkSettles ==
  <>[](Usable /\ worker.at \in {"recv", "take"} /\ session[client.sock].dll = "served")

=============================================================================
