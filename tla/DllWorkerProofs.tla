-------------------------- MODULE DllWorkerProofs --------------------------
(***************************************************************************)
(* Theorems about DllWorker: every variable keeps its type, which bounds   *)
(* the rings, the backlog and the pending bytes; the file log is a         *)
(* complete record of what the rings accepted; the command lines of a      *)
(* session are handled whole, once and in order; what a pass of the loop   *)
(* has drained is on disk, and nothing is left behind when the module has  *)
(* stopped; and every host is sent a window of the log.                    *)
(***************************************************************************)
EXTENDS DllWorker, SequenceTheorems, FiniteSetTheorems, WellFoundedInduction, TLAPS

-----------------------------------------------------------------------------
(* Sequences, and the line a poll takes from the pending bytes. *)

\* Append lengthens a sequence by one.
LEMMA AppendType ==
  ASSUME NEW S, NEW q \in Seq(S), NEW x \in S
  PROVE  /\ Append(q, x) \in Seq(S)
         /\ Len(Append(q, x)) = Len(q) + 1
  OBVIOUS

\* A non-empty sequence has a head, and a tail that is one shorter.
LEMMA TailType ==
  ASSUME NEW S, NEW q \in Seq(S), q # <<>>
  PROVE  /\ Head(q) \in S /\ Tail(q) \in Seq(S)
         /\ Len(Tail(q)) = Len(q) - 1
         /\ Len(q) \in Nat \ {0}
  OBVIOUS

\* A cut of a sequence has as many elements as its bounds say.
LEMMA SubSeqType ==
  ASSUME NEW S, NEW q \in Seq(S), NEW i \in Nat \ {0}, NEW j \in 0 .. Len(q), i <= j + 1
  PROVE  /\ SubSeq(q, i, j) \in Seq(S)
         /\ Len(SubSeq(q, i, j)) = j - i + 1
  BY SubSeqProperties

\* Two sequences of a type make one.
LEMMA ConcatType ==
  ASSUME NEW S, NEW q \in Seq(S), NEW r \in Seq(S)
  PROVE  /\ q \o r \in Seq(S)
         /\ Len(q \o r) = Len(q) + Len(r)
  BY ConcatProperties

\* A non-empty set of numbers up to n has a least one, and Min names it: of the intervals that
\* end in the set, one contains no other.
LEMMA MinInSet ==
  ASSUME NEW n \in Nat, NEW S \in SUBSET (1 .. n), S # {}
  PROVE  Min(S) \in S
<1> DEFINE U == 1 .. n
           T == {1 .. i : i \in S}
<1>1. IsFiniteSet(U)
  BY FS_Interval
<1>2. IsWellFoundedOn(StrictSubsetOrdering(U), SUBSET U)
  BY <1>1, FS_StrictSubsetOrderingWellFounded, FS_FiniteSubsetsOfFinite
<1>3. T \subseteq SUBSET U /\ T # {}
  <2>1. PICK i \in S : TRUE
    OBVIOUS
  <2>2. (1 .. i) \in T
    BY <2>1
  <2>3. ASSUME NEW j \in S PROVE 1 .. j \in SUBSET U
    <3>1. j \in 1 .. n
      OBVIOUS
    <3> QED
      BY <3>1 DEF U
  <2> QED
    BY <2>2, <2>3
<1> HIDE DEF U, T
<1>4. \E x \in T : \A y \in T : ~ (<<y, x>> \in StrictSubsetOrdering(U))
  BY <1>2, <1>3, WFMin
<1>5. PICK x \in S : \A y \in S : ~ (<<1 .. y, 1 .. x>> \in StrictSubsetOrdering(U))
  BY <1>4 DEF T
<1>6. ASSUME NEW y \in S PROVE x <= y
  <2>1. x \in 1 .. n /\ y \in 1 .. n
    OBVIOUS
  <2>2. CASE y < x
    <3>1. (1 .. y) \subseteq (1 .. x) /\ (1 .. y) # (1 .. x)
      BY <2>1, <2>2
    <3>2. (1 .. y) \in SUBSET U /\ (1 .. x) \in SUBSET U
      BY <2>1 DEF U
    <3>3. <<1 .. y, 1 .. x>> \in StrictSubsetOrdering(U)
      BY <3>1, <3>2 DEF StrictSubsetOrdering
    <3> QED
      BY <3>3, <1>5
  <2> QED
    BY <2>1, <2>2
<1> QED
  BY <1>6 DEF Min

\* In bytes that hold a newline the first line is not empty, and it and the rest are bytes again.
LEMMA LineTaken ==
  ASSUME NEW bytes \in Seq(Pieces), HasLine(bytes)
  PROVE  /\ FirstLine(bytes) \in Seq(Pieces) /\ FirstLine(bytes) # <<>>
         /\ RestAfterLine(bytes) \in Seq(Pieces)
         /\ Len(RestAfterLine(bytes)) < Len(bytes)
<1> DEFINE k == Min(LineEnds(bytes))
<1>1. Len(bytes) \in Nat
  OBVIOUS
<1>2. LineEnds(bytes) # {} /\ LineEnds(bytes) \in SUBSET (1 .. Len(bytes))
  BY DEF HasLine, LineEnds
<1>3. k \in LineEnds(bytes)
  BY <1>1, <1>2, MinInSet
<1>4. k \in 1 .. Len(bytes)
  BY <1>2, <1>3
<1> HIDE DEF k
<1>5. /\ SubSeq(bytes, 1, k) \in Seq(Pieces)
      /\ Len(SubSeq(bytes, 1, k)) = k
  BY <1>1, <1>4, SubSeqType
<1>6. /\ SubSeq(bytes, k + 1, Len(bytes)) \in Seq(Pieces)
      /\ Len(SubSeq(bytes, k + 1, Len(bytes))) = Len(bytes) - k
  BY <1>1, <1>4, SubSeqType
<1>7. FirstLine(bytes) = SubSeq(bytes, 1, k) /\ RestAfterLine(bytes) = SubSeq(bytes, k + 1, Len(bytes))
  BY DEF FirstLine, RestAfterLine, k
<1>8. Len(FirstLine(bytes)) # 0
  BY <1>4, <1>5, <1>7
<1>9. FirstLine(bytes) # <<>>
  BY <1>8, EmptySeq
<1>10. Len(bytes) - k < Len(bytes)
  BY <1>1, <1>4
<1> QED
  BY <1>5, <1>6, <1>7, <1>9, <1>10, Zenon

-----------------------------------------------------------------------------
(* What send_line does to the link. *)

WireLines == [kind : Dirs \cup {"ECHO"}, id : Packets] \cup {StatusLine}

\* close_client leaves a link.
LEMMA ClosedType ==
  ASSUME NEW l \in Links
  PROVE  Closed(l) \in Links
<1>1. <<>> \in Seq(Pieces) /\ Len(<<>>) <= MaxPending
  BY EmptySeq, BoundAssumption
<1> QED
  BY <1>1 DEF Links, Closed

\* So does a line that send() takes.
LEMMA DeliveredType ==
  ASSUME NEW l \in Links, l.client \in Sessions, NEW line \in WireLines
  PROVE  Delivered(l, line) \in Links
<1> DEFINE s == l.client
           begun == [l EXCEPT !.first[s] = IF @ = "none" THEN line.kind ELSE @]
<1>1. line.kind \in {"STATUS", "ECHO"} \cup Dirs /\ (line.kind # "STATUS" => line.id \in Packets)
  BY DEF WireLines, StatusLine
<1>2. begun \in Links /\ begun.wire = l.wire /\ begun.echoes = l.echoes /\ begun.client = s
  BY <1>1 DEF Links
<1>3. CASE line.kind = "STATUS"
  BY <1>2, <1>3 DEF Delivered
<1>4. CASE line.kind = "ECHO"
  <2>1. l.echoes[s] \in Seq(Echoes) /\ l.wire[s]["SEND"] \in Seq(Packets)
    BY DEF Links, Dirs
  <2>2. [id |-> line.id, after |-> Len(l.wire[s]["SEND"])] \in Echoes
    BY <1>1, <1>4, <2>1 DEF Echoes
  <2>3. Append(l.echoes[s], [id |-> line.id, after |-> Len(l.wire[s]["SEND"])]) \in Seq(Echoes)
    BY <2>1, <2>2, AppendType
  <2> HIDE DEF begun
  <2>4. [begun EXCEPT !.echoes[s] = Append(@, [id |-> line.id, after |-> Len(l.wire[s]["SEND"])])] \in Links
    BY <1>2, <2>3 DEF Links
  <2> QED
    BY <2>4, <1>4 DEF Delivered, begun
<1>5. CASE line.kind \in Dirs
  <2>1. l.wire[s][line.kind] \in Seq(Packets)
    BY <1>5 DEF Links
  <2>2. Append(l.wire[s][line.kind], line.id) \in Seq(Packets)
    BY <1>1, <1>5, <2>1, AppendType DEF Dirs
  <2> HIDE DEF begun
  <2>3. [begun EXCEPT !.wire[s][line.kind] = Append(@, line.id)] \in Links
    BY <1>2, <1>5, <2>2 DEF Links
  <2> QED
    BY <2>3, <1>5 DEF Delivered, begun, Dirs
<1> QED
  BY <1>1, <1>3, <1>4, <1>5

\* So does send_line in each of its outcomes.
LEMMA SendLineType ==
  ASSUME NEW l \in Links, NEW line \in WireLines, NEW after \in SendLine(l, line)
  PROVE  after \in Links
<1>1. CASE l.client = NoHost
  BY <1>1 DEF SendLine, Connected
<1>2. CASE l.client # NoHost
  <2>1. l.client \in Sessions
    BY <1>2 DEF Links
  <2>2. after = Delivered(l, line) \/ after = Closed(l)
    BY <1>2 DEF SendLine, Connected
  <2> QED
    BY <2>1, <2>2, ClosedType, DeliveredType
<1> QED
  BY <1>1, <1>2

\* A flush covers a number of packets of each kind.
LEMMA FlushedType ==
  ASSUME NEW l \in [Kinds -> Seq(Packets)]
  PROVE  Flushed(l) \in [Kinds -> Nat]
  BY DEF Flushed

\* The lines the worker sends are lines.
LEMMA LineTypes ==
  /\ StatusLine \in WireLines
  /\ \A d \in Dirs, i \in Packets : PacketLine(d, i) \in WireLines
  /\ \A i \in Packets : EchoLine(i) \in WireLines
  BY DEF WireLines, StatusLine, PacketLine, EchoLine, Dirs

-----------------------------------------------------------------------------
(* Type correctness, one lemma per group of actions. *)

\* The DLL starts with well-typed state.
LEMMA InitType == Init => TypeOK
<1> SUFFICES ASSUME Init PROVE TypeOK
  OBVIOUS
<1> USE BoundAssumption
<1>1. \A S : <<>> \in Seq(S) /\ Len(<<>>) = 0
  BY EmptySeq
<1>2. ControlOK
  <2>1. inHook \in [GameThreads -> [dir : Dirs, id : Packets] \cup {NoPacket}]
    BY DEF Init
  <2>2. pc \in Places /\ offered \in 0 .. MaxPackets
    BY DEF Init, Places
  <2> QED
    BY <2>1, <2>2 DEF Init, ControlOK
<1>3. RingOK /\ LogOK
  BY <1>1 DEF Init, RingOK, LogOK, NoLog
<1>4. link \in Links
  BY <1>1 DEF Init, Links
<1>5. HostOK /\ CommandOK
  BY <1>1 DEF Init, HostOK, CommandOK
<1> QED
  BY <1>2, <1>3, <1>4, <1>5 DEF TypeOK

\* A hook that takes a packet keeps the types.
LEMMA HookEnterType ==
  ASSUME TypeOK, NEW t \in GameThreads, HookEnter(t)
  PROVE  TypeOK'
<1> USE BoundAssumption DEF ringVars, logVars, hostVars, cmdVars, modVars
<1>1. PICK d \in Dirs : /\ offered < MaxPackets
                        /\ offered' = offered + 1
                        /\ inHook' = [inHook EXCEPT ![t] = [dir |-> d, id |-> offered + 1]]
  BY DEF HookEnter
<1>2. offered + 1 \in Packets /\ offered' \in 0 .. MaxPackets
  BY <1>1 DEF TypeOK, ControlOK, Packets
<1>3. inHook' \in [GameThreads -> [dir : Dirs, id : Packets] \cup {NoPacket}]
  BY <1>1, <1>2 DEF TypeOK, ControlOK
<1>4. ControlOK'
  BY <1>2, <1>3 DEF HookEnter, TypeOK, ControlOK
<1>5. RingOK' /\ LogOK'
  BY DEF HookEnter, TypeOK, RingOK, LogOK
<1>6. link' \in Links /\ HostOK' /\ CommandOK'
  BY DEF HookEnter, TypeOK, HostOK, CommandOK
<1> QED
  BY <1>4, <1>5, <1>6 DEF TypeOK

\* A push keeps a ring within its capacity.
LEMMA PushType ==
  ASSUME RingOK, NEW d \in Dirs, NEW id \in Packets, Push(d, id)
  PROVE  RingOK'
<1> USE BoundAssumption
<1>1. ring[d] \in Seq(Packets) /\ accepted[d] \in Seq(Packets) /\ Len(ring[d]) \in Nat
  BY DEF RingOK
<1>2. Append(ring[d], id) \in Seq(Packets) /\ Len(Append(ring[d], id)) = Len(ring[d]) + 1
  BY <1>1, AppendType
<1>3. Append(accepted[d], id) \in Seq(Packets)
  BY <1>1, AppendType
<1>4. CASE Len(ring[d]) < Capacity
  <2>1. /\ ring' = [ring EXCEPT ![d] = Append(ring[d], id)]
        /\ accepted' = [accepted EXCEPT ![d] = Append(accepted[d], id)]
        /\ drops' = drops
    BY <1>4 DEF Push
  <2>2. ring' \in [Dirs -> Seq(Packets)] /\ accepted' \in [Dirs -> Seq(Packets)]
    BY <1>2, <1>3, <2>1 DEF RingOK
  <2>3. ASSUME NEW e \in Dirs PROVE Len(ring'[e]) <= Capacity
    <3>1. CASE e = d
      BY <1>1, <1>2, <1>4, <2>1, <3>1 DEF RingOK
    <3>2. CASE e # d
      BY <2>1, <3>2 DEF RingOK
    <3> QED
      BY <3>1, <3>2
  <2> QED
    BY <2>1, <2>2, <2>3 DEF RingOK
<1>5. CASE ~(Len(ring[d]) < Capacity)
  <2>1. drops' = [drops EXCEPT ![d] = @ + 1] /\ ring' = ring /\ accepted' = accepted
    BY <1>5 DEF Push
  <2>2. drops' \in [Dirs -> Nat]
    BY <2>1 DEF RingOK
  <2> QED
    BY <2>1, <2>2 DEF RingOK
<1> QED
  BY <1>4, <1>5

\* So does the push of a game thread.
LEMMA HookPushType ==
  ASSUME TypeOK, NEW t \in GameThreads, HookPush(t)
  PROVE  TypeOK'
<1> USE DEF ringVars, logVars, hostVars, cmdVars, modVars
<1>1. inHook[t].dir \in Dirs /\ inHook[t].id \in Packets
  BY DEF HookPush, TypeOK, ControlOK
<1>2. RingOK'
  BY <1>1, PushType DEF HookPush, TypeOK
<1>3. ControlOK' /\ LogOK'
  BY DEF HookPush, TypeOK, ControlOK, LogOK
<1>4. link' \in Links /\ HostOK' /\ CommandOK'
  BY DEF HookPush, TypeOK, HostOK, CommandOK
<1> QED
  BY <1>2, <1>3, <1>4 DEF TypeOK

\* What a host does keeps the types, and the backlog within its limit.
LEMMA HostType ==
  ASSUME TypeOK, NEW s \in Sessions, HostConnect(s) \/ HostWrite(s) \/ HostChange(s)
  PROVE  TypeOK'
<1> USE BoundAssumption DEF ringVars, logVars, hostVars, cmdVars, modVars
<1>1. CASE HostConnect(s)
  <2>1. Append(backlog, s) \in Seq(Sessions) /\ Len(Append(backlog, s)) = Len(backlog) + 1
    BY AppendType DEF TypeOK, HostOK
  <2>2. Len(backlog) \in Nat
    BY DEF TypeOK, HostOK
  <2>3. HostOK'
    BY <1>1, <2>1, <2>2 DEF HostConnect, TypeOK, HostOK
  <2>4. ControlOK' /\ RingOK' /\ LogOK'
    BY <1>1 DEF HostConnect, TypeOK, ControlOK, RingOK, LogOK
  <2>5. link' \in Links /\ CommandOK'
    BY <1>1 DEF HostConnect, TypeOK, CommandOK
  <2> QED
    BY <2>3, <2>4, <2>5 DEF TypeOK
<1>2. CASE HostWrite(s)
  <2> DEFINE id(text) == IF text = "SEND" THEN offered + 1 ELSE 0
             piece(text) == [from |-> s, n |-> Len(written[s]) + 1, text |-> text, id |-> id(text)]
  <2>1. PICK text \in Commands \cup {"part"} :
          /\ Len(written[s]) < MaxPieces
          /\ text = "SEND" => offered < MaxPackets
          /\ written' = [written EXCEPT ![s] = Append(@, piece(text))]
          /\ offered' = IF text = "SEND" THEN id(text) ELSE offered
    BY <1>2 DEF HostWrite
  <2>2. written[s] \in Seq(Pieces) /\ Len(written[s]) \in Nat /\ offered \in 0 .. MaxPackets
    BY DEF TypeOK, HostOK, ControlOK
  <2>3. id(text) \in 0 .. MaxPackets /\ (text = "SEND" => id(text) \in Packets)
    BY <2>1, <2>2 DEF Packets
  <2>4. Len(written[s]) + 1 \in 1 .. MaxPieces
    BY <2>1, <2>2
  <2>5. piece(text) \in Pieces
    BY <2>3, <2>4 DEF Pieces
  <2>6. offered' \in 0 .. MaxPackets
    BY <2>1, <2>2, <2>3
  <2> HIDE DEF piece, id
  <2>7. /\ Append(written[s], piece(text)) \in Seq(Pieces)
        /\ Len(Append(written[s], piece(text))) = Len(written[s]) + 1
    BY <2>2, <2>5, AppendType
  <2>8. HostOK'
    BY <1>2, <2>1, <2>2, <2>4, <2>7 DEF HostWrite, TypeOK, HostOK
  <2>9. CommandOK'
    BY <1>2, <2>1, <2>2, <2>7 DEF HostWrite, TypeOK, HostOK, CommandOK
  <2>10. ControlOK' /\ RingOK' /\ LogOK' /\ link' \in Links
    BY <1>2, <2>6 DEF HostWrite, TypeOK, ControlOK, RingOK, LogOK
  <2> QED
    BY <2>8, <2>9, <2>10 DEF TypeOK
<1>3. CASE HostChange(s)
  <2>1. HostOK'
    BY <1>3 DEF HostChange, TypeOK, HostOK
  <2>2. ControlOK' /\ RingOK' /\ LogOK'
    BY <1>3 DEF HostChange, TypeOK, ControlOK, RingOK, LogOK
  <2>3. link' \in Links /\ CommandOK'
    BY <1>3 DEF HostChange, TypeOK, CommandOK
  <2> QED
    BY <2>1, <2>2, <2>3 DEF TypeOK
<1> QED
  BY <1>1, <1>2, <1>3

\* The steps of the worker that move nothing but its place and the ends of its life.
LEMMA ControlStepType ==
  ASSUME TypeOK, Startup \/ NoAccept \/ PollNothing \/ Grace
  PROVE  TypeOK'
<1> USE DEF ringVars, logVars, hostVars, cmdVars, modVars, At
<1>1. ControlOK'
  <2>1. CASE Startup
    <3>1. PICK u \in Setups : hooked' = u.hooked /\ inject' = u.inject /\ serving' = u.serving
                              /\ enabled' = (u.hooked # {})
      BY <2>1 DEF Startup
    <3>2. /\ u.hooked \subseteq {"recv", "send", "skill"}
          /\ u.inject \in BOOLEAN /\ u.serving \in BOOLEAN
      BY SetupAssumption
    <3> QED
      BY <2>1, <3>1, <3>2 DEF Startup, TypeOK, ControlOK, Places
  <2>2. CASE NoAccept
    BY <2>2 DEF NoAccept, TypeOK, ControlOK, Places
  <2>3. CASE PollNothing
    BY <2>3 DEF PollNothing, TypeOK, ControlOK, Places, Drains
  <2>4. CASE Grace
    BY <2>4 DEF Grace, TypeOK, ControlOK, Places, Drains
  <2> QED
    BY <2>1, <2>2, <2>3, <2>4
<1>2. RingOK' /\ LogOK' /\ link' \in Links /\ HostOK'
  BY DEF Startup, NoAccept, PollNothing, Grace, TypeOK, RingOK, LogOK, HostOK
<1>3. CommandOK'
  BY DEF Startup, NoAccept, PollNothing, Grace, TypeOK, CommandOK
<1> QED
  BY <1>1, <1>2, <1>3 DEF TypeOK

\* accept_client and the greeting keep the types.
LEMMA AcceptType ==
  ASSUME TypeOK, Accept
  PROVE  TypeOK'
<1> USE DEF ringVars, logVars, hostVars, cmdVars, modVars, At
<1> DEFINE s == Head(backlog)
<1>1. s \in Sessions /\ Tail(backlog) \in Seq(Sessions) /\ Len(Tail(backlog)) = Len(backlog) - 1
      /\ Len(backlog) \in Nat
  BY TailType DEF Accept, HostWaits, TypeOK, HostOK
<1>2. [Closed(link) EXCEPT !.client = s] \in Links
  <2>1. Closed(link) \in Links
    BY ClosedType DEF TypeOK
  <2> QED
    BY <1>1, <2>1 DEF Links
<1>3. link' \in Links
  BY <1>2, LineTypes, SendLineType DEF Accept
<1>4. Flushed(log) \in [Kinds -> Nat]
  BY FlushedType DEF TypeOK, LogOK
<1>5. LogOK'
  BY <1>1, <1>4 DEF Accept, TypeOK, LogOK
<1>6. HostOK'
  BY <1>1, BoundAssumption DEF Accept, TypeOK, HostOK
<1>7. ControlOK' /\ RingOK' /\ CommandOK'
  BY DEF Accept, TypeOK, ControlOK, RingOK, CommandOK, Places
<1> QED
  BY <1>3, <1>5, <1>6, <1>7 DEF TypeOK

\* A line that is taken is a command of the worker, and what is left of the bytes is pending.
LEMMA TakeLineType ==
  ASSUME TypeOK, NEW bytes \in Seq(Pieces), Len(bytes) <= MaxPending, HasLine(bytes),
         TakeLine(bytes)
  PROVE  link' \in Links /\ command' \in Seq(Pieces) /\ command' # <<>>
<1>1. /\ FirstLine(bytes) \in Seq(Pieces) /\ FirstLine(bytes) # <<>>
      /\ RestAfterLine(bytes) \in Seq(Pieces) /\ Len(RestAfterLine(bytes)) < Len(bytes)
  BY LineTaken
<1>2. Len(bytes) \in Nat /\ Len(RestAfterLine(bytes)) \in Nat
  BY <1>1
<1>3. Len(RestAfterLine(bytes)) <= MaxPending
  BY <1>1, <1>2, BoundAssumption
<1> QED
  BY <1>1, <1>3 DEF TakeLine, TypeOK, Links

\* The bytes recv adds to what is pending are bytes the host wrote.
LEMMA ReceivedType ==
  ASSUME TypeOK, NEW n \in 1 .. MaxChunk, Received(n)
  PROVE  /\ link.client \in Sessions
         /\ After(link.client, n) \in Seq(Pieces)
         /\ read' \in [Sessions -> Nat] /\ \A s \in Sessions : read'[s] <= Len(written[s])
<1> USE BoundAssumption
<1> DEFINE s == link.client
<1>1. s \in Sessions
  BY DEF Received, Connected, TypeOK, Links
<1>2. written[s] \in Seq(Pieces) /\ Len(written[s]) \in Nat /\ read[s] \in Nat
  BY <1>1 DEF TypeOK, HostOK, CommandOK
<1>3. n \in Nat \ {0} /\ read[s] + n <= Len(written[s])
  BY DEF Received, Arrivals
<1>4. SubSeq(written[s], read[s] + 1, read[s] + n) \in Seq(Pieces)
  <2>1. read[s] + 1 \in Nat \ {0} /\ read[s] + n \in 0 .. Len(written[s])
        /\ read[s] + 1 <= (read[s] + n) + 1
    BY <1>2, <1>3
  <2> QED
    BY <1>2, <2>1, SubSeqType
<1>5. link.pending \in Seq(Pieces)
  BY DEF TypeOK, Links
<1>6. After(s, n) \in Seq(Pieces)
  BY <1>4, <1>5, ConcatType DEF After
<1>7. read' = [read EXCEPT ![s] = @ + n]
  BY DEF Received
<1>8. read' \in [Sessions -> Nat] /\ \A r \in Sessions : read'[r] <= Len(written[r])
  BY <1>1, <1>2, <1>3, <1>7 DEF TypeOK, CommandOK
<1> QED
  BY <1>1, <1>6, <1>8

\* poll_command keeps the pending bytes within kMaxPending.
LEMMA PollType ==
  ASSUME TypeOK, Poll
  PROVE  TypeOK'
<1> USE BoundAssumption DEF ringVars, logVars, hostVars, cmdVars, modVars, At
<1>1. CASE PollBuffered
  <2>1. link.pending \in Seq(Pieces) /\ Len(link.pending) <= MaxPending
    BY DEF TypeOK, Links
  <2>2. link' \in Links /\ command' \in Seq(Pieces) /\ command' # <<>>
    BY <1>1, <2>1, TakeLineType DEF PollBuffered
  <2>3. CommandOK'
    BY <1>1, <2>2 DEF PollBuffered, TypeOK, CommandOK
  <2>4. ControlOK' /\ RingOK' /\ LogOK' /\ HostOK'
    BY <1>1 DEF PollBuffered, TypeOK, ControlOK, RingOK, LogOK, HostOK, Places
  <2> QED
    BY <2>2, <2>3, <2>4 DEF TypeOK
<1>2. CASE PollOverflow
  <2>1. PICK n \in 1 .. MaxChunk : Received(n)
    BY <1>2 DEF PollOverflow
  <2>2. read' \in [Sessions -> Nat] /\ \A s \in Sessions : read'[s] <= Len(written[s])
    BY <2>1, ReceivedType
  <2>3. link' \in Links
    BY <1>2, ClosedType DEF PollOverflow, TypeOK
  <2>4. synced' \in [Kinds -> Nat]
    BY <1>2, FlushedType DEF PollOverflow, TypeOK, LogOK
  <2>5. CommandOK'
    BY <1>2, <2>1, <2>2 DEF PollOverflow, Received, TypeOK, CommandOK
  <2>6. ControlOK' /\ RingOK' /\ LogOK' /\ HostOK'
    BY <1>2, <2>1, <2>4
       DEF PollOverflow, Received, TypeOK, ControlOK, RingOK, LogOK, HostOK, Places, Drains
  <2> QED
    BY <2>3, <2>5, <2>6 DEF TypeOK
<1>3. CASE PollLine
  <2>1. PICK n \in 1 .. MaxChunk :
          LET bytes == After(link.client, n)
          IN Received(n) /\ ~TooMuch(bytes) /\ HasLine(bytes) /\ TakeLine(bytes)
    BY <1>3 DEF PollLine
  <2>2. /\ After(link.client, n) \in Seq(Pieces)
        /\ read' \in [Sessions -> Nat] /\ \A s \in Sessions : read'[s] <= Len(written[s])
    BY <2>1, ReceivedType
  <2>3. Len(After(link.client, n)) <= MaxPending
    BY <2>1, <2>2 DEF TooMuch
  <2>4. link' \in Links /\ command' \in Seq(Pieces) /\ command' # <<>>
    BY <2>1, <2>2, <2>3, TakeLineType
  <2>5. CommandOK'
    BY <1>3, <2>1, <2>2, <2>4 DEF PollLine, Received, TypeOK, CommandOK
  <2>6. ControlOK' /\ RingOK' /\ LogOK' /\ HostOK'
    BY <1>3, <2>1 DEF PollLine, Received, TypeOK, ControlOK, RingOK, LogOK, HostOK, Places
  <2> QED
    BY <2>4, <2>5, <2>6 DEF TypeOK
<1>4. CASE PollPartial
  <2>1. PICK n \in 1 .. MaxChunk :
          LET bytes == After(link.client, n)
          IN /\ Received(n) /\ ~TooMuch(bytes)
             /\ link' = [link EXCEPT !.pending = bytes]
    BY <1>4 DEF PollPartial
  <2>2. /\ After(link.client, n) \in Seq(Pieces)
        /\ read' \in [Sessions -> Nat] /\ \A s \in Sessions : read'[s] <= Len(written[s])
    BY <2>1, ReceivedType
  <2>3. Len(After(link.client, n)) <= MaxPending
    BY <2>1, <2>2 DEF TooMuch
  <2>4. link' \in Links
    BY <2>1, <2>2, <2>3 DEF TypeOK, Links
  <2>5. CommandOK'
    BY <1>4, <2>1, <2>2 DEF PollPartial, Received, TypeOK, CommandOK
  <2>6. ControlOK' /\ RingOK' /\ LogOK' /\ HostOK'
    BY <1>4, <2>1
       DEF PollPartial, Received, TypeOK, ControlOK, RingOK, LogOK, HostOK, Places, Drains
  <2> QED
    BY <2>4, <2>5, <2>6 DEF TypeOK
<1>5. CASE PollClosed
  <2>1. link' \in Links
    BY <1>5, ClosedType DEF PollClosed, TypeOK
  <2>2. ControlOK' /\ RingOK' /\ LogOK' /\ HostOK' /\ CommandOK'
    BY <1>5 DEF PollClosed, TypeOK, ControlOK, RingOK, LogOK, HostOK, CommandOK, Places, Drains
  <2> QED
    BY <2>1, <2>2 DEF TypeOK
<1>6. CASE PollNothing
  BY <1>6, ControlStepType
<1> QED
  BY <1>1, <1>2, <1>3, <1>4, <1>5, <1>6 DEF Poll

\* A line is handled at "handle" only, where it is not empty, and its session is the one attached.
LEMMA HandleType ==
  ASSUME TypeOK, NEW text \in {"SEND", "QUIT", "REPLY"}, Handle(text)
  PROVE  /\ CommandOK' /\ pc' \in Places
         /\ Last(command) \in Pieces
         /\ text = "SEND" => Last(command).id \in Packets
<1> USE DEF hostVars, cmdVars, modVars, At
<1>1. command \in Seq(Pieces) /\ command # <<>>
  BY DEF Handle, TypeOK, CommandOK
<1>2. Len(command) \in 1 .. Len(command)
  BY <1>1, EmptySeq
<1>3. Last(command) \in Pieces
  BY <1>1, <1>2 DEF Last
<1>4. text = "SEND" => Last(command).id \in Packets
  BY <1>3 DEF Handle, Pieces
<1>5. executed' \in [Sessions -> Seq(Pieces)]
  <2>1. \A s \in Sessions : executed[s] \o command \in Seq(Pieces)
    BY <1>1, ConcatType DEF TypeOK, CommandOK
  <2> QED
    BY <2>1 DEF Handle, TypeOK, CommandOK
<1>6. <<>> \in Seq(Pieces)
  BY EmptySeq
<1>7. CommandOK'
  BY <1>5, <1>6 DEF Handle, TypeOK, CommandOK
<1> QED
  BY <1>3, <1>4, <1>7 DEF Handle, Places

\* send_line flushes the log or leaves it alone.
LEMMA SyncedType ==
  ASSUME TypeOK, NEW l \in [Kinds -> Seq(Packets)], NEW after
  PROVE  FlushedIfLost(l, after) \in [Kinds -> Nat]
  BY FlushedType DEF FlushedIfLost, TypeOK, LogOK

\* handle_command keeps the types.
LEMMA CommandType ==
  ASSUME TypeOK, Command
  PROVE  TypeOK'
<1> USE DEF ringVars, logVars, hostVars, cmdVars, modVars
<1>1. CASE HandleSend
  <2> DEFINE id == Last(command).id
  <2>1. Handle("SEND")
    BY <1>1 DEF HandleSend
  <2>2. CommandOK' /\ pc' \in Places /\ id \in Packets
    BY <2>1, HandleType
  <2>3. RingOK'
    <3>1. CASE "send" \in hooked
      <4>1. Push("SEND", id)
        BY <1>1, <3>1 DEF HandleSend
      <4> QED
        BY <2>2, <4>1, PushType DEF TypeOK, Dirs
    <3>2. CASE "send" \notin hooked
      BY <1>1, <3>2 DEF HandleSend, TypeOK, RingOK
    <3> QED
      BY <3>1, <3>2
  <2>4. log' \in [Kinds -> Seq(Packets)]
    <3>1. log["MANUAL_SEND"] \in Seq(Packets)
      BY DEF TypeOK, LogOK, Kinds
    <3>2. Append(log["MANUAL_SEND"], id) \in Seq(Packets)
      BY <2>2, <3>1, AppendType
    <3>3. log' = [log EXCEPT !["MANUAL_SEND"] = Append(log["MANUAL_SEND"], id)]
      BY <1>1 DEF HandleSend
    <3> QED
      BY <3>2, <3>3 DEF TypeOK, LogOK
  <2>5. link' \in Links
    <3>1. PICK l \in SendLine(link, EchoLine(id)) : link' \in SendLine(l, StatusLine)
      BY <1>1 DEF HandleSend
    <3>2. l \in Links
      BY <2>2, <3>1, LineTypes, SendLineType DEF TypeOK
    <3> QED
      BY <3>1, <3>2, LineTypes, SendLineType
  <2>6. synced' \in [Kinds -> Nat]
    BY <1>1, <2>4, SyncedType DEF HandleSend
  <2>7. LogOK'
    BY <2>1, <2>4, <2>6 DEF Handle, TypeOK, LogOK
  <2>8. ControlOK' /\ HostOK'
    BY <1>1, <2>1, <2>2 DEF HandleSend, Handle, TypeOK, ControlOK, HostOK
  <2> QED
    BY <2>2, <2>3, <2>5, <2>7, <2>8 DEF TypeOK
<1>2. CASE HandleSendRefused \/ HandleReply
  <2>1. Handle("SEND") \/ Handle("REPLY")
    BY <1>2 DEF HandleSendRefused, HandleReply
  <2>2. CommandOK' /\ pc' \in Places
    BY <2>1, HandleType
  <2>3. link' \in Links
    BY <1>2, LineTypes, SendLineType DEF HandleSendRefused, HandleReply, TypeOK
  <2>4. synced' \in [Kinds -> Nat]
    BY <1>2, SyncedType DEF HandleSendRefused, HandleReply, TypeOK, LogOK
  <2>5. LogOK' /\ RingOK'
    BY <1>2, <2>1, <2>4 DEF HandleSendRefused, HandleReply, Handle, TypeOK, LogOK, RingOK
  <2>6. ControlOK' /\ HostOK'
    BY <1>2, <2>1, <2>2 DEF HandleSendRefused, HandleReply, Handle, TypeOK, ControlOK, HostOK
  <2> QED
    BY <2>2, <2>3, <2>5, <2>6 DEF TypeOK
<1>3. CASE HandleQuit
  <2>1. Handle("QUIT")
    BY <1>3 DEF HandleQuit
  <2>2. CommandOK' /\ pc' \in Places
    BY <2>1, HandleType
  <2>3. link' \in Links /\ LogOK' /\ RingOK'
    BY <1>3, <2>1 DEF HandleQuit, Handle, TypeOK, LogOK, RingOK
  <2>4. ControlOK' /\ HostOK'
    BY <1>3, <2>1, <2>2 DEF HandleQuit, Handle, TypeOK, ControlOK, HostOK
  <2> QED
    BY <2>2, <2>3, <2>4 DEF TypeOK
<1> QED
  BY <1>1, <1>2, <1>3 DEF Command

\* A drain is of one direction and leads to a place of the loop.
LEMMA DrainTypes ==
  /\ DOMAIN Drains = {"recv", "send", "finalRecv", "finalSend"}
  /\ \A p \in DOMAIN Drains : Drains[p] \in Dirs /\ AfterDrain[p] \in Places \ {"handle"}
  BY DEF Drains, AfterDrain, Dirs, Places

\* drain keeps the types.
LEMMA DrainType ==
  ASSUME TypeOK, DrainOne \/ DrainEnd
  PROVE  TypeOK'
<1> USE DEF ringVars, logVars, hostVars, cmdVars, modVars
<1> DEFINE d == Drains[pc]
           id == Head(ring[d])
<1>1. d \in Dirs /\ pc \in DOMAIN Drains /\ pc # "handle"
  BY DrainTypes DEF DrainOne, DrainEnd
<1>2. CASE DrainOne
  <2>1. /\ ring[d] # <<>>
        /\ ring' = [ring EXCEPT ![d] = Tail(ring[d])]
        /\ log' = [log EXCEPT ![d] = Append(log[d], id)]
        /\ link' \in SendLine(link, PacketLine(d, id))
    BY <1>2 DEF DrainOne
  <2>2. ring[d] \in Seq(Packets) /\ log[d] \in Seq(Packets)
    BY <1>1 DEF TypeOK, RingOK, LogOK, Kinds
  <2>3. /\ id \in Packets /\ Tail(ring[d]) \in Seq(Packets)
        /\ Len(Tail(ring[d])) = Len(ring[d]) - 1 /\ Len(ring[d]) \in Nat
    BY <2>1, <2>2, TailType
  <2>4. RingOK'
    <3>1. ring' \in [Dirs -> Seq(Packets)]
      BY <1>1, <2>1, <2>3 DEF TypeOK, RingOK
    <3>2. ASSUME NEW e \in Dirs PROVE Len(ring'[e]) <= Capacity
      <4>1. CASE e = d
        BY <1>1, <2>1, <2>3, <4>1, BoundAssumption DEF TypeOK, RingOK
      <4>2. CASE e # d
        BY <1>1, <2>1, <4>2 DEF TypeOK, RingOK
      <4> QED
        BY <4>1, <4>2
    <3> QED
      BY <1>2, <3>1, <3>2 DEF DrainOne, TypeOK, RingOK
  <2>5. log' \in [Kinds -> Seq(Packets)]
    <3>1. Append(log[d], id) \in Seq(Packets)
      BY <2>2, <2>3, AppendType
    <3> QED
      BY <1>1, <2>1, <3>1 DEF TypeOK, LogOK, Kinds
  <2>6. synced' \in [Kinds -> Nat]
    BY <1>2, <2>5, SyncedType DEF DrainOne
  <2>7. LogOK'
    BY <1>2, <2>5, <2>6 DEF DrainOne, TypeOK, LogOK
  <2>8. link' \in Links
    BY <1>1, <2>1, <2>3, LineTypes, SendLineType DEF TypeOK
  <2>9. ControlOK' /\ HostOK' /\ CommandOK'
    BY <1>2 DEF DrainOne, TypeOK, ControlOK, HostOK, CommandOK
  <2> QED
    BY <2>4, <2>7, <2>8, <2>9 DEF TypeOK
<1>3. CASE DrainEnd
  <2>1. pc' \in Places \ {"handle"}
    BY <1>1, <1>3, DrainTypes DEF DrainEnd
  <2>2. synced' \in [Kinds -> Nat]
    BY <1>3, FlushedType DEF DrainEnd, TypeOK, LogOK
  <2>3. ControlOK' /\ LogOK' /\ HostOK'
    BY <1>3, <2>1, <2>2 DEF DrainEnd, TypeOK, ControlOK, LogOK, HostOK
  <2>4. CommandOK'
    BY <1>1, <1>3, <2>1 DEF DrainEnd, TypeOK, CommandOK
  <2>5. RingOK' /\ link' \in Links
    BY <1>3 DEF DrainEnd, TypeOK, RingOK
  <2> QED
    BY <2>3, <2>4, <2>5 DEF TypeOK
<1> QED
  BY <1>2, <1>3

\* The status tick and the shutdown keep the types.
LEMMA EndType ==
  ASSUME TypeOK, Tick \/ Disable \/ Stop
  PROVE  TypeOK'
<1> USE DEF ringVars, logVars, hostVars, cmdVars, modVars, At, StopServer, RemoveHooks
<1>1. link' \in Links
  <2>1. CASE Tick
    BY <2>1, LineTypes, SendLineType DEF Tick, TypeOK
  <2>2. CASE Disable
    BY <2>2, LineTypes, SendLineType DEF Disable, TypeOK
  <2>3. CASE Stop
    BY <2>3, ClosedType DEF Stop, TypeOK
  <2> QED
    BY <2>1, <2>2, <2>3
<1>2. synced' \in [Kinds -> Nat]
  BY FlushedType, SyncedType DEF Tick, Disable, Stop, TypeOK, LogOK
<1>3. LogOK' /\ RingOK'
  BY <1>2 DEF Tick, Disable, Stop, TypeOK, LogOK, RingOK
<1>4. HostOK'
  <2>1. <<>> \in Seq(Sessions) /\ Len(<<>>) = 0
    BY EmptySeq
  <2>2. CASE Tick
    BY <2>2 DEF Tick, TypeOK, HostOK
  <2>3. CASE Disable
    BY <2>3 DEF Disable, TypeOK, HostOK
  <2>4. CASE Stop
    BY <2>1, <2>4, BoundAssumption DEF Stop, TypeOK, HostOK
  <2> QED
    BY <2>2, <2>3, <2>4
<1>5. ControlOK'
  BY DEF Tick, Disable, Stop, TypeOK, ControlOK, Places
<1>6. CommandOK'
  BY DEF Tick, Disable, Stop, TypeOK, CommandOK
<1> QED
  BY <1>1, <1>3, <1>4, <1>5, <1>6 DEF TypeOK

\* Every step keeps the types.
LEMMA NextType == TypeOK /\ [Next]_vars => TypeOK'
<1> SUFFICES ASSUME TypeOK, [Next]_vars PROVE TypeOK'
  OBVIOUS
<1>1. CASE Worker
  BY <1>1, ControlStepType, AcceptType, PollType, CommandType, DrainType, EndType DEF Worker
<1>2. CASE Game
  BY <1>2, HookEnterType, HookPushType DEF Game
<1>3. CASE Host
  BY <1>3, HostType DEF Host
<1>4. CASE UNCHANGED vars
  <2>1. ControlOK' /\ RingOK' /\ LogOK' /\ link' \in Links
    BY <1>4 DEF vars, ringVars, logVars, hostVars, cmdVars, modVars, TypeOK, ControlOK, RingOK, LogOK
  <2>2. HostOK' /\ CommandOK'
    BY <1>4 DEF vars, ringVars, logVars, hostVars, cmdVars, modVars, TypeOK, HostOK, CommandOK
  <2> QED
    BY <2>1, <2>2 DEF TypeOK
<1> QED
  BY <1>1, <1>2, <1>3, <1>4 DEF Next

\* The worker, the rings, the log, the session and the hosts keep their types: no ring ever holds
\* more than Capacity packets and g_pending never more than kMaxPending, whatever a host writes.
THEOREM WorkerTypeCorrect == Spec => []TypeOK
<1>1. Init => TypeOK
  BY InitType
<1>2. TypeOK /\ [Next]_vars => TypeOK'
  BY NextType
<1> QED
  BY <1>1, <1>2, PTL DEF Spec

-----------------------------------------------------------------------------
(* The file log is complete. *)

\* Appending to the second of two sequences appends to both.
LEMMA AppendConcat ==
  ASSUME NEW q \in Seq(Packets), NEW r \in Seq(Packets), NEW x \in Packets
  PROVE  q \o Append(r, x) = Append(q \o r, x)
  OBVIOUS

\* Moving the head of the second sequence behind the first leaves both together as they were.
LEMMA MoveHead ==
  ASSUME NEW S, NEW q \in Seq(S), NEW r \in Seq(S), r # <<>>
  PROVE  Append(q, Head(r)) \o Tail(r) = q \o r
  OBVIOUS

\* A push lengthens the ring as it lengthens what was accepted.
LEMMA PushKeepsLog ==
  ASSUME RingOK, LogOK, LogComplete, NEW d \in Dirs, NEW id \in Packets, Push(d, id),
         \A e \in Dirs : log'[e] = log[e]
  PROVE  LogComplete'
<1> SUFFICES ASSUME NEW e \in Dirs PROVE accepted'[e] = log'[e] \o ring'[e]
  BY DEF LogComplete
<1>1. /\ log[d] \in Seq(Packets) /\ ring[d] \in Seq(Packets)
      /\ accepted[e] = log[e] \o ring[e]
  BY DEF RingOK, LogOK, Kinds, LogComplete
<1>2. CASE e = d /\ Len(ring[d]) < Capacity
  <2>1. ring'[d] = Append(ring[d], id) /\ accepted'[d] = Append(accepted[d], id)
    BY <1>2 DEF Push, RingOK
  <2>2. log[d] \o Append(ring[d], id) = Append(log[d] \o ring[d], id)
    <3>1. log[d] \in Seq(Packets) /\ ring[d] \in Seq(Packets) /\ id \in Packets
      BY <1>1
    <3> QED
      BY <3>1, AppendConcat
  <2> QED
    BY <1>1, <1>2, <2>1, <2>2
<1>3. CASE ~(e = d /\ Len(ring[d]) < Capacity)
  <2>1. ring'[e] = ring[e] /\ accepted'[e] = accepted[e]
    BY <1>3 DEF Push, RingOK
  <2> QED
    BY <1>1, <2>1
<1> QED
  BY <1>2, <1>3

\* A drained packet moves from the head of the ring to the end of the log.
LEMMA DrainKeepsLog ==
  ASSUME TypeOK, LogComplete, DrainOne
  PROVE  LogComplete'
<1> DEFINE d == Drains[pc]
<1>1. d \in Dirs
  BY DrainTypes DEF DrainOne
<1>2. log[d] \in Seq(Packets) /\ ring[d] \in Seq(Packets) /\ ring[d] # <<>>
  BY <1>1 DEF TypeOK, RingOK, LogOK, Kinds, DrainOne
<1>3. /\ ring' = [ring EXCEPT ![d] = Tail(ring[d])]
      /\ log' = [log EXCEPT ![d] = Append(log[d], Head(ring[d]))]
      /\ accepted' = accepted
  BY DEF DrainOne
<1>4. Append(log[d], Head(ring[d])) \o Tail(ring[d]) = log[d] \o ring[d]
  BY <1>2, MoveHead
<1> HIDE DEF d
<1> SUFFICES ASSUME NEW e \in Dirs PROVE accepted'[e] = log'[e] \o ring'[e]
  BY DEF LogComplete
<1>5. accepted[e] = log[e] \o ring[e]
  BY DEF LogComplete
<1>6. CASE e = d
  <2>1. ring'[d] = Tail(ring[d]) /\ log'[d] = Append(log[d], Head(ring[d]))
    BY <1>1, <1>3 DEF TypeOK, RingOK, LogOK, Kinds
  <2> QED
    BY <1>3, <1>4, <1>5, <1>6, <2>1
<1>7. CASE e # d
  <2>1. ring'[e] = ring[e] /\ log'[e] = log[e]
    BY <1>3, <1>7 DEF TypeOK, RingOK, LogOK, Kinds
  <2> QED
    BY <1>3, <1>5, <2>1
<1> QED
  BY <1>6, <1>7

\* Every step keeps the log complete.
LEMMA NextKeepsLog == TypeOK /\ LogComplete /\ [Next]_vars => LogComplete'
<1> SUFFICES ASSUME TypeOK, LogComplete, [Next]_vars PROVE LogComplete'
  OBVIOUS
<1> USE DEF ringVars, logVars
<1>1. ASSUME NEW t \in GameThreads, HookPush(t) PROVE LogComplete'
  <2>1. inHook[t].dir \in Dirs /\ inHook[t].id \in Packets
    BY <1>1 DEF HookPush, TypeOK, ControlOK
  <2> QED
    BY <1>1, <2>1, PushKeepsLog DEF HookPush, TypeOK
<1>2. CASE HandleSend
  <2>1. Last(command).id \in Packets
    BY <1>2, HandleType DEF HandleSend
  <2>2. \A e \in Dirs : log'[e] = log[e]
    BY <1>2 DEF HandleSend, TypeOK, LogOK, Dirs, Kinds
  <2>3. CASE "send" \in hooked
    BY <1>2, <2>1, <2>2, <2>3, PushKeepsLog DEF HandleSend, TypeOK, Dirs
  <2>4. CASE "send" \notin hooked
    BY <1>2, <2>2, <2>4 DEF HandleSend, LogComplete
  <2> QED
    BY <2>3, <2>4
<1>3. CASE DrainOne
  BY <1>3, DrainKeepsLog
<1>4. CASE UNCHANGED <<ring, accepted, log>>
  BY <1>4 DEF LogComplete
<1>5. ASSUME Worker, ~HandleSend, ~DrainOne PROVE UNCHANGED <<ring, accepted, log>>
  <2>1. CASE Poll
    BY <2>1 DEF Poll, PollBuffered, PollOverflow, PollLine, PollPartial, PollClosed, PollNothing,
                Received
  <2>2. CASE Command
    BY <1>5, <2>2 DEF Command, HandleSendRefused, HandleQuit, HandleReply
  <2>3. CASE Startup \/ Accept \/ NoAccept
    BY <2>3 DEF Startup, Accept, NoAccept
  <2>4. CASE DrainEnd \/ Tick \/ Disable \/ Grace \/ Stop
    BY <2>4 DEF DrainEnd, Tick, Disable, Grace, Stop
  <2> QED
    BY <1>5, <2>1, <2>2, <2>3, <2>4 DEF Worker
<1>6. ASSUME NEW t \in GameThreads, HookEnter(t) PROVE UNCHANGED <<ring, accepted, log>>
  BY <1>6 DEF HookEnter
<1>7. ASSUME Host PROVE UNCHANGED <<ring, accepted, log>>
  BY <1>7 DEF Host, HostConnect, HostWrite, HostChange
<1>8. CASE UNCHANGED vars
  BY <1>4, <1>8 DEF vars
<1> QED
  BY <1>1, <1>2, <1>3, <1>4, <1>5, <1>6, <1>7, <1>8 DEF Next, Game

\* For every number of game threads, hosts and packets: what a ring accepted is in the file once
\* and in order, or still in the ring, whatever the hosts do.
THEOREM LogIsComplete == Spec => []LogComplete
<1>1. Init => LogComplete
  <2> SUFFICES ASSUME Init, NEW d \in Dirs PROVE accepted[d] = log[d] \o ring[d]
    BY DEF LogComplete
  <2>1. accepted[d] = <<>> /\ log[d] = <<>> /\ ring[d] = <<>>
    BY DEF Init, Kinds
  <2> QED
    BY <2>1, ConcatEmptySeq, EmptySeq
<1>2. TypeOK /\ LogComplete /\ [Next]_vars => LogComplete'
  BY NextKeepsLog
<1>3. Spec => []TypeOK
  BY WorkerTypeCorrect
<1> QED
  BY <1>1, <1>2, <1>3, PTL DEF Spec

-----------------------------------------------------------------------------
(* The command stream.  CommandStream alone is not inductive: a session that is accepted must     *)
(* start with nothing read or handled, and it does because a host waits once and is accepted once.*)

Fresh(s) == executed[s] = <<>> /\ read[s] = 0
Waiting(s) == \E i \in 1 .. Len(backlog) : backlog[i] = s

SessionOrder ==
  /\ \A s \in Sessions : peer[s] = "absent" \/ Waiting(s) => Fresh(s) /\ link.client # s
  /\ \A i \in 1 .. Len(backlog) : peer[backlog[i]] # "absent"
  /\ \A i, j \in 1 .. Len(backlog) : backlog[i] = backlog[j] => i = j

Attached == pc = "handle" => Connected(link)

StreamInv == SessionOrder /\ Attached /\ CommandStream

\* What a step does to the session that is attached when it sends or closes and takes no bytes.
Kept(l, after) ==
  \/ after.client = l.client /\ after.pending = l.pending
  \/ after.client = NoHost /\ after.pending = <<>>

\* close_client forgets the session and its bytes.
LEMMA ClosedKept ==
  ASSUME NEW l \in Links
  PROVE  Closed(l).client = NoHost /\ Closed(l).pending = <<>>
  BY DEF Closed, Links

\* send_line keeps the session and its bytes, or forgets both.
LEMMA SendLineKept ==
  ASSUME NEW l \in Links, NEW line \in WireLines, NEW after \in SendLine(l, line)
  PROVE  Kept(l, after)
<1>1. CASE after = l
  BY <1>1 DEF Kept
<1>2. CASE after = Closed(l)
  BY <1>2, ClosedKept DEF Kept
<1>3. CASE after = Delivered(l, line)
  <2>1. Delivered(l, line).client = l.client /\ Delivered(l, line).pending = l.pending
    BY DEF Delivered, Links
  <2> QED
    BY <1>3, <2>1 DEF Kept
<1> QED
  BY <1>1, <1>2, <1>3 DEF SendLine

\* What was written stays where it is when more is written.
LEMMA SubSeqOfAppend ==
  ASSUME NEW w \in Seq(Pieces), NEW x \in Pieces, NEW n \in 0 .. Len(w)
  PROVE  SubSeq(Append(w, x), 1, n) = SubSeq(w, 1, n)
  BY SubSeqProperties, AppendProperties, SeqEqual

\* Bytes that begin a prefix are a prefix.
LEMMA PrefixOfRead ==
  ASSUME NEW a \in Seq(Pieces), NEW b \in Seq(Pieces), NEW w \in Seq(Pieces), NEW n \in 0 .. Len(w),
         a \o b = SubSeq(w, 1, n)
  PROVE  IsPrefix(a, w)
  BY SubSeqProperties, ConcatProperties, SeqEqual DEF IsPrefix

\* A prefix stays one when more is written.
LEMMA PrefixOfAppend ==
  ASSUME NEW a \in Seq(Pieces), NEW w \in Seq(Pieces), NEW x \in Pieces, IsPrefix(a, w)
  PROVE  IsPrefix(a, Append(w, x))
  BY SubSeqOfAppend, AppendProperties DEF IsPrefix

\* Taking a line cuts the bytes in two.
LEMMA LineCut ==
  ASSUME NEW bytes \in Seq(Pieces), HasLine(bytes)
  PROVE  FirstLine(bytes) \o RestAfterLine(bytes) = bytes
<1> DEFINE k == Min(LineEnds(bytes))
<1>1. LineEnds(bytes) # {} /\ LineEnds(bytes) \in SUBSET (1 .. Len(bytes)) /\ Len(bytes) \in Nat
  BY DEF HasLine, LineEnds
<1>2. k \in 1 .. Len(bytes)
  BY <1>1, MinInSet
<1> HIDE DEF k
<1>3. SubSeq(bytes, 1, k) \o SubSeq(bytes, k + 1, Len(bytes)) = SubSeq(bytes, 1, Len(bytes))
  BY <1>1, <1>2, ConcatAdjacentSubSeq
<1>4. SubSeq(bytes, 1, Len(bytes)) = bytes
  BY SubSeqFull
<1> QED
  BY <1>3, <1>4 DEF FirstLine, RestAfterLine, k

\* A step that takes no bytes and handles no line keeps the stream.
LEMMA QuietStep ==
  ASSUME TypeOK, CommandStream, UNCHANGED <<executed, command, read, written>>, Kept(link, link')
  PROVE  CommandStream'
<1>1. CASE link'.client = link.client /\ link'.pending = link.pending
  BY <1>1 DEF CommandStream
<1>2. CASE link'.client = NoHost /\ link'.pending = <<>>
  BY <1>2 DEF CommandStream
<1> QED
  BY <1>1, <1>2 DEF Kept

\* A step that accepts nobody and reads or handles only for the session attached keeps the order.
LEMMA SameSessions ==
  ASSUME TypeOK, SessionOrder, UNCHANGED backlog,
         \A s \in Sessions : peer'[s] = "absent" <=> peer[s] = "absent",
         \A s \in Sessions : s # link.client => executed'[s] = executed[s] /\ read'[s] = read[s],
         link'.client = link.client \/ link'.client = NoHost
  PROVE  SessionOrder'
<1>1. \A i \in 1 .. Len(backlog) : backlog[i] \in Sessions
  BY DEF TypeOK, HostOK
<1>2. \A s \in Sessions : s # NoHost
  BY DEF Sessions, NoHost
<1>3. \A s \in Sessions : Waiting(s)' <=> Waiting(s)
  BY DEF Waiting
<1>4. \A s \in Sessions : (peer[s] = "absent" \/ Waiting(s))' => Fresh(s)' /\ link'.client # s
  BY <1>2, <1>3 DEF SessionOrder, Fresh
<1>5. \A i \in 1 .. Len(backlog) : peer'[backlog[i]] # "absent"
  BY <1>1 DEF SessionOrder
<1> QED
  BY <1>4, <1>5 DEF SessionOrder

\* A host that connects waits once and has nothing handled yet.
LEMMA ConnectKeepsOrder ==
  ASSUME TypeOK, SessionOrder, NEW s \in Sessions, HostConnect(s)
  PROVE  SessionOrder'
<1> USE DEF cmdVars
<1>1. backlog \in Seq(Sessions) /\ Len(backlog) \in Nat /\ peer[s] = "absent"
  BY DEF TypeOK, HostOK, HostConnect
<1>2. /\ backlog' = Append(backlog, s) /\ peer' = [peer EXCEPT ![s] = "reading"]
      /\ link' = link /\ executed' = executed /\ read' = read
  BY DEF HostConnect
<1>3. /\ Len(backlog') = Len(backlog) + 1 /\ backlog'[Len(backlog) + 1] = s
      /\ \A i \in 1 .. Len(backlog) : backlog'[i] = backlog[i] /\ backlog[i] \in Sessions
  BY <1>1, <1>2, AppendProperties
<1>4. \A i \in 1 .. Len(backlog) : backlog[i] # s
  BY <1>1 DEF SessionOrder
<1>5. \A r \in Sessions : Waiting(r)' => Waiting(r) \/ r = s
  BY <1>1, <1>3 DEF Waiting
<1>6. \A r \in Sessions : (peer[r] = "absent" \/ Waiting(r))' => Fresh(r)' /\ link'.client # r
  BY <1>1, <1>2, <1>5 DEF SessionOrder, Fresh, TypeOK, HostOK
<1>7. \A i \in 1 .. Len(backlog') : peer'[backlog'[i]] # "absent"
  <2> SUFFICES ASSUME NEW i \in 1 .. Len(backlog') PROVE peer'[backlog'[i]] # "absent"
    OBVIOUS
  <2>1. CASE i = Len(backlog) + 1
    BY <1>1, <1>2, <1>3, <2>1 DEF TypeOK, HostOK
  <2>2. CASE i # Len(backlog) + 1
    <3>1. i \in 1 .. Len(backlog)
      BY <1>1, <1>3, <2>2
    <3> QED
      BY <3>1, <1>2, <1>3 DEF SessionOrder, TypeOK, HostOK
  <2> QED
    BY <2>1, <2>2
<1>8. \A i, j \in 1 .. Len(backlog') : backlog'[i] = backlog'[j] => i = j
  BY <1>1, <1>3, <1>4 DEF SessionOrder
<1> QED
  BY <1>6, <1>7, <1>8 DEF SessionOrder

\* The session that is accepted begins with an empty stream.
LEMMA AcceptKeepsStream ==
  ASSUME TypeOK, StreamInv, Accept
  PROVE  StreamInv'
<1> USE DEF At, StreamInv
<1> DEFINE s == Head(backlog)
           greeted == [Closed(link) EXCEPT !.client = s]
<1>1. /\ backlog \in Seq(Sessions) /\ backlog # <<>> /\ s \in Sessions
      /\ Tail(backlog) \in Seq(Sessions) /\ Len(Tail(backlog)) = Len(backlog) - 1
      /\ Len(backlog) \in Nat \ {0}
  BY TailType DEF Accept, HostWaits, TypeOK, HostOK
<1>2. s = backlog[1] /\ \A i \in 1 .. Len(backlog) - 1 : Tail(backlog)[i] = backlog[i + 1]
  BY <1>1
<1>3. greeted \in Links /\ greeted.client = s /\ greeted.pending = <<>>
  <2>1. Closed(link) \in Links /\ Closed(link).pending = <<>>
    BY ClosedType, ClosedKept DEF TypeOK
  <2> QED
    BY <1>1, <2>1 DEF Links
<1> HIDE DEF greeted
<1>4. Kept(greeted, link')
  BY <1>3, LineTypes, SendLineKept DEF Accept, greeted
<1>5. /\ backlog' = Tail(backlog) /\ peer' = peer /\ executed' = executed /\ read' = read
      /\ written' = written /\ command' = command /\ pc = "top" /\ pc' = "poll"
  BY DEF Accept
<1>6. Fresh(s) /\ command = <<>>
  <2>1. Waiting(s)
    BY <1>1, <1>2 DEF Waiting
  <2> QED
    BY <2>1, <1>1, <1>5 DEF SessionOrder, TypeOK, CommandOK
<1>7. SessionOrder'
  <2>1. \A i, j \in 1 .. Len(backlog) : backlog[i] = backlog[j] => i = j
    BY DEF SessionOrder
  <2>2. \A r \in Sessions : Waiting(r)' => Waiting(r) /\ r # s
    BY <1>1, <1>2, <1>5, <2>1 DEF Waiting
  <2>3. link'.client = s \/ link'.client = NoHost
    BY <1>3, <1>4 DEF Kept
  <2>4. peer[s] # "absent"
    BY <1>1, <1>2 DEF SessionOrder
  <2>5. \A r \in Sessions : r # NoHost
    BY DEF Sessions, NoHost
  <2>6. \A r \in Sessions : (peer[r] = "absent" \/ Waiting(r))' => Fresh(r)' /\ link'.client # r
    BY <1>5, <2>2, <2>3, <2>4, <2>5 DEF SessionOrder, Fresh
  <2>7. \A i \in 1 .. Len(backlog') : peer'[backlog'[i]] # "absent"
    BY <1>1, <1>2, <1>5 DEF SessionOrder
  <2>8. \A i, j \in 1 .. Len(backlog') : backlog'[i] = backlog'[j] => i = j
    BY <1>1, <1>2, <1>5, <2>1
  <2> QED
    BY <2>6, <2>7, <2>8 DEF SessionOrder
<1>8. CommandStream'
  <2>1. SubSeq(written[s], 1, 0) = <<>>
    BY SubSeqEmpty
  <2>2. <<>> \o <<>> \o <<>> = <<>>
    BY EmptySeq, ConcatEmptySeq
  <2>3. link'.client # NoHost => link'.client = s /\ link'.pending = <<>>
    BY <1>3, <1>4 DEF Kept
  <2>4. link'.client = NoHost => link'.pending = <<>>
    BY <1>3, <1>4 DEF Kept
  <2> QED
    BY <1>5, <1>6, <2>1, <2>2, <2>3, <2>4 DEF CommandStream, Fresh
<1>9. Attached'
  BY <1>5 DEF Attached
<1> QED
  BY <1>7, <1>8, <1>9

\* What a host writes goes behind what recv has returned.
LEMMA WriteKeepsStream ==
  ASSUME TypeOK, CommandStream, NEW s \in Sessions, HostWrite(s), TypeOK'
  PROVE  CommandStream'
<1> USE DEF cmdVars
<1>1. PICK piece : written' = [written EXCEPT ![s] = Append(written[s], piece)]
  BY DEF HostWrite
<1>2. /\ written[s] \in Seq(Pieces) /\ written'[s] \in Seq(Pieces)
      /\ written'[s] = Append(written[s], piece)
  BY <1>1 DEF TypeOK, HostOK
<1>3. piece \in Pieces
  <2>1. Len(written'[s]) = Len(written[s]) + 1 /\ written'[s][Len(written[s]) + 1] = piece
    BY <1>2
  <2>2. Len(written[s]) + 1 \in 1 .. Len(written'[s])
    BY <1>2, <2>1
  <2> QED
    BY <1>2, <2>1, <2>2
<1>4. /\ executed' = executed /\ command' = command /\ read' = read /\ link' = link
  BY DEF HostWrite
<1>5. \A r \in Sessions : IsPrefix(executed[r], written'[r])
  <2> SUFFICES ASSUME NEW r \in Sessions PROVE IsPrefix(executed[r], written'[r])
    OBVIOUS
  <2>1. executed[r] \in Seq(Pieces) /\ IsPrefix(executed[r], written[r])
    BY DEF TypeOK, CommandOK, CommandStream
  <2>2. CASE r = s
    BY <1>2, <1>3, <2>1, <2>2, PrefixOfAppend
  <2>3. CASE r # s
    BY <1>1, <2>1, <2>3 DEF TypeOK, HostOK
  <2> QED
    BY <2>2, <2>3
<1>6. ASSUME NEW r \in Sessions PROVE SubSeq(written'[r], 1, read[r]) = SubSeq(written[r], 1, read[r])
  <2>1. CASE r = s
    <3>1. read[s] \in 0 .. Len(written[s])
      BY DEF TypeOK, CommandOK, HostOK
    <3> QED
      BY <1>2, <1>3, <2>1, <3>1, SubSeqOfAppend
  <2>2. CASE r # s
    BY <1>1, <2>2 DEF TypeOK, HostOK
  <2> QED
    BY <2>1, <2>2
<1>7. link.client # NoHost => link.client \in Sessions
  BY DEF TypeOK, Links
<1> QED
  BY <1>4, <1>5, <1>6, <1>7 DEF CommandStream

\* Concatenation of bytes is associative.
LEMMA BytesAssociative ==
  ASSUME NEW a \in Seq(Pieces), NEW b \in Seq(Pieces), NEW c \in Seq(Pieces)
  PROVE  (a \o b) \o c = a \o (b \o c)
  BY ConcatAssociative

\* Two adjacent cuts of the bytes are one.
LEMMA BytesJoin ==
  ASSUME NEW w \in Seq(Pieces), NEW m \in 0 .. Len(w), NEW n \in m .. Len(w)
  PROVE  SubSeq(w, 1, m) \o SubSeq(w, m + 1, n) = SubSeq(w, 1, n)
  BY SubSeqProperties, ConcatProperties, SeqEqual

\* The bytes at hand continue what the session attached has handled, up to what recv returned.
LEMMA BytesAtHand ==
  ASSUME TypeOK, CommandStream, NEW n \in 1 .. MaxChunk, Received(n), command = <<>>
  PROVE  /\ read'[link.client] = read[link.client] + n
         /\ executed[link.client] \o After(link.client, n)
              = SubSeq(written[link.client], 1, read[link.client] + n)
<1> USE BoundAssumption
<1> DEFINE s == link.client
           w == written[s]
           m == read[s]
           got == SubSeq(w, m + 1, m + n)
<1>1. s \in Sessions
  BY ReceivedType
<1>2. w \in Seq(Pieces) /\ m \in Nat /\ n \in Nat \ {0} /\ m + n <= Len(w) /\ Len(w) \in Nat
  BY <1>1 DEF TypeOK, HostOK, CommandOK, Received, Arrivals
<1>3. executed[s] \in Seq(Pieces) /\ link.pending \in Seq(Pieces)
  BY <1>1 DEF TypeOK, CommandOK, Links
<1>4. got \in Seq(Pieces)
  BY <1>2, SubSeqType
<1>5. executed[s] \o link.pending = SubSeq(w, 1, m)
  <2>1. s # NoHost
    BY <1>1 DEF Sessions, NoHost
  <2>2. executed[s] \o command \o link.pending = SubSeq(w, 1, m)
    BY <2>1 DEF CommandStream
  <2>3. executed[s] \o <<>> = executed[s]
    BY <1>3, ConcatEmptySeq
  <2> QED
    BY <2>2, <2>3
<1> HIDE DEF s, w, m, got
<1>6. SubSeq(w, 1, m) \o got = SubSeq(w, 1, m + n)
  <2>1. m \in 0 .. Len(w) /\ m + n \in m .. Len(w)
    BY <1>2
  <2> QED
    BY <1>2, <2>1, BytesJoin DEF got
<1>7. (executed[s] \o link.pending) \o got = executed[s] \o (link.pending \o got)
  BY <1>3, <1>4, BytesAssociative
<1>8. read'[s] = m + n
  BY <1>1 DEF Received, TypeOK, CommandOK, s, m
<1> QED
  BY <1>5, <1>6, <1>7, <1>8 DEF After, s, w, m, got

\* Taking a line off bytes that continue the stream.
LEMMA TakeKeepsStream ==
  ASSUME TypeOK, CommandStream, Connected(link), NEW bytes \in Seq(Pieces), HasLine(bytes),
         TakeLine(bytes), UNCHANGED <<executed, written>>,
         executed[link.client] \o bytes = SubSeq(written[link.client], 1, read'[link.client])
  PROVE  CommandStream' /\ link'.client = link.client
<1> DEFINE s == link.client
<1>1. s \in Sessions /\ s # NoHost
  BY DEF Connected, TypeOK, Links
<1>2. link'.client = s /\ link'.pending = RestAfterLine(bytes) /\ command' = FirstLine(bytes)
  BY DEF TakeLine, TypeOK, Links
<1>3. FirstLine(bytes) \in Seq(Pieces) /\ RestAfterLine(bytes) \in Seq(Pieces)
  BY LineTaken
<1>4. executed[s] \in Seq(Pieces)
  BY <1>1 DEF TypeOK, CommandOK
<1>5. (executed[s] \o FirstLine(bytes)) \o RestAfterLine(bytes)
        = executed[s] \o (FirstLine(bytes) \o RestAfterLine(bytes))
  BY <1>3, <1>4, BytesAssociative
<1>6. FirstLine(bytes) \o RestAfterLine(bytes) = bytes
  BY LineCut
<1> QED
  BY <1>1, <1>2, <1>5, <1>6 DEF CommandStream

\* poll_command moves bytes from the socket to the command, and none is lost or doubled.
LEMMA PollKeepsStream ==
  ASSUME TypeOK, StreamInv, Poll
  PROVE  StreamInv'
<1> USE DEF At, hostVars, cmdVars, StreamInv
<1>1. pc = "poll" /\ command = <<>> /\ UNCHANGED <<executed, written, backlog, peer>>
  BY DEF Poll, PollBuffered, PollOverflow, PollLine, PollPartial, PollClosed, PollNothing, Received,
         TypeOK, CommandOK
<1>2. link.pending \in Seq(Pieces) /\ link \in Links
  BY DEF TypeOK, Links
<1>3. ASSUME UNCHANGED read, PollClosed \/ PollNothing PROVE StreamInv'
  <2>1. Kept(link, link') /\ pc' # "handle"
    BY <1>2, <1>3, ClosedKept DEF PollClosed, PollNothing, Kept
  <2>2. CommandStream'
    BY <1>3, <2>1, QuietStep DEF PollClosed, PollNothing
  <2>3. SessionOrder'
    BY <1>1, <1>3, <2>1, SameSessions DEF Kept
  <2> QED
    BY <2>1, <2>2, <2>3 DEF Attached
<1>4. CASE PollBuffered
  <2>1. Connected(link) /\ HasLine(link.pending) /\ TakeLine(link.pending) /\ read' = read
    BY <1>4 DEF PollBuffered
  <2>2. executed[link.client] \o link.pending = SubSeq(written[link.client], 1, read[link.client])
    <3>1. executed[link.client] \o command \o link.pending
            = SubSeq(written[link.client], 1, read[link.client])
      BY <2>1 DEF CommandStream, Connected
    <3>2. executed[link.client] \in Seq(Pieces)
      BY <2>1 DEF TypeOK, CommandOK, Connected, Links
    <3>3. executed[link.client] \o <<>> = executed[link.client]
      BY <3>2, ConcatEmptySeq
    <3> QED
      BY <1>1, <3>1, <3>3
  <2>3. CommandStream' /\ link'.client = link.client
    BY <1>1, <1>2, <2>1, <2>2, TakeKeepsStream
  <2>4. SessionOrder'
    BY <1>1, <2>1, <2>3, SameSessions
  <2> QED
    BY <2>1, <2>3, <2>4 DEF Attached, Connected
<1>5. ASSUME NEW n \in 1 .. MaxChunk, Received(n)
      PROVE  \A s \in Sessions : s # link.client => executed'[s] = executed[s] /\ read'[s] = read[s]
  BY <1>1, <1>5 DEF Received, TypeOK, CommandOK
<1>6. CASE PollOverflow
  <2>1. PICK n \in 1 .. MaxChunk : Received(n)
    BY <1>6 DEF PollOverflow
  <2>2. link'.client = NoHost /\ link'.pending = <<>> /\ pc' # "handle"
    BY <1>2, <1>6, ClosedKept DEF PollOverflow
  <2>3. CommandStream'
    BY <1>1, <2>2 DEF CommandStream
  <2>4. SessionOrder'
    BY <1>1, <1>5, <2>1, <2>2, SameSessions
  <2> QED
    BY <2>2, <2>3, <2>4 DEF Attached
<1>7. CASE PollLine
  <2>1. PICK n \in 1 .. MaxChunk :
          LET bytes == After(link.client, n)
          IN Received(n) /\ HasLine(bytes) /\ TakeLine(bytes)
    BY <1>7 DEF PollLine
  <2>2. /\ After(link.client, n) \in Seq(Pieces) /\ Connected(link)
        /\ executed[link.client] \o After(link.client, n)
             = SubSeq(written[link.client], 1, read'[link.client])
    BY <1>1, <2>1, ReceivedType, BytesAtHand DEF Received
  <2>3. CommandStream' /\ link'.client = link.client
    BY <1>1, <2>1, <2>2, TakeKeepsStream
  <2>4. SessionOrder'
    BY <1>1, <1>5, <2>1, <2>3, SameSessions
  <2> QED
    BY <2>2, <2>3, <2>4 DEF Attached, Connected
<1>8. CASE PollPartial
  <2>1. PICK n \in 1 .. MaxChunk :
          Received(n) /\ link' = [link EXCEPT !.pending = After(link.client, n)]
    BY <1>8 DEF PollPartial
  <2>2. /\ executed[link.client] \o After(link.client, n)
             = SubSeq(written[link.client], 1, read'[link.client])
        /\ link.client \in Sessions
    BY <1>1, <2>1, ReceivedType, BytesAtHand
  <2>3. link'.client = link.client /\ link'.pending = After(link.client, n)
    BY <1>2, <2>1 DEF Links
  <2>4. executed[link.client] \o <<>> = executed[link.client]
    BY <2>2, ConcatEmptySeq DEF TypeOK, CommandOK
  <2>5. CommandStream'
    <3>1. command' = <<>>
      BY <1>1, <1>8 DEF PollPartial
    <3>2. executed' = executed /\ written' = written
      BY <1>1
    <3>3. \A s \in Sessions : IsPrefix(executed'[s], written'[s])
      BY <3>2 DEF CommandStream
    <3>4. link'.client # NoHost
      BY <2>2, <2>3 DEF Sessions, NoHost
    <3> QED
      BY <2>2, <2>3, <2>4, <3>1, <3>2, <3>3, <3>4 DEF CommandStream
  <2>6. SessionOrder'
    BY <1>1, <1>5, <2>1, <2>3, SameSessions
  <2> QED
    BY <1>8, <2>5, <2>6 DEF Attached, PollPartial
<1> QED
  BY <1>3, <1>4, <1>6, <1>7, <1>8 DEF Poll, PollClosed, PollNothing

\* A handled line moves from the command to what the session has had executed.
LEMMA HandleKeepsStream ==
  ASSUME TypeOK, StreamInv, NEW text \in {"SEND", "QUIT", "REPLY"}, Handle(text),
         Kept(link, link')
  PROVE  StreamInv'
<1> USE DEF At, hostVars, cmdVars, StreamInv
<1> DEFINE s == link.client
<1>1. /\ pc = "handle" /\ pc' = "poll" /\ command' = <<>>
      /\ executed' = [executed EXCEPT ![s] = executed[s] \o command]
      /\ UNCHANGED <<written, read, backlog, peer>>
  BY DEF Handle
<1>2. s \in Sessions /\ s # NoHost
  BY <1>1 DEF Attached, Connected, TypeOK, Links
<1>3. /\ executed[s] \in Seq(Pieces) /\ command \in Seq(Pieces) /\ link.pending \in Seq(Pieces)
      /\ written[s] \in Seq(Pieces) /\ read[s] \in 0 .. Len(written[s])
  BY <1>2 DEF TypeOK, CommandOK, HostOK, Links
<1>4. executed[s] \o command \o link.pending = SubSeq(written[s], 1, read[s])
  BY <1>2 DEF CommandStream
<1>5. executed'[s] = executed[s] \o command /\ executed'[s] \in Seq(Pieces)
  BY <1>1, <1>2, <1>3, ConcatType DEF TypeOK, CommandOK
<1>6. \A r \in Sessions : r # s => executed'[r] = executed[r]
  BY <1>1 DEF TypeOK, CommandOK
<1>7. \A r \in Sessions : IsPrefix(executed'[r], written'[r])
  <2>1. IsPrefix(executed'[s], written[s])
    BY <1>3, <1>4, <1>5, PrefixOfRead
  <2> QED
    BY <1>1, <1>6, <2>1 DEF CommandStream
<1>8. executed'[s] \o <<>> = executed'[s]
  BY <1>5, ConcatEmptySeq
<1>9. link'.client = NoHost => link'.pending = <<>>
  BY <1>2 DEF Kept
<1>10. link'.client # NoHost => link'.client = s /\ link'.pending = link.pending
  BY DEF Kept
<1> HIDE DEF s
<1>11. CommandStream'
  BY <1>1, <1>4, <1>5, <1>7, <1>8, <1>9, <1>10 DEF CommandStream
<1>12. SessionOrder'
  BY <1>1, <1>6, <1>10, SameSessions DEF s
<1> QED
  BY <1>1, <1>11, <1>12 DEF Attached

\* handle_command keeps the stream, whether the host survives its answer or not.
LEMMA CommandKeepsStream ==
  ASSUME TypeOK, StreamInv, Command
  PROVE  StreamInv'
<1>1. link \in Links
  BY DEF TypeOK
<1>2. CASE HandleSend
  <2> DEFINE id == Last(command).id
  <2>1. Handle("SEND")
    BY <1>2 DEF HandleSend
  <2>2. id \in Packets
    BY <2>1, HandleType
  <2>3. PICK l \in SendLine(link, EchoLine(id)) : link' \in SendLine(l, StatusLine)
    BY <1>2 DEF HandleSend
  <2>4. l \in Links /\ Kept(link, l) /\ Kept(l, link')
    BY <1>1, <2>2, <2>3, LineTypes, SendLineType, SendLineKept
  <2>5. Kept(link, link')
    BY <2>4 DEF Kept
  <2> QED
    BY <2>1, <2>5, HandleKeepsStream
<1>3. CASE HandleSendRefused \/ HandleReply
  <2>1. Handle("SEND") \/ Handle("REPLY")
    BY <1>3 DEF HandleSendRefused, HandleReply
  <2>2. Kept(link, link')
    BY <1>1, <1>3, LineTypes, SendLineKept DEF HandleSendRefused, HandleReply
  <2> QED
    BY <2>1, <2>2, HandleKeepsStream
<1>4. CASE HandleQuit
  <2>1. Handle("QUIT") /\ Kept(link, link')
    BY <1>4 DEF HandleQuit, Kept
  <2> QED
    BY <2>1, HandleKeepsStream
<1> QED
  BY <1>2, <1>3, <1>4 DEF Command

\* Every other step takes no bytes; it leaves the session as it is or closes it.
LEMMA OtherKeepsStream ==
  ASSUME TypeOK, StreamInv,
         \/ Startup \/ NoAccept \/ DrainOne \/ DrainEnd \/ Tick \/ Disable \/ Grace
         \/ \E t \in GameThreads : HookEnter(t) \/ HookPush(t)
         \/ \E s \in Sessions : HostChange(s)
  PROVE  StreamInv'
<1> USE DEF At, hostVars, cmdVars, StreamInv
<1>1. UNCHANGED <<executed, command, read, written, backlog>>
  BY DEF Startup, NoAccept, DrainOne, DrainEnd, Tick, Disable, Grace, HookEnter, HookPush, HostChange
<1>2. \A s \in Sessions : peer'[s] = "absent" <=> peer[s] = "absent"
  <2>1. ASSUME NEW r \in Sessions, HostChange(r)
        PROVE  \A s \in Sessions : peer'[s] = "absent" <=> peer[s] = "absent"
    <3>1. peer[r] # "absent"
      <4>1. CASE link.client = r
        BY <4>1 DEF SessionOrder
      <4>2. CASE r \in ToSet(backlog)
        BY <4>2 DEF SessionOrder, ToSet
      <4> QED
        BY <2>1, <4>1, <4>2 DEF HostChange, Live
    <3> QED
      BY <2>1, <3>1 DEF HostChange, TypeOK, HostOK
  <2> QED
    BY <2>1 DEF Startup, NoAccept, DrainOne, DrainEnd, Tick, Disable, Grace, HookEnter, HookPush
<1>3. Kept(link, link')
  <2>1. CASE DrainOne
    <3>1. Drains[pc] \in Dirs /\ pc \in DOMAIN Drains /\ ring[Drains[pc]] # <<>>
      BY <2>1, DrainTypes DEF DrainOne
    <3>2. Head(ring[Drains[pc]]) \in Packets
      BY <3>1, TailType DEF TypeOK, RingOK
    <3> QED
      BY <2>1, <3>1, <3>2, LineTypes, SendLineKept DEF DrainOne, TypeOK
  <2>2. CASE Tick \/ Disable
    BY <2>2, LineTypes, SendLineKept DEF Tick, Disable, Kept, TypeOK
  <2>3. CASE ~(DrainOne \/ Tick \/ Disable)
    BY <2>3 DEF Startup, NoAccept, DrainEnd, Grace, HookEnter, HookPush, HostChange, Kept
  <2> QED
    BY <2>1, <2>2, <2>3
<1>4. CommandStream'
  BY <1>1, <1>3, QuietStep
<1>5. SessionOrder'
  BY <1>1, <1>2, <1>3, SameSessions DEF Kept
<1>6. Attached'
  <2>1. pc' = "handle" => pc = "handle" /\ link' = link
    <3>1. CASE DrainOne \/ DrainEnd
      BY <3>1, DrainTypes DEF DrainOne, DrainEnd, Places
    <3>2. CASE ~(DrainOne \/ DrainEnd)
      BY <3>2 DEF Startup, NoAccept, Tick, Disable, Grace, HookEnter, HookPush, HostChange
    <3> QED
      BY <3>1, <3>2
  <2> QED
    BY <2>1 DEF Attached
<1> QED
  BY <1>4, <1>5, <1>6

\* Stopping the server ends the session and empties the backlog.
LEMMA StopKeepsStream ==
  ASSUME TypeOK, StreamInv, Stop
  PROVE  StreamInv'
<1> USE DEF At, cmdVars, StreamInv
<1>1. link'.client = NoHost /\ link'.pending = <<>> /\ backlog' = <<>> /\ pc' = "done"
  BY ClosedKept DEF Stop, StopServer, TypeOK
<1>2. UNCHANGED <<executed, command, read, written, peer>>
  BY DEF Stop
<1>3. CommandStream'
  BY <1>1, <1>2, QuietStep DEF Kept
<1>4. SessionOrder'
  BY <1>1, <1>2, EmptySeq DEF SessionOrder, Waiting, Fresh, Sessions, NoHost
<1> QED
  BY <1>1, <1>3, <1>4 DEF Attached

\* Every step keeps the stream.
LEMMA NextKeepsStream == TypeOK /\ TypeOK' /\ StreamInv /\ [Next]_vars => StreamInv'
<1> SUFFICES ASSUME TypeOK, TypeOK', StreamInv, [Next]_vars PROVE StreamInv'
  OBVIOUS
<1>1. CASE Worker
  BY <1>1, AcceptKeepsStream, PollKeepsStream, CommandKeepsStream, OtherKeepsStream, StopKeepsStream
     DEF Worker
<1>2. CASE Game
  BY <1>2, OtherKeepsStream DEF Game
<1>3. ASSUME NEW s \in Sessions, HostConnect(s) \/ HostWrite(s) \/ HostChange(s) PROVE StreamInv'
  <2>1. CASE HostConnect(s)
    <3>1. UNCHANGED <<executed, command, read, written, link, pc>>
      BY <2>1 DEF HostConnect, cmdVars
    <3>2. CommandStream' /\ Attached'
      BY <3>1, QuietStep DEF StreamInv, Kept, Attached, Connected
    <3> QED
      BY <2>1, <3>2, ConnectKeepsOrder DEF StreamInv
  <2>2. CASE HostWrite(s)
    <3>1. UNCHANGED <<executed, command, read, backlog, peer, link, pc>>
      BY <2>2 DEF HostWrite, cmdVars
    <3>2. SessionOrder' /\ Attached'
      BY <3>1, SameSessions DEF StreamInv, Attached, Connected
    <3> QED
      BY <2>2, <3>2, WriteKeepsStream DEF StreamInv
  <2>3. CASE HostChange(s)
    BY <2>3, OtherKeepsStream
  <2> QED
    BY <1>3, <2>1, <2>2, <2>3
<1>4. CASE UNCHANGED vars
  BY <1>4 DEF vars, cmdVars, hostVars, StreamInv, SessionOrder, Attached, CommandStream, Waiting,
              Fresh, Connected
<1> QED
  BY <1>1, <1>2, <1>3, <1>4 DEF Next, Host

\* The order of the sessions holds throughout, and with it the command stream.
LEMMA StreamHolds == Spec => []StreamInv
<1>1. Init => StreamInv
  <2> SUFFICES ASSUME Init PROVE StreamInv
    OBVIOUS
  <2>1. SessionOrder /\ Attached
    BY EmptySeq DEF Init, SessionOrder, Attached, Waiting, Fresh, Sessions, NoHost
  <2>2. \A s \in Sessions : IsPrefix(<<>>, <<>>)
    BY EmptySeq, SubSeqEmpty DEF IsPrefix
  <2>3. CommandStream
    BY <2>2 DEF Init, CommandStream
  <2> QED
    BY <2>1, <2>3 DEF StreamInv
<1>2. TypeOK /\ TypeOK' /\ StreamInv /\ [Next]_vars => StreamInv'
  BY NextKeepsStream
<1>3. Spec => []TypeOK
  BY WorkerTypeCorrect
<1> QED
  BY <1>1, <1>2, <1>3, PTL DEF Spec

\* However recv cuts the stream, wherever a host stalls, hangs up or is followed by another: the
\* lines of a session are handled whole, once and in order, and none of them holds bytes of another.
THEOREM CommandsInOrder == Spec => []CommandStream
<1>1. StreamInv => CommandStream
  BY DEF StreamInv
<1> QED
  BY <1>1, StreamHolds, PTL

-----------------------------------------------------------------------------
(* What leaves the DLL. *)


\* Outside a drain that has written, the flushes cover both directions of the log.
Settled ==
  /\ wrote => pc \in DOMAIN Drains
  /\ ~wrote => \A d \in Dirs : synced[d] = Len(log[d])

\* On the way out no hook lets a packet in, and behind the grace period none is on its way, so
\* what a final drain has emptied stays empty.
Leaving ==
  /\ pc \in {"grace", "finalRecv", "finalSend", "unhook", "done"} => ~enabled
  /\ (pc \in {"finalRecv", "finalSend", "unhook", "done"} /\ GraceHolds) =>
       \A t \in GameThreads : inHook[t] = NoPacket
  /\ (pc \in {"finalSend", "unhook", "done"} /\ GraceHolds) => ring["RECV"] = <<>>
  /\ (pc \in {"unhook", "done"} /\ GraceHolds) => ring["SEND"] = <<>>
  /\ pc = "done" => \A k \in Kinds : synced[k] = Len(log[k])

DurableInv == Settled /\ Leaving

LEMMA InitDurable == Init => DurableInv
  BY EmptySeq DEF Init, NoLog, DurableInv, Settled, Leaving, Drains, Dirs, Kinds

\* What logf flushes, and what send_line flushes when it drops the host.
LEMMA FlushCovers ==
  ASSUME NEW l, NEW after
  PROVE  /\ \A k \in Kinds : Flushed(l)[k] = Len(l[k])
         /\ FlushedIfLost(l, after) = synced \/ FlushedIfLost(l, after) = Flushed(l)
  BY DEF Flushed, FlushedIfLost

\* A step that neither drains nor logs a direction keeps what is settled.
LEMMA StaysSettled ==
  ASSUME Settled, \A d \in Dirs : log'[d] = log[d], wrote' = wrote,
         wrote => pc' \in DOMAIN Drains,
         synced' = synced \/ \A d \in Dirs : synced'[d] = Len(log'[d])
  PROVE  Settled'
  BY DEF Settled

LEMMA NextSettled ==
  ASSUME TypeOK, Settled, [Next]_vars
  PROVE  Settled'
<1> USE DEF ringVars, logVars, hostVars, cmdVars, modVars, At
<1>1. DOMAIN Drains = {"recv", "send", "finalRecv", "finalSend"}
  BY DrainTypes
<1>2. \A l : \A k \in Kinds : Flushed(l)[k] = Len(l[k])
  BY FlushCovers
<1>3. Dirs \subseteq Kinds
  BY DEF Kinds
<1>4. CASE Startup \/ NoAccept \/ Grace
  BY <1>1, <1>4, StaysSettled DEF Startup, NoAccept, Grace, Settled
<1>5. CASE Accept \/ Disable \/ Stop
  BY <1>1, <1>2, <1>3, <1>5, StaysSettled DEF Accept, Disable, Stop, Settled
<1>6. CASE Poll
  BY <1>1, <1>2, <1>3, <1>6, StaysSettled
  DEF Poll, PollBuffered, PollOverflow, PollLine, PollPartial, PollClosed, PollNothing, Received, Settled
<1>7. CASE Command
  <2>1. pc = "handle" /\ ~wrote /\ wrote' = wrote
    BY <1>1, <1>7 DEF Command, HandleSend, HandleSendRefused, HandleQuit, HandleReply, Handle, Settled
  <2>2. \A d \in Dirs : log'[d] = log[d]
    BY <1>7 DEF Command, HandleSend, HandleSendRefused, HandleQuit, HandleReply, TypeOK, LogOK, Dirs, Kinds
  <2>3. synced' = synced \/ synced' = Flushed(log')
    BY <1>7, FlushCovers DEF Command, HandleSend, HandleSendRefused, HandleQuit, HandleReply
  <2> QED BY <1>2, <1>3, <2>1, <2>2, <2>3, StaysSettled
<1>8. CASE DrainOne
  BY <1>8 DEF DrainOne, Settled
<1>9. CASE DrainEnd
  <2>1. wrote' = FALSE /\ log' = log
    BY <1>9 DEF DrainEnd
  <2>2. \A d \in Dirs : synced'[d] = Len(log[d])
    BY <1>2, <1>3, <1>9 DEF DrainEnd, Settled
  <2> QED BY <2>1, <2>2 DEF Settled
<1>10. CASE Tick
  <2>1. synced' = synced \/ synced' = Flushed(log)
    BY <1>10, FlushCovers DEF Tick
  <2> QED BY <1>1, <1>2, <1>3, <1>10, <2>1, StaysSettled DEF Tick, Settled
<1>11. CASE Game \/ Host \/ UNCHANGED vars
  <2>1. UNCHANGED <<pc, log, synced, wrote>>
    BY <1>11 DEF Game, Host, HookEnter, HookPush, HostConnect, HostWrite, HostChange, vars
  <2> QED BY <2>1 DEF Settled
<1> QED
  BY <1>4, <1>5, <1>6, <1>7, <1>8, <1>9, <1>10, <1>11 DEF Next, Worker

\* A push puts nothing into the ring of the other direction.
LEMMA NextLeaving ==
  ASSUME TypeOK, Leaving, [Next]_vars
  PROVE  Leaving'
<1> USE DEF ringVars, logVars, hostVars, cmdVars, modVars, At
<1>1. DOMAIN Drains = {"recv", "send", "finalRecv", "finalSend"}
  BY DrainTypes
<1>2. \A l : \A k \in Kinds : Flushed(l)[k] = Len(l[k])
  BY FlushCovers
<1>3. CASE Startup \/ Accept \/ NoAccept \/ Poll \/ Command \/ Tick
  <2>1. pc' \in {"top", "poll", "handle", "recv"}
    BY <1>3 DEF Startup, Accept, NoAccept, Poll, PollBuffered, PollOverflow, PollLine, PollPartial, PollClosed,
                PollNothing, Command, HandleSend, HandleSendRefused, HandleQuit, HandleReply, Handle, Tick
  <2> QED BY <2>1 DEF Leaving
<1>4. CASE DrainOne
  <2>1. /\ pc \in {"recv", "send", "finalRecv", "finalSend"} /\ pc' = pc
        /\ enabled' = enabled /\ inHook' = inHook
        /\ ring[Drains[pc]] # <<>> /\ ring' = [ring EXCEPT ![Drains[pc]] = Tail(@)]
    BY <1>1, <1>4 DEF DrainOne
  <2>2. pc = "finalSend" => Drains[pc] = "SEND" /\ ring'["RECV"] = ring["RECV"]
    BY <2>1 DEF Drains, TypeOK, RingOK, Dirs
  <2> QED BY <2>1, <2>2 DEF Leaving
<1>5. CASE DrainEnd
  <2>1. /\ pc \in {"recv", "send", "finalRecv", "finalSend"} /\ pc' = AfterDrain[pc]
        /\ ring[Drains[pc]] = <<>> /\ UNCHANGED <<enabled, inHook, ring>>
    BY <1>1, <1>5 DEF DrainEnd
  <2> QED BY <2>1 DEF Leaving, Drains, AfterDrain
<1>6. CASE Disable \/ Grace
  BY <1>6 DEF Disable, Grace, Leaving
<1>7. CASE Stop
  BY <1>2, <1>7 DEF Stop, RemoveHooks, Leaving
<1>8. CASE Host \/ UNCHANGED vars
  <2>1. UNCHANGED <<pc, enabled, inHook, ring, log, synced>>
    BY <1>8 DEF Host, HostConnect, HostWrite, HostChange, vars
  <2> QED BY <2>1 DEF Leaving
<1>9. ASSUME NEW t \in GameThreads, HookEnter(t) PROVE Leaving'
  BY <1>9 DEF HookEnter, Leaving
<1>10. ASSUME NEW t \in GameThreads, HookPush(t) PROVE Leaving'
  <2>1. inHook[t] # NoPacket /\ inHook' = [inHook EXCEPT ![t] = NoPacket]
        /\ UNCHANGED <<pc, enabled, log, synced>>
    BY <1>10 DEF HookPush
  <2>2. \A u \in GameThreads : inHook[u] = NoPacket => inHook'[u] = NoPacket
    BY <2>1 DEF TypeOK, ControlOK
  <2> QED BY <2>1, <2>2 DEF Leaving
<1> QED
  BY <1>3, <1>4, <1>5, <1>6, <1>7, <1>8, <1>9, <1>10 DEF Next, Worker, Game

LEMMA Durable == Spec => [](TypeOK /\ DurableInv)
<1>1. TypeOK /\ DurableInv /\ [Next]_vars => DurableInv'
  BY NextSettled, NextLeaving DEF DurableInv
<1>2. Spec => []TypeOK
  BY WorkerTypeCorrect
<1> QED BY <1>1, <1>2, InitDurable, PTL DEF Spec

\* For any number of hosts, game threads and packets: a game that dies between two passes of the
\* loop loses nothing the worker had drained, whichever host was attached or lost meanwhile.
THEOREM WhatIsDrainedIsDurable == Spec => []DrainedIsDurable
<1>1. DurableInv => DrainedIsDurable
  BY DrainTypes DEF DurableInv, Settled, DrainedIsDurable
<1> QED BY <1>1, Durable, PTL

\* If the grace period outlasts the pushes in flight, a module that has stopped has empty rings, no
\* thread with a packet in a hook and all of its log on disk.
THEOREM StopLeavesNothing == Spec => []NothingLeftBehind
<1>1. DurableInv => NothingLeftBehind
  BY DEF DurableInv, Leaving, NothingLeftBehind, Dirs
<1> QED BY <1>1, Durable, PTL

-----------------------------------------------------------------------------
(* The window of a host. *)

\* HostWindow, element by element.
Window(s, d) ==
  LET got  == link.wire[s][d]
      from == joined[s][d]
  IN /\ from + Len(got) <= Len(log[d])
     /\ \A i \in 1 .. Len(got) : got[i] = log[d][from + i]

Outside(s) == peer[s] = "absent" \/ Waiting(s)

\* Who is attached has been greeted and told everything so far; who is not yet has been told nothing.
WindowInv ==
  /\ \A s \in Sessions : link.first[s] \in {"none", "STATUS"} /\ \A d \in Dirs : Window(s, d)
  /\ \A s \in Sessions : link.client = s =>
       /\ link.first[s] = "STATUS"
       /\ \A d \in Dirs : joined[s][d] + Len(link.wire[s][d]) = Len(log[d])
  /\ \A s \in Sessions : Outside(s) =>
       link.first[s] = "none" /\ \A d \in Dirs : link.wire[s][d] = <<>>

\* A step that tells no host a packet and attaches none.
Untold(l, after) ==
  after.wire = l.wire /\ after.first = l.first /\ after.client \in {l.client, NoHost}

LEMMA ClosedUntold ==
  ASSUME NEW l \in Links
  PROVE  Untold(l, Closed(l)) /\ Untold(l, l)
  BY DEF Untold, Closed, Links

\* A greeted host's STATUS lines and echoes.
LEMMA SendLineUntold ==
  ASSUME NEW l \in Links, l.client # NoHost => l.first[l.client] = "STATUS",
         NEW line \in WireLines, line.kind \in {"STATUS", "ECHO"}, NEW after \in SendLine(l, line)
  PROVE  Untold(l, after)
<1>1. CASE after = l \/ after = Closed(l)
  BY <1>1, ClosedUntold
<1>2. CASE after = Delivered(l, line) /\ l.client # NoHost
  <2>1. l.client \in Sessions
    BY <1>2 DEF Links
  <2> DEFINE begun == [l EXCEPT !.first[l.client] = IF @ = "none" THEN line.kind ELSE @]
  <2>2. begun \in Links /\ Untold(l, begun)
    BY <1>2, <2>1 DEF Links, Untold
  <2> HIDE DEF begun
  <2>3. \A e : Untold(l, [begun EXCEPT !.echoes[l.client] = e])
    BY <2>2 DEF Links, Untold
  <2> QED BY <1>2, <2>2, <2>3 DEF Delivered, begun
<1> QED BY <1>1, <1>2 DEF SendLine, Connected

LEMMA UntoldKeepsWindow ==
  ASSUME TypeOK, TypeOK', WindowInv, Untold(link, link'), joined' = joined,
         \A d \in Dirs : log'[d] = log[d], \A s \in Sessions : Outside(s)' => Outside(s)
  PROVE  WindowInv'
<1>1. \A s \in Sessions : s # NoHost
  BY DEF Sessions, NoHost
<1> QED BY <1>1 DEF WindowInv, Window, Untold

\* Nobody goes back to where the hosts wait.
LEMMA OutsideShrinks ==
  ASSUME TypeOK, StreamInv, [Next]_vars, NEW s \in Sessions, Outside(s)'
  PROVE  Outside(s)
<1> USE DEF hostVars
<1>1. backlog \in Seq(Sessions)
  BY DEF TypeOK, HostOK
<1>2. CASE UNCHANGED <<backlog, peer>>
  BY <1>2 DEF Outside, Waiting
<1>3. CASE Accept
  <2>1. backlog' = Tail(backlog) /\ backlog # <<>> /\ peer' = peer
    BY <1>3 DEF Accept, HostWaits
  <2>2. \A i \in 1 .. Len(backlog') : i + 1 \in 1 .. Len(backlog) /\ backlog'[i] = backlog[i + 1]
    BY <1>1, <2>1
  <2> QED BY <2>1, <2>2 DEF Outside, Waiting
<1>4. CASE Stop
  BY <1>4, EmptySeq DEF Stop, StopServer, Outside, Waiting
<1>5. ASSUME NEW r \in Sessions, HostConnect(r) PROVE Outside(s)
  <2>1. backlog' = Append(backlog, r) /\ peer[r] = "absent" /\ peer' = [peer EXCEPT ![r] = "reading"]
    BY <1>5 DEF HostConnect
  <2>2. \A i \in 1 .. Len(backlog') : backlog'[i] = r \/ (i \in 1 .. Len(backlog) /\ backlog'[i] = backlog[i])
    BY <1>1, <2>1
  <2>3. s # r => peer'[s] = peer[s]
    BY <2>1 DEF TypeOK, HostOK
  <2> QED BY <2>1, <2>2, <2>3 DEF Outside, Waiting
<1>6. ASSUME NEW r \in Sessions, HostChange(r) PROVE Outside(s)
  <2>1. backlog' = backlog /\ \E next \in {"reading", "stalled", "closed"} : peer' = [peer EXCEPT ![r] = next]
    BY <1>6 DEF HostChange
  <2>2. peer'[s] = "absent" => peer[s] = "absent"
    BY <2>1 DEF TypeOK, HostOK
  <2> QED BY <2>1, <2>2 DEF Outside, Waiting
<1>7. ASSUME NEW r \in Sessions, HostWrite(r) PROVE UNCHANGED <<backlog, peer>>
  BY <1>7 DEF HostWrite
<1>8. CASE Game \/ UNCHANGED vars
  BY <1>2, <1>8 DEF Game, HookEnter, HookPush, vars
<1>9. ASSUME Worker, ~Accept, ~Stop PROVE UNCHANGED <<backlog, peer>>
  <2>1. CASE Poll
    BY <2>1 DEF Poll, PollBuffered, PollOverflow, PollLine, PollPartial, PollClosed, PollNothing, Received
  <2>2. CASE Command
    BY <2>2 DEF Command, HandleSend, HandleSendRefused, HandleQuit, HandleReply, Handle
  <2>3. CASE Startup \/ NoAccept \/ DrainOne \/ DrainEnd \/ Tick \/ Disable \/ Grace
    BY <2>3 DEF Startup, NoAccept, DrainOne, DrainEnd, Tick, Disable, Grace
  <2> QED BY <1>9, <2>1, <2>2, <2>3 DEF Worker
<1> QED BY <1>2, <1>3, <1>4, <1>5, <1>6, <1>7, <1>8, <1>9 DEF Next, Host

\* What the two kinds of line add to a link.
LEMMA DeliveredStatus ==
  ASSUME NEW l \in Links, NEW c \in Sessions, l.client = c
  PROVE  /\ Delivered(l, StatusLine).client = c /\ Delivered(l, StatusLine).wire = l.wire
         /\ Delivered(l, StatusLine).first = [l.first EXCEPT ![c] = IF @ = "none" THEN "STATUS" ELSE @]
<1>1. Delivered(l, StatusLine) = [l EXCEPT !.first[c] = IF @ = "none" THEN "STATUS" ELSE @]
  BY DEF Delivered, StatusLine
<1> QED BY <1>1 DEF Links

LEMMA DeliveredPacket ==
  ASSUME NEW l \in Links, NEW c \in Sessions, l.client = c, l.first[c] = "STATUS", NEW d \in Dirs,
         NEW id \in Packets
  PROVE  /\ Delivered(l, PacketLine(d, id)).client = c /\ Delivered(l, PacketLine(d, id)).first = l.first
         /\ Delivered(l, PacketLine(d, id)).wire = [l.wire EXCEPT ![c][d] = Append(l.wire[c][d], id)]
<1> DEFINE begun == [l EXCEPT !.first[c] = IF @ = "none" THEN d ELSE @]
<1>1. begun \in Links /\ begun.first = l.first /\ begun.wire = l.wire /\ begun.client = c
  BY DEF Links
<1> HIDE DEF begun
<1>2. Delivered(l, PacketLine(d, id)) = [begun EXCEPT !.wire[c][d] = Append(l.wire[c][d], id)]
  <2>1. Delivered(l, PacketLine(d, id)) = [begun EXCEPT !.wire[c][d] = Append(@, id)]
    BY DEF Delivered, PacketLine, Dirs, begun
  <2> QED BY <1>1, <2>1
<1> QED BY <1>1, <1>2 DEF Links

\* A host is accepted with nothing told, at the end of the log.
LEMMA AcceptKeepsWindow ==
  ASSUME TypeOK, TypeOK', StreamInv, WindowInv, Accept
  PROVE  WindowInv'
<1>1. PICK s \in Sessions : s = Head(backlog) /\ s = backlog[1] /\ backlog \in Seq(Sessions) /\ 1 \in 1 .. Len(backlog)
  BY TailType DEF Accept, HostWaits, TypeOK, HostOK
<1> DEFINE greeted == [Closed(link) EXCEPT !.client = s]
<1>2. /\ link' \in SendLine(greeted, StatusLine) /\ joined' = [joined EXCEPT ![s] = Flushed(log)]
      /\ backlog' = Tail(backlog) /\ peer' = peer /\ log' = log
  BY <1>1 DEF Accept, hostVars
<1>3. Closed(link) \in Links /\ Untold(link, Closed(link))
  BY ClosedType, ClosedUntold DEF TypeOK
<1>4. s # NoHost
  BY DEF Sessions, NoHost
<1>5. Outside(s) /\ link.first[s] = "none" /\ \A d \in Dirs : link.wire[s][d] = <<>>
  BY <1>1 DEF Outside, Waiting, WindowInv
<1>6. /\ greeted \in Links /\ greeted.client = s /\ greeted.wire = link.wire /\ greeted.first = link.first
  BY <1>3 DEF Links, Untold
<1> HIDE DEF greeted
<1>7. /\ link'.wire = link.wire
      /\ \/ link'.client = s /\ link'.first = [link.first EXCEPT ![s] = "STATUS"]
         \/ link'.client = NoHost /\ link'.first = link.first
  <2>1. link' = Delivered(greeted, StatusLine) \/ link' = Closed(greeted)
    BY <1>2, <1>4, <1>6 DEF SendLine, Connected
  <2>2. CASE link' = Closed(greeted)
    BY <1>6, <2>2, ClosedUntold, ClosedKept DEF Untold
  <2>3. CASE link' = Delivered(greeted, StatusLine)
    BY <1>5, <1>6, <2>3, DeliveredStatus
  <2> QED BY <2>1, <2>2, <2>3
<1>8. link.first \in [Sessions -> {"none", "STATUS", "ECHO"} \cup Dirs] /\ joined \in [Sessions -> [Kinds -> Nat]]
      /\ log \in [Kinds -> Seq(Packets)] /\ Dirs \subseteq Kinds
  BY DEF TypeOK, Links, LogOK, Kinds
<1>9. \A d \in Dirs : joined'[s][d] = Len(log[d])
  BY <1>2, <1>8 DEF Flushed
<1>10. \A r \in Sessions : r # s => joined'[r] = joined[r] /\ link'.first[r] = link.first[r] /\ link'.client # r
  <2> SUFFICES ASSUME NEW r \in Sessions, r # s
               PROVE  joined'[r] = joined[r] /\ link'.first[r] = link.first[r] /\ link'.client # r
    OBVIOUS
  <2>1. joined'[r] = joined[r]
    BY <1>2, <1>8
  <2>2. link'.first[r] = link.first[r]
    BY <1>7, <1>8
  <2>3. r # NoHost
    BY DEF Sessions, NoHost
  <2> QED BY <1>7, <2>1, <2>2, <2>3
<1>11. link'.first[s] \in {"none", "STATUS"} /\ (link'.client = s => link'.first[s] = "STATUS")
  BY <1>4, <1>5, <1>7, <1>8
<1>12. \A d \in Dirs : Len(log[d]) \in Nat /\ Len(link'.wire[s][d]) = 0
  BY <1>5, <1>7, <1>8, EmptySeq
<1>13. \A d \in Dirs : Window(s, d)' /\ joined'[s][d] + Len(link'.wire[s][d]) = Len(log'[d])
  BY <1>2, <1>9, <1>12 DEF Window
<1>14. ~Outside(s)' /\ \A r \in Sessions : Outside(r)' => Outside(r)
  <2>1. \A i \in 1 .. Len(backlog') : i + 1 \in 1 .. Len(backlog) /\ backlog'[i] = backlog[i + 1] /\ i + 1 # 1
    BY <1>1, <1>2
  <2>2. ~Waiting(s)' /\ peer[s] # "absent"
    BY <1>1, <2>1 DEF StreamInv, SessionOrder, Waiting
  <2> QED BY <1>2, <2>1, <2>2 DEF Outside, Waiting
<1>15. \A r \in Sessions : r # s => \A d \in Dirs : Window(r, d)'
  BY <1>2, <1>7, <1>10 DEF Window, WindowInv
<1>16. \A r \in Sessions : r # s => link'.first[r] \in {"none", "STATUS"}
  BY <1>10 DEF WindowInv
<1>17. \A r \in Sessions : Outside(r)' => link'.first[r] = "none" /\ \A d \in Dirs : link'.wire[r][d] = <<>>
  BY <1>7, <1>10, <1>14 DEF WindowInv
<1> QED BY <1>10, <1>11, <1>13, <1>15, <1>16, <1>17 DEF WindowInv

\* The attached host is told what is logged, or is closed.
LEMMA DrainKeepsWindow ==
  ASSUME TypeOK, TypeOK', StreamInv, WindowInv, DrainOne
  PROVE  WindowInv'
<1>1. PICK d \in Dirs : d = Drains[pc] /\ ring[d] # <<>>
  BY DrainTypes DEF DrainOne
<1>2. PICK id \in Packets : id = Head(ring[d])
  BY <1>1, TailType DEF TypeOK, RingOK
<1>3. /\ log' = [log EXCEPT ![d] = Append(@, id)] /\ link' \in SendLine(link, PacketLine(d, id))
      /\ UNCHANGED <<joined, peer, backlog>>
  BY <1>1, <1>2 DEF DrainOne, cmdVars, hostVars
<1>4. /\ log'[d] = Append(log[d], id) /\ log[d] \in Seq(Packets)
      /\ \A e \in Dirs : e # d => log'[e] = log[e]
  BY <1>3 DEF TypeOK, LogOK, Kinds
<1>5. /\ Len(log'[d]) = Len(log[d]) + 1 /\ log'[d][Len(log[d]) + 1] = id
      /\ \A i \in 1 .. Len(log[d]) : log'[d][i] = log[d][i]
  BY <1>4
<1>6. \A s \in Sessions, e \in Dirs :
        /\ joined[s][e] \in Nat /\ link.wire[s][e] \in Seq(Packets) /\ Len(link.wire[s][e]) \in Nat
        /\ Len(log[e]) \in Nat
  <2>1. joined \in [Sessions -> [Kinds -> Nat]] /\ Dirs \subseteq Kinds /\ log \in [Kinds -> Seq(Packets)]
    BY DEF TypeOK, LogOK, Kinds
  <2>2. link.wire \in [Sessions -> [Dirs -> Seq(Packets)]]
    BY DEF TypeOK, Links
  <2> QED BY <2>1, <2>2
\* What has been sent stays a window of the longer log.
<1>7. \A s \in Sessions, e \in Dirs : link'.wire[s][e] = link.wire[s][e] => Window(s, e)'
  <2> SUFFICES ASSUME NEW s \in Sessions, NEW e \in Dirs, link'.wire[s][e] = link.wire[s][e]
               PROVE  Window(s, e)'
    OBVIOUS
  <2>1. Window(s, e)
    BY DEF WindowInv
  <2>2. CASE e # d
    BY <1>3, <1>4, <2>1, <2>2 DEF Window
  <2>3. CASE e = d
    <3>1. Len(log[d]) <= Len(log'[d])
      BY <1>5, <1>6
    <3>2. \A i \in 1 .. Len(link.wire[s][d]) : joined[s][d] + i \in 1 .. Len(log[d])
      BY <1>6, <2>1, <2>3 DEF Window
    <3>3. joined[s][d] + Len(link.wire[s][d]) <= Len(log'[d])
      <4>1. joined[s][d] + Len(link.wire[s][d]) <= Len(log[d])
        BY <2>1, <2>3 DEF Window
      <4>2. \A m, n, k, l \in Nat : m + n <= k /\ k <= l => m + n <= l
        OBVIOUS
      <4>3. joined[s][d] \in Nat /\ Len(link.wire[s][d]) \in Nat /\ Len(log[d]) \in Nat /\ Len(log'[d]) \in Nat
        BY <1>5, <1>6
      <4> QED BY <3>1, <4>1, <4>2, <4>3
    <3>4. \A i \in 1 .. Len(link.wire[s][d]) : link.wire[s][d][i] = log'[d][joined[s][d] + i]
      BY <1>5, <2>1, <2>3, <3>2 DEF Window
    <3> QED BY <1>3, <2>3, <3>3, <3>4 DEF Window
  <2> QED BY <2>2, <2>3
<1>8. \A s \in Sessions : Outside(s)' <=> Outside(s)
  BY <1>3 DEF Outside, Waiting
<1>9. CASE Untold(link, link') /\ link'.client = NoHost
  BY <1>7, <1>8, <1>9 DEF WindowInv, Untold, Sessions, NoHost
<1>10. CASE link.client # NoHost /\ link' = Delivered(link, PacketLine(d, id))
  <2>1. PICK c \in Sessions : c = link.client
    BY <1>10 DEF TypeOK, Links
  <2>2. link.first[c] = "STATUS" /\ link \in Links /\ link.wire \in [Sessions -> [Dirs -> Seq(Packets)]]
    BY <2>1 DEF TypeOK, Links, WindowInv
  <2>3. link'.first = link.first /\ link'.client = c
        /\ link'.wire = [link.wire EXCEPT ![c][d] = Append(link.wire[c][d], id)]
    <3> DEFINE after == Delivered(link, PacketLine(d, id))
    <3>1. after.client = c /\ after.first = link.first
          /\ after.wire = [link.wire EXCEPT ![c][d] = Append(link.wire[c][d], id)]
      <4>1. link \in Links /\ c \in Sessions /\ link.client = c /\ link.first[c] = "STATUS" /\ d \in Dirs /\ id \in Packets
        BY <2>1, <2>2
      <4> QED BY <4>1, DeliveredPacket
    <3> HIDE DEF after
    <3>2. link' = after
      BY <1>10 DEF after
    <3> QED BY <3>1, <3>2
  <2>4. PICK got \in Seq(Packets) : got = link.wire[c][d]
    BY <1>6
  <2>5. /\ link'.wire[c][d] = Append(got, id)
        /\ \A s \in Sessions, e \in Dirs : s # c \/ e # d => link'.wire[s][e] = link.wire[s][e]
    BY <2>2, <2>3, <2>4
  <2>6. joined[c][d] + Len(got) = Len(log[d]) /\ \A i \in 1 .. Len(got) : got[i] = log[d][joined[c][d] + i]
    BY <2>1, <2>4 DEF WindowInv, Window
  <2>7. /\ Len(link'.wire[c][d]) = Len(got) + 1 /\ link'.wire[c][d][Len(got) + 1] = id
        /\ \A i \in 1 .. Len(got) : link'.wire[c][d][i] = got[i]
    BY <2>4, <2>5
  <2>8. joined[c][d] \in Nat /\ Len(got) \in Nat
    BY <1>6, <2>4
  <2>9. joined[c][d] + (Len(got) + 1) = Len(log[d]) + 1
    <3>1. PICK m \in Nat, n \in Nat : m = joined[c][d] /\ n = Len(got)
      BY <2>8
    <3>2. m + n = Len(log[d])
      BY <2>6, <3>1
    <3> QED BY <3>1, <3>2
  <2>10. Window(c, d)'
    <3>1. joined[c][d] + (Len(got) + 1) <= Len(log'[d])
      BY <1>5, <2>8, <2>9
    <3>2. \A i \in 1 .. Len(got) : got[i] = log[d][joined[c][d] + i] /\ joined[c][d] + i \in 1 .. Len(log[d])
      BY <2>6, <2>8
    <3>3. \A i \in 1 .. Len(got) + 1 : i = Len(got) + 1 \/ i \in 1 .. Len(got)
      BY <2>8
    <3>4. \A i \in 1 .. Len(got) + 1 : link'.wire[c][d][i] = log'[d][joined[c][d] + i]
      BY <1>5, <2>7, <2>9, <3>2, <3>3
    <3> QED BY <1>3, <2>7, <3>1, <3>4 DEF Window
  <2>11. \A s \in Sessions, e \in Dirs : Window(s, e)'
    BY <1>7, <2>5, <2>10
  <2>12. \A e \in Dirs : joined'[c][e] + Len(link'.wire[c][e]) = Len(log'[e])
    <3>1. \A e \in Dirs : joined[c][e] + Len(link.wire[c][e]) = Len(log[e])
      BY <2>1 DEF WindowInv
    <3>2. joined[c][d] + Len(link'.wire[c][d]) = Len(log'[d])
      BY <1>5, <2>7, <2>9
    <3> QED BY <1>3, <1>4, <2>5, <3>1, <3>2
  <2>13. \A s \in Sessions : Outside(s) => s # c
    BY <2>1 DEF Outside, StreamInv, SessionOrder
  <2>14. \A s \in Sessions : Outside(s)' => link'.first[s] = "none" /\ \A e \in Dirs : link'.wire[s][e] = <<>>
    BY <1>8, <2>3, <2>5, <2>13 DEF WindowInv
  <2>15. \A s \in Sessions : link'.first[s] \in {"none", "STATUS"}
    BY <2>3 DEF WindowInv
  <2> QED BY <2>2, <2>3, <2>11, <2>12, <2>14, <2>15 DEF WindowInv
<1>11. CASE link.client = NoHost
  <2>1. link' = link
    BY <1>3, <1>11 DEF SendLine, Connected
  <2> QED BY <1>9, <1>11, <2>1 DEF Untold
<1>12. Untold(link, Closed(link)) /\ Closed(link).client = NoHost
  BY ClosedUntold, ClosedKept DEF TypeOK
<1>13. CASE link.client # NoHost
  BY <1>3, <1>9, <1>10, <1>12, <1>13 DEF SendLine, Connected
<1> QED BY <1>11, <1>13

\* Everything else tells no host a packet.
LEMMA OthersUntold ==
  ASSUME TypeOK, WindowInv, [Next]_vars, ~Accept, ~DrainOne
  PROVE  Untold(link, link') /\ joined' = joined /\ \A d \in Dirs : log'[d] = log[d]
<1> USE DEF ringVars, logVars, hostVars, cmdVars, modVars
<1>1. link \in Links /\ log \in [Kinds -> Seq(Packets)]
  BY DEF TypeOK, LogOK
<1>2. link.client # NoHost => link.first[link.client] = "STATUS"
  BY <1>1 DEF Links, WindowInv
<1>3. Untold(link, Closed(link)) /\ Untold(link, link)
  BY <1>1, ClosedUntold
<1>4. ASSUME NEW bytes PROVE Untold(link, [link EXCEPT !.pending = bytes])
  BY <1>1 DEF Untold, Links
<1>5. link' \in SendLine(link, StatusLine) => Untold(link, link')
  <2>1. StatusLine \in WireLines /\ StatusLine.kind = "STATUS"
    BY LineTypes DEF StatusLine
  <2> QED BY <1>1, <1>2, <2>1, SendLineUntold
<1>6. CASE Poll
  <2>1. CASE PollOverflow \/ PollClosed \/ PollNothing
    BY <1>3, <2>1 DEF PollOverflow, PollClosed, PollNothing, Received
  <2>2. \A bytes : TakeLine(bytes) => Untold(link, link')
    BY <1>4 DEF TakeLine
  <2>3. CASE PollBuffered
    BY <2>2, <2>3 DEF PollBuffered
  <2>4. CASE PollLine
    <3>1. PICK n \in 1 .. MaxChunk : Received(n) /\ TakeLine(After(link.client, n))
      BY <2>4 DEF PollLine
    <3> QED BY <2>2, <3>1 DEF Received
  <2>5. CASE PollPartial
    <3>1. PICK n \in 1 .. MaxChunk : Received(n) /\ link' = [link EXCEPT !.pending = After(link.client, n)]
      BY <2>5 DEF PollPartial
    <3> QED BY <1>4, <3>1 DEF Received
  <2> QED BY <1>6, <2>1, <2>3, <2>4, <2>5 DEF Poll
<1>7. CASE HandleSend
  <2> DEFINE id == Last(command).id
  <2>1. Handle("SEND") /\ log' = [log EXCEPT !["MANUAL_SEND"] = Append(@, id)]
    BY <1>7 DEF HandleSend
  <2>2. joined' = joined /\ \A d \in Dirs : log'[d] = log[d]
    BY <1>1, <2>1 DEF Handle, Dirs, Kinds
  <2>3. EchoLine(id) \in WireLines /\ EchoLine(id).kind = "ECHO"
    BY <2>1, HandleType, LineTypes DEF EchoLine
  <2>4. PICK l \in SendLine(link, EchoLine(id)) : link' \in SendLine(l, StatusLine)
    BY <1>7 DEF HandleSend
  <2>5. l \in Links /\ Untold(link, l)
    BY <1>1, <1>2, <2>3, <2>4, SendLineType, SendLineUntold
  <2>6. l.client # NoHost => l.first[l.client] = "STATUS"
    BY <1>2, <2>5 DEF Untold
  <2>7. StatusLine \in WireLines /\ StatusLine.kind = "STATUS"
    BY LineTypes DEF StatusLine
  <2>8. Untold(l, link')
    BY <2>4, <2>5, <2>6, <2>7, SendLineUntold
  <2> QED BY <2>2, <2>5, <2>8 DEF Untold
<1>8. CASE HandleSendRefused \/ HandleReply
  BY <1>5, <1>8 DEF HandleSendRefused, HandleReply, Handle
<1>9. CASE HandleQuit
  BY <1>3, <1>9 DEF HandleQuit, Handle
<1>10. CASE Tick
  BY <1>3, <1>5, <1>10 DEF Tick
<1>11. CASE Disable \/ Stop
  BY <1>3, <1>5, <1>11 DEF Disable, Stop, StopServer
<1>12. CASE Startup \/ NoAccept \/ DrainEnd \/ Grace
  BY <1>3, <1>12 DEF Startup, NoAccept, DrainEnd, Grace
<1>13. CASE Game \/ Host \/ UNCHANGED vars
  BY <1>3, <1>13 DEF Game, Host, HookEnter, HookPush, HostConnect, HostWrite, HostChange, vars
<1> QED
  BY <1>6, <1>7, <1>8, <1>9, <1>10, <1>11, <1>12, <1>13 DEF Next, Worker, Command

LEMMA NextWindow ==
  ASSUME TypeOK, TypeOK', StreamInv, WindowInv, [Next]_vars
  PROVE  WindowInv'
<1>1. CASE Accept
  BY <1>1, AcceptKeepsWindow
<1>2. CASE DrainOne
  BY <1>2, DrainKeepsWindow
<1>3. CASE ~Accept /\ ~DrainOne
  BY <1>3, OthersUntold, OutsideShrinks, UntoldKeepsWindow
<1> QED BY <1>1, <1>2, <1>3

LEMMA InitWindow == Init => WindowInv
<1> SUFFICES ASSUME Init PROVE WindowInv
  OBVIOUS
<1>1. \A s \in Sessions : s # NoHost
  BY DEF Sessions, NoHost
<1>2. \A s \in Sessions, d \in Dirs : link.wire[s][d] = <<>> /\ joined[s][d] = 0 /\ log[d] = <<>>
  BY DEF Init, NoLog, Kinds
<1> QED BY <1>1, <1>2, EmptySeq DEF Init, WindowInv, Window

\* What agrees with the log everywhere is a part of it.
LEMMA WindowIsPart ==
  ASSUME TypeOK, NEW s \in Sessions, NEW d \in Dirs, Window(s, d)
  PROVE  link.wire[s][d] = SubSeq(log[d], joined[s][d] + 1, joined[s][d] + Len(link.wire[s][d]))
<1>1. PICK got \in Seq(Packets), all \in Seq(Packets), from \in Nat :
        got = link.wire[s][d] /\ all = log[d] /\ from = joined[s][d]
  <2>1. link.wire[s][d] \in Seq(Packets)
    BY DEF TypeOK, Links
  <2>2. log[d] \in Seq(Packets) /\ joined[s][d] \in Nat
    BY DEF TypeOK, LogOK, Kinds
  <2> QED BY <2>1, <2>2
<1>2. from + Len(got) <= Len(all) /\ \A i \in 1 .. Len(got) : got[i] = all[from + i]
  BY <1>1 DEF Window
<1>3. PICK n \in Nat : n = Len(got)
  OBVIOUS
<1> DEFINE part == SubSeq(all, from + 1, from + n)
<1>4. \A i \in from + 1 .. from + n : all[i] \in Packets
  BY <1>2, <1>3
<1>5. part \in Seq(Packets) /\ Len(part) = n /\ \A i \in 1 .. n : part[i] = all[from + 1 + i - 1]
  <2>1. from + 1 \in Int /\ from + n \in Int /\ (from + n) - (from + 1) + 1 = n
        /\ (from + 1 <= from + n <=> n # 0)
    OBVIOUS
  <2> QED BY <1>4, <2>1, SubSeqProperties
<1>6. \A i \in 1 .. n : got[i] = part[i]
  <2>1. \A i \in 1 .. n : from + 1 + i - 1 = from + i
    OBVIOUS
  <2> QED BY <1>2, <1>3, <1>5, <2>1
<1> HIDE DEF part
<1>7. got = part
  BY <1>3, <1>5, <1>6, SeqEqual
<1> QED BY <1>1, <1>3, <1>7 DEF part

\* Whichever hosts come, stall and go: a host is sent a window of the log, from its accept on, without
\* a gap or a repetition, and up to now as long as it is attached; a status line comes first.
THEOREM HostsSeeAWindow == Spec => []HostWindow
<1>1. TypeOK /\ WindowInv => HostWindow
  BY WindowIsPart DEF WindowInv, Window, HostWindow
<1>2. TypeOK /\ TypeOK' /\ StreamInv /\ WindowInv /\ [Next]_vars => WindowInv'
  BY NextWindow
<1>3. Spec => []TypeOK
  BY WorkerTypeCorrect
<1> QED BY <1>1, <1>2, <1>3, InitWindow, StreamHolds, PTL DEF Spec

=============================================================================
