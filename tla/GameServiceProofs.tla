--------------------------- MODULE GameServiceProofs ---------------------------
(***************************************************************************)
(* The safety of the broker and of the calls on top of it, for any number  *)
(* of clients and any room in the sockets.                                 *)
(***************************************************************************)
EXTENDS GameService, SequenceTheorems, FiniteSetTheorems, TLAPS

CallSteps == [line : AnyLine \cup {None}, until : {"there", "answer", "now", "sits", "taken", "tick", "unknown", "hit"}]
Tools  == [pc : {"idle", "check", "lock", "send", "wait", "lock service", "peek", "ok", "error"},
           call : Requests \cup {Request(None, None)}, todo : Seq(CallSteps), answer : AnyLine \cup {None},
           news : SUBSET Ops, old : BOOLEAN, alone : BOOLEAN]

LinkTyped ==
  /\ dll \in [line : AnyLine \cup {None}, target : Targets \cup Int \cup {None}]
  /\ sess \in {"none", "open", "hungup"} /\ held \in BOOLEAN /\ (held => sess # "none")
  /\ up \in Seq(AnyLine) /\ Len(up) <= MaxUp
  /\ down \in Seq(AnyLine) /\ Len(down) <= MaxDown

UpstreamTyped ==
  /\ upstream \in [pc : {"connect", "recv", "feed", "cast", "raised", "dead"},
                   line : AnyLine \cup {None}, todo : Seq(Clients)]
  /\ upstream.pc \in {"feed", "cast"} => upstream.line \in AnyLine
  /\ status \in AnyLine /\ all \in Seq(AnyLine)
  /\ listener \in [client : Clients \cup {None}, text : AnyLine \cup {None}]

ClientsTyped ==
  /\ reg \in Seq(Clients)
  /\ peer \in [Clients -> {"out", "in", "stalled", "gone"}]
  /\ buf \in [Clients -> Seq(AnyLine)] /\ \A c \in Clients : Len(buf[c]) <= MaxBuf
  /\ asks \in [Clients -> Seq(Commands)]
  /\ thread \in [Clients -> Commands \cup {None, Off}]

HistoryTyped ==
  /\ since \in [Clients -> Nat] /\ heard \in [Clients -> Seq(AnyLine)]
  /\ seen \in [Clients -> AnyLine \cup {None}] /\ overtaken \in SUBSET Clients

ToolTyped ==
  /\ plan \in Setups
  /\ world \in [pos : Int \cup {None}, resting : BOOLEAN \cup {None}, drops : SUBSET Targets]
  /\ tool \in Tools
  /\ tool.pc \in {"check", "lock", "send", "wait"} => tool.todo # <<>>
  /\ tool.pc \in {"check", "lock", "send"} => Head(tool.todo).line \in AnyLine

\* A lock is held by who is about to use it.
LocksHeld ==
  /\ upLock \in Senders \cup {None} /\ svcLock \in {Tool, None}
  /\ (upLock = Tool) = (tool.pc = "send") /\ (svcLock = Tool) = (tool.pc = "peek")
  /\ upLock \in Clients => thread[upLock] \in Commands

\* No thread runs for a client that has not come or is being greeted.
Greeted ==
  /\ \A c \in Clients : peer[c] = "out" => thread[c] = Off /\ listener.client # c
  /\ listener.client \in Clients => thread[listener.client] = Off

Typed == LinkTyped /\ UpstreamTyped /\ ClientsTyped /\ HistoryTyped /\ ToolTyped /\ LocksHeld /\ Greeted

-----------------------------------------------------------------------------

Member(c, s) == \E i \in 1 .. Len(s) : s[i] = c
Once(s)      == \A i, j \in 1 .. Len(s) : s[i] = s[j] => i = j
Served(c)    == peer[c] \in {"in", "stalled"}
Due(c)       == upstream.pc = "cast" /\ Member(c, upstream.todo)

\* Who is there is registered, once; who has not come is neither registered nor served.
Registered ==
  /\ Once(reg) /\ (upstream.pc = "cast" => Once(upstream.todo))
  /\ \A c \in Clients : /\ Served(c) => Member(c, reg)
                        /\ peer[c] = "out" => ~Member(c, reg) /\ ~Due(c) /\ heard[c] = <<>>

Windows ==
  /\ upstream.pc = "cast" => all # <<>> /\ upstream.line = all[Len(all)]
  /\ \A c \in Clients : /\ Len(heard[c]) <= Len(all) - since[c]
                        /\ heard[c] = SubSeq(all, since[c] + 1, since[c] + Len(heard[c]))
                        /\ Served(c) => Len(heard[c]) = Len(all) - since[c] - (IF Due(c) THEN 1 ELSE 0)

-----------------------------------------------------------------------------

\* A status that c is still to be sent.
Owed(c) == (upstream.pc = "feed" \/ Due(c)) /\ IsStatus(upstream.line)

Statuses ==
  /\ status = Empty \/ IsStatus(status)
  /\ upstream.pc \in {"feed", "cast"} /\ IsStatus(upstream.line) => status = upstream.line
  /\ listener.text \in {None, Empty} \/ IsStatus(listener.text)
  /\ status = Empty => listener.text \in {None, Empty} /\ \A c \in Clients : seen[c] = None
  /\ \A c \in Clients : Served(c) /\ c \notin overtaken /\ ~Owed(c) =>
       IF listener.client = c THEN listener.text \in {None, status}
       ELSE seen[c] = IF status = Empty THEN None ELSE status

-----------------------------------------------------------------------------

\* A line of TARGET that is the call's, true of what is selected.
Honest(line, target, arg) ==
  /\ line.op \in {"target", "selected", "refused"} => line.arg = arg
  /\ line.op = "selected" => target = arg
  /\ line.op = "refused" => arg \notin Alive

Own(line) == Honest(line, dll.target, tool.call.arg)

OwnTargets ==
  /\ \A i \in 1 .. Len(up) : Own(up[i])
  /\ \A i \in 1 .. Len(down) : Own(down[i])
  /\ dll.line # None => Own(dll.line)
  /\ upstream.pc = "feed" => Own(upstream.line)
  /\ \A c \in Clients : /\ \A i \in 1 .. Len(asks[c]) : Own(asks[c][i])
                        /\ thread[c] # None => Own(thread[c])

Selects ==
  /\ tool.answer # None => tool.answer.op \in {"selected", "refused"}
  /\ tool.pc \in {"lock service", "peek"} => tool.call.op = "state"
  /\ tool.call.op = "select" /\ tool.alone =>
       /\ OwnTargets
       /\ tool.answer # None => Own(tool.answer)
       /\ tool.pc \in {"check", "lock", "send", "wait"} =>
            tool.todo = <<Then("target", tool.call.arg, "answer")>>
       /\ tool.pc = "ok" => dll.target = tool.call.arg

ServiceInv == Typed /\ Registered /\ Windows /\ Statuses /\ Selects
-----------------------------------------------------------------------------
(* Sequences. *)

\* pop takes the entry of c out of the registry and leaves the others.
LEMMA WithoutSeq ==
  ASSUME reg \in Seq(Clients), Once(reg), NEW c
  PROVE  /\ Without(c) \in Seq(Clients) /\ Once(Without(c))
         /\ \A d : Member(d, Without(c)) <=> Member(d, reg) /\ d # c
<1>1. CASE ~Member(c, reg)
  BY <1>1 DEF Without, RemoveFirst, Member
<1>2. CASE Member(c, reg)
  <2>1. PICK k \in 1 .. Len(reg) : reg[k] = c
    BY <1>2 DEF Member
  <2>2. {i \in 1 .. Len(reg) : reg[i] = c} = {k}
    BY <2>1 DEF Once
  <2>3. Min({k}) = k
    BY <2>1 DEF Min
  <2>4. SelectInSeq(reg, LAMBDA v : v = c) = k
    BY <2>2, <2>3 DEF SelectInSeq
  <2> DEFINE w == SubSeq(reg, 1, k - 1) \o SubSeq(reg, k + 1, Len(reg))
  <2>5. Without(c) = w
    BY <1>2, <2>4 DEF Without, RemoveFirst, RemoveAt, Member
  <2>6. /\ w \in Seq(Clients) /\ Len(w) = Len(reg) - 1
        /\ \A i \in 1 .. Len(w) : w[i] = IF i < k THEN reg[i] ELSE reg[i + 1]
    <3>1. \A i \in 1 .. k - 1 : reg[i] \in Clients
      BY <2>1
    <3>2. \A i \in k + 1 .. Len(reg) : reg[i] \in Clients
      BY <2>1
    <3>3. /\ SubSeq(reg, 1, k - 1) \in Seq(Clients) /\ Len(SubSeq(reg, 1, k - 1)) = k - 1
          /\ \A i \in 1 .. k - 1 : SubSeq(reg, 1, k - 1)[i] = reg[i]
      BY <2>1, <3>1, SubSeqProperties
    <3>4. /\ SubSeq(reg, k + 1, Len(reg)) \in Seq(Clients) /\ Len(SubSeq(reg, k + 1, Len(reg))) = Len(reg) - k
          /\ \A i \in 1 .. Len(reg) - k : SubSeq(reg, k + 1, Len(reg))[i] = reg[k + i]
      BY <2>1, <3>2, SubSeqProperties
    <3> DEFINE a == SubSeq(reg, 1, k - 1)
               b == SubSeq(reg, k + 1, Len(reg))
    <3> HIDE DEF a, b
    <3>5. /\ a \o b \in Seq(Clients) /\ Len(a \o b) = Len(a) + Len(b)
          /\ \A i \in 1 .. Len(a) + Len(b) : (a \o b)[i] = IF i <= Len(a) THEN a[i] ELSE b[i - Len(a)]
      BY <3>3, <3>4, ConcatProperties DEF a, b
    <3>6. Len(a) = k - 1 /\ Len(b) = Len(reg) - k /\ w = a \o b
      BY <3>3, <3>4 DEF a, b
    <3>7. ASSUME NEW i \in 1 .. Len(a \o b) PROVE (a \o b)[i] = IF i < k THEN reg[i] ELSE reg[i + 1]
      <4>1. CASE i < k
        BY <2>1, <3>3, <3>5, <3>6, <4>1 DEF a
      <4>2. CASE i >= k
        <5>1. i - (k - 1) \in 1 .. Len(reg) - k /\ k + (i - (k - 1)) = i + 1
          BY <2>1, <3>5, <3>6, <4>2
        <5>2. (a \o b)[i] = b[i - (k - 1)]
          BY <2>1, <3>5, <3>6, <4>2
        <5>3. \A j \in 1 .. Len(reg) - k : b[j] = reg[k + j]
          BY <3>4 DEF b
        <5> QED BY <2>1, <4>2, <5>1, <5>2, <5>3
      <4> QED BY <2>1, <4>1, <4>2
    <3>8. Len(a \o b) = Len(reg) - 1
      BY <2>1, <3>5, <3>6
    <3> HIDE DEF w
    <3> QED BY <3>5, <3>6, <3>7, <3>8
  <2> HIDE DEF w
  <2>7. Once(w)
    BY <2>1, <2>6 DEF Once
  <2>8. ASSUME NEW d, Member(d, w) PROVE Member(d, reg) /\ d # c
    <3>1. PICK i \in 1 .. Len(w) : w[i] = d
      BY <2>8 DEF Member
    <3>2. PICK j \in 1 .. Len(reg) : reg[j] = d /\ j # k
      BY <2>1, <2>6, <3>1
    <3> QED BY <2>1, <3>2 DEF Member, Once
  <2>9. ASSUME NEW d, Member(d, reg), d # c PROVE Member(d, w)
    <3>1. PICK j \in 1 .. Len(reg) : reg[j] = d
      BY <2>9 DEF Member
    <3>2. j # k
      BY <2>1, <2>9, <3>1
    <3>3. CASE j < k
      BY <2>1, <2>6, <3>1, <3>3 DEF Member
    <3>4. CASE j > k
      <4>1. j - 1 \in 1 .. Len(w) /\ w[j - 1] = reg[j]
        BY <2>1, <2>6, <3>1, <3>4
      <4> QED BY <3>1, <4>1 DEF Member
    <3> QED BY <3>1, <3>2, <3>3, <3>4
  <2> QED BY <2>5, <2>6, <2>7, <2>8, <2>9
<1> QED BY <1>1, <1>2

\* Queues.
LEMMA QueueSeq ==
  ASSUME NEW S, NEW s \in Seq(S)
  PROVE  /\ Len(s) \in Nat /\ \A i \in 1 .. Len(s) : s[i] \in S
         /\ \A e \in S : /\ Append(s, e) \in Seq(S) /\ Len(Append(s, e)) = Len(s) + 1
                         /\ \A i \in 1 .. Len(s) + 1 : Append(s, e)[i] = IF i <= Len(s) THEN s[i] ELSE e
         /\ s # <<>> => /\ Head(s) \in S /\ Head(s) = s[1] /\ Len(s) > 0
                        /\ Tail(s) \in Seq(S) /\ Len(Tail(s)) = Len(s) - 1
                        /\ \A i \in 1 .. Len(s) - 1 : Tail(s)[i] = s[i + 1]
         /\ s = <<>> => Len(s) = 0
  OBVIOUS

LEMMA LinesTyped ==
  /\ {Lost, Joined, Empty} \subseteq AnyLine /\ Commands \subseteq AnyLine /\ Off \notin Commands /\ None \notin Commands
  /\ Spoken \subseteq AnyLine /\ None # Off
  /\ \A command \in AnyLine : Answer(command) \in AnyLine
<1>1. {Lost, Joined, Empty, Off} \subseteq AnyLine
  BY DEF Lost, Joined, Empty, Off, Told, AnyLine, Ops
<1>2. Commands \subseteq AnyLine
  BY BrokerAssumption DEF Commands, AnyLine, Ops
<1>3. Off \notin Commands
  BY DEF Off, Told, Commands
<1>4. Spoken \subseteq AnyLine
  BY DEF Spoken
<1>5. ASSUME NEW command \in AnyLine PROVE Answer(command) \in AnyLine
  <2>1. CASE command.op = "move"
    BY <1>5, <2>1 DEF Answer, AnyLine, Ops, Told
  <2>2. CASE command.op = "target"
    BY <1>5, <2>2 DEF Answer, AnyLine, Ops, Told
  <2>3. CASE command.op \notin {"move", "target"}
    BY <2>3 DEF Answer, AnyLine, Ops, Told
  <2> QED BY <2>1, <2>2, <2>3
<1> QED BY <1>1, <1>2, <1>3, <1>4, <1>5, BrokerAssumption

\* The steps of every call are typed, and each has a line to send except the wait.
LEMMA StepsTyped ==
  ASSUME NEW call \in Requests, Known(call), world.pos \in Int \cup {None}
  PROVE  Steps(call) \in Seq(CallSteps)
<1>1. CASE call.op = "travel"
  <2>1. world.pos \in Int /\ call.arg \in Int
    BY <1>1 DEF Known, Requests
  <2>2. PICK n \in Nat : n = (IF world.pos < call.arg THEN call.arg - world.pos ELSE world.pos - call.arg)
    BY <2>1
  <2> DEFINE path == Path(world.pos, call.arg)
  <2>3. path \in [1 .. n -> Int] /\ Len(path) = n
    BY <2>1, <2>2 DEF Path
  <2> HIDE DEF path
  <2>4. \A i \in 1 .. n \div 2 : 2 * i \in 1 .. n
    BY <2>2
  <2>5. \A i \in 1 .. n \div 2 : Then("move", path[2 * i], "there") \in CallSteps
    BY <2>3, <2>4 DEF Then, CallSteps, AnyLine, Senders
  <2>6. n \div 2 \in Nat
    BY <2>2
  <2>7. Legs(path) \in Seq(CallSteps)
    BY <2>3, <2>5, <2>6 DEF Legs
  <2> QED BY <1>1, <2>7 DEF Steps, game_travel, path
<1>2. CASE call.op = "move"
  BY <1>2 DEF Steps, game_move, Then, CallSteps, AnyLine, Senders, Requests
<1>3. CASE call.op \notin {"move", "travel"}
  <2>1. call.arg \in Targets \cup {None}
    BY <1>3 DEF Requests
  <2>2. {Then("target", call.arg, "answer")} \cup {Then("raw", None, until) : until \in {"now", "sits", "taken", "unknown", "hit"}}
        \subseteq CallSteps
    BY <2>1 DEF Then, CallSteps, AnyLine, Senders, Ops
  <2>3. [line |-> None, until |-> "tick"] \in CallSteps
    BY DEF CallSteps
  <2> QED BY <1>3, <2>2, <2>3 DEF Steps, game_select, game_send, game_rest, game_pickup, game_wait_for, game_memory, game_cast
<1> QED BY <1>1, <1>2, <1>3

-----------------------------------------------------------------------------
(* The initial states. *)

LEMMA InitInv == Init => ServiceInv
<1> SUFFICES ASSUME Init PROVE ServiceInv
  OBVIOUS
<1> DEFINE on == plan.attached
<1>1. plan \in Setups /\ on \subseteq Clients /\ plan.state \in {"in", "stalled"}
  BY SetupsAssumption DEF Init
<1>2. on = {} \/ \E c \in Clients : on = {c}
  BY SetupsAssumption DEF Init
<1>3. /\ reg \in Seq(Clients) /\ Once(reg)
      /\ \A c \in Clients : Member(c, reg) <=> c \in on
  <2>1. CASE on = {}
    <3>1. Cardinality(on) = 0
      BY <2>1, FS_EmptySet
    <3>2. reg = <<>>
      BY <2>1, <3>1 DEF Init, BrokerInit
    <3> QED BY <2>1, <3>2 DEF Once, Member
  <2>2. ASSUME NEW c \in Clients, on = {c} PROVE reg = <<c>>
    <3>1. Cardinality(on) = 1
      BY <2>2, FS_Singleton
    <3>2. reg \in [1 .. 1 -> {c}]
      BY <2>2, <3>1 DEF Init, BrokerInit
    <3> QED BY <3>2
  <2>3. ASSUME NEW c \in Clients, on = {c} PROVE reg \in Seq(Clients) /\ Once(reg) /\ \A d \in Clients : Member(d, reg) <=> d \in on
    <3>1. reg = <<c>>
      BY <2>2, <2>3
    <3>2. reg \in Seq(Clients) /\ Len(reg) = 1 /\ reg[1] = c
      BY <3>1
    <3> QED BY <2>3, <3>2 DEF Once, Member
  <2> QED BY <1>2, <2>1, <2>3
<1>4. MaxUp \in Nat /\ MaxDown \in Nat /\ MaxBuf \in Nat /\ MaxBuf >= 1
  BY BrokerAssumption
<1>5. Joined \in AnyLine /\ Empty \in AnyLine /\ None # Off /\ Off \notin Commands
  BY LinesTyped
<1>6. LinkTyped
  <2>1. /\ dll = [line |-> None, target |-> None] /\ up = <<>> /\ down = <<>>
        /\ sess = (IF on # {} THEN "open" ELSE "none") /\ held = (on # {})
    BY DEF Init, BrokerInit
  <2>2. up \in Seq(AnyLine) /\ down \in Seq(AnyLine) /\ Len(up) = 0 /\ Len(down) = 0
    BY <2>1
  <2>3. held \in BOOLEAN /\ (held => on # {})
    BY <2>1
  <2>4. dll \in [line : AnyLine \cup {None}, target : Targets \cup Int \cup {None}]
    BY <2>1
  <2>5. sess \in {"none", "open", "hungup"} /\ (held => sess # "none")
    BY <2>1, <2>3
  <2> QED BY <1>4, <2>2, <2>3, <2>4, <2>5 DEF LinkTyped
<1>14. UpstreamTyped
  <2>1. upstream = [pc |-> IF on # {} THEN "recv" ELSE "connect", line |-> None, todo |-> <<>>]
    BY DEF Init, BrokerInit
  <2>2. status = Empty /\ listener = [client |-> None, text |-> None]
    BY DEF Init, BrokerInit
  <2>3. all \in Seq(AnyLine)
    BY <1>5 DEF Init, BrokerInit
  <2> QED BY <1>5, <2>1, <2>2, <2>3 DEF UpstreamTyped
<1>7. ClientsTyped /\ HistoryTyped
  BY <1>1, <1>3, <1>4, <1>5 DEF Init, BrokerInit, ClientsTyped, HistoryTyped
<1>8. ToolTyped
  BY <1>1 DEF Init, ToolTyped, Idle, Tools
<1>9. LocksHeld /\ Greeted
  BY <1>1, <1>5, BrokerAssumption DEF Init, BrokerInit, LocksHeld, Greeted, Idle, Senders, Tool
<1>10. Registered
  BY <1>1, <1>3 DEF Init, BrokerInit, Registered, Served, Due, Once
<1>11. Windows
  <2>1. upstream.pc # "cast" /\ \A c \in Clients : ~Due(c)
    BY DEF Init, BrokerInit, Due
  <2>2. since = [c \in Clients |-> 0]
    BY DEF Init, BrokerInit
  <2>3. CASE on = {}
    <3>1. all = <<>> /\ \A c \in Clients : heard[c] = <<>>
      BY <2>3 DEF Init, BrokerInit
    <3>2. SubSeq(<<>>, 1, 0) = <<>> /\ Len(<<>>) = 0
      BY SubSeqEmpty
    <3>3. \A c \in Clients : ~Served(c)
      BY <1>1, <2>3 DEF Init, BrokerInit, Served
    <3>4. ASSUME NEW c \in Clients
          PROVE  /\ Len(heard[c]) <= Len(all) - since[c]
                 /\ heard[c] = SubSeq(all, since[c] + 1, since[c] + Len(heard[c]))
      <4>1. heard[c] = <<>> /\ since[c] = 0 /\ all = <<>>
        BY <2>2, <3>1
      <4>2. since[c] + 1 = 1 /\ since[c] + Len(heard[c]) = 0
        BY <3>2, <4>1
      <4> QED BY <3>2, <4>1, <4>2
    <3> QED BY <2>1, <3>3, <3>4 DEF Windows
  <2>4. CASE on # {}
    <3>1. all = <<Joined>> /\ \A c \in Clients : heard[c] = IF c \in on THEN <<Joined>> ELSE <<>>
      BY <2>4 DEF Init, BrokerInit
    <3>2. \A c \in Clients : Served(c) => c \in on
      BY <1>1 DEF Init, BrokerInit, Served
    <3>3. /\ Len(<<Joined>>) = 1 /\ Len(<<>>) = 0
          /\ SubSeq(<<Joined>>, 1, 0) = <<>> /\ SubSeq(<<Joined>>, 1, 1) = <<Joined>>
      <4>1. <<Joined>> \in Seq(AnyLine) /\ Len(<<Joined>>) = 1
        BY <1>5
      <4>2. SubSeq(<<Joined>>, 1, Len(<<Joined>>)) = <<Joined>>
        BY <4>1, SubSeqFull
      <4> QED BY <4>1, <4>2, SubSeqEmpty
    <3>4. ASSUME NEW c \in Clients
          PROVE  /\ Len(heard[c]) <= Len(all) - since[c]
                 /\ heard[c] = SubSeq(all, since[c] + 1, since[c] + Len(heard[c]))
                 /\ c \in on => Len(heard[c]) = Len(all) - since[c]
      <4>1. since[c] = 0 /\ Len(all) = 1 /\ since[c] + 1 = 1 /\ all = <<Joined>>
        BY <2>2, <3>1, <3>3
      <4>2. CASE c \in on
        <5>1. heard[c] = <<Joined>> /\ since[c] + Len(heard[c]) = 1
          BY <3>1, <3>3, <4>1, <4>2
        <5> QED BY <3>3, <4>1, <5>1
      <4>3. CASE c \notin on
        <5>1. heard[c] = <<>> /\ since[c] + Len(heard[c]) = 0
          BY <3>1, <3>3, <4>1, <4>3
        <5> QED BY <3>3, <4>1, <4>3, <5>1
      <4> QED BY <4>2, <4>3
    <3> QED BY <2>1, <3>2, <3>4 DEF Windows
  <2> QED BY <2>3, <2>4
<1>12. Statuses
  BY DEF Init, BrokerInit, Statuses, Served, Owed, Due
<1>13. Selects
  BY DEF Init, Selects, Idle
<1> QED BY <1>6, <1>7, <1>8, <1>9, <1>10, <1>11, <1>12, <1>13, <1>14 DEF ServiceInv, Typed

-----------------------------------------------------------------------------
(* Which steps touch what. *)

\* The clients of a setup are clients, its lines lines.
LEMMA Planned ==
  ASSUME ToolTyped
  PROVE  plan.clients \subseteq Clients /\ plan.calls \subseteq Requests /\ plan.lines \subseteq Spoken
  BY SetupsAssumption DEF ToolTyped

LEMMA LinkSteps ==
  ASSUME ToolTyped, [Next]_vars
  PROVE  \/ UNCHANGED links
         \/ (Connect \/ ReadLine \/ LoseUpstream \/ FallOut) /\ Rest
         \/ (DllServes \/ DllWrites \/ DllTimesOut \/ DllGoes) /\ Rest
         \/ (\E line \in Spoken : DllSpeaks(line)) /\ Rest
         \/ Send
         \/ (\E c \in Clients : ThreadSends(c)) /\ Rest
<1>1. CASE UNCHANGED vars
  BY <1>1 DEF vars, brokerVars, links
<1>2. CASE Calls
  BY <1>2 DEF Calls, Call
<1>3. CASE Works
  BY <1>3 DEF Works, Check, Lock, WaitEnds, Timeout, LockService, Peek, Return, brokerVars
<1>4. CASE Feed \/ Others
  BY <1>4 DEF Feed, FeedService, Others, Cast, CastEnds
<1>5. CASE (DllServes /\ Rest) \/ Speaks \/ (DllWrites /\ Rest) \/ (DllTimesOut /\ Rest) \/ Drops
  BY <1>5, Planned DEF Speaks, Drops, Rest
<1>6. CASE \E c \in plan.clients : Thread(c) /\ Rest
  BY <1>6, Planned DEF Thread, ThreadReads, ThreadLocks, ThreadEnds
<1>7. CASE (\E c \in plan.clients : Accept(c) /\ Rest) \/ (ReadStatus /\ Rest) \/ (Greet /\ Rest)
  BY <1>7 DEF Accept, ReadStatus, Greet
<1>8. CASE (\E c \in plan.clients : Writes(c)) \/ (\E c \in plan.clients : ClientReads(c) /\ Rest) \/ Stalls \/ Leaves
  BY <1>8 DEF Writes, ClientWrites, ClientReads, Stalls, ClientStalls, Leaves, ClientGoes
<1> QED BY <1>1, <1>2, <1>3, <1>4, <1>5, <1>6, <1>7, <1>8 DEF Next

\* What becomes of a line that send_upstream is given.
LEMMA ForwardsTyped ==
  ASSUME LinkTyped, NEW line \in AnyLine, Forwards(line)
  PROVE  LinkTyped'
<1>1. CASE ~held /\ UNCHANGED links
  BY <1>1 DEF LinkTyped, links
<1>2. CASE held /\ sess # "open" /\ held' = FALSE /\ (\E n \in 0 .. Len(up) : up' = SubSeq(up, 1, n)) /\ UNCHANGED <<dll, sess, down>>
  <2>1. PICK n \in 0 .. Len(up) : up' = SubSeq(up, 1, n)
    BY <1>2
  <2>2. up' \in Seq(AnyLine) /\ Len(up') <= MaxUp
    BY <2>1, BrokerAssumption DEF LinkTyped
  <2> QED BY <1>2, <2>2 DEF LinkTyped
<1>3. CASE held /\ sess = "open" /\ Len(down) < MaxDown /\ down' = Append(down, line) /\ UNCHANGED <<dll, sess, held, up>>
  <2>1. down' \in Seq(AnyLine) /\ Len(down') <= MaxDown
    BY <1>3, QueueSeq, BrokerAssumption DEF LinkTyped
  <2> QED BY <1>3, <2>1 DEF LinkTyped
<1>4. CASE held /\ sess = "hungup" /\ UNCHANGED links
  BY <1>4 DEF LinkTyped, links
<1> QED BY <1>1, <1>2, <1>3, <1>4 DEF Forwards

LEMMA LinkKept ==
  ASSUME Typed, [Next]_vars
  PROVE  LinkTyped'
<1> USE DEF Typed
<1>1. CASE UNCHANGED links
  BY <1>1 DEF LinkTyped, links
<1>2. CASE Connect
  BY <1>2 DEF Connect, LinkTyped
<1>3. CASE ReadLine
  <2>1. up' \in Seq(AnyLine) /\ Len(up') <= MaxUp
    BY <1>3, QueueSeq, BrokerAssumption DEF ReadLine, LinkTyped
  <2> QED BY <1>3, <2>1 DEF ReadLine, LinkTyped
<1>4. CASE LoseUpstream
  BY <1>4 DEF LoseUpstream, LinkTyped
<1>5. ASSUME dll' = [dll EXCEPT !.line = None], up' = up \/ up' = <<>>, down' = <<>>, sess' \in {"none", "hungup"},
             held' = FALSE \/ (held' = held /\ sess' = "hungup")
      PROVE  LinkTyped'
  <2>1. up' \in Seq(AnyLine) /\ Len(up') <= MaxUp /\ down' \in Seq(AnyLine) /\ Len(down') <= MaxDown
    <3>1. MaxUp \in Nat /\ MaxDown \in Nat
      BY BrokerAssumption
    <3>2. <<>> \in Seq(AnyLine) /\ Len(<<>>) = 0
      OBVIOUS
    <3>3. up' \in Seq(AnyLine) /\ Len(up') <= MaxUp
      <4>1. CASE up' = up
        BY <4>1 DEF LinkTyped
      <4>2. CASE up' = <<>>
        BY <3>1, <3>2, <4>2
      <4> QED BY <1>5, <4>1, <4>2
    <3> QED BY <1>5, <3>1, <3>2, <3>3
  <2> QED BY <1>5, <2>1 DEF LinkTyped
<1>6. CASE FallOut
  BY <1>5, <1>6 DEF FallOut
<1>7. CASE DllTimesOut \/ DllGoes
  BY <1>5, <1>7 DEF DllTimesOut, DllGoes, HangsUp
<1>8. CASE DllServes
  <2>1. Head(down) \in AnyLine /\ down' \in Seq(AnyLine) /\ Len(down') <= MaxDown
    BY <1>8, QueueSeq, BrokerAssumption DEF DllServes, LinkTyped
  <2>2. Answer(Head(down)) \in AnyLine
    BY <2>1, LinesTyped
  <2>3. dll' \in [line : AnyLine \cup {None}, target : Targets \cup Int \cup {None}]
    BY <1>8, <2>2 DEF DllServes, LinkTyped, AnyLine
  <2> QED BY <1>8, <2>1, <2>3 DEF DllServes, LinkTyped
<1>9. CASE DllWrites
  <2>1. up' \in Seq(AnyLine) /\ Len(up') <= MaxUp
    BY <1>9, QueueSeq, BrokerAssumption DEF DllWrites, LinkTyped
  <2> QED BY <1>9, <2>1 DEF DllWrites, LinkTyped
<1>10. ASSUME NEW line \in Spoken, DllSpeaks(line) PROVE LinkTyped'
  BY <1>10, LinesTyped DEF DllSpeaks, LinkTyped
<1>11. CASE Send
  <2>1. tool.pc = "send"
    BY <1>11, BrokerAssumption DEF Send, LocksHeld
  <2> QED BY <1>11, <2>1, ForwardsTyped DEF Send, ToolTyped
<1>12. ASSUME NEW c \in Clients, ThreadSends(c) PROVE LinkTyped'
  <2>1. thread[c] \in AnyLine
    BY <1>12, LinesTyped DEF ThreadSends, LocksHeld
  <2> QED BY <1>12, <2>1, ForwardsTyped DEF ThreadSends
<1> QED BY <1>1, <1>2, <1>3, <1>4, <1>6, <1>7, <1>8, <1>9, <1>10, <1>11, <1>12, LinkSteps

LEMMA UpstreamSteps ==
  ASSUME ToolTyped, [Next]_vars
  PROVE  \/ UNCHANGED <<upstream, status, listener, all>>
         \/ (Connect \/ ReadLine \/ FeedService \/ Cast \/ CastEnds \/ LoseUpstream \/ FallOut) /\ UNCHANGED <<plan>>
         \/ ((\E c \in Clients : Accept(c)) \/ ReadStatus \/ Greet) /\ Rest
<1>1. CASE UNCHANGED vars
  BY <1>1 DEF vars, brokerVars, threads, history
<1>2. CASE Calls \/ Works
  BY <1>2 DEF Calls, Call, Works, Check, Lock, Send, WaitEnds, Timeout, LockService, Peek, Return, brokerVars, threads, history
<1>3. CASE Feed \/ Others
  BY <1>3 DEF Feed, Others, Rest
<1>4. CASE (DllServes /\ Rest) \/ Speaks \/ (DllWrites /\ Rest) \/ (DllTimesOut /\ Rest) \/ Drops
  BY <1>4 DEF DllServes, Speaks, DllSpeaks, DllWrites, DllTimesOut, Drops, DllGoes, HangsUp, threads, history
<1>5. CASE \E c \in plan.clients : Thread(c) /\ Rest
  BY <1>5 DEF Thread, ThreadReads, ThreadLocks, ThreadSends, ThreadEnds, threads, history
<1>6. CASE (\E c \in plan.clients : Accept(c) /\ Rest) \/ (ReadStatus /\ Rest) \/ (Greet /\ Rest)
  BY <1>6, Planned
<1>7. CASE (\E c \in plan.clients : Writes(c)) \/ (\E c \in plan.clients : ClientReads(c) /\ Rest) \/ Stalls \/ Leaves
  BY <1>7 DEF Writes, ClientWrites, ClientReads, Stalls, ClientStalls, Leaves, ClientGoes, threads, history
<1> QED BY <1>1, <1>2, <1>3, <1>4, <1>5, <1>6, <1>7 DEF Next

LEMMA UpstreamKept ==
  ASSUME Typed, [Next]_vars
  PROVE  UpstreamTyped'
<1> USE DEF Typed
<1>1. CASE UNCHANGED <<upstream, status, listener, all>>
  BY <1>1 DEF UpstreamTyped
<1>2. ASSUME NEW line \in AnyLine, Casting(line), UNCHANGED <<status, listener>> PROVE UpstreamTyped'
  <2>1. Append(all, line) \in Seq(AnyLine)
    BY QueueSeq DEF UpstreamTyped
  <2> QED BY <1>2, <2>1 DEF Casting, UpstreamTyped, ClientsTyped
<1>3. CASE Connect \/ LoseUpstream
  BY <1>2, <1>3, LinesTyped DEF Connect, LoseUpstream
<1>4. CASE ReadLine
  <2>1. Head(up) \in AnyLine
    BY <1>4, QueueSeq DEF ReadLine, LinkTyped
  <2> QED BY <1>4, <2>1 DEF ReadLine, UpstreamTyped, history
<1>5. CASE FeedService
  <2>1. CASE upstream.line.op = "malformed"
    BY <1>5, <2>1 DEF FeedService, UpstreamTyped
  <2> QED BY <1>2, <1>5, <2>1 DEF FeedService, UpstreamTyped
<1>6. CASE Cast
  <2>1. Tail(upstream.todo) \in Seq(Clients)
    BY <1>6, QueueSeq DEF Cast, UpstreamTyped
  <2> QED BY <1>6, <2>1 DEF Cast, UpstreamTyped
<1>7. CASE CastEnds
  BY <1>7 DEF CastEnds, UpstreamTyped, history
<1>8. CASE FallOut
  <2>1. <<>> \in Seq(Clients)
    OBVIOUS
  <2> QED BY <1>8, <2>1 DEF FallOut, UpstreamTyped, history
<1>9. ASSUME NEW c \in Clients, Accept(c) PROVE UpstreamTyped'
  BY <1>9 DEF Accept, UpstreamTyped
<1>10. CASE ReadStatus \/ Greet
  BY <1>10 DEF ReadStatus, Greet, UpstreamTyped, history
<1> QED BY <1>1, <1>3, <1>4, <1>5, <1>6, <1>7, <1>8, <1>9, <1>10, UpstreamSteps

LEMMA ClientSteps ==
  ASSUME ToolTyped, [Next]_vars
  PROVE  \/ UNCHANGED <<clients, since, heard, seen, overtaken>>
         \/ (Cast \/ (\E c \in Clients : Accept(c)) \/ Greet) /\ Rest
         \/ \E c \in Clients : (ThreadReads(c) \/ ThreadSends(c) \/ ThreadEnds(c)) /\ Rest
         \/ \E c \in Clients : Writes(c)
         \/ \E c \in Clients : (ClientReads(c) \/ ClientStalls(c) \/ ClientGoes(c)) /\ Rest
<1>1. CASE UNCHANGED vars
  BY <1>1 DEF vars, brokerVars, clients, history
<1>2. CASE Calls \/ Works
  BY <1>2 DEF Calls, Call, Works, Check, Lock, Send, WaitEnds, Timeout, LockService, Peek, Return, brokerVars, clients, history
<1>3. CASE Feed \/ Others
  BY <1>3 DEF Feed, Others, FeedService, Connect, ReadLine, CastEnds, LoseUpstream, FallOut, clients, history
<1>4. CASE (DllServes /\ Rest) \/ Speaks \/ (DllWrites /\ Rest) \/ (DllTimesOut /\ Rest) \/ Drops
  BY <1>4 DEF DllServes, Speaks, DllSpeaks, DllWrites, DllTimesOut, Drops, DllGoes, HangsUp, clients, history
<1>5. CASE \E c \in plan.clients : Thread(c) /\ Rest
  BY <1>5, Planned DEF Thread, ThreadLocks, clients, history
<1>6. CASE (\E c \in plan.clients : Accept(c) /\ Rest) \/ (ReadStatus /\ Rest) \/ (Greet /\ Rest)
  BY <1>6, Planned DEF ReadStatus, clients, history
<1>7. CASE (\E c \in plan.clients : Writes(c)) \/ (\E c \in plan.clients : ClientReads(c) /\ Rest) \/ Stalls \/ Leaves
  <2>1. CASE \E c \in plan.clients : Writes(c)
    <3>1. PICK c \in plan.clients : Writes(c)
      BY <2>1
    <3>2. c \in Clients
      BY Planned
    <3> QED BY <3>1, <3>2
  <2>2. CASE \E c \in plan.clients : ClientReads(c) /\ Rest
    BY <2>2, Planned
  <2>3. CASE Stalls
    BY <2>3, Planned DEF Stalls
  <2>4. CASE Leaves
    BY <2>4, Planned DEF Leaves
  <2> QED BY <1>7, <2>1, <2>2, <2>3, <2>4
<1> QED BY <1>1, <1>2, <1>3, <1>4, <1>5, <1>6, <1>7 DEF Next

LEMMA ClientsKept ==
  ASSUME Typed, Registered, [Next]_vars
  PROVE  ClientsTyped' /\ HistoryTyped'
<1> USE DEF Typed
<1>10. \A c : Without(c) \in Seq(Clients)
  BY WithoutSeq DEF ClientsTyped, Registered
<1>1. CASE UNCHANGED <<clients, since, heard, seen, overtaken>>
  BY <1>1 DEF ClientsTyped, HistoryTyped, clients
<1>2. ASSUME NEW c \in Clients, NEW line \in AnyLine, Lines(c, line), Len(buf[c]) < MaxBuf
      PROVE  /\ buf' \in [Clients -> Seq(AnyLine)] /\ \A d \in Clients : Len(buf'[d]) <= MaxBuf
             /\ seen' \in [Clients -> AnyLine \cup {None}]
  <2>1. Append(buf[c], line) \in Seq(AnyLine) /\ Len(Append(buf[c], line)) <= MaxBuf
    BY <1>2, QueueSeq, BrokerAssumption DEF ClientsTyped
  <2>2. buf' = [buf EXCEPT ![c] = Append(buf[c], line)]
    BY <1>2 DEF Lines
  <2>3. seen' = [seen EXCEPT ![c] = IF IsStatus(line) THEN line ELSE seen[c]]
    BY <1>2 DEF Lines
  <2> QED BY <2>1, <2>2, <2>3 DEF ClientsTyped, HistoryTyped
<1>3. CASE Cast
  <2> DEFINE c == Head(upstream.todo)
  <2>1. c \in Clients /\ upstream.line \in AnyLine
    BY <1>3, QueueSeq DEF Cast, UpstreamTyped
  <2>2. CastTo(c) /\ UNCHANGED <<peer, asks, thread, since>>
    BY <1>3 DEF Cast
  <2> HIDE DEF c
  <2>3. overtaken' \in SUBSET Clients
    BY <2>1, <2>2 DEF CastTo, HistoryTyped
  <2>4. CASE peer[c] = "gone"
    <3>1. reg' \in Seq(Clients)
      <4>1. reg' = Without(c)
        BY <2>2, <2>4 DEF CastTo
      <4> QED BY <4>1, <1>10 DEF ClientsTyped
    <3> QED BY <2>2, <2>3, <2>4, <3>1 DEF CastTo, ClientsTyped, HistoryTyped
  <2>5. CASE peer[c] # "gone"
    <3>1. Append(heard[c], upstream.line) \in Seq(AnyLine)
      BY <2>1, QueueSeq DEF HistoryTyped
    <3>2. heard' \in [Clients -> Seq(AnyLine)]
      BY <2>1, <2>2, <2>5, <3>1 DEF CastTo, HistoryTyped
    <3>3. Lines(c, upstream.line) /\ Len(buf[c]) < MaxBuf /\ UNCHANGED reg
      BY <2>2, <2>5 DEF CastTo
    <3> QED BY <1>2, <2>1, <2>2, <2>3, <3>2, <3>3 DEF ClientsTyped, HistoryTyped
  <2> QED BY <2>4, <2>5
<1>4. ASSUME NEW c \in Clients, Accept(c) PROVE ClientsTyped' /\ HistoryTyped'
  <2>1. reg' \in Seq(Clients)
    BY <1>4, QueueSeq DEF Accept, ClientsTyped
  <2>2. Len(all) \in Nat
    BY DEF HistoryTyped
  <2> QED BY <1>4, <2>1, <2>2 DEF Accept, ClientsTyped, HistoryTyped
<1>5. CASE Greet
  <2> DEFINE c == listener.client
  <2>1. c \in Clients /\ listener.text \in AnyLine
    BY <1>5 DEF Greet, UpstreamTyped
  <2>2. /\ thread' = [thread EXCEPT ![c] = None] /\ UNCHANGED <<reg, peer, asks, since, heard, overtaken>>
        /\ UNCHANGED <<buf, seen>> \/ (Len(buf[c]) < MaxBuf /\ Lines(c, listener.text))
    BY <1>5 DEF Greet
  <2> QED BY <1>2, <2>1, <2>2 DEF ClientsTyped, HistoryTyped
<1>6. ASSUME NEW c \in Clients, ThreadReads(c) \/ ThreadSends(c) PROVE ClientsTyped' /\ HistoryTyped'
  <2>1. asks[c] # <<>> => Head(asks[c]) \in Commands /\ Tail(asks[c]) \in Seq(Commands)
    BY QueueSeq DEF ClientsTyped
  <2> QED BY <1>6, <2>1 DEF ThreadReads, ThreadSends, ClientsTyped, HistoryTyped, history
<1>7. ASSUME NEW c \in Clients, ThreadEnds(c) PROVE ClientsTyped' /\ HistoryTyped'
  BY <1>7, <1>10 DEF ThreadEnds, ClientsTyped, HistoryTyped, history
<1>8. ASSUME NEW c \in Clients, Writes(c) PROVE ClientsTyped' /\ HistoryTyped'
  <2>1. PICK command \in Commands : ClientWrites(c, command)
    BY <1>8 DEF Writes
  <2>2. <<command>> \in Seq(Commands)
    OBVIOUS
  <2> QED BY <2>1, <2>2 DEF ClientWrites, ClientsTyped, HistoryTyped, history
<1>9. ASSUME NEW c \in Clients, ClientReads(c) \/ ClientStalls(c) \/ ClientGoes(c) PROVE ClientsTyped' /\ HistoryTyped'
  <2>1. buf[c] # <<>> => Tail(buf[c]) \in Seq(AnyLine) /\ Len(Tail(buf[c])) <= MaxBuf
    BY QueueSeq, BrokerAssumption DEF ClientsTyped
  <2>2. <<>> \in Seq(AnyLine) /\ Len(<<>>) <= MaxBuf
    BY BrokerAssumption
  <2> QED BY <1>9, <2>1, <2>2 DEF ClientReads, ClientStalls, ClientGoes, ClientsTyped, HistoryTyped, history
<1> QED BY <1>1, <1>3, <1>4, <1>5, <1>6, <1>7, <1>8, <1>9, ClientSteps

LEMMA ToolSteps ==
  ASSUME ToolTyped, [Next]_vars
  PROVE  \/ Rest
         \/ (\E call \in Requests : Call(call)) \/ Works \/ Feed
         \/ UNCHANGED <<plan, world>> /\ \E b \in BOOLEAN : (b => tool.alone) /\ tool' = [tool EXCEPT !.alone = b]
<1>1. CASE UNCHANGED vars
  BY <1>1 DEF vars, Rest
<1>2. CASE Calls
  BY <1>2, Planned DEF Calls
<1>3. CASE Speaks \/ Drops \/ Stalls \/ Leaves \/ Others
  BY <1>3 DEF Speaks, Drops, Stalls, Leaves, Others, Rest
<1>4. CASE \E c \in plan.clients : Writes(c)
  <2>1. PICK command \in Commands : /\ tool' = [tool EXCEPT !.alone = @ /\ command.op # "target"]
                                    /\ UNCHANGED <<plan, world>>
    BY <1>4 DEF Writes
  <2> QED BY <2>1 DEF ToolTyped, Tools
<1> QED BY <1>1, <1>2, <1>3, <1>4 DEF Next

LEMMA GoesTyped ==
  ASSUME NEW t \in Tools, NEW todo \in Seq(CallSteps)
  PROVE  /\ Goes(t, todo) \in Tools /\ Goes(t, todo).todo = todo
         /\ Goes(t, todo).answer = t.answer /\ Goes(t, todo).call = t.call /\ Goes(t, todo).alone = t.alone
         /\ Goes(t, todo).pc \in {"ok", "check", "wait"}
         /\ Goes(t, todo).pc = "ok" <=> todo = <<>>
         /\ Goes(t, todo).pc = "check" => Head(todo).line \in AnyLine
<1>1. todo # <<>> => Head(todo) \in CallSteps
  BY QueueSeq
<1> QED BY <1>1 DEF Goes, Tools, CallSteps

LEMMA StartedTyped ==
  ASSUME Typed, NEW call \in Requests, Call(call)
  PROVE  /\ tool' \in Tools
         /\ tool'.call = call /\ tool'.alone = ~InFlight /\ tool'.answer = None
         /\ IF call.op = "state" THEN tool'.pc = "lock service" /\ tool'.todo = <<>>
            ELSE tool'.todo = Steps(call) /\ tool'.pc = Goes(Idle, Steps(call)).pc
<1>1. Idle \in Tools /\ Idle.answer = None /\ Idle.todo = <<>>
  BY DEF Idle, Tools
<1>2. Steps(call) \in Seq(CallSteps)
  BY StepsTyped DEF Call, Typed, ToolTyped
<1>3. Goes(Idle, Steps(call)) \in Tools /\ Goes(Idle, Steps(call)).todo = Steps(call) /\ Goes(Idle, Steps(call)).answer = None
  BY <1>1, <1>2, GoesTyped
<1> DEFINE t == IF call.op = "state" THEN [Idle EXCEPT !.pc = "lock service"] ELSE Goes(Idle, Steps(call))
<1>4. t \in Tools /\ t.answer = None
  BY <1>1, <1>3 DEF Tools
<1>5. tool' = [t EXCEPT !.call = call, !.old = upstream.pc = "feed", !.alone = ~InFlight]
  BY DEF Call, Started
<1>6. t.todo = (IF call.op = "state" THEN <<>> ELSE Steps(call))
      /\ t.pc = (IF call.op = "state" THEN "lock service" ELSE Goes(Idle, Steps(call)).pc)
  BY <1>1, <1>3 DEF Tools
<1>7. (upstream.pc = "feed") \in BOOLEAN /\ (~InFlight) \in BOOLEAN
  OBVIOUS
<1> HIDE DEF t
<1> QED BY <1>4, <1>5, <1>6, <1>7 DEF Tools

LEMMA ToolKept ==
  ASSUME Typed, [Next]_vars
  PROVE  ToolTyped'
<1> USE DEF Typed
<1>1. CASE Rest
  BY <1>1 DEF Rest, ToolTyped
<1>2. ASSUME NEW call \in Requests, Call(call) PROVE ToolTyped'
  <2>1. Steps(call) \in Seq(CallSteps) /\ UNCHANGED <<plan, world>>
    BY <1>2, StepsTyped DEF Call, ToolTyped
  <2>4. Idle \in Tools
    BY DEF Idle, Tools
  <2>2. CASE call.op = "state"
    BY <1>2, <2>1, <2>2, StartedTyped DEF ToolTyped
  <2>3. CASE call.op # "state"
    <3>1. tool' \in Tools /\ tool'.todo = Steps(call) /\ tool'.pc = Goes(Idle, Steps(call)).pc
      BY <1>2, <2>3, StartedTyped
    <3> DEFINE pc == Goes(Idle, Steps(call)).pc
    <3>2. /\ pc \in {"ok", "check", "wait"} /\ (pc = "ok" <=> Steps(call) = <<>>)
          /\ pc = "check" => Head(Steps(call)).line \in AnyLine
      BY <2>1, <2>4, GoesTyped
    <3> HIDE DEF pc
    <3> QED BY <2>1, <3>1, <3>2 DEF ToolTyped, pc
  <2> QED BY <2>2, <2>3
<1>3. CASE Works
  <2>1. UNCHANGED <<plan, world>>
    BY <1>3 DEF Works, Check, Lock, Send, WaitEnds, Timeout, LockService, Peek, Return
  <2>2. CASE Check \/ Lock \/ Send \/ Timeout \/ LockService \/ Peek
    <3>1. upLock = Tool => tool.pc = "send"
      BY DEF LocksHeld
    <3>2. \E pc \in {"lock", "error", "send", "wait", "peek", "ok"} :
             tool' = [tool EXCEPT !.pc = pc] /\ (pc \in {"lock", "send", "wait"} => tool.pc \in {"check", "lock", "send"})
      BY <2>2, <3>1 DEF Check, Lock, Send, Timeout, LockService, Peek
    <3> QED BY <2>1, <3>2 DEF ToolTyped, Tools
  <2>3. CASE WaitEnds
    <3>1. tool.todo # <<>> /\ Tail(tool.todo) \in Seq(CallSteps)
      BY <2>3, QueueSeq DEF WaitEnds, ToolTyped, Tools
    <3>2. CASE tool' = [tool EXCEPT !.pc = "error"]
      BY <2>1, <3>2 DEF ToolTyped, Tools
    <3>3. CASE tool' = Goes(tool, Tail(tool.todo))
      <4>1. /\ tool' \in Tools /\ tool'.todo = Tail(tool.todo) /\ tool'.pc \in {"ok", "check", "wait"}
            /\ tool'.pc = "ok" <=> tool'.todo = <<>>
            /\ tool'.pc = "check" => Head(tool'.todo).line \in AnyLine
        <5>1. tool \in Tools
          BY DEF ToolTyped
        <5> QED BY <3>1, <3>3, <5>1, GoesTyped
      <4> QED BY <2>1, <4>1 DEF ToolTyped
    <3> QED BY <2>3, <3>2, <3>3 DEF WaitEnds
  <2>4. CASE Return
    <3>1. Idle \in Tools /\ Idle.pc = "idle"
      BY DEF Idle, Tools
    <3>3. tool.answer \in AnyLine \cup {None}
      BY DEF Tools, ToolTyped
    <3>2. tool' \in Tools /\ tool'.pc = "idle"
      BY <2>4, <3>1, <3>3 DEF Return, Tools
    <3> QED BY <2>1, <3>2 DEF ToolTyped
  <2> QED BY <1>3, <2>2, <2>3, <2>4 DEF Works
<1>4. CASE Feed
  <2>1. upstream.line \in AnyLine
    BY <1>4 DEF Feed, FeedService, UpstreamTyped
  <2>2. world' \in [pos : Int \cup {None}, resting : BOOLEAN \cup {None}, drops : SUBSET Targets]
    BY <1>4, <2>1 DEF Feed, ToolTyped, AnyLine
  <2>3. PICK answer \in AnyLine \cup {None}, news \in SUBSET Ops :
          tool' = [tool EXCEPT !.answer = answer, !.news = news, !.old = FALSE]
    <3>1. upstream.line.op \in Ops
      BY <2>1 DEF AnyLine, Ops
    <3> QED BY <1>4, <2>1, <3>1 DEF Feed, ToolTyped, Tools
  <2> QED BY <1>4, <2>2, <2>3 DEF Feed, ToolTyped, Tools
<1>5. ASSUME NEW b \in BOOLEAN, tool' = [tool EXCEPT !.alone = b], UNCHANGED <<plan, world>> PROVE ToolTyped'
  BY <1>5 DEF ToolTyped, Tools
<1> QED BY <1>1, <1>2, <1>3, <1>4, <1>5, ToolSteps

\* Which steps touch the locks, their holders and the threads.
LEMMA LockSteps ==
  ASSUME ToolTyped, [Next]_vars
  PROVE  \/ UNCHANGED <<upLock, svcLock, thread, tool.pc>>
         \/ (\E call \in Requests : Call(call)) \/ Works
         \/ (\E c \in Clients : Thread(c)) /\ Rest
         \/ Greet /\ Rest
<1>1. CASE UNCHANGED vars
  BY <1>1 DEF vars, brokerVars, threads, clients
<1>2. CASE Calls
  BY <1>2, Planned DEF Calls
<1>3. CASE Feed \/ Others
  <2>1. CASE Feed
    <3>1. tool'.pc = tool.pc
      BY <2>1 DEF Feed, ToolTyped, Tools
    <3> QED BY <2>1, <3>1 DEF Feed, FeedService, clients
  <2>2. CASE Others
    BY <2>2 DEF Others, Connect, ReadLine, Cast, CastEnds, LoseUpstream, FallOut, clients, Rest
  <2> QED BY <1>3, <2>1, <2>2
<1>4. CASE (DllServes /\ Rest) \/ Speaks \/ (DllWrites /\ Rest) \/ (DllTimesOut /\ Rest) \/ Drops
  BY <1>4 DEF DllServes, Speaks, DllSpeaks, DllWrites, DllTimesOut, Drops, DllGoes, HangsUp, threads, clients, Rest
<1>5. CASE \E c \in plan.clients : Thread(c) /\ Rest
  BY <1>5, Planned
<1>6. CASE (\E c \in plan.clients : Accept(c) /\ Rest) \/ (ReadStatus /\ Rest) \/ (Greet /\ Rest)
  BY <1>6 DEF Accept, ReadStatus, clients, Rest
<1>7. CASE \E c \in plan.clients : Writes(c)
  <2>1. PICK command \in Commands : /\ tool' = [tool EXCEPT !.alone = @ /\ command.op # "target"]
                                    /\ UNCHANGED <<threads, thread>>
    BY <1>7 DEF Writes, ClientWrites
  <2>2. tool'.pc = tool.pc
    BY <2>1 DEF ToolTyped, Tools
  <2> QED BY <2>1, <2>2 DEF threads
<1>8. CASE (\E c \in plan.clients : ClientReads(c) /\ Rest) \/ Stalls \/ Leaves
  BY <1>8 DEF ClientReads, Stalls, ClientStalls, Leaves, ClientGoes, threads, Rest
<1> QED BY <1>1, <1>2, <1>3, <1>4, <1>5, <1>6, <1>7, <1>8 DEF Next

LEMMA LocksKept ==
  ASSUME Typed, [Next]_vars
  PROVE  LocksHeld'
<1> USE DEF Typed
<1>1. CASE UNCHANGED <<upLock, svcLock, thread, tool.pc>>
  BY <1>1 DEF LocksHeld
<1>2. ASSUME NEW call \in Requests, Call(call) PROVE LocksHeld'
  <2>1. tool.pc = "idle" /\ UNCHANGED <<upLock, svcLock, thread>>
    BY <1>2 DEF Call, threads, clients
  <2>2. tool'.pc \notin {"send", "peek"}
    <3>1. Idle \in Tools
      BY DEF Idle, Tools
    <3>2. Steps(call) \in Seq(CallSteps)
      BY <1>2, StepsTyped DEF Call, ToolTyped
    <3>3. Goes(Idle, Steps(call)).pc \in {"ok", "check", "wait"}
      BY <3>1, <3>2, GoesTyped
    <3> QED BY <1>2, <3>3, StartedTyped
  <2> QED BY <2>1, <2>2 DEF LocksHeld
<1>3. CASE Works
  <2>1. CASE Check \/ Timeout
    BY <2>1 DEF Check, Timeout, LocksHeld, ToolTyped, Tools, brokerVars, threads, clients
  <2>2. CASE Lock \/ LockService \/ Peek
    BY <2>2, BrokerAssumption DEF Lock, LockService, Peek, TakeUpLock, LocksHeld, ToolTyped, Tools, clients, Senders
  <2>3. CASE Send
    <3>1. tool'.pc \in {"wait", "error"} /\ upLock' = None /\ UNCHANGED <<svcLock, thread>> /\ tool.pc = "send"
      BY <2>3 DEF Send, LocksHeld, ToolTyped, Tools, clients
    <3> QED BY <3>1, BrokerAssumption DEF LocksHeld, Senders
  <2>4. CASE WaitEnds
    <3>1. tool.pc = "wait" /\ UNCHANGED <<upLock, svcLock, thread>>
      BY <2>4 DEF WaitEnds, brokerVars, threads, clients
    <3>2. tool'.pc \notin {"send", "peek"}
      <4>1. Tail(tool.todo) \in Seq(CallSteps) /\ tool \in Tools
        BY <3>1, QueueSeq DEF ToolTyped, Tools
      <4>2. Goes(tool, Tail(tool.todo)).pc \in {"ok", "check", "wait"}
        BY <4>1, GoesTyped
      <4> QED BY <2>4, <4>1, <4>2 DEF WaitEnds, Tools
    <3> QED BY <3>1, <3>2 DEF LocksHeld
  <2>5. CASE Return
    BY <2>5 DEF Return, Idle, LocksHeld, brokerVars, threads, clients
  <2> QED BY <1>3, <2>1, <2>2, <2>3, <2>4, <2>5 DEF Works
<1>4. ASSUME NEW c \in Clients, Thread(c), Rest PROVE LocksHeld'
  <2>1. CASE ThreadReads(c) \/ ThreadEnds(c)
    <3>1. /\ UNCHANGED <<upLock, svcLock, tool>> /\ thread[c] = None
          /\ \A d \in Clients \ {c} : thread'[d] = thread[d]
      BY <1>4, <2>1 DEF ThreadReads, ThreadEnds, threads, Rest, ClientsTyped
    <3> QED BY <3>1, LinesTyped DEF LocksHeld
  <2>2. CASE ThreadLocks(c)
    BY <1>4, <2>2, BrokerAssumption DEF ThreadLocks, TakeUpLock, LocksHeld, Rest, clients, Senders, ClientsTyped
  <2>3. CASE ThreadSends(c)
    BY <1>4, <2>3, BrokerAssumption DEF ThreadSends, LocksHeld, Rest, Senders
  <2> QED BY <1>4, <2>1, <2>2, <2>3 DEF Thread
<1>5. CASE Greet /\ Rest
  <2>1. /\ UNCHANGED <<upLock, svcLock, tool>> /\ listener.client \in Clients
        /\ thread' = [thread EXCEPT ![listener.client] = None]
    BY <1>5 DEF Greet, Rest, UpstreamTyped
  <2>2. upLock # listener.client
    BY <2>1, LinesTyped DEF LocksHeld, Greeted
  <2> QED BY <2>1, <2>2 DEF LocksHeld, ClientsTyped
<1> QED BY <1>1, <1>2, <1>3, <1>4, <1>5, LockSteps

LEMMA GreetedKept ==
  ASSUME Typed, [Next]_vars
  PROVE  Greeted'
<1> USE DEF Typed
<1>1. CASE UNCHANGED <<peer, thread, listener>>
  BY <1>1 DEF Greeted
<1>2. ASSUME NEW c \in Clients, Accept(c) PROVE Greeted'
  BY <1>2 DEF Accept, Greeted, UpstreamTyped, ClientsTyped
<1>3. CASE ReadStatus
  BY <1>3 DEF ReadStatus, Greeted, UpstreamTyped, clients
<1>4. CASE Greet
  BY <1>4, BrokerAssumption DEF Greet, Greeted, UpstreamTyped, ClientsTyped, Senders
<1>5. ASSUME NEW c \in Clients, ThreadReads(c) \/ ThreadSends(c) \/ ThreadEnds(c) PROVE Greeted'
  <2>1. thread[c] # Off
    BY <1>5, LinesTyped DEF ThreadReads, ThreadSends, ThreadEnds, LocksHeld
  <2>2. UNCHANGED <<peer, listener>> /\ \A d \in Clients \ {c} : thread'[d] = thread[d]
    BY <1>5 DEF ThreadReads, ThreadSends, ThreadEnds, ClientsTyped, threads
  <2> QED BY <2>1, <2>2 DEF Greeted
<1>6. ASSUME NEW c \in Clients, ClientReads(c) \/ ClientStalls(c) \/ ClientGoes(c) PROVE Greeted'
  BY <1>6 DEF ClientReads, ClientStalls, ClientGoes, threads, Greeted, ClientsTyped
<1>7. ASSUME NEW c \in Clients, Writes(c) PROVE Greeted'
  BY <1>7 DEF Writes, ClientWrites, threads, Greeted
<1>8. CASE Cast
  BY <1>1, <1>8 DEF Cast
<1>9. CASE UNCHANGED <<clients, since, heard, seen, overtaken>>
  <2>1. CASE UNCHANGED <<upstream, status, listener, all>>
    BY <1>1, <1>9, <2>1 DEF clients
  <2>2. CASE Connect \/ ReadLine \/ FeedService \/ Cast \/ CastEnds \/ LoseUpstream \/ FallOut
    BY <1>1, <1>9, <2>2 DEF Connect, ReadLine, FeedService, Cast, CastEnds, LoseUpstream, FallOut, clients
  <2> QED BY <1>2, <1>3, <1>4, <2>1, <2>2, UpstreamSteps
<1> QED BY <1>2, <1>4, <1>5, <1>6, <1>7, <1>8, <1>9, ClientSteps

LEMMA TypedKept ==
  ASSUME Typed, Registered, [Next]_vars
  PROVE  Typed'
  BY LinkKept, UpstreamKept, ClientsKept, ToolKept, LocksKept, GreetedKept DEF Typed

-----------------------------------------------------------------------------
(* The broadcasts. *)

\* Registries, and what is left of a broadcast.
LEMMA OnceSeq ==
  ASSUME NEW S, NEW s \in Seq(S), Once(s)
  PROVE  /\ s # <<>> => /\ Once(Tail(s)) /\ Member(Head(s), s)
                        /\ \A d : Member(d, Tail(s)) <=> Member(d, s) /\ d # Head(s)
         /\ \A e \in S : ~Member(e, s) => /\ Once(Append(s, e))
                                         /\ \A d : Member(d, Append(s, e)) <=> Member(d, s) \/ d = e
<1>1. ASSUME s # <<>>
      PROVE  /\ Once(Tail(s)) /\ Member(Head(s), s)
             /\ \A d : Member(d, Tail(s)) <=> Member(d, s) /\ d # Head(s)
  <2>1. /\ Len(s) \in Nat /\ Len(s) > 0 /\ Head(s) = s[1] /\ Len(Tail(s)) = Len(s) - 1
        /\ \A i \in 1 .. Len(s) - 1 : Tail(s)[i] = s[i + 1]
    BY <1>1, QueueSeq
  <2> DEFINE t == Tail(s)
  <2> HIDE DEF t
  <2>2. Len(t) = Len(s) - 1 /\ \A i \in 1 .. Len(s) - 1 : t[i] = s[i + 1]
    BY <2>1 DEF t
  <2>3. Once(t)
    BY <2>1, <2>2 DEF Once
  <2>4. Member(Head(s), s)
    BY <2>1 DEF Member
  <2>5. ASSUME NEW d, Member(d, t) PROVE Member(d, s) /\ d # Head(s)
    <3>1. PICK i \in 1 .. Len(t) : t[i] = d
      BY <2>5 DEF Member
    <3>2. i + 1 \in 1 .. Len(s) /\ s[i + 1] = d /\ i + 1 # 1
      BY <2>1, <2>2, <3>1
    <3> QED BY <2>1, <3>2 DEF Member, Once
  <2>6. ASSUME NEW d, Member(d, s), d # Head(s) PROVE Member(d, t)
    <3>1. PICK i \in 1 .. Len(s) : s[i] = d
      BY <2>6 DEF Member
    <3>2. i - 1 \in 1 .. Len(t) /\ t[i - 1] = d
      BY <2>1, <2>2, <2>6, <3>1
    <3> QED BY <3>2 DEF Member
  <2> QED BY <2>3, <2>4, <2>5, <2>6 DEF t
<1>2. ASSUME NEW e \in S, ~Member(e, s)
      PROVE  Once(Append(s, e)) /\ \A d : Member(d, Append(s, e)) <=> Member(d, s) \/ d = e
  <2> DEFINE t == Append(s, e)
  <2>1. Len(s) \in Nat /\ Len(t) = Len(s) + 1 /\ \A i \in 1 .. Len(s) + 1 : t[i] = IF i <= Len(s) THEN s[i] ELSE e
    BY QueueSeq
  <2> HIDE DEF t
  <2>2. Once(t)
    BY <1>2, <2>1 DEF Once, Member
  <2>3. ASSUME NEW d PROVE Member(d, t) <=> Member(d, s) \/ d = e
    <3>1. ASSUME Member(d, t) PROVE Member(d, s) \/ d = e
      BY <2>1, <3>1 DEF Member
    <3>2. ASSUME Member(d, s) PROVE Member(d, t)
      BY <2>1, <3>2 DEF Member
    <3>3. Member(e, t)
      <4>1. Len(s) + 1 \in 1 .. Len(t) /\ t[Len(s) + 1] = e
        BY <2>1
      <4> QED BY <4>1 DEF Member
    <3> QED BY <3>1, <3>2, <3>3
  <2> QED BY <2>2, <2>3 DEF t
<1> QED BY <1>1, <1>2

\* A window stays when the whole grows, and grows by its next entry.
LEMMA WindowSeq ==
  ASSUME NEW S, NEW s \in Seq(S), NEW a \in Nat, NEW n \in Nat, a + n <= Len(s)
  PROVE  /\ \A e \in S : SubSeq(Append(s, e), a + 1, a + n) = SubSeq(s, a + 1, a + n)
         /\ a + n < Len(s) =>
              SubSeq(s, a + 1, a + n + 1) = Append(SubSeq(s, a + 1, a + n), s[a + n + 1])
<1>1. /\ SubSeq(s, a + 1, a + n) \in Seq(S) /\ Len(SubSeq(s, a + 1, a + n)) = n
      /\ \A i \in 1 .. n : SubSeq(s, a + 1, a + n)[i] = s[a + i]
  <2>1. \A i \in a + 1 .. a + n : s[i] \in S
    OBVIOUS
  <2> QED BY <2>1, SubSeqProperties
<1>2. ASSUME NEW e \in S PROVE SubSeq(Append(s, e), a + 1, a + n) = SubSeq(s, a + 1, a + n)
  <2> DEFINE t == Append(s, e)
  <2>1. t \in Seq(S) /\ Len(t) = Len(s) + 1 /\ \A i \in 1 .. Len(s) : t[i] = s[i]
    BY QueueSeq
  <2> HIDE DEF t
  <2>2. \A i \in a + 1 .. a + n : t[i] \in S
    BY <2>1
  <2>3. /\ SubSeq(t, a + 1, a + n) \in Seq(S) /\ Len(SubSeq(t, a + 1, a + n)) = n
        /\ \A i \in 1 .. n : SubSeq(t, a + 1, a + n)[i] = t[a + i]
    BY <2>2, SubSeqProperties
  <2>4. \A i \in 1 .. n : SubSeq(t, a + 1, a + n)[i] = SubSeq(s, a + 1, a + n)[i]
    BY <1>1, <2>1, <2>3
  <2> QED BY <1>1, <2>3, <2>4, SeqEqual DEF t
<1>3. ASSUME a + n < Len(s)
      PROVE  SubSeq(s, a + 1, a + n + 1) = Append(SubSeq(s, a + 1, a + n), s[a + n + 1])
  <2> DEFINE w == SubSeq(s, a + 1, a + n)
             v == SubSeq(s, a + 1, a + n + 1)
             x == Append(w, s[a + n + 1])
  <2>1. \A i \in a + 1 .. a + n + 1 : s[i] \in S
    BY <1>3
  <2>2. v \in Seq(S) /\ Len(v) = n + 1 /\ \A i \in 1 .. n + 1 : v[i] = s[a + i]
    BY <2>1, SubSeqProperties
  <2>3. w \in Seq(S) /\ Len(w) = n /\ \A i \in 1 .. n : w[i] = s[a + i]
    BY <1>1
  <2> HIDE DEF w, v
  <2>4. s[a + n + 1] \in S
    BY <1>3
  <2>5. x \in Seq(S) /\ Len(x) = n + 1 /\ \A i \in 1 .. n + 1 : x[i] = IF i <= n THEN w[i] ELSE s[a + n + 1]
    BY <2>3, <2>4, QueueSeq
  <2> HIDE DEF x
  <2>6. ASSUME NEW i \in 1 .. n + 1 PROVE x[i] = v[i]
    <3>1. v[i] = s[a + i]
      BY <2>2
    <3>2. CASE i <= n
      BY <2>3, <2>5, <3>1, <3>2
    <3>3. CASE i = n + 1
      <4>1. x[i] = s[a + n + 1] /\ a + i = a + n + 1
        BY <2>5, <3>3
      <4> QED BY <3>1, <4>1
    <3> QED BY <3>2, <3>3
  <2>7. x = v
    BY <2>2, <2>5, <2>6, SeqEqual
  <2> QED BY <2>7 DEF x, v, w
<1> QED BY <1>2, <1>3

\* Which steps touch the broadcasts, the statuses and who takes part.
LEMMA BroadcastSteps ==
  ASSUME ToolTyped, [Next]_vars
  PROVE  \/ UNCHANGED <<upstream, status, listener, reg, peer, history>>
         \/ Connect \/ ReadLine \/ FeedService \/ Cast \/ CastEnds \/ LoseUpstream \/ FallOut
         \/ (\E c \in Clients : Accept(c)) \/ ReadStatus \/ Greet
         \/ \E c \in Clients : ThreadEnds(c) \/ ClientStalls(c) \/ ClientGoes(c)
<1>1. CASE UNCHANGED <<clients, since, heard, seen, overtaken>>
  <2>1. CASE UNCHANGED <<upstream, status, listener, all>>
    BY <1>1, <2>1 DEF clients, history
  <2> QED BY <2>1, UpstreamSteps
<1>2. ASSUME NEW c \in Clients, ThreadReads(c) \/ ThreadSends(c)
      PROVE  UNCHANGED <<upstream, status, listener, reg, peer, history>>
  BY <1>2 DEF ThreadReads, ThreadSends, threads
<1>3. ASSUME NEW c \in Clients, Writes(c)
      PROVE  UNCHANGED <<upstream, status, listener, reg, peer, history>>
  BY <1>3 DEF Writes, ClientWrites, threads
<1>4. ASSUME NEW c \in Clients, ClientReads(c)
      PROVE  UNCHANGED <<upstream, status, listener, reg, peer, history>>
  BY <1>4 DEF ClientReads, threads
<1> QED BY <1>1, <1>2, <1>3, <1>4, ClientSteps

\* Where a broadcast starts: it is owed to everyone registered.
LEMMA Starts ==
  ASSUME Typed, Connect \/ LoseUpstream \/ (FeedService /\ upstream.line.op # "malformed")
  PROVE  /\ \E line \in AnyLine :
              /\ Casting(line) /\ (upstream.pc = "feed" => line = upstream.line)
              /\ IsStatus(line) => upstream.pc = "feed"
         /\ upstream.pc \in {"connect", "recv", "feed"} /\ UNCHANGED <<status, listener, reg, peer, since, heard, seen, overtaken>>
<1> USE DEF Typed
<1>1. CASE Connect
  <2>1. Casting(Joined) /\ upstream.pc = "connect" /\ ~IsStatus(Joined)
    BY <1>1 DEF Connect, Joined, Told, IsStatus
  <2> QED BY <1>1, <2>1, LinesTyped DEF Connect, clients
<1>2. CASE LoseUpstream
  <2>1. Casting(Lost) /\ upstream.pc = "recv" /\ ~IsStatus(Lost)
    BY <1>2 DEF LoseUpstream, Lost, Told, IsStatus
  <2> QED BY <1>2, <2>1, LinesTyped DEF LoseUpstream, clients
<1>3. CASE FeedService /\ upstream.line.op # "malformed"
  BY <1>3 DEF FeedService, UpstreamTyped, clients
<1> QED BY <1>1, <1>2, <1>3

\* The other steps of the upstream thread between broadcasts.
LEMMA Waits ==
  ASSUME Typed, ReadLine \/ CastEnds \/ FallOut \/ (FeedService /\ upstream.line.op = "malformed")
  PROVE  /\ upstream'.pc # "cast" /\ ~(\E c \in Clients : Due(c))
         /\ UNCHANGED <<listener, reg, peer, history>>
<1> USE DEF Typed
<1>1. upstream'.pc # "cast"
  <2>1. CASE ReadLine
    BY <2>1 DEF ReadLine, UpstreamTyped
  <2>2. CASE CastEnds
    BY <2>2 DEF CastEnds, UpstreamTyped
  <2>3. CASE FallOut
    BY <2>3 DEF FallOut
  <2>4. CASE FeedService /\ upstream.line.op = "malformed"
    BY <2>4 DEF FeedService, UpstreamTyped
  <2> QED BY <2>1, <2>2, <2>3, <2>4
<1>2. ~(\E c \in Clients : Due(c))
  <2>1. CASE upstream.pc # "cast"
    BY <2>1 DEF Due
  <2>2. CASE upstream.todo = <<>>
    BY <2>2 DEF Due, Member
  <2> QED BY <2>1, <2>2 DEF ReadLine, CastEnds, FallOut, FeedService
<1>3. UNCHANGED <<listener, reg, peer, history>>
  BY DEF ReadLine, CastEnds, FallOut, FeedService, clients, history
<1> QED BY <1>1, <1>2, <1>3

\* One step of a broadcast: the next client of the snapshot is no longer due.
LEMMA Casts ==
  ASSUME Typed, Registered, Cast
  PROVE  /\ Head(upstream.todo) \in Clients /\ upstream.pc = "cast" /\ upstream'.pc = "cast"
         /\ upstream'.line = upstream.line /\ upstream.line \in AnyLine
         /\ Once(upstream'.todo) /\ Due(Head(upstream.todo))
         /\ \A c \in Clients : Due(c)' <=> Due(c) /\ c # Head(upstream.todo)
<1>1. upstream.todo \in Seq(Clients) /\ upstream.todo # <<>> /\ upstream.pc = "cast" /\ Once(upstream.todo)
      /\ upstream.line \in AnyLine
  BY DEF Cast, Typed, UpstreamTyped, Registered
<1>2. upstream' = [upstream EXCEPT !.todo = Tail(upstream.todo)]
  BY DEF Cast
<1>3. upstream'.pc = "cast" /\ upstream'.line = upstream.line /\ upstream'.todo = Tail(upstream.todo)
  BY <1>1, <1>2 DEF Typed, UpstreamTyped
<1>4. Head(upstream.todo) \in Clients
  BY <1>1, QueueSeq
<1> QED BY <1>1, <1>3, <1>4, OnceSeq DEF Due

LEMMA RegisteredKept ==
  ASSUME Typed, Registered, [Next]_vars
  PROVE  Registered'
<1> USE DEF Typed
<1>1. CASE UNCHANGED <<upstream, status, listener, reg, peer, history>>
  BY <1>1 DEF Registered, Served, Due, history
<1>2. CASE Connect \/ LoseUpstream \/ (FeedService /\ upstream.line.op # "malformed")
  <2>1. PICK line \in AnyLine : Casting(line)
    BY <1>2, Starts
  <2>2. upstream'.todo = reg /\ UNCHANGED <<reg, peer, heard>>
    BY <1>2, <2>1, Starts DEF Casting
  <2> QED BY <2>2 DEF Registered, Served, Due
<1>3. CASE ReadLine \/ CastEnds \/ FallOut \/ (FeedService /\ upstream.line.op = "malformed")
  BY <1>3, Waits DEF Registered, Served, Due, history
<1>4. CASE Cast
  <2> DEFINE c == Head(upstream.todo)
  <2>1. c \in Clients /\ Once(upstream'.todo) /\ Due(c) /\ \A d \in Clients : Due(d)' <=> Due(d) /\ d # c
    BY <1>4, Casts
  <2>2. CastTo(c) /\ UNCHANGED peer
    BY <1>4 DEF Cast
  <2> HIDE DEF c
  <2>3. CASE peer[c] = "gone"
    <3>1. reg' = Without(c) /\ UNCHANGED heard
      BY <2>2, <2>3 DEF CastTo
    <3>2. Once(reg') /\ \A d : Member(d, reg') <=> Member(d, reg) /\ d # c
      BY <3>1, WithoutSeq DEF Registered, ClientsTyped
    <3> QED BY <2>1, <2>2, <2>3, <3>1, <3>2 DEF Registered, Served
  <2>4. CASE peer[c] # "gone"
    <3>1. UNCHANGED reg /\ heard' = [heard EXCEPT ![c] = Append(heard[c], upstream.line)]
      BY <2>2, <2>4 DEF CastTo
    <3>2. peer[c] # "out"
      BY <2>1 DEF Registered
    <3> QED BY <2>1, <2>2, <3>1, <3>2 DEF Registered, Served, HistoryTyped
  <2> QED BY <2>3, <2>4
<1>5. ASSUME NEW c \in Clients, Accept(c) PROVE Registered'
  <2>1. /\ peer[c] = "out" /\ reg' = Append(reg, c) /\ peer' = [peer EXCEPT ![c] = "in"]
        /\ UNCHANGED <<upstream, heard>>
    BY <1>5 DEF Accept
  <2>2. Once(reg') /\ \A d : Member(d, reg') <=> Member(d, reg) \/ d = c
    BY <2>1, OnceSeq DEF Registered, ClientsTyped
  <2> QED BY <2>1, <2>2 DEF Registered, Served, Due, ClientsTyped
<1>6. CASE ReadStatus \/ Greet
  BY <1>6 DEF ReadStatus, Greet, Registered, Served, Due, clients, history
<1>7. ASSUME NEW c \in Clients, ThreadEnds(c) PROVE Registered'
  <2>1. peer[c] = "gone" /\ reg' = Without(c) /\ UNCHANGED <<upstream, peer, heard>>
    BY <1>7 DEF ThreadEnds, threads, history
  <2>2. Once(reg') /\ \A d : Member(d, reg') <=> Member(d, reg) /\ d # c
    BY <2>1, WithoutSeq DEF Registered, ClientsTyped
  <2> QED BY <2>1, <2>2 DEF Registered, Served, Due
<1>8. ASSUME NEW c \in Clients, ClientStalls(c) \/ ClientGoes(c) PROVE Registered'
  <2>1. PICK state \in {"stalled", "gone"} : peer' = [peer EXCEPT ![c] = state]
    BY <1>8 DEF ClientStalls, ClientGoes
  <2>2. Served(c) /\ UNCHANGED <<upstream, reg, heard>>
    BY <1>8 DEF ClientStalls, ClientGoes, Served, threads, history
  <2> QED BY <2>1, <2>2 DEF Registered, Served, Due, ClientsTyped
<1> QED BY <1>1, <1>2, <1>3, <1>4, <1>5, <1>6, <1>7, <1>8, BroadcastSteps

LEMMA WindowsKept ==
  ASSUME Typed, Registered, Windows, [Next]_vars
  PROVE  Windows'
<1> USE DEF Typed
<1>11. \A c \in Clients : since[c] \in Nat /\ Len(heard[c]) \in Nat /\ since[c] + Len(heard[c]) <= Len(all) /\ Len(all) \in Nat
  BY DEF Windows, HistoryTyped, UpstreamTyped
<1>1. ASSUME UNCHANGED <<upstream, history>>, \A c \in Clients : Served(c)' => Served(c) PROVE Windows'
  BY <1>1 DEF Windows, Due, history
<1>2. CASE Connect \/ LoseUpstream \/ (FeedService /\ upstream.line.op # "malformed")
  <2>1. PICK line \in AnyLine : Casting(line)
    BY <1>2, Starts
  <2>2. /\ upstream'.todo = reg /\ upstream'.pc = "cast" /\ upstream'.line = line /\ all' = Append(all, line)
        /\ upstream.pc # "cast" /\ UNCHANGED <<peer, since, heard>>
    BY <1>2, <2>1, Starts DEF Casting
  <2>3. all' # <<>> /\ Len(all') = Len(all) + 1 /\ all'[Len(all')] = line
    <3>1. all \in Seq(AnyLine)
      BY DEF UpstreamTyped
    <3>2. /\ Len(all) \in Nat /\ Len(Append(all, line)) = Len(all) + 1
          /\ Append(all, line)[Len(all) + 1] = line
      BY <3>1, QueueSeq
    <3>3. Append(all, line) # <<>>
      BY <3>2
    <3> QED BY <2>2, <3>2, <3>3
  <2>4. ASSUME NEW c \in Clients
        PROVE  /\ Len(heard[c]) <= Len(all') - since[c]
               /\ heard[c] = SubSeq(all', since[c] + 1, since[c] + Len(heard[c]))
               /\ Served(c) => Len(heard[c]) = Len(all') - since[c] - 1 /\ Member(c, reg)
    <3>1. heard[c] = SubSeq(all', since[c] + 1, since[c] + Len(heard[c]))
      BY <1>11, <2>2, WindowSeq DEF Windows, UpstreamTyped
    <3>2. ~Due(c)
      BY <2>2 DEF Due
    <3> QED BY <1>11, <2>3, <3>1, <3>2 DEF Windows, Registered
  <2> QED BY <2>2, <2>3, <2>4 DEF Windows, Served, Due
<1>3. CASE ReadLine \/ CastEnds \/ FallOut \/ (FeedService /\ upstream.line.op = "malformed")
  <2>1. upstream'.pc # "cast" /\ UNCHANGED <<peer, all, since, heard>> /\ \A c \in Clients : ~Due(c) /\ ~Due(c)'
    BY <1>3, Waits DEF history, Due
  <2> QED BY <2>1 DEF Windows, Served
<1>4. CASE Cast
  <2> DEFINE c == Head(upstream.todo)
  <2>1. /\ c \in Clients /\ upstream'.line = upstream.line /\ upstream.pc = "cast" /\ Due(c) /\ upstream.line \in AnyLine
        /\ \A d \in Clients : Due(d)' <=> Due(d) /\ d # c
    BY <1>4, Casts
  <2>2. CastTo(c) /\ UNCHANGED <<peer, all, since>>
    BY <1>4 DEF Cast
  <2> HIDE DEF c
  <2>3. CASE peer[c] = "gone"
    <3>1. UNCHANGED heard /\ ~Served(c)
      BY <2>2, <2>3 DEF CastTo, Served
    <3> QED BY <2>1, <2>2, <3>1 DEF Windows, Served
  <2>4. CASE peer[c] # "gone"
    <3>1. heard' = [heard EXCEPT ![c] = Append(heard[c], upstream.line)]
      BY <2>2, <2>4 DEF CastTo
    <3>2. Served(c) /\ Len(heard[c]) = Len(all) - since[c] - 1
      BY <2>1, <2>4 DEF Registered, Windows, Served, ClientsTyped
    <3> DEFINE h == Append(heard[c], upstream.line)
    <3>3. Len(h) = Len(all) - since[c] /\ h = SubSeq(all, since[c] + 1, since[c] + Len(h))
      <4>1. Len(h) = Len(heard[c]) + 1
        BY <2>1, QueueSeq DEF HistoryTyped
      <4>2. since[c] + Len(heard[c]) + 1 = Len(all) /\ upstream.line = all[Len(all)]
        <5>1. upstream.line = all[Len(all)]
          BY <2>1 DEF Windows
        <5> QED BY <1>11, <2>1, <3>2, <5>1
      <4>3. SubSeq(all, since[c] + 1, since[c] + Len(heard[c]) + 1)
             = Append(SubSeq(all, since[c] + 1, since[c] + Len(heard[c])), all[since[c] + Len(heard[c]) + 1])
        <5> DEFINE a == since[c]
                   n == Len(heard[c])
        <5>1. all \in Seq(AnyLine) /\ a \in Nat /\ n \in Nat /\ a + n <= Len(all) /\ a + n < Len(all)
          BY <1>11, <2>1, <4>2 DEF UpstreamTyped
        <5> HIDE DEF a, n
        <5>2. SubSeq(all, a + 1, a + n + 1) = Append(SubSeq(all, a + 1, a + n), all[a + n + 1])
          BY <5>1, WindowSeq
        <5> QED BY <5>2 DEF a, n
      <4>4. heard[c] = SubSeq(all, since[c] + 1, since[c] + Len(heard[c]))
        BY <2>1 DEF Windows
      <4>5. SubSeq(all, since[c] + 1, since[c] + Len(heard[c]) + 1) = h
        BY <4>2, <4>3, <4>4
      <4>6. since[c] + Len(h) = since[c] + Len(heard[c]) + 1 /\ Len(h) = Len(all) - since[c]
        BY <1>11, <2>1, <4>1, <4>2
      <4> HIDE DEF h
      <4> QED BY <4>5, <4>6
    <3>4. heard'[c] = h /\ \A d \in Clients \ {c} : heard'[d] = heard[d]
      BY <2>1, <3>1 DEF HistoryTyped
    <3> HIDE DEF h
    <3>5. ASSUME NEW d \in Clients
          PROVE  /\ Len(heard'[d]) <= Len(all) - since[d]
                 /\ heard'[d] = SubSeq(all, since[d] + 1, since[d] + Len(heard'[d]))
                 /\ Served(d) => Len(heard'[d]) = Len(all) - since[d] - (IF Due(d)' THEN 1 ELSE 0)
      <4>1. CASE d = c
        <5>1. heard'[d] = h /\ ~Due(d)'
          BY <2>1, <3>4, <4>1
        <5>2. Len(h) = Len(all) - since[d] /\ h = SubSeq(all, since[d] + 1, since[d] + Len(h))
          BY <3>3, <4>1
        <5> QED BY <1>11, <5>1, <5>2
      <4>2. CASE d # c
        BY <2>1, <3>4, <4>2 DEF Windows
      <4> QED BY <4>1, <4>2
    <3> QED BY <2>1, <2>2, <3>5 DEF Windows, Served
  <2> QED BY <2>3, <2>4
<1>5. ASSUME NEW c \in Clients, Accept(c) PROVE Windows'
  <2>1. /\ peer[c] = "out" /\ since' = [since EXCEPT ![c] = Len(all)] /\ peer' = [peer EXCEPT ![c] = "in"]
        /\ UNCHANGED <<upstream, all, heard>>
    BY <1>5 DEF Accept
  <2>2. heard[c] = <<>> /\ ~Due(c)
    BY <2>1 DEF Registered
  <2>3. \A d \in Clients : Due(d)' <=> Due(d)
    BY <2>1 DEF Due
  <2>4. ASSUME NEW d \in Clients
        PROVE  /\ Len(heard[d]) <= Len(all) - since'[d]
               /\ heard[d] = SubSeq(all, since'[d] + 1, since'[d] + Len(heard[d]))
               /\ Served(d)' => Len(heard[d]) = Len(all) - since'[d] - (IF Due(d) THEN 1 ELSE 0)
    <3>1. CASE d = c
      <4>1. since'[c] = Len(all) /\ Len(heard[c]) = 0
        BY <2>1, <2>2 DEF HistoryTyped
      <4>2. SubSeq(all, Len(all) + 1, Len(all)) = <<>>
        BY <1>11, SubSeqEmpty
      <4>3. since'[c] + Len(heard[c]) = Len(all) /\ Len(all) - since'[c] = 0
        BY <1>11, <4>1
      <4>4. SubSeq(all, since'[d] + 1, since'[d] + Len(heard[d])) = <<>>
        BY <3>1, <4>1, <4>2, <4>3
      <4>5. Len(heard[d]) = 0 /\ since'[d] = Len(all) /\ ~Due(d) /\ heard[d] = <<>>
        BY <2>2, <3>1, <4>1
      <4>6. heard[d] = SubSeq(all, since'[d] + 1, since'[d] + Len(heard[d]))
        BY <4>4, <4>5
      <4>7. Len(all) - since'[d] = 0 /\ Len(all) - since'[d] - 0 = 0
        BY <1>11, <4>5
      <4>8. Len(heard[d]) <= Len(all) - since'[d]
        BY <4>5, <4>7
      <4>9. Len(heard[d]) = Len(all) - since'[d] - (IF Due(d) THEN 1 ELSE 0)
        BY <4>5, <4>7
      <4> QED BY <4>6, <4>8, <4>9
    <3>2. CASE d # c
      <4>1. since'[d] = since[d] /\ (Served(d)' <=> Served(d))
        BY <2>1, <3>2 DEF HistoryTyped, Served, ClientsTyped
      <4> QED BY <4>1 DEF Windows
    <3> QED BY <3>1, <3>2
  <2> QED BY <2>1, <2>3, <2>4 DEF Windows
<1>6. CASE ReadStatus \/ Greet
  BY <1>6 DEF ReadStatus, Greet, Windows, Served, Due, clients, history
<1>7. CASE \E c \in Clients : ThreadEnds(c) \/ ClientStalls(c) \/ ClientGoes(c)
  <2>1. PICK c \in Clients : ThreadEnds(c) \/ ClientStalls(c) \/ ClientGoes(c)
    BY <1>7
  <2>2. UNCHANGED <<upstream, history>>
    BY <2>1 DEF ThreadEnds, ClientStalls, ClientGoes, threads
  <2>3. UNCHANGED peer \/ (Served(c) /\ \A d \in Clients \ {c} : peer'[d] = peer[d])
    BY <2>1 DEF ThreadEnds, ClientStalls, ClientGoes, Served, ClientsTyped
  <2> QED BY <1>1, <2>2, <2>3 DEF Served
<1>8. CASE UNCHANGED <<upstream, status, listener, reg, peer, history>>
  BY <1>1, <1>8 DEF Served
<1> QED BY <1>2, <1>3, <1>4, <1>5, <1>6, <1>7, <1>8, BroadcastSteps

LEMMA StatusesKept ==
  ASSUME Typed, Registered, Statuses, [Next]_vars
  PROVE  Statuses'
<1> USE DEF Typed
<1>11. ~IsStatus(Empty)
  BY DEF Empty, Told, IsStatus
<1>1. CASE UNCHANGED <<upstream, status, listener, reg, peer, history>>
  BY <1>1 DEF Statuses, Served, Owed, Due, history
<1>2. CASE Connect \/ LoseUpstream \/ (FeedService /\ upstream.line.op # "malformed")
  <2>1. PICK line \in AnyLine : /\ Casting(line) /\ (upstream.pc = "feed" => line = upstream.line)
                                /\ IsStatus(line) => upstream.pc = "feed"
    BY <1>2, Starts
  <2>2. /\ upstream'.todo = reg /\ upstream'.pc = "cast" /\ upstream'.line = line
        /\ upstream.pc \in {"connect", "recv", "feed"} /\ UNCHANGED <<status, listener, reg, peer, seen, overtaken>>
    BY <1>2, <2>1, Starts DEF Casting
  <2>3. IsStatus(line) => upstream.pc = "feed" /\ line = upstream.line /\ status = line
    <3>1. upstream.pc = "feed" /\ IsStatus(upstream.line) => status = upstream.line
      BY DEF Statuses
    <3> QED BY <2>1, <3>1
  <2>4. ASSUME NEW c \in Clients, Served(c), ~Owed(c)' PROVE ~Owed(c)
    <3>1. Due(c)'
      BY <2>2, <2>4 DEF Due, Registered
    <3>2. ~IsStatus(line)
      BY <2>2, <2>4, <3>1 DEF Owed
    <3>3. upstream.pc = "feed" => line = upstream.line
      BY <2>1
    <3> QED BY <2>2, <3>2, <3>3 DEF Owed, Due
  <2> QED BY <2>2, <2>3, <2>4 DEF Statuses, Served
<1>3. CASE CastEnds \/ FallOut \/ (FeedService /\ upstream.line.op = "malformed")
  <2>1. upstream'.pc \notin {"feed", "cast"} /\ UNCHANGED <<status, listener, peer, seen, overtaken>>
    <3>1. CASE CastEnds
      BY <3>1 DEF CastEnds, UpstreamTyped, clients, history
    <3>2. CASE FallOut
      BY <3>2 DEF FallOut, clients, history
    <3>3. CASE FeedService /\ upstream.line.op = "malformed"
      BY <3>3 DEF FeedService, UpstreamTyped, clients
    <3> QED BY <1>3, <3>1, <3>2, <3>3
  <2>2. \A c \in Clients : ~Due(c)
    BY <1>3, Waits
  <2>3. upstream.pc = "feed" => ~IsStatus(upstream.line)
    BY <1>3 DEF CastEnds, FallOut, FeedService, IsStatus
  <2>4. \A c \in Clients : ~Owed(c)
    BY <2>2, <2>3 DEF Owed
  <2> QED BY <2>1, <2>4 DEF Statuses, Served
<1>4. CASE ReadLine
  <2> DEFINE line == Head(up)
  <2>1. /\ upstream.pc = "recv" /\ upstream'.pc = "feed" /\ upstream'.line = line
        /\ status' = (IF IsStatus(line) THEN line ELSE status) /\ UNCHANGED <<listener, peer, seen, overtaken>>
    BY <1>4 DEF ReadLine, UpstreamTyped, clients, history
  <2> HIDE DEF line
  <2>2. \A c \in Clients : ~Owed(c)
    BY <2>1 DEF Owed, Due
  <2>3. \A c \in Clients : Owed(c)' <=> IsStatus(line)
    BY <2>1 DEF Owed, Due
  <2>4. CASE IsStatus(line)
    <3>1. status' = line /\ status' # Empty
      BY <1>11, <2>1, <2>4
    <3> QED BY <2>1, <2>3, <2>4, <3>1 DEF Statuses
  <2>5. CASE ~IsStatus(line)
    BY <2>1, <2>2, <2>3, <2>5 DEF Statuses, Served
  <2> QED BY <2>4, <2>5
<1>5. CASE Cast
  <2> DEFINE c == Head(upstream.todo)
  <2>1. /\ c \in Clients /\ upstream.pc = "cast" /\ upstream'.pc = "cast" /\ upstream'.line = upstream.line /\ Due(c)
        /\ \A d \in Clients : Due(d)' <=> Due(d) /\ d # c
    BY <1>5, Casts
  <2>2. CastTo(c) /\ UNCHANGED <<peer, status, listener>>
    BY <1>5 DEF Cast
  <2> HIDE DEF c
  <2>3. overtaken \subseteq overtaken' /\ overtaken' \subseteq overtaken \cup {c}
    BY <2>2 DEF CastTo
  <2>4. \A d \in Clients \ {c} : Owed(d)' <=> Owed(d)
    BY <2>1 DEF Owed
  <2>5. CASE peer[c] = "gone"
    <3>1. UNCHANGED seen /\ ~Served(c)
      BY <2>2, <2>5 DEF CastTo, Served
    <3> QED BY <2>1, <2>2, <2>3, <2>4, <3>1 DEF Statuses, Served
  <2>6. CASE peer[c] # "gone"
    <3>1. seen' = [seen EXCEPT ![c] = IF IsStatus(upstream.line) THEN upstream.line ELSE seen[c]]
      BY <2>2, <2>6 DEF CastTo, Lines
    <3>2. CASE IsStatus(upstream.line)
      <4>1. status = upstream.line /\ status # Empty /\ seen'[c] = status
        BY <1>11, <2>1, <3>1, <3>2 DEF Statuses, HistoryTyped
      <4>2. c \notin overtaken' /\ listener.client = c => listener.text \in {None, status}
        BY <2>2, <3>2, <4>1 DEF CastTo
      <4>3. \A d \in Clients \ {c} : seen'[d] = seen[d]
        BY <3>1 DEF HistoryTyped
      <4> QED BY <2>1, <2>2, <2>3, <2>4, <4>1, <4>2, <4>3 DEF Statuses, Served
    <3>3. CASE ~IsStatus(upstream.line)
      <4>1. seen' = seen /\ overtaken' = overtaken
        BY <2>2, <3>1, <3>3 DEF HistoryTyped, CastTo
      <4>2. \A d \in Clients : ~Owed(d)
        BY <2>1, <3>3 DEF Owed
      <4> QED BY <2>1, <2>2, <3>3, <4>1, <4>2 DEF Statuses, Served
    <3> QED BY <3>2, <3>3
  <2> QED BY <2>5, <2>6
<1>6. ASSUME NEW c \in Clients, Accept(c) PROVE Statuses'
  <2>1. /\ listener.client = None /\ listener' = [client |-> c, text |-> None]
        /\ \A d \in Clients \ {c} : peer'[d] = peer[d]
        /\ UNCHANGED <<upstream, status, seen, overtaken>>
    BY <1>6 DEF Accept, ClientsTyped
  <2>2. \A d \in Clients : (Owed(d)' <=> Owed(d)) /\ d # None
    BY <2>1, BrokerAssumption DEF Owed, Due, Senders
  <2> QED BY <2>1, <2>2 DEF Statuses, Served
<1>7. CASE ReadStatus
  <2>1. listener'.client = listener.client /\ listener'.text = status /\ UNCHANGED <<upstream, status, peer, seen, overtaken>>
    BY <1>7 DEF ReadStatus, UpstreamTyped, clients, history
  <2>2. \A d \in Clients : Owed(d)' <=> Owed(d)
    BY <2>1 DEF Owed, Due
  <2> QED BY <2>1, <2>2 DEF Statuses, Served
<1>8. CASE Greet
  <2> DEFINE c == listener.client
  <2>1. /\ c \in Clients /\ listener.text # None /\ listener' = [client |-> None, text |-> None]
        /\ UNCHANGED <<upstream, status, peer, overtaken>>
        /\ UNCHANGED seen \/ seen' = [seen EXCEPT ![c] = IF IsStatus(listener.text) THEN listener.text ELSE seen[c]]
        /\ Served(c) => seen' = [seen EXCEPT ![c] = IF IsStatus(listener.text) THEN listener.text ELSE seen[c]]
    BY <1>8 DEF Greet, UpstreamTyped, Lines, Served
  <2> HIDE DEF c
  <2>2. \A d \in Clients : (Owed(d)' <=> Owed(d)) /\ d # None
    BY <2>1, BrokerAssumption DEF Owed, Due, Senders
  <2>3. \A d \in Clients \ {c} : seen'[d] = seen[d]
    BY <2>1 DEF HistoryTyped
  <2>4. status = Empty => ~IsStatus(listener.text)
    BY <1>11, <2>1 DEF Statuses
  <2>5. status = Empty => \A d \in Clients : seen'[d] = None
    BY <2>1, <2>4 DEF Statuses, HistoryTyped
  <2>6. ASSUME Served(c), c \notin overtaken, ~Owed(c)
        PROVE  seen'[c] = IF status = Empty THEN None ELSE status
    <3>1. listener.text = status
      BY <2>1, <2>6 DEF Statuses, c
    <3>2. status # Empty => seen'[c] = status
      BY <2>1, <2>6, <3>1 DEF Statuses, HistoryTyped
    <3> QED BY <2>1, <2>5, <3>2
  <2>7. \A d \in Clients \ {c} : d # listener.client
    BY DEF c
  <2> QED BY <2>1, <2>2, <2>3, <2>5, <2>6, <2>7 DEF Statuses, Served
<1>9. CASE \E c \in Clients : ThreadEnds(c) \/ ClientStalls(c) \/ ClientGoes(c)
  <2>1. PICK c \in Clients : ThreadEnds(c) \/ ClientStalls(c) \/ ClientGoes(c)
    BY <1>9
  <2>2. UNCHANGED <<upstream, status, listener, seen, overtaken>>
    BY <2>1 DEF ThreadEnds, ClientStalls, ClientGoes, threads, history
  <2>3. UNCHANGED peer \/ (Served(c) /\ \A d \in Clients \ {c} : peer'[d] = peer[d])
    BY <2>1 DEF ThreadEnds, ClientStalls, ClientGoes, Served, ClientsTyped
  <2>4. \A d \in Clients : (Owed(d)' <=> Owed(d)) /\ (Served(d)' => Served(d))
    BY <2>2, <2>3 DEF Owed, Due, Served
  <2> QED BY <2>2, <2>4 DEF Statuses
<1> QED BY <1>1, <1>2, <1>3, <1>4, <1>5, <1>6, <1>7, <1>8, <1>9, BroadcastSteps

-----------------------------------------------------------------------------
(* The select. *)

LEMMA HonestLines ==
  ASSUME NEW t, NEW arg
  PROVE  /\ \A u \in {t, arg} : \A line : Honest(line, t, arg) => Honest(line, u, arg)
         /\ \A line : line.op \notin {"target", "selected", "refused"} => Honest(line, t, arg)
         /\ \A line : Honest(line, t, arg) =>
              LET answer == Answer(line)
              IN Honest(answer, IF answer.op = "selected" THEN answer.arg ELSE t, arg)
         /\ Off.op = "off" /\ Honest(Off, t, arg)
<1>1. ASSUME NEW line, Honest(line, t, arg)
      PROVE  LET answer == Answer(line)
             IN Honest(answer, IF answer.op = "selected" THEN answer.arg ELSE t, arg)
  <2>1. CASE line.op = "target"
    <3>1. line.arg = arg
      BY <1>1, <2>1 DEF Honest
    <3>2. CASE arg \in Alive
      <4>1. Answer(line) = [op |-> "selected", arg |-> arg, by |-> line.by]
        BY <2>1, <3>1, <3>2 DEF Answer
      <4> QED BY <4>1 DEF Honest
    <3>3. CASE arg \notin Alive
      <4>1. Answer(line) = [op |-> "refused", arg |-> arg, by |-> line.by]
        BY <2>1, <3>1, <3>3 DEF Answer
      <4> QED BY <3>3, <4>1 DEF Honest
    <3> QED BY <3>2, <3>3
  <2>2. CASE line.op = "move"
    BY <2>2 DEF Honest, Answer, Told
  <2>3. CASE line.op \notin {"target", "move"}
    BY <2>3 DEF Honest, Answer, Told
  <2> QED BY <2>1, <2>2, <2>3
<1>2. Off.op = "off" /\ Honest(Off, t, arg)
  BY DEF Off, Told, Honest
<1>3. \A line : line.op \notin {"target", "selected", "refused"} => Honest(line, t, arg)
  BY DEF Honest
<1>4. \A u \in {t, arg} : \A line : Honest(line, t, arg) => Honest(line, u, arg)
  BY DEF Honest
<1> QED BY <1>1, <1>2, <1>3, <1>4

\* As long as the call goes on and no client asks for a target, what is said of a target is the
\* call's, and nothing but the call's target is selected.
LEMMA OwnKept ==
  ASSUME Typed, OwnTargets, Next, ~Calls, tool'.call = tool.call, tool'.alone,
         tool.pc = "send" => Own(Head(tool.todo).line)
  PROVE  OwnTargets' /\ dll'.target \in {dll.target, tool.call.arg}
<1> USE DEF Typed
<1> DEFINE t == dll.target
           a == tool.call.arg
<1>1. /\ \A i \in 1 .. Len(up) : Honest(up[i], t, a)
      /\ \A i \in 1 .. Len(down) : Honest(down[i], t, a)
      /\ dll.line # None => Honest(dll.line, t, a)
      /\ upstream.pc = "feed" => Honest(upstream.line, t, a)
      /\ \A c \in Clients : \A i \in 1 .. Len(asks[c]) : Honest(asks[c][i], t, a)
      /\ \A c \in Clients : thread[c] # None => Honest(thread[c], t, a)
  BY DEF OwnTargets, Own
<1>2. ASSUME NEW u \in {t, a}, dll'.target = u,
             \A i \in 1 .. Len(up') : Honest(up'[i], u, a),
             \A i \in 1 .. Len(down') : Honest(down'[i], u, a),
             dll'.line # None => Honest(dll'.line, u, a),
             upstream'.pc = "feed" => Honest(upstream'.line, u, a),
             \A c \in Clients : \A i \in 1 .. Len(asks'[c]) : Honest(asks'[c][i], u, a),
             \A c \in Clients : thread'[c] # None => Honest(thread'[c], u, a)
      PROVE  OwnTargets' /\ dll'.target \in {t, a}
  BY <1>2 DEF OwnTargets, Own
<1>3. t \in {t, a} /\ \A line : line.op \notin {"target", "selected", "refused"} => Honest(line, t, a)
  BY HonestLines
<1>20. /\ up \in Seq(AnyLine) /\ down \in Seq(AnyLine) /\ upstream.line \in AnyLine \cup {None}
       /\ dll \in [line : AnyLine \cup {None}, target : Targets \cup Int \cup {None}]
       /\ asks \in [Clients -> Seq(Commands)] /\ thread \in [Clients -> Commands \cup {None, Off}]
  BY DEF LinkTyped, UpstreamTyped, ClientsTyped
<1> DEFINE G == OwnTargets' /\ dll'.target \in {dll.target, tool.call.arg}
<1>25. G <=> OwnTargets' /\ dll'.target \in {t, a}
  OBVIOUS
<1> SUFFICES G
  BY DEF G
<1> HIDE DEF t, a, G
<1>4. CASE UNCHANGED <<links, upstream, asks, thread>>
  BY <1>1, <1>2, <1>3, <1>4, <1>25 DEF links, t
<1>5. ASSUME NEW line, Honest(line, t, a), Forwards(line), UNCHANGED <<upstream, asks>>,
             UNCHANGED thread \/ \E c \in Clients : thread' = [thread EXCEPT ![c] = None]
      PROVE  G
  <2>1. dll' = dll
    BY <1>5 DEF Forwards, links
  <2>2. \A i \in 1 .. Len(up') : Honest(up'[i], t, a)
    <3>1. CASE up' = up
      BY <1>1, <3>1
    <3>2. ASSUME NEW n \in 0 .. Len(up), up' = SubSeq(up, 1, n) PROVE \A i \in 1 .. Len(up') : Honest(up'[i], t, a)
      <4>1. Len(up') = n /\ \A i \in 1 .. n : up'[i] = up[i]
        BY <1>20, <3>2
      <4> QED BY <1>1, <1>20, <4>1
    <3> QED BY <1>5, <3>1, <3>2 DEF Forwards, links
  <2>3. \A i \in 1 .. Len(down') : Honest(down'[i], t, a)
    <3>1. CASE down' = down
      BY <1>1, <3>1
    <3>2. CASE down' = Append(down, line)
      <4>1. Len(down') = Len(down) + 1 /\ \A i \in 1 .. Len(down) + 1 : down'[i] = IF i <= Len(down) THEN down[i] ELSE line
        BY <1>20, <3>2
      <4>2. Len(down) \in Nat
        BY <1>20
      <4>3. ASSUME NEW i \in 1 .. Len(down) + 1 PROVE Honest(down'[i], t, a)
        <5>1. CASE i <= Len(down)
          <6>1. i \in 1 .. Len(down) /\ down'[i] = down[i]
            BY <4>1, <4>2, <5>1
          <6> QED BY <1>1, <6>1
        <5>2. CASE i > Len(down)
          <6>1. down'[i] = line
            BY <4>1, <4>2, <5>2
          <6> QED BY <1>5, <6>1
        <5> QED BY <4>2, <5>1, <5>2
      <4> QED BY <4>1, <4>3
    <3> QED BY <1>5, <3>1, <3>2 DEF Forwards, links
  <2>4. \A c \in Clients : thread'[c] # None => Honest(thread'[c], t, a)
    BY <1>1, <1>5, <1>20
  <2> QED BY <1>1, <1>2, <1>3, <1>5, <1>25, <2>1, <2>2, <2>3, <2>4 DEF t
<1>6. CASE Works
  <2>1. CASE Check \/ WaitEnds \/ Timeout \/ Return
    BY <1>4, <2>1 DEF Check, WaitEnds, Timeout, Return, brokerVars, threads, clients
  <2>2. CASE Lock \/ LockService \/ Peek
    BY <1>4, <2>2 DEF Lock, LockService, Peek, clients
  <2>3. CASE Send
    <3>1. Honest(Head(tool.todo).line, t, a)
      BY <2>3, BrokerAssumption DEF Send, LocksHeld, Own, t, a
    <3>2. Forwards(Head(tool.todo).line) /\ UNCHANGED <<upstream, asks, thread>>
      BY <2>3 DEF Send, clients
    <3> QED BY <1>5, <3>1, <3>2
  <2> QED BY <1>6, <2>1, <2>2, <2>3 DEF Works
<1>7. ASSUME UNCHANGED <<dll, asks, thread>>, up' = up \/ up' = <<>> \/ (up # <<>> /\ up' = Tail(up)),
             down' = down \/ down' = <<>>, upstream'.pc = "feed" => Honest(upstream'.line, t, a)
      PROVE  G
  <2>1. \A i \in 1 .. Len(up') : Honest(up'[i], t, a)
    <3>1. CASE up' = up
      BY <1>1, <3>1
    <3>2. CASE up' = <<>>
      BY <3>2
    <3>3. CASE up # <<>> /\ up' = Tail(up)
      <4>1. Len(up') = Len(up) - 1 /\ Len(up) \in Nat /\ \A i \in 1 .. Len(up) - 1 : up'[i] = up[i + 1]
        BY <1>20, <3>3, QueueSeq
      <4>2. \A i \in 1 .. Len(up) - 1 : i + 1 \in 1 .. Len(up)
        BY <4>1
      <4> QED BY <1>1, <4>1, <4>2
    <3> QED BY <1>7, <3>1, <3>2, <3>3
  <2>2. \A i \in 1 .. Len(down') : Honest(down'[i], t, a)
    BY <1>1, <1>7
  <2> QED BY <1>1, <1>2, <1>3, <1>7, <1>25, <2>1, <2>2 DEF t
<1>8. CASE Feed \/ Others
  <2>1. CASE Connect \/ FeedService \/ LoseUpstream
    <3>1. upstream'.pc # "feed"
      BY <2>1 DEF Connect, FeedService, LoseUpstream, Casting, UpstreamTyped
    <3> QED BY <1>7, <2>1, <3>1 DEF Connect, FeedService, LoseUpstream, links, clients
  <2>2. CASE ReadLine
    <3>1. upstream'.line = up[1] /\ up # <<>> /\ up' = Tail(up)
      BY <1>20, <2>2, QueueSeq DEF ReadLine, UpstreamTyped
    <3>2. 1 \in 1 .. Len(up)
      BY <1>20, <3>1, QueueSeq
    <3> QED BY <1>1, <1>7, <2>2, <3>1, <3>2 DEF ReadLine, clients
  <2>3. CASE Cast
    <3>1. upstream'.pc # "feed"
      BY <2>3 DEF Cast, UpstreamTyped
    <3> QED BY <1>7, <2>3, <3>1 DEF Cast, links
  <2>4. CASE CastEnds
    <3>1. upstream'.pc # "feed"
      BY <2>4 DEF CastEnds, UpstreamTyped
    <3> QED BY <1>7, <2>4, <3>1 DEF CastEnds, links, clients
  <2>5. CASE FallOut
    <3>1. dll'.line = None /\ dll'.target = t
      BY <1>20, <2>5 DEF FallOut, t
    <3>2. up' = <<>> /\ down' = <<>> /\ upstream'.pc = "dead" /\ UNCHANGED <<asks, thread>>
      BY <2>5 DEF FallOut, clients
    <3>3. \A i \in 1 .. Len(<<>>) : FALSE
      OBVIOUS
    <3> QED BY <1>1, <1>2, <1>3, <1>25, <3>1, <3>2, <3>3
  <2> QED BY <1>8, <2>1, <2>2, <2>3, <2>4, <2>5 DEF Feed, Others
<1>9. CASE DllServes
  <2>1. down # <<>> /\ down' = Tail(down) /\ UNCHANGED <<up, upstream, asks, thread>>
    BY <1>9 DEF DllServes, threads, clients
  <2> DEFINE line == Answer(Head(down))
             u == IF line.op = "selected" THEN line.arg ELSE t
  <2>2. dll'.line = line /\ dll'.target = u
    BY <1>9 DEF DllServes, t
  <2>3. Honest(Head(down), t, a)
    <3>1. Head(down) = down[1] /\ 1 \in 1 .. Len(down)
      BY <1>20, <2>1, QueueSeq
    <3> QED BY <1>1, <3>1
  <2>4. Honest(line, u, a)
    BY <2>3, HonestLines
  <2>5. u \in {t, a}
    BY <2>4 DEF Honest
  <2>6. \A l : Honest(l, t, a) => Honest(l, u, a)
    BY <2>5, HonestLines
  <2> HIDE DEF u, line
  <2>7. \A i \in 1 .. Len(down') : Honest(down'[i], u, a)
    <3>1. Len(down') = Len(down) - 1 /\ Len(down) \in Nat /\ \A i \in 1 .. Len(down) - 1 : down'[i] = down[i + 1]
      BY <1>20, <2>1, QueueSeq
    <3>2. \A i \in 1 .. Len(down) - 1 : i + 1 \in 1 .. Len(down)
      BY <3>1
    <3> QED BY <1>1, <2>6, <3>1, <3>2
  <2> QED BY <1>1, <1>2, <1>25, <2>1, <2>2, <2>4, <2>5, <2>6, <2>7
<1>10. CASE Speaks
  <2>1. PICK line \in Spoken : DllSpeaks(line)
    BY <1>10, Planned DEF Speaks
  <2>2. Honest(line, t, a)
    BY <1>3, <2>1 DEF Spoken
  <2>3. dll'.line = line /\ dll'.target = t /\ UNCHANGED <<up, down, upstream, asks, thread>>
    BY <1>20, <2>1 DEF DllSpeaks, threads, clients, t
  <2> QED BY <1>1, <1>2, <1>3, <1>25, <2>2, <2>3
<1>11. CASE DllWrites
  <2>1. /\ dll.line # None /\ up' = Append(up, dll.line) /\ dll'.line = None /\ dll'.target = t
        /\ UNCHANGED <<down, upstream, asks, thread>>
    BY <1>11, <1>20 DEF DllWrites, threads, clients, t
  <2>2. Len(up') = Len(up) + 1 /\ \A i \in 1 .. Len(up) + 1 : up'[i] = IF i <= Len(up) THEN up[i] ELSE dll.line
    BY <1>20, <2>1, QueueSeq
  <2>3. ASSUME NEW i \in 1 .. Len(up') PROVE Honest(up'[i], t, a)
    <3>1. CASE i <= Len(up)
      <4>1. i \in 1 .. Len(up) /\ up'[i] = up[i]
        BY <1>20, <2>2, <3>1
      <4> QED BY <1>1, <4>1
    <3>2. CASE ~(i <= Len(up))
      <4>1. up'[i] = dll.line
        BY <2>2, <3>2
      <4>2. Honest(dll.line, t, a)
        BY <1>1, <2>1
      <4> QED BY <4>1, <4>2
    <3> QED BY <3>1, <3>2
  <2> QED BY <1>1, <1>2, <1>3, <1>25, <2>1, <2>3
<1>12. CASE DllTimesOut \/ DllGoes
  <2>1. dll'.line = None /\ dll'.target = t /\ down' = <<>> /\ UNCHANGED <<up, upstream, asks, thread>>
    BY <1>12, <1>20 DEF DllTimesOut, DllGoes, HangsUp, threads, clients, t
  <2>2. \A i \in 1 .. Len(<<>>) : FALSE
    OBVIOUS
  <2> QED BY <1>1, <1>2, <1>3, <1>25, <2>1, <2>2
<1>13. ASSUME NEW c \in Clients, UNCHANGED <<links, upstream>>,
              \A d \in Clients : UNCHANGED asks[d] \/ \A i \in 1 .. Len(asks'[d]) : Honest(asks'[d][i], t, a),
              \A d \in Clients : UNCHANGED thread[d] \/ thread'[d] = None \/ Honest(thread'[d], t, a)
       PROVE  G
  BY <1>1, <1>2, <1>3, <1>13, <1>25 DEF links, t
<1>14. ASSUME NEW c \in Clients, Thread(c) PROVE G
  <2>1. CASE ThreadReads(c)
    <3>1. /\ asks[c] # <<>> /\ asks' = [asks EXCEPT ![c] = Tail(asks[c])] /\ UNCHANGED <<links, upstream>>
          /\ thread' = [thread EXCEPT ![c] = IF Head(asks[c]).op = "quit" THEN None ELSE Head(asks[c])]
      BY <2>1 DEF ThreadReads, threads
    <3>2. /\ Head(asks[c]) = asks[c][1] /\ Len(asks[c]) \in Nat /\ Len(asks[c]) > 0
          /\ Len(Tail(asks[c])) = Len(asks[c]) - 1
          /\ \A i \in 1 .. Len(asks[c]) - 1 : Tail(asks[c])[i] = asks[c][i + 1]
      BY <1>20, <3>1, QueueSeq
    <3>3. Honest(Head(asks[c]), t, a)
      BY <1>1, <3>2
    <3>4. \A i \in 1 .. Len(asks[c]) - 1 : i + 1 \in 1 .. Len(asks[c])
      BY <3>2
    <3>5. \A i \in 1 .. Len(Tail(asks[c])) : Honest(Tail(asks[c])[i], t, a)
      BY <1>1, <3>2, <3>4
    <3> QED BY <1>13, <1>20, <3>1, <3>3, <3>5
  <2>2. CASE ThreadLocks(c)
    BY <1>4, <2>2 DEF ThreadLocks, clients
  <2>3. CASE ThreadSends(c)
    <3>1. thread[c] # None
      BY <2>3, LinesTyped DEF ThreadSends, LocksHeld
    <3>2. Honest(thread[c], t, a)
      BY <1>1, <3>1
    <3> QED BY <1>5, <2>3, <3>2 DEF ThreadSends
  <2>4. CASE ThreadEnds(c)
    <3>1. thread' = [thread EXCEPT ![c] = Off] /\ UNCHANGED <<links, upstream, asks>>
      BY <2>4 DEF ThreadEnds, threads
    <3>2. Honest(Off, t, a)
      BY HonestLines
    <3> QED BY <1>13, <1>20, <3>1, <3>2
  <2> QED BY <1>14, <2>1, <2>2, <2>3, <2>4 DEF Thread
<1>15. CASE (\E c \in plan.clients : Accept(c)) \/ ReadStatus
  BY <1>4, <1>15 DEF Accept, ReadStatus, clients
<1>16. CASE Greet
  <2>1. /\ listener.client \in Clients /\ thread' = [thread EXCEPT ![listener.client] = None]
        /\ UNCHANGED <<links, upstream, asks>>
    BY <1>16 DEF Greet, UpstreamTyped
  <2> QED BY <1>13, <1>20, <2>1
<1>17. ASSUME NEW c \in Clients, Writes(c) PROVE G
  <2>1. PICK command \in Commands : ClientWrites(c, command) /\ tool' = [tool EXCEPT !.alone = @ /\ command.op # "target"]
    BY <1>17 DEF Writes
  <2>2. command.op # "target"
    BY <2>1 DEF ToolTyped, Tools
  <2>3. Honest(command, t, a)
    BY <1>3, <2>2 DEF Commands
  <2>4. asks' = [asks EXCEPT ![c] = <<command>>] /\ UNCHANGED <<links, upstream, thread>>
    BY <2>1 DEF ClientWrites, threads
  <2>5. \A i \in 1 .. Len(<<command>>) : <<command>>[i] = command
    OBVIOUS
  <2> QED BY <1>13, <1>20, <2>3, <2>4, <2>5
<1>18. ASSUME NEW c \in Clients, ClientReads(c) \/ ClientStalls(c) \/ ClientGoes(c) PROVE G
  BY <1>4, <1>18 DEF ClientReads, ClientStalls, ClientGoes, threads
<1>19. G
  BY <1>6, <1>8, <1>9, <1>10, <1>11, <1>12, <1>14, <1>15, <1>16, <1>17, <1>18, Planned DEF Next, Drops, Stalls, Leaves
<1> QED BY <1>19

\* A call that starts alone starts with nothing of a target under way.
LEMMA OwnStarts ==
  ASSUME Typed, ~InFlight, UNCHANGED <<links, upstream, asks, thread>>
  PROVE  OwnTargets'
<1> USE DEF Typed
<1> DEFINE Entries(lines) == {lines[i] : i \in 1 .. Len(lines)}
           sent == Entries(up \o down)
           told == UNION {Entries(asks[c]) : c \in Clients}
           ran  == {thread[c] : c \in {d \in Clients : thread[d] # Off}}
           fed  == IF upstream.pc = "feed" THEN {upstream.line} ELSE {}
           line == sent \cup {dll.line} \cup told \cup ran \cup fed
<1>1. \A l \in line : l = None \/ l.op \notin {"target", "selected", "refused"}
  <2>1. ~(\E l \in line \ {None} : l.op \in {"target", "selected", "refused"})
    BY DEF InFlight
  <2> HIDE DEF line
  <2> QED BY <2>1
<1>2. /\ \A i \in 1 .. Len(up) : up[i] \in sent /\ up[i] # None
      /\ \A i \in 1 .. Len(down) : down[i] \in sent /\ down[i] # None
  <2>1. up \in Seq(AnyLine) /\ down \in Seq(AnyLine)
    BY DEF LinkTyped
  <2>2. ASSUME NEW i \in 1 .. Len(up) PROVE i \in 1 .. Len(up \o down) /\ (up \o down)[i] = up[i]
    BY <2>1
  <2>3. ASSUME NEW i \in 1 .. Len(down) PROVE Len(up) + i \in 1 .. Len(up \o down) /\ (up \o down)[Len(up) + i] = down[i]
    BY <2>1
  <2>4. /\ \A i \in 1 .. Len(up) : up[i] \in sent
        /\ \A i \in 1 .. Len(down) : down[i] \in sent
    BY <2>2, <2>3
  <2> HIDE DEF sent
  <2> QED BY <2>1, <2>4, BrokerAssumption
<1>3. \A c \in Clients : \A i \in 1 .. Len(asks[c]) : asks[c][i] \in told /\ asks[c][i] # None
  <2> SUFFICES ASSUME NEW c \in Clients, NEW i \in 1 .. Len(asks[c]) PROVE asks[c][i] \in told /\ asks[c][i] # None
    OBVIOUS
  <2>1. asks[c][i] \in Commands
    BY DEF ClientsTyped
  <2>2. asks[c][i] \in Entries(asks[c])
    OBVIOUS
  <2> HIDE DEF Entries
  <2> QED BY <2>1, <2>2, LinesTyped
<1>4. \A c \in Clients : thread[c] \in ran \/ thread[c] = Off
  OBVIOUS
<1>5. upstream.pc = "feed" => upstream.line \in fed /\ upstream.line # None
  BY BrokerAssumption DEF UpstreamTyped
<1> HIDE DEF sent, told, ran, fed
<1>6. sent \subseteq line /\ dll.line \in line /\ told \subseteq line /\ ran \subseteq line /\ fed \subseteq line
  OBVIOUS
<1> HIDE DEF line
<1>7. \A l : l.op \notin {"target", "selected", "refused"} => \A t, arg : Honest(l, t, arg)
  BY DEF Honest
<1>8. \A t, arg : Honest(Off, t, arg)
  BY HonestLines
<1>9. \A l \in line : l = None \/ \A t, arg : Honest(l, t, arg)
  BY <1>1, <1>7
<1>10. /\ UNCHANGED <<dll, up, down, upstream, asks, thread>>
  BY DEF links
<1> QED BY <1>2, <1>3, <1>4, <1>5, <1>6, <1>8, <1>9, <1>10 DEF OwnTargets, Own

LEMMA SelectsKept ==
  ASSUME Typed, Selects, [Next]_vars
  PROVE  Selects'
<1> USE DEF Typed
<1>1. CASE UNCHANGED vars
  <2>1. UNCHANGED <<dll, up, down, upstream, asks, thread, tool>>
    BY <1>1 DEF vars, brokerVars, links, threads, clients
  <2>2. OwnTargets => OwnTargets'
    BY <2>1 DEF OwnTargets, Own
  <2> QED BY <2>1, <2>2 DEF Selects, Own
<1>2. ASSUME NEW call \in Requests, Call(call) PROVE Selects'
  <2>1. tool'.call = call /\ tool'.alone = ~InFlight /\ tool'.answer = None
    BY <1>2, StartedTyped
  <2>2. UNCHANGED <<links, upstream, asks, thread>>
    BY <1>2 DEF Call, threads, clients
  <2>3. CASE call.op = "state"
    BY <1>2, <2>1, <2>3, StartedTyped DEF Selects
  <2>4. CASE call.op # "state"
    <3>1. Idle \in Tools /\ Steps(call) \in Seq(CallSteps)
      <4>1. Steps(call) \in Seq(CallSteps)
        BY <1>2, StepsTyped DEF Call, ToolTyped
      <4> QED BY <4>1 DEF Idle, Tools
    <3>2. /\ tool'.todo = Steps(call) /\ tool'.pc \in {"ok", "check", "wait"}
          /\ tool'.pc = "ok" <=> Steps(call) = <<>>
      <4>1. tool'.todo = Steps(call) /\ tool'.pc = Goes(Idle, Steps(call)).pc
        BY <1>2, <2>4, StartedTyped
      <4>2. /\ Goes(Idle, Steps(call)).pc \in {"ok", "check", "wait"}
            /\ Goes(Idle, Steps(call)).pc = "ok" <=> Steps(call) = <<>>
        BY <3>1, GoesTyped
      <4> QED BY <4>1, <4>2
    <3>3. call.op = "select" => Steps(call) = <<Then("target", call.arg, "answer")>> /\ Steps(call) # <<>>
      BY DEF Steps, game_select
    <3>4. tool'.alone => OwnTargets'
      BY <2>1, <2>2, OwnStarts
    <3> QED BY <2>1, <3>2, <3>3, <3>4 DEF Selects
  <2> QED BY <2>3, <2>4
<1>3. CASE Return
  <2>1. tool'.pc = "idle" /\ tool'.alone = FALSE /\ tool'.answer = tool.answer
    BY <1>3 DEF Return, Idle
  <2> QED BY <2>1 DEF Selects
<1>4. ASSUME Next, ~(\E call \in Requests : Call(call)), ~Return PROVE Selects'
  <2>1. /\ tool'.call = tool.call /\ (tool'.alone => tool.alone)
        /\ \/ tool'.answer = tool.answer
           \/ Feed /\ tool'.answer = upstream.line /\ upstream.line.op \in {"selected", "refused"}
        /\ \/ tool'.pc = tool.pc /\ tool'.todo = tool.todo
           \/ tool.pc \in {"check", "lock", "send"} /\ tool'.pc \in {"lock", "send", "wait", "error"} /\ tool'.todo = tool.todo
           \/ tool.pc \in {"lock service", "peek"} /\ tool'.pc \in {"peek", "ok"} /\ tool'.todo = tool.todo
           \/ WaitEnds
           \/ tool'.pc = "error"
    <3>1. CASE Rest
      BY <3>1 DEF Rest
    <3>2. CASE Check \/ Lock \/ Send \/ Timeout \/ LockService \/ Peek
      <4>1. upLock = Tool => tool.pc = "send"
        BY DEF LocksHeld
      <4> QED BY <3>2, <4>1 DEF Check, Lock, Send, Timeout, LockService, Peek, ToolTyped, Tools
    <3>3. CASE WaitEnds
      <4>1. tool \in Tools /\ Tail(tool.todo) \in Seq(CallSteps)
        BY <3>3, QueueSeq DEF WaitEnds, ToolTyped, Tools
      <4>2. CASE tool' = Goes(tool, Tail(tool.todo))
        <5>1. tool'.call = tool.call /\ tool'.alone = tool.alone /\ tool'.answer = tool.answer
          BY <4>1, <4>2, GoesTyped
        <5> QED BY <3>3, <5>1
      <4>3. CASE tool' = [tool EXCEPT !.pc = "error"]
        BY <3>3, <4>1, <4>3 DEF Tools
      <4> QED BY <3>3, <4>2, <4>3 DEF WaitEnds
    <3>4. CASE Feed
      <4>1. /\ tool'.call = tool.call /\ tool'.alone = tool.alone /\ tool'.pc = tool.pc /\ tool'.todo = tool.todo
            /\ tool'.answer = IF upstream.line.op \in {"selected", "refused"} THEN upstream.line ELSE tool.answer
        BY <3>4 DEF Feed, ToolTyped, Tools
      <4> QED BY <3>4, <4>1
    <3>5. ASSUME NEW b \in BOOLEAN, b => tool.alone, tool' = [tool EXCEPT !.alone = b]
          PROVE  /\ tool'.call = tool.call /\ (tool'.alone => tool.alone) /\ tool'.answer = tool.answer
                 /\ tool'.pc = tool.pc /\ tool'.todo = tool.todo
      BY <3>5 DEF ToolTyped, Tools
    <3> QED BY <1>4, <3>1, <3>2, <3>3, <3>4, <3>5, ToolSteps DEF Works
  <2>2. tool'.answer # None => tool'.answer.op \in {"selected", "refused"}
    BY <2>1 DEF Selects
  <2>3. tool'.pc \in {"lock service", "peek"} => tool'.call.op = "state"
    <3>1. CASE WaitEnds
      <4>1. tool \in Tools /\ Tail(tool.todo) \in Seq(CallSteps)
        BY <3>1, QueueSeq DEF WaitEnds, ToolTyped, Tools
      <4>2. tool'.pc \notin {"lock service", "peek"}
        BY <3>1, <4>1, GoesTyped DEF WaitEnds, Tools
      <4> QED BY <4>2
    <3> QED BY <2>1, <3>1 DEF Selects
  <2>4. ASSUME tool'.call.op = "select", tool'.alone
        PROVE  /\ OwnTargets' /\ (tool'.answer # None => Own(tool.answer)')
               /\ tool'.pc \in {"check", "lock", "send", "wait"} =>
                    tool'.todo = <<Then("target", tool'.call.arg, "answer")>>
               /\ tool'.pc = "ok" => dll'.target = tool'.call.arg
    <3>1. /\ tool.call.op = "select" /\ OwnTargets /\ (tool.answer # None => Own(tool.answer))
          /\ tool.pc \in {"check", "lock", "send", "wait"} =>
               tool.todo = <<Then("target", tool.call.arg, "answer")>>
          /\ tool.pc = "ok" => dll.target = tool.call.arg
          /\ tool.pc \notin {"lock service", "peek"}
      BY <2>1, <2>4 DEF Selects
    <3>2. tool.pc = "send" => Own(Head(tool.todo).line)
      BY <3>1 DEF Then, Own, Honest
    <3>3. OwnTargets' /\ dll'.target \in {dll.target, tool.call.arg}
      <4>1. ~Calls
        BY <1>4, Planned DEF Calls
      <4> QED BY <1>4, <2>1, <2>4, <3>1, <3>2, <4>1, OwnKept
    <3>4. tool'.answer # None => Own(tool.answer)'
      <4>1. \A l : Honest(l, dll.target, tool.call.arg) => Honest(l, dll'.target, tool.call.arg)
        BY <3>3, HonestLines
      <4>2. tool'.answer # None => Honest(tool'.answer, dll.target, tool.call.arg)
        BY <2>1, <3>1 DEF Own, OwnTargets, Feed, FeedService
      <4> QED BY <2>1, <4>1, <4>2 DEF Own
    <3>5. CASE WaitEnds
      <4>1. tool.pc = "wait" /\ Met /\ UNCHANGED dll
        BY <3>5 DEF WaitEnds, brokerVars, links
      <4>2. tool.todo = <<Then("target", tool.call.arg, "answer")>>
        BY <3>1, <4>1
      <4>3. Head(tool.todo).until = "answer" /\ Tail(tool.todo) = <<>>
        BY <4>2 DEF Then
      <4>4. tool.answer # None
        BY <4>1, <4>3 DEF Met
      <4>5. tool.answer.op # "refused" => dll.target = tool.call.arg
        BY <3>1, <4>4 DEF Selects, Own, Honest
      <4>6. \/ tool.answer.op = "refused" /\ tool'.pc = "error"
            \/ tool.answer.op # "refused" /\ tool'.pc = "ok"
        BY <3>5, <4>3 DEF WaitEnds, Goes, ToolTyped, Tools
      <4> QED BY <2>1, <3>3, <3>4, <4>1, <4>5, <4>6
    <3>6. CASE ~WaitEnds
      BY <2>1, <3>1, <3>3, <3>4, <3>6
    <3> QED BY <3>5, <3>6
  <2> QED BY <2>2, <2>3, <2>4 DEF Selects
<1> QED BY <1>1, <1>2, <1>3, <1>4

-----------------------------------------------------------------------------
(* The theorems. *)

\* Whatever threads, clients, the game and the agent do, in any order: the parts of the invariant hold together.
THEOREM ServiceInvariant == Spec => []ServiceInv
<1>1. ServiceInv /\ [Next]_vars => ServiceInv'
  BY TypedKept, RegisteredKept, WindowsKept, StatusesKept, SelectsKept DEF ServiceInv
<1> QED BY <1>1, InitInv, PTL DEF Spec

\* Sockets and queues keep their bounds, the locks their holders, and whoever waits for a lock
\* does not hold it, for any number of clients and any room in the sockets (send_upstream,
\* _upstream_lock, the lock of the GameService).
THEOREM ServiceTyped == Spec => []TypeOK
<1>1. ServiceInv => TypeOK
  <2> SUFFICES ASSUME ServiceInv PROVE TypeOK
    OBVIOUS
  <2> USE DEF ServiceInv, Typed
  <2>1. Len(up) \in 0 .. MaxUp /\ Len(down) \in 0 .. MaxDown
    BY BrokerAssumption DEF LinkTyped
  <2>2. \A c \in Clients : Len(buf[c]) \in 0 .. MaxBuf
    BY BrokerAssumption DEF ClientsTyped
  <2>3. tool.pc \in {"idle", "check", "lock", "send", "wait", "lock service", "peek", "ok", "error"}
    BY DEF ToolTyped, Tools
  <2>4. /\ sess \in {"none", "open", "hungup"} /\ held \in BOOLEAN /\ (held => sess # "none")
        /\ upstream.pc \in {"connect", "recv", "feed", "cast", "raised", "dead"}
    BY DEF LinkTyped, UpstreamTyped
  <2>5. \A c \in Clients : peer[c] \in {"out", "in", "stalled", "gone"} /\ thread[c] \in Commands \cup {None, Off}
    BY DEF ClientsTyped
  <2> QED BY <2>1, <2>2, <2>3, <2>4, <2>5 DEF LocksHeld, TypeOK
<1> QED BY <1>1, ServiceInvariant, PTL

\* Every registered client is sent every line broadcast since it was registered, once and in
\* order, whoever comes, stalls or goes during the broadcast (_broadcast and _clients).
THEOREM ClientsSeeAWindow == Spec => []ClientWindow
<1>1. ServiceInv => ClientWindow
  BY DEF ServiceInv, Windows, ClientWindow
<1> QED BY <1>1, ServiceInvariant, PTL

\* A client that is served and has been greeted was last told the status that holds (_last_status
\* is set before it is broadcast, the greeting reads it after the client is registered).
THEOREM StatusIsCurrent == Spec => []StatusCurrent
<1>1. ServiceInv => StatusCurrent
  <2> SUFFICES ASSUME ServiceInv, NEW c \in Clients, Current(c), c \notin overtaken
               PROVE  seen[c] = IF status = Empty THEN None ELSE status
    BY DEF StatusCurrent
  <2>1. Served(c) /\ ~Owed(c) /\ listener.client # c
    BY DEF Current, Served, Owed, Due
  <2> QED BY <2>1 DEF ServiceInv, Statuses
<1> QED BY <1>1, ServiceInvariant, PTL

\* A select that is alone is true: OK means that the game has this target selected, a refusal
\* that it cannot be selected, whatever else the clients send and wherever the connection is lost
\* (game_select and _feed_status).
THEOREM SelectIsTrue == Spec => []SelectTrue
<1>1. ServiceInv => SelectTrue
  BY DEF ServiceInv, Selects, SelectTrue, Own, Honest
<1> QED BY <1>1, ServiceInvariant, PTL

================================================================================
