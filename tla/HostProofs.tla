----------------------------- MODULE HostProofs -----------------------------
(***************************************************************************)
(* What is proved of the parts of the host that share no state: a command  *)
(* exits with a code that is true, whoever loads a saved file reads a      *)
(* whole text, and the inbox of the window's client holds the lines of the *)
(* DLL.                                                                    *)
(***************************************************************************)
EXTENDS PacketClient, Commands, SavedFiles, SequenceTheorems, TLAPS

-----------------------------------------------------------------------------
(* Commands. *)

Lines == {"yes", "no", "packet", "malformed", "quit"}

CliTypeOK ==
  /\ command \in [name : Names, at : {"connect", "send", "loop", "recv", "exit"}, toSend : 0 .. 3, code : {0, 1, 2, Running}]
  /\ stream \in [lines : Seq(Lines), lost : BOOLEAN]
  /\ request \in {"none", "sent", "done", "failed"}
  /\ alike \in [lines : SUBSET Lines, count : Int]
  /\ late \in [passed : BOOLEAN, taken : Nat]

\* What a line that is on the way tells is so, or another host asked for the like.
Justified(line) ==
  /\ line = "yes" => request = "done" \/ "yes" \in alike.lines
  /\ line = "no" => request = "failed" \/ "no" \in alike.lines
  /\ line = "malformed" => "malformed" \in alike.lines

\* After the deadline a command looks at it before it takes a second line.
LooksFirst ==
  command.name # "monitor" =>
    /\ late.taken > 0 => late.passed /\ command.at \in {"loop", "exit"}
    /\ late.taken <= 1

CliInv ==
  /\ CliTypeOK
  /\ \A i \in 1 .. Len(stream.lines) : Justified(stream.lines[i])
  /\ LooksFirst
  /\ command.code # Running => command.at = "exit"
  /\ command.at = "connect" \/ command.toSend > 0 => request = "none"
  /\ ExitTruth

LEMMA CliInitInv == CliInit => CliInv
  BY DEF CliInit, CliInv, CliTypeOK, Requests, Names, Lines, LooksFirst, ExitTruth, Running

\* What a line makes a command do.
LEMMA HandleDoes ==
  ASSUME CliTypeOK, command.at = "recv", NEW line \in Lines, Justified(line), Handle(line)
  PROVE  \/ command' = [command EXCEPT !.at = "loop"]
         \/ \E code \in {0, 1, 2} :
              /\ command' = [command EXCEPT !.at = "exit", !.code = code]
              /\ code = 0 /\ command.name \notin {"replay", "monitor"} =>
                   request = "done" \/ "yes" \in alike.lines
                   \/ (command.name = "read" /\ (request = "failed" \/ "no" \in alike.lines))
              /\ code = 1 => request = "failed" \/ "no" \in alike.lines
              /\ code = 2 => "malformed" \in alike.lines
<1>1. CASE command.name \in {"send", "cast", "walk"}
  <2>1. Judges(line, 1)
    BY <1>1 DEF Handle, cmd_send, cmd_cast, cmd_walk
  <2> QED BY <1>1, <2>1 DEF Judges, Exits, At, Justified, Running
<1>2. CASE command.name \in {"scan", "status", "find"}
  <2>1. Judges(line, Running)
    BY <1>2 DEF Handle, cmd_scan, cmd_status, cmd_find
  <2> QED BY <1>2, <2>1 DEF Judges, Exits, At, Justified, Running
<1>3. CASE command.name = "read"
  <2>1. Judges(line, 0)
    BY <1>3 DEF Handle, cmd_read
  <2> QED BY <1>3, <2>1 DEF Judges, Exits, At, Justified, Running
<1>4. CASE command.name \in {"replay", "monitor"}
  <2>1. cmd_monitor(line)
    BY <1>4 DEF Handle
  <2> QED BY <1>4, <2>1 DEF cmd_monitor, Exits, At
<1> QED BY <1>1, <1>2, <1>3, <1>4 DEF CliTypeOK, Names

LEMMA CliTakes == CliInv /\ Takes => CliInv'
<1> SUFFICES ASSUME CliInv, Takes PROVE CliInv'
  OBVIOUS
<1> DEFINE line == Head(stream.lines)
<1>1. /\ stream.lines \in Seq(Lines) /\ stream.lines # <<>>
      /\ stream' = [stream EXCEPT !.lines = Tail(@)] /\ UNCHANGED <<request, alike>>
      /\ late' = [late EXCEPT !.taken = @ + IF late.passed THEN 1 ELSE 0]
      /\ command.at = "recv" /\ Handle(line)
  BY DEF CliInv, CliTypeOK, Takes
<1>2. line \in Lines /\ line = stream.lines[1] /\ Justified(line)
  BY <1>1 DEF CliInv
<1>3. /\ stream'.lines = Tail(stream.lines) /\ stream'.lines \in Seq(Lines) /\ stream'.lost = stream.lost
      /\ stream' \in [lines : Seq(Lines), lost : BOOLEAN]
  <2>1. Tail(stream.lines) \in Seq(Lines)
    BY <1>1
  <2> QED BY <1>1, <2>1 DEF CliInv, CliTypeOK
<1>4. \A i \in 1 .. Len(stream'.lines) : i + 1 \in 1 .. Len(stream.lines) /\ stream'.lines[i] = stream.lines[i + 1]
  BY <1>1, <1>3
<1>5. \A i \in 1 .. Len(stream'.lines) : Justified(stream'.lines[i])
  BY <1>4 DEF CliInv
<1>6. (\A i \in 1 .. Len(stream.lines) : Justified(stream.lines[i]))'
  BY <1>1, <1>5 DEF Justified
<1>7. /\ late'.passed = late.passed /\ late'.taken = late.taken + (IF late.passed THEN 1 ELSE 0)
      /\ late' \in [passed : BOOLEAN, taken : Nat]
  <2>1. late \in [passed : BOOLEAN, taken : Nat]
    BY DEF CliInv, CliTypeOK
  <2>2. late' = [passed |-> late.passed, taken |-> late.taken + (IF late.passed THEN 1 ELSE 0)]
    BY <1>1, <2>1
  <2>3. late.taken + (IF late.passed THEN 1 ELSE 0) \in Nat
    BY <2>1
  <2> QED BY <2>1, <2>2, <2>3
<1>8. \/ command' = [command EXCEPT !.at = "loop"]
      \/ \E code \in {0, 1, 2} :
           /\ command' = [command EXCEPT !.at = "exit", !.code = code]
           /\ code = 0 /\ command.name \notin {"replay", "monitor"} =>
                request = "done" \/ "yes" \in alike.lines
                \/ (command.name = "read" /\ (request = "failed" \/ "no" \in alike.lines))
           /\ code = 1 => request = "failed" \/ "no" \in alike.lines
           /\ code = 2 => "malformed" \in alike.lines
  BY <1>1, <1>2, HandleDoes DEF CliInv
<1>9. /\ command'.name = command.name /\ command'.at \in {"loop", "exit"}
      /\ command' \in [name : Names, at : {"connect", "send", "loop", "recv", "exit"}, toSend : 0 .. 3, code : {0, 1, 2, Running}]
  BY <1>8 DEF CliInv, CliTypeOK
<1>10. late.taken = 0 \/ command.name = "monitor"
  BY <1>1 DEF CliInv, LooksFirst, CliTypeOK
<1>11. LooksFirst'
  BY <1>7, <1>9, <1>10 DEF LooksFirst, CliInv, CliTypeOK
<1>12. CliTypeOK'
  BY <1>1, <1>3, <1>7, <1>9 DEF CliInv, CliTypeOK
<1>13. (command.code # Running => command.at = "exit")'
  BY <1>1, <1>8 DEF CliInv, CliTypeOK, Running
<1>15. (command.at = "connect" \/ command.toSend > 0 => request = "none")'
  <2>1. command'.toSend = command.toSend
    BY <1>8 DEF CliInv, CliTypeOK
  <2> QED BY <1>1, <1>9, <2>1 DEF CliInv
<1>14. ExitTruth'
  BY <1>1, <1>7, <1>8, <1>9, <1>11 DEF CliInv, CliTypeOK, ExitTruth, LooksFirst, Running
<1> QED BY <1>6, <1>11, <1>12, <1>13, <1>14, <1>15 DEF CliInv

\* A line is said when it is so.
LEMMA CliSays ==
  ASSUME CliInv, NEW line \in Lines, Says(line), Justified(line)', CliTypeOK',
         request' # request => request = "sent", alike.lines \subseteq alike'.lines
  PROVE  (\A i \in 1 .. Len(stream.lines) : Justified(stream.lines[i]))'
<1>1. stream'.lines = Append(stream.lines, line) /\ stream.lines \in Seq(Lines)
  BY DEF Says, CliInv, CliTypeOK
<1>2. ASSUME NEW x, Justified(x) PROVE Justified(x)'
  BY <1>2 DEF Justified
<1>3. \A i \in 1 .. Len(stream'.lines) : \E x : x = stream'.lines[i] /\ Justified(x)'
  <2> SUFFICES ASSUME NEW i \in 1 .. Len(stream'.lines)
               PROVE  \E x : x = stream'.lines[i] /\ Justified(x)'
    OBVIOUS
  <2>1. CASE i \in 1 .. Len(stream.lines)
    <3>1. stream'.lines[i] = stream.lines[i]
      BY <1>1, <2>1
    <3>2. Justified(stream.lines[i])
      BY <2>1 DEF CliInv
    <3>3. PICK x : x = stream.lines[i]
      OBVIOUS
    <3>4. Justified(x)'
      BY <1>2, <3>2, <3>3
    <3> QED BY <3>1, <3>3, <3>4
  <2>2. CASE i = Len(stream.lines) + 1
    <3>1. stream'.lines[i] = line
      BY <1>1, <2>2
    <3> QED BY <3>1
  <2> QED BY <1>1, <2>1, <2>2
<1> QED BY <1>3 DEF Justified

LEMMA CliAnswers == CliInv /\ Answers => CliInv'
<1> SUFFICES ASSUME CliInv, Answers PROVE CliInv'
  OBVIOUS
<1>1. request = "sent" /\ request' \in {"done", "failed"} /\ UNCHANGED <<command, alike, late>>
  BY DEF Answers
<1>2. CASE UNCHANGED stream
  <2>1. (\A i \in 1 .. Len(stream.lines) : Justified(stream.lines[i]))'
    BY <1>1, <1>2 DEF CliInv, Justified
  <2> QED BY <1>1, <1>2, <2>1 DEF CliInv, CliTypeOK, LooksFirst, ExitTruth
<1>3. CASE \E line \in {"yes", "no"} : Says(line) /\ request' = IF line = "yes" THEN "done" ELSE "failed"
  <2>1. PICK line \in {"yes", "no"} : Says(line) /\ request' = IF line = "yes" THEN "done" ELSE "failed"
    BY <1>3
  <2>2. Justified(line)' /\ line \in Lines
    BY <2>1, <1>1 DEF Justified, Lines
  <2>3. stream' \in [lines : Seq(Lines), lost : BOOLEAN] /\ stream'.lost = stream.lost
    <3>1. Append(stream.lines, line) \in Seq(Lines)
      BY <2>2 DEF CliInv, CliTypeOK
    <3> QED BY <2>1, <3>1 DEF Says, CliInv, CliTypeOK
  <2>4. CliTypeOK'
    BY <1>1, <2>3 DEF CliInv, CliTypeOK
  <2>5. (\A i \in 1 .. Len(stream.lines) : Justified(stream.lines[i]))'
    BY <1>1, <2>1, <2>2, <2>4, CliSays
  <2> QED BY <1>1, <2>3, <2>4, <2>5 DEF CliInv, LooksFirst, ExitTruth
<1> QED BY <1>2, <1>3 DEF Answers

LEMMA CliOthers == CliInv /\ command.at # "exit" /\ Others => CliInv'
<1> SUFFICES ASSUME CliInv, Others, command.at # "exit" PROVE CliInv'
  OBVIOUS
<1>1. PICK line \in Lines : Says(line) /\ alike' = [lines |-> alike.lines \cup {line}, count |-> alike.count + 1]
  BY DEF Others, Lines
<1>2. UNCHANGED <<command, request, late>>
  BY DEF Others
<1>3. Justified(line)' /\ alike.lines \subseteq alike'.lines
  BY <1>1 DEF Justified
<1>4. stream' \in [lines : Seq(Lines), lost : BOOLEAN] /\ stream'.lost = stream.lost
  <2>1. Append(stream.lines, line) \in Seq(Lines)
    BY DEF CliInv, CliTypeOK
  <2> QED BY <1>1, <2>1 DEF Says, CliInv, CliTypeOK
<1>5. CliTypeOK'
  BY <1>1, <1>2, <1>4 DEF CliInv, CliTypeOK
<1>6. (\A i \in 1 .. Len(stream.lines) : Justified(stream.lines[i]))'
  BY <1>1, <1>2, <1>3, <1>5, CliSays
<1>7. command.code = Running
  BY DEF CliInv
<1> QED BY <1>2, <1>5, <1>6, <1>7 DEF CliInv, LooksFirst, ExitTruth, Running

\* The steps that say no line and take none.
LEMMA CliQuiet ==
  ASSUME CliInv, CliTypeOK', stream'.lines = stream.lines, UNCHANGED alike,
         request # "none" => UNCHANGED request, LooksFirst', ExitTruth',
         (command.code # Running => command.at = "exit")', (command.at = "connect" \/ command.toSend > 0 => request = "none")'
  PROVE  CliInv'
<1>1. (\A i \in 1 .. Len(stream.lines) : Justified(stream.lines[i]))'
  BY DEF CliInv, Justified
<1> QED BY <1>1 DEF CliInv

LEMMA CliSends == CliInv /\ Sends => CliInv'
<1> SUFFICES ASSUME CliInv, Sends PROVE CliInv'
  OBVIOUS
<1>1. UNCHANGED <<stream, alike, late>> /\ command.at = "send"
  BY DEF Sends
<1>9. command.code = Running /\ command.toSend \in 0 .. 3
  BY <1>1 DEF CliInv, CliTypeOK
<1>10. \/ /\ command.name = "replay" /\ command.toSend = 0 /\ UNCHANGED request
          /\ command' = [command EXCEPT !.at = "exit", !.code = 0]
       \/ /\ command.toSend = 0 /\ UNCHANGED request
          /\ command' = [command EXCEPT !.at = "loop"]
       \/ /\ command.toSend \in 1 .. 3 /\ (command.toSend # 1 => UNCHANGED request)
          /\ request' \in {request, "sent"}
          /\ command' = [command EXCEPT !.toSend = command.toSend - 1]
       \/ /\ command.toSend \in 1 .. 3 /\ stream.lost /\ UNCHANGED request
          /\ command' = [command EXCEPT !.at = "exit", !.code = 2]
  BY <1>9 DEF Sends, Exits, At
<1>11. command \in [name : Names, at : {"connect", "send", "loop", "recv", "exit"}, toSend : 0 .. 3, code : {0, 1, 2, Running}]
  BY DEF CliInv, CliTypeOK
<1>12. /\ command' \in [name : Names, at : {"connect", "send", "loop", "recv", "exit"}, toSend : 0 .. 3, code : {0, 1, 2, Running}]
       /\ command'.name = command.name /\ command'.at # "connect"
       /\ command'.toSend > 0 => command.toSend > 0 /\ UNCHANGED request
       /\ command'.code # Running => command'.at = "exit"
       /\ \/ command'.code = Running
          \/ command'.code = 0 /\ command.name = "replay"
          \/ command'.code = 2 /\ stream.lost
  <2>1. command'.toSend \in 0 .. 3 /\ (command'.toSend > 0 => command.toSend > 0 /\ UNCHANGED request)
    <3>1. CASE command'.toSend = command.toSend /\ UNCHANGED request
      BY <3>1, <1>11
    <3>2. CASE /\ command.toSend \in 1 .. 3 /\ (command.toSend # 1 => UNCHANGED request)
               /\ command' = [command EXCEPT !.toSend = command.toSend - 1]
      <4>1. command'.toSend = command.toSend - 1
        BY <1>11, <3>2
      <4> QED BY <3>2, <4>1
    <3> QED BY <1>10, <1>11, <3>1, <3>2
  <2> QED BY <1>1, <1>9, <1>10, <1>11, <2>1 DEF Running
<1>2. CliTypeOK'
  BY <1>1, <1>10, <1>12 DEF CliInv, CliTypeOK
<1>3. LooksFirst'
  BY <1>1, <1>12 DEF CliInv, LooksFirst, CliTypeOK
<1>4. request # "none" => UNCHANGED request
  BY <1>9 DEF Sends, CliInv
<1>5. (command.code # Running => command.at = "exit")'
  BY <1>12
<1>8. (command.at = "connect" \/ command.toSend > 0 => request = "none")'
  BY <1>12 DEF CliInv
<1>7. ExitTruth'
  BY <1>1, <1>3, <1>12 DEF ExitTruth, LooksFirst, Running
<1> QED BY <1>1, <1>2, <1>3, <1>4, <1>5, <1>7, <1>8, CliQuiet

LEMMA CliMoves ==
  ASSUME CliInv, Connects \/ Looks \/ TakesNothing \/ Quits
  PROVE  CliInv'
<1>1. UNCHANGED <<stream, request, alike, late>> /\ command'.name = command.name /\ command.code = Running
  <2>1. UNCHANGED <<stream, request, alike, late>> /\ command.at # "exit"
    BY DEF Connects, Looks, TakesNothing, Quits
  <2>2. command.code = Running
    BY <2>1 DEF CliInv
  <2>3. command'.name = command.name
    BY DEF Connects, Looks, TakesNothing, Quits, Exits, At, CliInv, CliTypeOK
  <2> QED BY <2>1, <2>2, <2>3
<1>2. CliTypeOK'
  BY <1>1 DEF Connects, Looks, TakesNothing, Quits, Exits, At, CliInv, CliTypeOK
<1>3. LooksFirst'
  <2>0. command \in [name : Names, at : {"connect", "send", "loop", "recv", "exit"}, toSend : 0 .. 3, code : {0, 1, 2, Running}]
        /\ LooksFirst /\ UNCHANGED late /\ command'.name = command.name
    BY <1>1 DEF CliInv, CliTypeOK
  <2>1. CASE Connects
    BY <2>0, <2>1 DEF Connects, Exits, At, LooksFirst
  <2>2. CASE Looks
    BY <2>0, <2>2 DEF Looks, Exits, At, LooksFirst
  <2>3. CASE TakesNothing
    BY <2>0, <2>3 DEF TakesNothing, Exits, At, LooksFirst
  <2>4. CASE Quits
    BY <2>0, <2>4 DEF Quits, LooksFirst
  <2> QED BY <2>1, <2>2, <2>3, <2>4
<1>4. (command.code # Running => command.at = "exit")'
  BY <1>1 DEF Connects, Looks, TakesNothing, Quits, Exits, At, CliInv, CliTypeOK, Running
<1>5. command.at = "connect" => request = "none"
  BY DEF CliInv
<1>8. (command.at = "connect" \/ command.toSend > 0 => request = "none")'
  <2>1. command'.at # "connect" /\ command'.toSend = command.toSend
    BY DEF Connects, Looks, TakesNothing, Quits, Exits, At, CliInv, CliTypeOK
  <2> QED BY <1>1, <2>1 DEF CliInv
<1>6. \/ command'.code = Running
      \/ command'.code = 0 /\ command.name = "monitor"
      \/ command'.code = 1 /\ late.passed
      \/ command'.code = 2 /\ (stream.lost \/ request = "none")
  BY <1>1, <1>5 DEF Connects, Looks, TakesNothing, Quits, Exits, At, CliInv, CliTypeOK
<1>7. ExitTruth'
  BY <1>1, <1>3, <1>6 DEF ExitTruth, LooksFirst, Running
<1> QED BY <1>1, <1>2, <1>3, <1>4, <1>7, <1>8, CliQuiet

LEMMA CliWorld ==
  ASSUME CliInv, command.at # "exit", Drops \/ Passes
  PROVE  CliInv'
<1>1. /\ UNCHANGED <<command, request, alike>> /\ stream'.lines = stream.lines
      /\ late'.taken = late.taken /\ (late.passed => late'.passed)
  BY DEF Drops, Passes, CliInv, CliTypeOK
<1>2. CliTypeOK'
  BY DEF Drops, Passes, CliInv, CliTypeOK
<1>3. LooksFirst'
  BY <1>1 DEF CliInv, LooksFirst, CliTypeOK
<1>4. command.code = Running /\ (command.code # Running => command.at = "exit")'
  BY <1>1 DEF CliInv
<1>6. (command.at = "connect" \/ command.toSend > 0 => request = "none")'
  BY <1>1 DEF CliInv
<1>5. ExitTruth'
  BY <1>1, <1>3, <1>4 DEF ExitTruth, LooksFirst, Running
<1> QED BY <1>1, <1>2, <1>3, <1>4, <1>5, <1>6, CliQuiet

\* A command exits with a code that is true of its request, or of one another host made, and takes
\* at most one line after its deadline, whatever lines come.
THEOREM ExitHolds == CliSpec => []ExitTruth
<1>1. ASSUME CliInv, [CliNext]_cliVars PROVE CliInv'
  <2>1. CASE UNCHANGED cliVars
    BY <2>1, <1>1 DEF cliVars, CliInv, CliTypeOK, Justified, LooksFirst, ExitTruth
  <2> QED BY <1>1, <2>1, CliTakes, CliAnswers, CliOthers, CliSends, CliMoves, CliWorld DEF CliNext
<1>2. CliInv => ExitTruth
  BY DEF CliInv
<1> QED BY <1>1, <1>2, CliInitInv, PTL DEF CliSpec

-----------------------------------------------------------------------------
(* SavedFiles.  FilesWhole is not inductive: it says nothing of the inode  *)
(* that will become the file.  The invariant adds that a window that saves *)
(* has one of its own, apart from the file's, torn until it is written.    *)

Savers == [at : {"idle", "opened", "written"}, inode : Nat, save : Nat]

Active(w) == disk.saver[w].at # "idle"

Disks ==
  [kind : {"portals", "config"}, file : Nat, temporary : Nat, inodes : UNION {[1 .. n -> Nat] : n \in Nat},
   saver : [Windows -> Savers], saves : Nat, last : Nat, overlapped : BOOLEAN]

\* The inodes that exist, and that the two names lead to different ones.
Named ==
  /\ disk \in Disks
  /\ disk.file \in 1 .. disk.saves /\ disk.temporary \in 0 .. disk.saves
  /\ disk.temporary # disk.file /\ (disk.kind = "config" => disk.temporary = 0)
  /\ disk.inodes \in [1 .. disk.saves -> Nat]
  /\ \A w \in Windows : Active(w) => disk.saver[w].inode \in 1 .. disk.saves

\* What a window has written so far.
Progress(w) ==
  LET saver == disk.saver[w]
  IN /\ saver.at = "opened" => disk.inodes[saver.inode] = 0
     /\ saver.at = "written" => disk.inodes[saver.inode] = saver.save

ConfigInv ==
  disk.kind = "config" =>
    \A w \in Windows : Active(w) =>
      /\ Progress(w) /\ disk.saver[w].inode # disk.file
      /\ \A v \in Windows \ {w} : Active(v) => disk.saver[v].inode # disk.saver[w].inode

PortalsInv ==
  disk.kind = "portals" /\ ~disk.overlapped =>
    \A w \in Windows : Active(w) =>
      /\ Progress(w) /\ disk.temporary # 0 /\ disk.saver[w].inode = disk.temporary
      /\ \A v \in Windows \ {w} : ~Active(v)

FilesInv == Named /\ ConfigInv /\ PortalsInv /\ FilesWhole

LEMMA BegunFields ==
  ASSUME NEW d \in Disks, NEW w \in Windows, NEW i \in Nat
  PROVE  /\ Begun(w, d, i).kind = d.kind /\ Begun(w, d, i).file = d.file /\ Begun(w, d, i).last = d.last
         /\ Begun(w, d, i).temporary = d.temporary /\ Begun(w, d, i).inodes = d.inodes
         /\ Begun(w, d, i).saves = d.saves + 1
         /\ Begun(w, d, i).overlapped = (d.overlapped \/ \E v \in Windows \ {w} : d.saver[v].at # "idle")
         /\ Begun(w, d, i).saver =
              [d.saver EXCEPT ![w] = [at |-> "opened", inode |-> i, save |-> d.saves + 1]]
         /\ Begun(w, d, i) \in Disks
<1> DEFINE o == d.overlapped \/ \E v \in Windows \ {w} : d.saver[v].at # "idle"
           a == [d.saver EXCEPT ![w] = [at |-> "opened", inode |-> i, save |-> d.saves + 1]]
<1>1. o \in BOOLEAN
  BY DEF Disks
<1>2. a \in [Windows -> Savers]
  BY DEF Disks, Savers
<1>3. Begun(w, d, i) = [d EXCEPT !.saves = d.saves + 1, !.saver = a, !.overlapped = o]
  BY DEF Begun, Disks
<1> HIDE DEF o, a
<1>4. Begun(w, d, i) = [kind |-> d.kind, file |-> d.file, temporary |-> d.temporary, inodes |-> d.inodes,
                        saver |-> a, saves |-> d.saves + 1, last |-> d.last, overlapped |-> o]
  BY <1>3 DEF Disks
<1>5. /\ Begun(w, d, i).kind = d.kind /\ Begun(w, d, i).file = d.file /\ Begun(w, d, i).last = d.last
      /\ Begun(w, d, i).temporary = d.temporary /\ Begun(w, d, i).inodes = d.inodes
      /\ Begun(w, d, i).saves = d.saves + 1 /\ Begun(w, d, i).overlapped = o /\ Begun(w, d, i).saver = a
  BY <1>4
<1>6. Begun(w, d, i) \in Disks
  BY <1>1, <1>2, <1>4 DEF Disks
<1> QED BY <1>5, <1>6 DEF o, a

\* inodes, told by its own size.
LEMMA InodesOf ==
  ASSUME NEW n \in Nat, NEW f \in [1 .. n -> Nat]
  PROVE  f \in UNION {[1 .. m -> Nat] : m \in Nat}
  OBVIOUS

LEMMA NewFields ==
  ASSUME NEW d \in Disks, d.inodes \in [1 .. d.saves -> Nat]
  PROVE  /\ New(d).kind = d.kind /\ New(d).file = d.file /\ New(d).last = d.last
         /\ New(d).temporary = d.temporary /\ New(d).saves = d.saves
         /\ New(d).overlapped = d.overlapped /\ New(d).saver = d.saver
         /\ New(d).inodes \in [1 .. d.saves + 1 -> Nat] /\ New(d).inodes[d.saves + 1] = 0
         /\ \A j \in 1 .. d.saves : New(d).inodes[j] = d.inodes[j]
         /\ New(d) \in Disks
<1> DEFINE n == [i \in 1 .. d.saves + 1 |-> IF i <= d.saves THEN d.inodes[i] ELSE 0]
<1>1. d.saves \in Nat
  BY DEF Disks
<1>2. /\ n \in [1 .. d.saves + 1 -> Nat] /\ n[d.saves + 1] = 0
      /\ \A j \in 1 .. d.saves : n[j] = d.inodes[j]
  BY <1>1
<1>3. New(d) = [d EXCEPT !.inodes = n]
  BY DEF New, Disks
<1> HIDE DEF n
<1>4. n \in UNION {[1 .. m -> Nat] : m \in Nat}
  <2>1. d.saves + 1 \in Nat
    BY <1>1
  <2> QED BY <1>2, <2>1
<1>5. New(d) = [kind |-> d.kind, file |-> d.file, temporary |-> d.temporary, inodes |-> n,
                saver |-> d.saver, saves |-> d.saves, last |-> d.last, overlapped |-> d.overlapped]
  BY <1>3 DEF Disks
<1>6. New(d) \in Disks
  BY <1>4, <1>5 DEF Disks
<1> QED BY <1>2, <1>5, <1>6

LEMMA InitInv == FilesInit => FilesInv
<1> SUFFICES ASSUME FilesInit PROVE FilesInv
  OBVIOUS
<1>1. disk.saver \in [Windows -> Savers] /\ \A w \in Windows : ~Active(w)
  BY DEF FilesInit, Savers, Active
<1>2. disk.inodes \in [1 .. 1 -> Nat] /\ disk.inodes[1] = 1
  BY DEF FilesInit
<1>3. disk.inodes \in UNION {[1 .. m -> Nat] : m \in Nat}
  BY <1>2, InodesOf
<1>4. Named
  BY <1>1, <1>2, <1>3 DEF FilesInit, Named, Disks
<1> QED BY <1>1, <1>2, <1>4 DEF FilesInit, FilesInv, ConfigInv, PortalsInv, FilesWhole

\* Opening takes an inode i: a new one, or of portals the one a save left behind.
LEMMA OpenFields ==
  ASSUME FilesInv, NEW w \in Windows, Open(w)
  PROVE  \E i \in 1 .. disk.saves + 1 :
           /\ disk'.kind = disk.kind /\ disk'.file = disk.file /\ disk'.last = disk.last
           /\ disk'.saves = disk.saves + 1
           /\ disk'.overlapped = (disk.overlapped \/ \E v \in Windows \ {w} : Active(v))
           /\ disk'.saver = [disk.saver EXCEPT ![w] = [at |-> "opened", inode |-> i, save |-> disk.saves + 1]]
           /\ disk'.inodes \in [1 .. disk.saves + 1 -> Nat] /\ disk'.inodes[i] = 0
           /\ \A j \in 1 .. disk.saves : j # i => disk'.inodes[j] = disk.inodes[j]
           /\ i = disk.saves + 1 \/ (disk.kind = "portals" /\ i = disk.temporary)
           /\ disk'.temporary = IF disk.kind = "portals" THEN i ELSE 0
           /\ disk' \in Disks
<1>1. disk \in Disks /\ disk.saves \in Nat /\ disk.inodes \in [1 .. disk.saves -> Nat]
  BY DEF FilesInv, Named, Disks
<1>2. CASE disk.kind = "portals" /\ disk.temporary # 0
  <2> DEFINE i == disk.temporary
             e == [disk EXCEPT !.inodes[i] = 0]
  <2>1. i \in 1 .. disk.saves /\ i \in Nat
    BY <1>2 DEF FilesInv, Named
  <2>2. /\ e.inodes \in [1 .. disk.saves -> Nat] /\ e.inodes[i] = 0
        /\ \A j \in 1 .. disk.saves : j # i => e.inodes[j] = disk.inodes[j]
    BY <1>1, <2>1 DEF Disks
  <2>3. e \in Disks
    BY <1>1, <2>2, InodesOf DEF Disks
  <2>4. /\ e.kind = disk.kind /\ e.file = disk.file /\ e.last = disk.last /\ e.temporary = i
        /\ e.saves = disk.saves /\ e.overlapped = disk.overlapped /\ e.saver = disk.saver
    BY <1>1 DEF Disks
  <2>5. disk' = Begun(w, New(e), i)
    BY <1>2 DEF Open
  <2> HIDE DEF e, i
  <2>6. New(e) \in Disks
    BY <2>2, <2>3, <2>4, NewFields
  <2>7. \A j \in 1 .. disk.saves : New(e).inodes[j] = e.inodes[j]
    BY <2>2, <2>3, <2>4, NewFields
  <2>8. i \in 1 .. disk.saves + 1
    BY <1>1, <2>1
  <2>9. /\ New(e).kind = disk.kind /\ New(e).file = disk.file /\ New(e).last = disk.last
        /\ New(e).temporary = i /\ New(e).saves = disk.saves
        /\ New(e).overlapped = disk.overlapped /\ New(e).saver = disk.saver
        /\ New(e).inodes \in [1 .. disk.saves + 1 -> Nat] /\ New(e).inodes[i] = 0
        /\ \A j \in 1 .. disk.saves : j # i => New(e).inodes[j] = disk.inodes[j]
    BY <2>1, <2>2, <2>3, <2>4, NewFields
  <2>10. /\ disk'.kind = disk.kind /\ disk'.file = disk.file /\ disk'.last = disk.last
         /\ disk'.temporary = i /\ disk'.saves = disk.saves + 1 /\ disk'.inodes = New(e).inodes
         /\ disk'.overlapped = (disk.overlapped \/ \E v \in Windows \ {w} : Active(v))
         /\ disk'.saver = [disk.saver EXCEPT ![w] = [at |-> "opened", inode |-> i, save |-> disk.saves + 1]]
    BY <2>1, <2>5, <2>6, <2>9, BegunFields DEF Active
  <2>11. disk' \in Disks
    BY <2>1, <2>5, <2>6, BegunFields
  <2>12. disk.kind = "portals" /\ i = disk.temporary
    BY <1>2 DEF i
  <2> QED BY <2>8, <2>9, <2>10, <2>11, <2>12
<1>3. CASE ~(disk.kind = "portals" /\ disk.temporary # 0)
  <2> DEFINE i == disk.saves + 1
             t == IF disk.kind = "portals" THEN i ELSE 0
             e == [disk EXCEPT !.temporary = t]
  <2>1. i \in Nat /\ i \in 1 .. disk.saves + 1 /\ t \in Nat
    BY <1>1
  <2>2. e \in Disks /\ e.inodes = disk.inodes
    BY <1>1, <2>1 DEF Disks
  <2>3. /\ e.kind = disk.kind /\ e.file = disk.file /\ e.last = disk.last /\ e.temporary = t
        /\ e.saves = disk.saves /\ e.overlapped = disk.overlapped /\ e.saver = disk.saver
    BY <1>1 DEF Disks
  <2>4. disk' = Begun(w, New(e), i)
    BY <1>3 DEF Open
  <2> HIDE DEF e, i, t
  <2>5. New(e) \in Disks
    BY <1>1, <2>2, <2>3, NewFields
  <2>6. /\ New(e).kind = disk.kind /\ New(e).file = disk.file /\ New(e).last = disk.last
        /\ New(e).temporary = t /\ New(e).saves = disk.saves
        /\ New(e).overlapped = disk.overlapped /\ New(e).saver = disk.saver
        /\ New(e).inodes \in [1 .. disk.saves + 1 -> Nat] /\ New(e).inodes[disk.saves + 1] = 0
        /\ \A j \in 1 .. disk.saves : New(e).inodes[j] = disk.inodes[j]
    BY <1>1, <2>2, <2>3, NewFields
  <2>7. /\ disk'.kind = New(e).kind /\ disk'.file = New(e).file /\ disk'.last = New(e).last
        /\ disk'.temporary = New(e).temporary /\ disk'.saves = New(e).saves + 1
        /\ disk'.inodes = New(e).inodes
        /\ disk'.overlapped = (New(e).overlapped \/ \E v \in Windows \ {w} : New(e).saver[v].at # "idle")
        /\ disk'.saver =
             [New(e).saver EXCEPT ![w] = [at |-> "opened", inode |-> i, save |-> New(e).saves + 1]]
        /\ disk' \in Disks
    BY <2>1, <2>4, <2>5, BegunFields
  <2>8. disk'.overlapped = (disk.overlapped \/ \E v \in Windows \ {w} : Active(v))
    BY <2>6, <2>7 DEF Active
  <2>9. disk'.saver = [disk.saver EXCEPT ![w] = [at |-> "opened", inode |-> i, save |-> disk.saves + 1]]
    BY <2>6, <2>7
  <2>10. \A j \in 1 .. disk.saves : j # disk.saves + 1
    BY <1>1
  <2>11. /\ disk'.kind = disk.kind /\ disk'.file = disk.file /\ disk'.last = disk.last
         /\ disk'.saves = disk.saves + 1
         /\ disk'.inodes \in [1 .. disk.saves + 1 -> Nat] /\ disk'.inodes[i] = 0
         /\ \A j \in 1 .. disk.saves : j # i => disk'.inodes[j] = disk.inodes[j]
         /\ i = disk.saves + 1 /\ disk'.temporary = IF disk.kind = "portals" THEN i ELSE 0
    BY <2>6, <2>7, <2>10 DEF i, t
  <2>12. i \in 1 .. disk.saves + 1
    BY <2>1
  <2>13. disk' \in Disks
    BY <2>7
  <2> WITNESS i \in 1 .. disk.saves + 1
  <2> QED BY <2>8, <2>9, <2>11, <2>13
<1> QED BY <1>2, <1>3

LEMMA OpenInv ==
  ASSUME FilesInv, NEW w \in Windows, Open(w)
  PROVE  FilesInv'
<1>1. PICK i \in 1 .. disk.saves + 1 :
           /\ disk'.kind = disk.kind /\ disk'.file = disk.file /\ disk'.last = disk.last
           /\ disk'.saves = disk.saves + 1
           /\ disk'.overlapped = (disk.overlapped \/ \E v \in Windows \ {w} : Active(v))
           /\ disk'.saver = [disk.saver EXCEPT ![w] = [at |-> "opened", inode |-> i, save |-> disk.saves + 1]]
           /\ disk'.inodes \in [1 .. disk.saves + 1 -> Nat] /\ disk'.inodes[i] = 0
           /\ \A j \in 1 .. disk.saves : j # i => disk'.inodes[j] = disk.inodes[j]
           /\ i = disk.saves + 1 \/ (disk.kind = "portals" /\ i = disk.temporary)
           /\ disk'.temporary = IF disk.kind = "portals" THEN i ELSE 0
           /\ disk' \in Disks
  BY OpenFields
<1>2. disk \in Disks /\ disk.saves \in Nat /\ disk.saver \in [Windows -> Savers]
  BY DEF FilesInv, Named, Disks
<1>3. i # disk.file /\ disk.file \in 1 .. disk.saves
  BY <1>1, <1>2 DEF FilesInv, Named
<1>4. /\ disk'.saver[w].at = "opened" /\ disk'.saver[w].inode = i
      /\ \A v \in Windows \ {w} : disk'.saver[v] = disk.saver[v]
  BY <1>1, <1>2
<1>5. Active(w)' /\ \A v \in Windows \ {w} : Active(v)' <=> Active(v)
  BY <1>4 DEF Active
<1>6. Named'
  <2>1. /\ disk'.temporary \in 0 .. disk'.saves /\ disk'.temporary # disk'.file
        /\ disk'.file \in 1 .. disk'.saves /\ (disk'.kind = "config" => disk'.temporary = 0)
    BY <1>1, <1>2, <1>3
  <2>2. \A v \in Windows : Active(v)' => disk'.saver[v].inode \in 1 .. disk'.saves
    BY <1>1, <1>2, <1>4, <1>5 DEF FilesInv, Named
  <2> QED BY <1>1, <2>1, <2>2 DEF Named
<1>7. FilesWhole'
  <2>1. disk'.inodes[disk'.file] = disk.inodes[disk.file]
    BY <1>1, <1>3
  <2>2. ~disk'.overlapped => ~disk.overlapped
    BY <1>1
  <2> QED BY <1>1, <2>1, <2>2 DEF FilesInv, FilesWhole
<1>8. ConfigInv'
  <2> SUFFICES ASSUME disk.kind = "config", NEW v \in Windows, Active(v)'
               PROVE  /\ Progress(v)' /\ disk'.saver[v].inode # disk'.file
                      /\ \A u \in Windows \ {v} : Active(u)' => disk'.saver[u].inode # disk'.saver[v].inode
    BY <1>1 DEF ConfigInv
  <2>1. i = disk.saves + 1 /\ \A u \in Windows \ {w} : Active(u) => disk.saver[u].inode \in 1 .. disk.saves
    BY <1>1 DEF FilesInv, Named
  <2>2. \A u \in Windows \ {w} : Active(u) => disk.saver[u].inode # i
    BY <1>2, <2>1
  <2>3. CASE v = w
    BY <1>1, <1>3, <1>4, <1>5, <2>2, <2>3 DEF Progress
  <2>4. CASE v # w
    <3>1. Active(v) /\ Progress(v) /\ disk.saver[v].inode # disk.file
      BY <1>5, <2>4 DEF FilesInv, ConfigInv
    <3>2. Progress(v)'
      BY <1>1, <1>4, <2>1, <2>2, <2>4, <3>1 DEF Progress
    <3>3. \A u \in Windows \ {v} : Active(u)' => disk'.saver[u].inode # disk'.saver[v].inode
      BY <1>4, <1>5, <2>2, <2>4, <3>1 DEF FilesInv, ConfigInv
    <3> QED BY <1>1, <1>4, <2>4, <3>1, <3>2, <3>3
  <2> QED BY <2>3, <2>4
<1>9. PortalsInv'
  <2> SUFFICES ASSUME disk.kind = "portals", ~disk'.overlapped, NEW v \in Windows, Active(v)'
               PROVE  /\ Progress(v)' /\ disk'.temporary # 0 /\ disk'.saver[v].inode = disk'.temporary
                      /\ \A u \in Windows \ {v} : ~Active(u)'
    BY <1>1 DEF PortalsInv
  <2>1. v = w /\ \A u \in Windows \ {w} : ~Active(u)
    BY <1>1, <1>5
  <2>2. i # 0
    BY <1>1, <1>2
  <2> QED BY <1>1, <1>4, <1>5, <2>1, <2>2 DEF Progress
<1> QED BY <1>6, <1>7, <1>8, <1>9 DEF FilesInv

LEMMA WriteInv ==
  ASSUME FilesInv, NEW w \in Windows, Write(w)
  PROVE  FilesInv'
<1> DEFINE i == disk.saver[w].inode
<1>1. disk \in Disks /\ disk.saver \in [Windows -> Savers] /\ Active(w) /\ i \in 1 .. disk.saves
  BY DEF FilesInv, Named, Disks, Write, Active
<1>2. PICK text \in {disk.saver[w].save} \cup (IF disk.inodes[i] = 0 THEN {} ELSE {0}) :
        disk' = [disk EXCEPT !.inodes[i] = text, !.saver[w].at = "written"]
  BY DEF Write
<1>3. text \in Nat /\ (disk.inodes[i] = 0 => text = disk.saver[w].save)
  BY <1>1 DEF Savers
<1> DEFINE n == [disk.inodes EXCEPT ![i] = text]
           a == [disk.saver EXCEPT ![w].at = "written"]
<1>4. /\ n \in [1 .. disk.saves -> Nat] /\ n[i] = text
      /\ \A j \in 1 .. disk.saves : j # i => n[j] = disk.inodes[j]
  BY <1>1, <1>3 DEF FilesInv, Named
<1>5. /\ a \in [Windows -> Savers] /\ a[w].at = "written" /\ a[w].inode = i /\ a[w].save = disk.saver[w].save
      /\ \A v \in Windows \ {w} : a[v] = disk.saver[v]
  BY <1>1 DEF Savers
<1>6. disk' = [disk EXCEPT !.inodes = n, !.saver = a]
  BY <1>1, <1>2 DEF Disks
<1> HIDE DEF n, a
<1>7. disk' = [kind |-> disk.kind, file |-> disk.file, temporary |-> disk.temporary, inodes |-> n,
               saver |-> a, saves |-> disk.saves, last |-> disk.last, overlapped |-> disk.overlapped]
  BY <1>1, <1>6 DEF Disks
<1>8. n \in UNION {[1 .. m -> Nat] : m \in Nat}
  BY <1>1, <1>4 DEF Disks
<1>9. disk' \in Disks
  BY <1>1, <1>5, <1>7, <1>8 DEF Disks
<1>10. Active(w)' /\ \A v \in Windows \ {w} : Active(v)' <=> Active(v)
  BY <1>5, <1>7 DEF Active
<1>11. Named'
  BY <1>1, <1>4, <1>5, <1>7, <1>9, <1>10 DEF FilesInv, Named
<1>12. disk.kind = "config" \/ ~disk.overlapped => i # disk.file /\ text = disk.saver[w].save
  BY <1>1, <1>3 DEF FilesInv, Named, ConfigInv, PortalsInv, Progress, Write, Disks
<1>13. FilesWhole'
  BY <1>4, <1>7, <1>12 DEF FilesInv, Named, FilesWhole
<1>14. ConfigInv'
  <2> SUFFICES ASSUME disk.kind = "config", NEW v \in Windows, Active(v)'
               PROVE  /\ Progress(v)' /\ disk'.saver[v].inode # disk'.file
                      /\ \A u \in Windows \ {v} : Active(u)' => disk'.saver[u].inode # disk'.saver[v].inode
    BY <1>7 DEF ConfigInv
  <2>1. \A u \in Windows : Active(u)' => Active(u) /\ disk'.saver[u].inode = disk.saver[u].inode
    BY <1>1, <1>5, <1>7, <1>10
  <2>2. CASE v = w
    BY <1>1, <1>4, <1>5, <1>7, <1>12, <2>1, <2>2 DEF Progress, FilesInv, ConfigInv
  <2>3. CASE v # w
    <3>1. Progress(v) /\ disk.saver[v].inode # i /\ disk.saver[v].inode \in 1 .. disk.saves
      BY <1>1, <2>1, <2>3 DEF FilesInv, ConfigInv, Named
    <3>2. Progress(v)'
      BY <1>4, <1>5, <1>7, <2>3, <3>1 DEF Progress
    <3> QED BY <1>7, <2>1, <3>2 DEF FilesInv, ConfigInv
  <2> QED BY <2>2, <2>3
<1>15. PortalsInv'
  <2> SUFFICES ASSUME disk.kind = "portals", ~disk.overlapped, NEW v \in Windows, Active(v)'
               PROVE  /\ Progress(v)' /\ disk'.temporary # 0 /\ disk'.saver[v].inode = disk'.temporary
                      /\ \A u \in Windows \ {v} : ~Active(u)'
    BY <1>7 DEF PortalsInv
  <2>1. disk.temporary # 0 /\ i = disk.temporary /\ \A u \in Windows \ {w} : ~Active(u)
    BY <1>1 DEF FilesInv, PortalsInv
  <2>2. v = w /\ \A u \in Windows \ {w} : ~Active(u)'
    BY <1>10, <2>1
  <2> QED BY <1>4, <1>5, <1>7, <1>12, <2>1, <2>2 DEF Progress
<1> QED BY <1>11, <1>13, <1>14, <1>15 DEF FilesInv

\* A window that stops to save leaves the others and the file as they were.
LEMMA FailsInv ==
  ASSUME FilesInv, NEW w \in Windows, Fails(w)
  PROVE  FilesInv'
<1> DEFINE a == [disk.saver EXCEPT ![w].at = "idle"]
<1>1. disk \in Disks /\ disk.saver \in [Windows -> Savers]
  BY DEF FilesInv, Named, Disks
<1>2. a \in [Windows -> Savers] /\ a[w].at = "idle" /\ \A v \in Windows \ {w} : a[v] = disk.saver[v]
  BY <1>1 DEF Savers
<1>3. disk' = [disk EXCEPT !.saver = a]
  BY <1>1 DEF Fails, Disks
<1> HIDE DEF a
<1>4. disk' = [kind |-> disk.kind, file |-> disk.file, temporary |-> disk.temporary, inodes |-> disk.inodes,
               saver |-> a, saves |-> disk.saves, last |-> disk.last, overlapped |-> disk.overlapped]
  BY <1>1, <1>3 DEF Disks
<1>5. disk' \in Disks
  BY <1>1, <1>2, <1>4 DEF Disks
<1>6. ~Active(w)' /\ \A v \in Windows : Active(v)' => Active(v) /\ disk'.saver[v] = disk.saver[v]
  BY <1>2, <1>4 DEF Active
<1>7. Named' /\ FilesWhole'
  BY <1>4, <1>5, <1>6 DEF FilesInv, Named, FilesWhole
<1>8. ConfigInv'
  BY <1>4, <1>6 DEF FilesInv, ConfigInv, Progress
<1>9. PortalsInv'
  BY <1>4, <1>6 DEF FilesInv, PortalsInv, Progress
<1> QED BY <1>7, <1>8, <1>9 DEF FilesInv

LEMMA ReplaceInv ==
  ASSUME FilesInv, NEW w \in Windows, Replace(w)
  PROVE  FilesInv'
<1> DEFINE a == [disk.saver EXCEPT ![w].at = "idle"]
           i == disk.saver[w].inode
<1>1. /\ disk \in Disks /\ disk.saver \in [Windows -> Savers] /\ disk.saves \in Nat
      /\ disk.saver[w].at = "written" /\ Active(w) /\ i \in 1 .. disk.saves /\ disk.saver[w].save \in Nat
  BY DEF FilesInv, Named, Disks, Savers, Replace, Active
<1>2. CASE disk.kind = "portals" /\ disk.temporary = 0
  BY <1>1, <1>2, FailsInv DEF Replace, Fails
<1>3. CASE ~(disk.kind = "portals" /\ disk.temporary = 0)
  <2> DEFINE f == IF disk.kind = "portals" THEN disk.temporary ELSE i
             t == IF disk.kind = "portals" THEN 0 ELSE disk.temporary
  <2>1. disk' = [disk EXCEPT !.file = f, !.temporary = t, !.saver = a, !.last = disk.saver[w].save]
    BY <1>1, <1>3 DEF Replace, Disks
  <2>2. a \in [Windows -> Savers] /\ a[w].at = "idle" /\ \A v \in Windows \ {w} : a[v] = disk.saver[v]
    BY <1>1 DEF Savers
  <2>3. f \in 1 .. disk.saves /\ t = 0 /\ t # f /\ f \in Nat
    BY <1>1, <1>3 DEF FilesInv, Named, Disks
  <2>4. disk.kind = "config" => f = i
    OBVIOUS
  <2> HIDE DEF a, f, t
  <2>5. disk' = [kind |-> disk.kind, file |-> f, temporary |-> t, inodes |-> disk.inodes, saver |-> a,
                 saves |-> disk.saves, last |-> disk.saver[w].save, overlapped |-> disk.overlapped]
    BY <1>1, <2>1 DEF Disks
  <2>6. disk' \in Disks
    BY <1>1, <2>2, <2>3, <2>5 DEF Disks
  <2>7. ~Active(w)' /\ \A v \in Windows : Active(v)' => v # w /\ Active(v) /\ disk'.saver[v] = disk.saver[v]
    BY <2>2, <2>5 DEF Active
  <2>8. Named'
    BY <1>1, <2>3, <2>5, <2>6, <2>7 DEF FilesInv, Named
  <2>9. disk.kind = "config" \/ ~disk.overlapped => f = i /\ disk.inodes[i] = disk.saver[w].save
    BY <1>1, <2>4 DEF FilesInv, Named, ConfigInv, PortalsInv, Progress, f, Disks
  <2>10. FilesWhole'
    BY <2>5, <2>9 DEF FilesWhole
  <2>11. ConfigInv'
    BY <1>1, <2>4, <2>5, <2>7 DEF FilesInv, ConfigInv, Progress
  <2>12. PortalsInv'
    BY <1>1, <2>5, <2>7 DEF FilesInv, PortalsInv
  <2> QED BY <2>8, <2>10, <2>11, <2>12 DEF FilesInv
<1> QED BY <1>2, <1>3

LEMMA Inductive == FilesInv /\ [FilesNext]_disk => FilesInv'
<1> SUFFICES ASSUME FilesInv, [FilesNext]_disk PROVE FilesInv'
  OBVIOUS
<1>1. CASE UNCHANGED disk
  BY <1>1 DEF FilesInv, Named, ConfigInv, PortalsInv, Progress, Active, FilesWhole
<1>2. CASE FilesNext
  BY <1>2, OpenInv, WriteInv, ReplaceInv, FailsInv DEF FilesNext
<1> QED BY <1>1, <1>2

\* For any number of windows and saves: a window that loads configurations or portals never reads a
\* torn text, whatever saves are under way or were cut off; of the portals, unless two saves met.
THEOREM FilesHold == FilesSpec => []FilesWhole
<1>1. FilesInv => FilesWhole
  BY DEF FilesInv
<1> QED BY <1>1, InitInv, Inductive, PTL DEF FilesSpec

-----------------------------------------------------------------------------
(* PacketClient: the inbox of the window's client holds the lines of the   *)
(* DLL, whatever the two threads do to the socket.                         *)

Halves   == [session : Nat, number : Nat, half : {1, 2}, ok : BOOLEAN]
Sessions == [dll : {"queued", "served", "gone"}, open : BOOLEAN, flow : Seq(Halves), sent : Nat]
Clients  == [sock : Nat, closed : BOOLEAN, buffer : Seq(Halves), inbox : Seq(Nat \X Nat)]

LinkTypeOK ==
  /\ client \in Clients
  /\ worker \in [at : {"connect", "clear", "recv", "take", "closing", "swapping"}, sock : Nat]
  /\ sender \in [at : {"idle", "sending", "closing", "swapping"}, sock : Nat]
  /\ session \in Seq(Sessions)
  /\ dll \in [up : BOOLEAN, faults : Nat]

\* Half k, from 0 on, of what the DLL says in session n; a first half is well-formed.
HalfAt(n, k, x) ==
  x.session = n /\ 2 * (x.number - 1) + (x.half - 1) = k /\ (x.half = 1 => x.ok)

\* With k halves taken, unread and then the flow of session n go on without a gap, and up to the last
\* half sent while both ends are there.
Reads(n, k, unread, s) ==
  /\ \A i \in 1 .. Len(unread) : HalfAt(n, k + i - 1, unread[i])
  /\ \A i \in 1 .. Len(s.flow) : HalfAt(n, k + Len(unread) + i - 1, s.flow[i])
  /\ s.open /\ s.dll # "gone" => k + Len(unread) + Len(s.flow) = s.sent

\* The worker belongs to the last session; in "clear" the buffer is still that of an earlier one.
InSession == worker.at \in {"clear", "recv", "take"}
Unread    == IF worker.at = "clear" THEN <<>> ELSE client.buffer

\* How many lines of session n the inbox holds, if none of a later one came.
Taken(n) ==
  LET last == client.inbox[Len(client.inbox)]
  IN IF client.inbox # <<>> /\ last[1] = n THEN last[2] ELSE 0

SocketOK ==
  /\ client.sock \in {0, Len(session)}
  /\ InSession => session # <<>>
  /\ worker.at = "take" => worker.sock = Len(session)

InboxOK ==
  client.inbox # <<>> =>
    LET last == client.inbox[Len(client.inbox)]
    IN last[1] <= Len(session) /\ (worker.at = "clear" => last[1] < Len(session))

LinkInv ==
  /\ LinkTypeOK /\ SocketOK /\ InboxOK /\ StreamWhole
  /\ InSession => Reads(Len(session), 2 * Taken(Len(session)), Unread, session[Len(session)])

-----------------------------------------------------------------------------
(* Reading, cut by cut. *)

\* A session that ends keeps what is on its way or loses it all.
Continues(s, t) ==
  \/ t.flow = <<>> /\ ~(t.open /\ t.dll # "gone")
  \/ t.flow = s.flow /\ t.sent = s.sent /\ (t.open /\ t.dll # "gone" => s.open /\ s.dll # "gone")

LEMMA ReadsOn ==
  ASSUME NEW n, NEW k, NEW unread, NEW s, NEW t, Reads(n, k, unread, s), Continues(s, t)
  PROVE  Reads(n, k, unread, t)
<1>1. \A i : i \notin 1 .. Len(<<>>)
  BY EmptySeq
<1> QED BY <1>1 DEF Reads, Continues

LEMMA ReadsChunk ==
  ASSUME NEW n \in Nat, NEW k \in Nat, NEW unread \in Seq(Halves), NEW s \in Sessions, NEW m \in 1 .. Len(s.flow),
         Reads(n, k, unread, s)
  PROVE  LET flow == SubSeq(s.flow, m + 1, Len(s.flow))
         IN /\ flow \in Seq(Halves) /\ unread \o SubSeq(s.flow, 1, m) \in Seq(Halves)
            /\ Reads(n, k, unread \o SubSeq(s.flow, 1, m), [s EXCEPT !.flow = flow])
<1> DEFINE piece == SubSeq(s.flow, 1, m)
           flow == SubSeq(s.flow, m + 1, Len(s.flow))
           longer == unread \o piece
<1>1. PICK f \in Nat, u \in Nat : f = Len(s.flow) /\ u = Len(unread)
  BY DEF Sessions
<1>2. m \in 1 .. f /\ s.flow \in Seq(Halves)
  BY <1>1 DEF Sessions
<1>3. piece \in Seq(Halves) /\ Len(piece) = m /\ \A i \in 1 .. m : piece[i] = s.flow[i]
  <2>1. \A i \in 1 .. m : s.flow[i] \in Halves /\ 1 + i - 1 = i
    BY <1>1, <1>2
  <2>2. 1 \in Int /\ m \in Int /\ 1 <= m /\ m - 1 + 1 = m
    BY <1>2
  <2> QED BY <2>1, <2>2, SubSeqProperties
<1>4. flow \in Seq(Halves) /\ Len(flow) = f - m /\ \A i \in 1 .. f - m : flow[i] = s.flow[m + i]
  <2>1. \A i \in m + 1 .. f : s.flow[i] \in Halves
    BY <1>1, <1>2
  <2>2. /\ m + 1 \in Int /\ f \in Int /\ f - (m + 1) + 1 = f - m
        /\ (m + 1 <= f \/ f - m = 0) /\ \A i \in 1 .. f - m : m + 1 + i - 1 = m + i
    BY <1>1, <1>2
  <2> QED BY <1>1, <2>1, <2>2, SubSeqProperties
<1> HIDE DEF piece, flow
<1>5. longer \in Seq(Halves) /\ Len(longer) = u + m
      /\ \A i \in 1 .. u + m : longer[i] = IF i <= u THEN unread[i] ELSE piece[i - u]
  BY <1>1, <1>3, ConcatProperties
<1> HIDE DEF longer
<1>6. [s EXCEPT !.flow = flow].flow = flow /\ [s EXCEPT !.flow = flow].open = s.open
      /\ [s EXCEPT !.flow = flow].dll = s.dll /\ [s EXCEPT !.flow = flow].sent = s.sent
  BY DEF Sessions
<1>7. \A i \in 1 .. f : HalfAt(n, k + u + i - 1, s.flow[i])
  BY <1>1 DEF Reads
<1>8. \A i \in 1 .. u + m : HalfAt(n, k + i - 1, longer[i])
  <2> SUFFICES ASSUME NEW i \in 1 .. u + m PROVE HalfAt(n, k + i - 1, longer[i])
    OBVIOUS
  <2>1. CASE i <= u
    BY <1>1, <1>5, <2>1 DEF Reads
  <2>2. CASE i > u
    <3>1. i - u \in 1 .. m /\ i - u \in 1 .. f /\ k + u + (i - u) - 1 = k + i - 1 /\ ~(i <= u)
      BY <1>1, <1>2, <2>2
    <3> QED BY <1>3, <1>5, <1>7, <3>1
  <2> QED BY <1>1, <2>1, <2>2
<1>9. \A i \in 1 .. f - m : HalfAt(n, k + (u + m) + i - 1, flow[i])
  <2> SUFFICES ASSUME NEW i \in 1 .. f - m PROVE HalfAt(n, k + (u + m) + i - 1, flow[i])
    OBVIOUS
  <2>1. m + i \in 1 .. f /\ k + u + (m + i) - 1 = k + (u + m) + i - 1
    BY <1>1, <1>2
  <2> QED BY <1>4, <1>7, <2>1
<1>10. s.open /\ s.dll # "gone" => k + (u + m) + (f - m) = s.sent
  <2>1. m \in Nat
    BY <1>2
  <2>2. k + (u + m) + (f - m) = k + u + f
    BY ONLY <2>1, k \in Nat, u \in Nat, f \in Nat
  <2> QED BY <1>1, <2>2 DEF Reads
<1>11. Reads(n, k, longer, [s EXCEPT !.flow = flow])
  BY <1>4, <1>5, <1>6, <1>8, <1>9, <1>10 DEF Reads
<1> QED BY <1>4, <1>5, <1>11 DEF longer, piece, flow

\* A newline in what is unread ends the next line, and both its halves are there.
LEMMA ReadsLine ==
  ASSUME NEW n \in Nat, NEW j \in Nat, NEW unread \in Seq(Halves), NEW s \in Sessions,
         Reads(n, 2 * j, unread, s), NEW e \in 1 .. Len(unread), unread[e].half = 2
  PROVE  /\ 2 \in 1 .. Len(unread) /\ unread[1].half = 1 /\ unread[2].half = 2
         /\ unread[2].session = n /\ unread[2].number = j + 1
         /\ unread[1] = [unread[2] EXCEPT !.half = 1, !.ok = TRUE]
         /\ SubSeq(unread, 3, Len(unread)) \in Seq(Halves)
         /\ Reads(n, 2 * (j + 1), SubSeq(unread, 3, Len(unread)), s)
<1>1. PICK u \in Nat : u = Len(unread)
  OBVIOUS
<1>2. \A i \in 1 .. u : unread[i] \in Halves /\ HalfAt(n, 2 * j + i - 1, unread[i])
  BY <1>1 DEF Reads
<1>3. 1 \in 1 .. u
  BY <1>1
<1>4. unread[1] \in Halves /\ HalfAt(n, 2 * j, unread[1])
  BY <1>2, <1>3
<1>5. unread[1].half = 1 /\ unread[1].number = j + 1 /\ unread[1].session = n /\ unread[1].ok = TRUE
  <2>1. PICK a \in Nat : a = unread[1].number
    BY <1>4 DEF Halves
  <2>2. CASE unread[1].half = 1
    <3>1. 2 * (a - 1) + (1 - 1) = 2 * j
      BY <1>4, <2>1, <2>2 DEF HalfAt
    <3>2. a = j + 1
      BY <3>1
    <3> QED BY <1>4, <2>1, <2>2, <3>2 DEF HalfAt, Halves
  <2>3. CASE unread[1].half = 2
    <3>1. 2 * (a - 1) + (2 - 1) = 2 * j
      BY <1>4, <2>1, <2>3 DEF HalfAt
    <3> QED BY <3>1
  <2> QED BY <1>4, <2>2, <2>3 DEF Halves
<1>6. 2 \in 1 .. u
  <2>1. e # 1
    BY <1>5
  <2> QED BY <1>1, <2>1
<1>7. unread[2] \in Halves /\ HalfAt(n, 2 * j + 1, unread[2])
  <2>1. 2 * j + 2 - 1 = 2 * j + 1
    OBVIOUS
  <2> QED BY <1>2, <1>6, <2>1
<1>8. unread[2].half = 2 /\ unread[2].number = j + 1 /\ unread[2].session = n
  <2>1. PICK b \in Nat : b = unread[2].number
    BY <1>7 DEF Halves
  <2>2. CASE unread[2].half = 2
    <3>1. 2 * (b - 1) + (2 - 1) = 2 * j + 1
      BY <1>7, <2>1, <2>2 DEF HalfAt
    <3>2. b = j + 1
      BY <3>1
    <3> QED BY <1>7, <2>1, <2>2, <3>2 DEF HalfAt
  <2>3. CASE unread[2].half = 1
    <3>1. 2 * (b - 1) + (1 - 1) = 2 * j + 1
      BY <1>7, <2>1, <2>3 DEF HalfAt
    <3> QED BY <3>1
  <2> QED BY <1>7, <2>2, <2>3 DEF Halves
<1>9. unread[1] = [unread[2] EXCEPT !.half = 1, !.ok = TRUE]
  BY <1>4, <1>5, <1>7, <1>8 DEF Halves
<1> DEFINE rest == SubSeq(unread, 3, Len(unread))
<1>10. rest \in Seq(Halves) /\ Len(rest) = u - 2 /\ \A i \in 1 .. u - 2 : rest[i] = unread[2 + i]
  <2>1. /\ 3 \in Int /\ u \in Int /\ u - 3 + 1 = u - 2 /\ (3 <= u \/ u - 2 = 0)
        /\ \A i \in 1 .. u - 2 : 3 + i - 1 = 2 + i
    BY <1>6
  <2>2. \A i \in 3 .. u : unread[i] \in Halves
    BY <1>2
  <2> QED BY <1>1, <2>1, <2>2, SubSeqProperties
<1> HIDE DEF rest
<1>11. \A i \in 1 .. u - 2 : HalfAt(n, 2 * (j + 1) + i - 1, rest[i])
  <2> SUFFICES ASSUME NEW i \in 1 .. u - 2 PROVE HalfAt(n, 2 * (j + 1) + i - 1, rest[i])
    OBVIOUS
  <2>1. 2 + i \in 1 .. u /\ 2 * j + (2 + i) - 1 = 2 * (j + 1) + i - 1
    BY <1>6
  <2> QED BY <1>2, <1>10, <2>1
<1>12. 2 * (j + 1) + (u - 2) = 2 * j + u
  OBVIOUS
<1>13. \A i \in 1 .. Len(s.flow) : HalfAt(n, 2 * (j + 1) + (u - 2) + i - 1, s.flow[i])
  BY <1>1, <1>12 DEF Reads
<1>14. s.open /\ s.dll # "gone" => 2 * (j + 1) + (u - 2) + Len(s.flow) = s.sent
  BY <1>1, <1>12 DEF Reads
<1>15. Reads(n, 2 * (j + 1), rest, s)
  BY <1>10, <1>11, <1>13, <1>14 DEF Reads
<1> QED BY <1>1, <1>5, <1>6, <1>8, <1>9, <1>10, <1>15 DEF rest

\* The DLL writes the next half.
LEMMA ReadsSpoken ==
  ASSUME NEW n \in Nat, NEW k \in Nat, NEW unread \in Seq(Halves), NEW s \in Sessions, s.open, s.dll = "served",
         Reads(n, k, unread, s), NEW ok \in BOOLEAN, ok \/ 1 + (s.sent % 2) = 2
  PROVE  LET half == [session |-> n, number |-> 1 + (s.sent \div 2), half |-> 1 + (s.sent % 2), ok |-> ok]
             flow == Append(s.flow, half)
         IN /\ [s EXCEPT !.sent = s.sent + 1, !.flow = flow] \in Sessions
            /\ Reads(n, k, unread, [s EXCEPT !.sent = s.sent + 1, !.flow = flow])
<1> DEFINE half == [session |-> n, number |-> 1 + (s.sent \div 2), half |-> 1 + (s.sent % 2), ok |-> ok]
           flow == Append(s.flow, half)
           t == [s EXCEPT !.sent = s.sent + 1, !.flow = flow]
<1>1. PICK q \in Nat, r \in {0, 1} : q = s.sent \div 2 /\ r = s.sent % 2 /\ s.sent = 2 * q + r
  <2>1. PICK m \in Nat : m = s.sent
    BY DEF Sessions
  <2>2. m \div 2 \in Nat /\ m % 2 \in {0, 1} /\ m = 2 * (m \div 2) + (m % 2)
    OBVIOUS
  <2> QED BY <2>1, <2>2
<1>2. half \in Halves /\ HalfAt(n, s.sent, half)
  <2>1. half = [session |-> n, number |-> 1 + q, half |-> 1 + r, ok |-> ok]
    BY <1>1
  <2>2. 1 + q \in Nat /\ 1 + r \in {1, 2} /\ 2 * (1 + q - 1) + (1 + r - 1) = s.sent
    <3>1. r \in Nat
      OBVIOUS
    <3>2. 2 * (1 + q - 1) + (1 + r - 1) = 2 * q + r
      BY ONLY <3>1, q \in Nat
    <3>3. 1 + q \in Nat /\ 1 + r \in {1, 2}
      OBVIOUS
    <3>4. s.sent = 2 * q + r
      BY <1>1
    <3> QED BY <3>2, <3>3, <3>4
  <2>3. 1 + r = 1 => ok
    BY <1>1
  <2> HIDE DEF half
  <2> QED BY <2>1, <2>2, <2>3 DEF Halves, HalfAt
<1> HIDE DEF half
<1>3. PICK f \in Nat, u \in Nat : f = Len(s.flow) /\ u = Len(unread) /\ s.flow \in Seq(Halves) /\ s.sent \in Nat
  BY DEF Sessions
<1>4. flow \in Seq(Halves) /\ Len(flow) = f + 1 /\ flow[f + 1] = half /\ \A i \in 1 .. f : flow[i] = s.flow[i]
  BY <1>2, <1>3
<1> HIDE DEF flow
<1>5. t \in Sessions /\ t.flow = flow /\ t.sent = s.sent + 1 /\ t.open = s.open /\ t.dll = s.dll
  <2>1. s.sent + 1 \in Nat
    BY <1>3
  <2>2. ASSUME NEW v \in Nat, NEW w \in Seq(Halves)
        PROVE  [s EXCEPT !.sent = v, !.flow = w] \in Sessions /\ [s EXCEPT !.sent = v, !.flow = w].flow = w
               /\ [s EXCEPT !.sent = v, !.flow = w].sent = v /\ [s EXCEPT !.sent = v, !.flow = w].open = s.open
               /\ [s EXCEPT !.sent = v, !.flow = w].dll = s.dll
    BY DEF Sessions
  <2> QED BY <1>4, <2>1, <2>2
<1> HIDE DEF t
<1>6. k + u + f = s.sent
  BY <1>3 DEF Reads
<1>7. \A i \in 1 .. f + 1 : HalfAt(n, k + u + i - 1, flow[i])
  <2> SUFFICES ASSUME NEW i \in 1 .. f + 1 PROVE HalfAt(n, k + u + i - 1, flow[i])
    OBVIOUS
  <2>1. CASE i = f + 1
    <3>1. k + u + (f + 1) - 1 = s.sent
      BY <1>6
    <3> QED BY <1>2, <1>4, <2>1, <3>1
  <2>2. CASE i # f + 1
    <3>1. i \in 1 .. f
      BY <2>2
    <3> QED BY <1>3, <1>4, <3>1 DEF Reads
  <2> QED BY <2>1, <2>2
<1>8. k + u + (f + 1) = s.sent + 1
  BY <1>6
<1>9. Reads(n, k, unread, t)
  BY <1>3, <1>4, <1>5, <1>7, <1>8 DEF Reads
<1> QED BY <1>5, <1>9 DEF t, flow, half

-----------------------------------------------------------------------------
(* The steps. *)

\* One session of a sequence changes.
LEMMA SessionChanges ==
  ASSUME NEW ss \in Seq(Sessions), NEW n \in DOMAIN ss, NEW t \in Sessions
  PROVE  /\ [ss EXCEPT ![n] = t] \in Seq(Sessions) /\ Len([ss EXCEPT ![n] = t]) = Len(ss)
         /\ \A j \in 1 .. Len(ss) : [ss EXCEPT ![n] = t][j] = IF j = n THEN t ELSE ss[j]
  BY ExceptSeq

\* What is not a step of the reader keeps what it reads, if the last session goes on.
LEMMA QuietKeeps ==
  ASSUME LinkInv, LinkTypeOK', worker' = worker, client'.buffer = client.buffer, client'.inbox = client.inbox,
         client'.sock \in {0, client.sock}, Len(session') = Len(session),
         session # <<>> => Continues(session[Len(session)], session'[Len(session)])
  PROVE  LinkInv'
<1>1. session # <<>> => session' # <<>>
  BY EmptySeq DEF LinkInv, LinkTypeOK
<1>2. SocketOK' /\ InboxOK' /\ StreamWhole'
  BY <1>1 DEF LinkInv, SocketOK, InboxOK, StreamWhole, InSession
<1>3. InSession => Reads(Len(session), 2 * Taken(Len(session)), Unread, session'[Len(session)])
  BY ReadsOn DEF LinkInv, SocketOK
<1>4. Unread' = Unread /\ InSession' = InSession
  BY DEF Unread, InSession
<1>5. \A n : Taken(n)' = Taken(n)
  BY DEF Taken
<1> QED BY <1>2, <1>3, <1>4, <1>5 DEF LinkInv

\* A worker that leaves its session reads nothing.
LEMMA LeavingKeeps ==
  ASSUME LinkInv, LinkTypeOK', ~InSession', client'.inbox = client.inbox, Len(session') = Len(session),
         client'.sock \in {0, client.sock}
  PROVE  LinkInv'
  BY DEF LinkInv, SocketOK, InboxOK, StreamWhole, InSession

LEMMA ShutKeeps ==
  ASSUME LinkTypeOK, NEW n \in DOMAIN session
  PROVE  /\ Shut(n) \in Seq(Sessions) /\ Len(Shut(n)) = Len(session)
         /\ \A j \in 1 .. Len(session) : Continues(session[j], Shut(n)[j])
<1> DEFINE t == [session[n] EXCEPT !.open = FALSE, !.flow = <<>>]
<1>1. session \in Seq(Sessions) /\ session[n] \in Sessions
  BY DEF LinkTypeOK
<1>2. t \in Sessions /\ t.flow = <<>> /\ ~t.open
  BY <1>1, EmptySeq DEF Sessions
<1>3. Shut(n) = [session EXCEPT ![n] = t]
  BY <1>1 DEF Shut
<1> HIDE DEF t
<1> QED BY <1>1, <1>2, <1>3, SessionChanges DEF Continues

\* close, of either thread: the flag, and then the last session or none.
LEMMA CloseFields ==
  ASSUME LinkTypeOK, SocketOK, NEW thread
  PROVE  /\ CloseSet(thread) =>
              client' \in Clients /\ client'.buffer = client.buffer /\ client'.inbox = client.inbox /\ client'.sock = client.sock
         /\ CloseSwap(thread) =>
              /\ client' \in Clients /\ client'.buffer = client.buffer /\ client'.inbox = client.inbox /\ client'.sock = 0
              /\ session' \in Seq(Sessions) /\ Len(session') = Len(session)
              /\ \A j \in 1 .. Len(session) : Continues(session[j], session'[j])
<1>1. client \in Clients /\ session \in Seq(Sessions)
  BY DEF LinkTypeOK
<1>2. ASSUME CloseSet(thread)
      PROVE  client' \in Clients /\ client'.buffer = client.buffer /\ client'.inbox = client.inbox /\ client'.sock = client.sock
  BY <1>1, <1>2 DEF CloseSet, Clients
<1>3. ASSUME CloseSwap(thread)
      PROVE  client' \in Clients /\ client'.buffer = client.buffer /\ client'.inbox = client.inbox /\ client'.sock = 0
  BY <1>1, <1>3 DEF CloseSwap, Clients
<1>4. ASSUME CloseSwap(thread)
      PROVE  /\ session' \in Seq(Sessions) /\ Len(session') = Len(session)
             /\ \A j \in 1 .. Len(session) : Continues(session[j], session'[j])
  <2>1. CASE client.sock = 0
    BY <1>1, <1>4, <2>1 DEF CloseSwap, Continues
  <2>2. CASE client.sock # 0
    <3>1. client.sock \in DOMAIN session
      BY <1>1, <2>2 DEF SocketOK
    <3> QED BY <1>4, <2>2, <3>1, ShutKeeps DEF CloseSwap
  <2> QED BY <2>1, <2>2
<1> QED BY <1>2, <1>3, <1>4

LEMMA ConnectKeeps ==
  ASSUME LinkInv, Connect
  PROVE  LinkInv'
<1> DEFINE new == [dll |-> "queued", open |-> TRUE, flow |-> <<>>, sent |-> 0]
<1>1. client \in Clients /\ session \in Seq(Sessions) /\ new \in Sessions /\ new.flow = <<>> /\ new.sent = 0
  BY EmptySeq DEF LinkInv, LinkTypeOK, Sessions
<1>2. session' = Append(session, new) /\ client' = [client EXCEPT !.sock = Len(session) + 1]
  BY DEF Connect
<1> HIDE DEF new
<1>3. PICK n \in Nat : n = Len(session) + 1
  BY <1>1
<1>4. session' \in Seq(Sessions) /\ Len(session') = n /\ session'[n] = new /\ session' # <<>> /\ n # 0
  BY <1>1, <1>2, <1>3, EmptySeq
<1>5. client' \in Clients /\ client'.sock = n /\ client'.inbox = client.inbox
  BY <1>1, <1>2, <1>3 DEF Clients
<1>6. worker' = [worker EXCEPT !.at = "clear"] /\ worker'.at = "clear" /\ LinkTypeOK'
  BY <1>4, <1>5 DEF Connect, LinkInv, LinkTypeOK
<1>7. SocketOK' /\ StreamWhole'
  BY <1>4, <1>5, <1>6 DEF SocketOK, StreamWhole, LinkInv
<1>8. client.inbox # <<>> => client.inbox[Len(client.inbox)][1] < n
  <2> SUFFICES ASSUME client.inbox # <<>> PROVE client.inbox[Len(client.inbox)][1] < n
    OBVIOUS
  <2>1. client.inbox[Len(client.inbox)] \in Nat \X Nat
    BY <1>1 DEF Clients
  <2>2. PICK m \in Nat : m = client.inbox[Len(client.inbox)][1]
    BY <2>1
  <2>3. m <= Len(session)
    BY <2>2 DEF LinkInv, InboxOK
  <2> QED BY <1>1, <1>3, <2>2, <2>3
<1>9. InboxOK'
  <2>1. client.inbox # <<>> => client.inbox[Len(client.inbox)][1] <= n
    <3> SUFFICES ASSUME client.inbox # <<>> PROVE client.inbox[Len(client.inbox)][1] <= n
      OBVIOUS
    <3>1. PICK m \in Nat : m = client.inbox[Len(client.inbox)][1]
      BY <1>1 DEF Clients
    <3> QED BY <1>8, <3>1
  <2> QED BY <1>4, <1>5, <1>8, <2>1 DEF InboxOK
<1>10. Unread' = <<>> /\ Taken(Len(session))' = 0
  <2>1. client.inbox # <<>> => client.inbox[Len(client.inbox)][1] # n
    <3> SUFFICES ASSUME client.inbox # <<>> PROVE client.inbox[Len(client.inbox)][1] # n
      OBVIOUS
    <3>1. PICK m \in Nat : m = client.inbox[Len(client.inbox)][1]
      BY <1>1 DEF Clients
    <3> QED BY <1>8, <3>1
  <2> QED BY <1>4, <1>5, <1>6, <2>1 DEF Unread, Taken
<1>11. Reads(n, 0, <<>>, new)
  <2>1. Len(<<>>) = 0 /\ \A i : i \notin 1 .. Len(<<>>)
    BY EmptySeq
  <2> QED BY <1>1, <2>1 DEF Reads
<1> QED BY <1>4, <1>6, <1>7, <1>9, <1>10, <1>11 DEF LinkInv

LEMMA ClearKeeps ==
  ASSUME LinkInv, Clear
  PROVE  LinkInv'
<1>1. client' = [client EXCEPT !.buffer = <<>>, !.closed = FALSE] /\ client \in Clients
      /\ worker' = [worker EXCEPT !.at = "recv"] /\ worker.at = "clear" /\ session' = session
  BY DEF Clear, LinkInv, LinkTypeOK
<1>2. client' \in Clients /\ client'.buffer = <<>> /\ client'.inbox = client.inbox /\ client'.sock = client.sock
  BY <1>1, EmptySeq DEF Clients
<1>3. LinkTypeOK' /\ worker'.at = "recv"
  BY <1>1, <1>2 DEF Clear, LinkInv, LinkTypeOK
<1>4. SocketOK' /\ InboxOK' /\ StreamWhole'
  BY <1>1, <1>2, <1>3 DEF LinkInv, SocketOK, InboxOK, StreamWhole, InSession
<1>5. Unread' = Unread /\ InSession /\ \A n : Taken(n)' = Taken(n)
  BY <1>1, <1>2, <1>3 DEF Unread, InSession, Taken
<1> QED BY <1>1, <1>3, <1>4, <1>5 DEF LinkInv

LEMMA RecvKeeps ==
  ASSUME LinkInv, RecvBegins \/ RecvFails \/ RecvTimesOut
  PROVE  LinkInv'
<1>1. UNCHANGED <<client, sender, session, dll>> /\ client \in Clients
  BY DEF RecvBegins, RecvFails, RecvTimesOut, LinkInv, LinkTypeOK
<1>2. LinkTypeOK'
  BY <1>1 DEF RecvBegins, RecvFails, RecvTimesOut, LinkInv, LinkTypeOK, Clients
<1>3. CASE worker'.at \in {"connect", "closing"}
  BY <1>1, <1>2, <1>3, LeavingKeeps DEF InSession
<1>4. CASE worker'.at \in {"take", "recv"} /\ worker.at \in {"recv", "take"}
  <2>1. SocketOK'
    BY <1>1, <1>4 DEF RecvBegins, RecvFails, RecvTimesOut, LinkInv, SocketOK, Usable, InSession
  <2>2. InboxOK' /\ StreamWhole'
    BY <1>1, <1>4 DEF LinkInv, InboxOK, StreamWhole
  <2>3. Unread' = Unread /\ InSession /\ \A n : Taken(n)' = Taken(n)
    BY <1>1, <1>4 DEF Unread, InSession, Taken
  <2> QED BY <1>1, <1>2, <2>1, <2>2, <2>3 DEF LinkInv
<1> QED BY <1>3, <1>4 DEF RecvBegins, RecvFails, RecvTimesOut, Selects

LEMMA ChunkKeeps ==
  ASSUME LinkInv, Chunk
  PROVE  LinkInv'
<1>1. PICK n \in Nat : n = Len(session) /\ worker.sock = n /\ n \in DOMAIN session
  BY EmptySeq DEF Chunk, Selects, LinkInv, LinkTypeOK, SocketOK, InSession
<1>2. PICK s \in Sessions : s = session[n]
  BY <1>1 DEF LinkInv, LinkTypeOK
<1>3. PICK m \in 1 .. Len(s.flow) :
        /\ client' = [client EXCEPT !.buffer = @ \o SubSeq(s.flow, 1, m)]
        /\ session' = [session EXCEPT ![n].flow = SubSeq(s.flow, m + 1, Len(s.flow))]
  BY <1>1, <1>2 DEF Chunk
<1>4. PICK unread \in Seq(Halves) : unread = client.buffer /\ client \in Clients
  BY DEF LinkInv, LinkTypeOK, Clients
<1>5. worker.at = "take" /\ UNCHANGED <<worker, sender, dll>>
  BY DEF Chunk, Selects
<1>6. PICK k \in Nat : k = 2 * Taken(n) /\ Reads(n, k, unread, s)
  <2>1. Taken(n) \in Nat
    BY <1>4 DEF Taken, Clients
  <2> QED BY <1>1, <1>2, <1>4, <1>5, <2>1 DEF LinkInv, InSession, Unread
<1> DEFINE flow == SubSeq(s.flow, m + 1, Len(s.flow))
           longer == unread \o SubSeq(s.flow, 1, m)
           t == [s EXCEPT !.flow = flow]
<1>7. flow \in Seq(Halves) /\ longer \in Seq(Halves) /\ Reads(n, k, longer, t)
  BY <1>6, ReadsChunk
<1>8. client' = [client EXCEPT !.buffer = longer] /\ session' = [session EXCEPT ![n] = t]
  BY <1>1, <1>2, <1>3, <1>4 DEF LinkInv, LinkTypeOK
<1> HIDE DEF longer, flow
<1>9. t \in Sessions
  BY <1>7 DEF Sessions
<1> HIDE DEF t
<1>10. client' \in Clients /\ client'.buffer = longer /\ client'.inbox = client.inbox /\ client'.sock = client.sock
  BY <1>4, <1>7, <1>8 DEF Clients
<1>11. session' \in Seq(Sessions) /\ Len(session') = n /\ session'[n] = t /\ session' # <<>>
  BY <1>1, <1>8, <1>9, SessionChanges, EmptySeq DEF LinkInv, LinkTypeOK
<1>12. LinkTypeOK'
  BY <1>5, <1>10, <1>11 DEF LinkInv, LinkTypeOK
<1>13. SocketOK' /\ InboxOK' /\ StreamWhole'
  BY <1>1, <1>5, <1>10, <1>11 DEF LinkInv, SocketOK, InboxOK, StreamWhole
<1>14. Unread' = longer /\ Taken(Len(session))' = Taken(n)
  BY <1>1, <1>5, <1>10, <1>11 DEF Unread, Taken
<1> QED BY <1>6, <1>7, <1>11, <1>12, <1>13, <1>14 DEF LinkInv

\* Line i of an inbox follows the one before.
FollowsIn(inbox, i) ==
  IF i = 1 \/ inbox[i - 1][1] # inbox[i][1]
    THEN inbox[i][2] = 1 /\ (i > 1 => inbox[i - 1][1] < inbox[i][1])
    ELSE inbox[i][2] = inbox[i - 1][2] + 1

LEMMA WholeIsFollows == StreamWhole <=> \A i \in DOMAIN client.inbox : FollowsIn(client.inbox, i)
  BY DEF StreamWhole, FollowsIn

LEMMA TakenType ==
  ASSUME client.inbox \in Seq(Nat \X Nat), NEW n
  PROVE  Taken(n) \in Nat
<1>1. CASE client.inbox # <<>>
  <2>1. client.inbox[Len(client.inbox)] \in Nat \X Nat
    BY <1>1, EmptySeq, ElementOfSeq
  <2> QED BY <2>1 DEF Taken
<1> QED BY <1>1 DEF Taken

\* A line taken is the next one of its session.
LEMMA AppendWhole ==
  ASSUME NEW n \in Nat, client.inbox \in Seq(Nat \X Nat), StreamWhole,
         client.inbox # <<>> => client.inbox[Len(client.inbox)][1] <= n,
         client'.inbox = Append(client.inbox, <<n, Taken(n) + 1>>)
  PROVE  /\ StreamWhole' /\ client'.inbox # <<>> /\ client'.inbox[Len(client'.inbox)] = <<n, Taken(n) + 1>>
<1>1. PICK old \in Seq(Nat \X Nat), c \in Nat, j \in Nat : old = client.inbox /\ c = Len(old) /\ j = Taken(n)
  <2>1. Taken(n) \in Nat /\ Len(client.inbox) \in Nat
    BY TakenType
  <2> QED BY <2>1
<1>2. <<n, j + 1>> \in Nat \X Nat
  OBVIOUS
<1>3. PICK new \in Nat \X Nat : new = <<n, j + 1>>
  BY <1>2
<1>4. PICK all : all = client'.inbox
  OBVIOUS
<1>5. /\ all \in Seq(Nat \X Nat) /\ Len(all) = c + 1 /\ all[c + 1] = new /\ \A i \in 1 .. c : all[i] = old[i]
  BY <1>1, <1>3, <1>4
<1>6. \A i \in 1 .. c : FollowsIn(old, i)
  BY <1>1, WholeIsFollows
<1>7. ASSUME NEW i \in 1 .. c PROVE FollowsIn(all, i)
  <2>1. all[i] = old[i] /\ (i # 1 => all[i - 1] = old[i - 1])
    <3>1. i # 1 => i - 1 \in 1 .. c
      OBVIOUS
    <3> QED BY <1>5, <3>1
  <2>2. CASE i = 1
    BY <1>6, <2>1, <2>2 DEF FollowsIn
  <2>3. CASE i # 1
    BY <1>6, <2>1, <2>3 DEF FollowsIn
  <2> QED BY <2>2, <2>3
<1>8. FollowsIn(all, c + 1)
  <2>1. new[1] = n /\ new[2] = j + 1 /\ all[(c + 1) - 1] = all[c] /\ all[c + 1] = new
    <3>1. (c + 1) - 1 = c
      OBVIOUS
    <3> QED BY <1>3, <1>5, <3>1
  <2>2. CASE c = 0
    <3>1. j = 0
      BY <1>1, <2>2, EmptySeq DEF Taken
    <3> QED BY <1>5, <2>1, <2>2, <3>1 DEF FollowsIn
  <2>3. CASE c # 0
    <3>1. old # <<>> /\ all[c] = old[c] /\ old[c] \in Nat \X Nat
      <4>1. c \in 1 .. c
        BY <2>3
      <4>2. old # <<>>
        BY <1>1, <2>3, EmptySeq
      <4> QED BY <1>1, <1>5, <4>1, <4>2, ElementOfSeq
    <3>2. PICK a \in Nat, b \in Nat : a = old[c][1] /\ b = old[c][2]
      BY <3>1
    <3>3. a <= n /\ j = IF a = n THEN b ELSE 0
      BY <1>1, <3>1, <3>2 DEF Taken
    <3>4. CASE a = n
      <4>1. j = b /\ all[c][2] = b /\ all[c][1] = n /\ c + 1 # 1
        BY <2>3, <3>1, <3>2, <3>3, <3>4
      <4> QED BY <2>1, <4>1 DEF FollowsIn
    <3>5. CASE a # n
      <4>1. j = 0 /\ all[c][1] # n /\ all[c][1] < n
        BY <2>3, <3>1, <3>2, <3>3, <3>5
      <4> QED BY <2>1, <4>1 DEF FollowsIn
    <3> QED BY <3>4, <3>5
  <2> QED BY <2>2, <2>3
<1>9. \A i \in DOMAIN all : FollowsIn(all, i)
  <2>1. \A i \in DOMAIN all : i = c + 1 \/ i \in 1 .. c
    BY <1>5
  <2> QED BY <1>7, <1>8, <2>1
<1>10. StreamWhole'
  BY <1>4, <1>9 DEF StreamWhole, FollowsIn
<1> QED BY <1>1, <1>3, <1>4, <1>5, <1>10, EmptySeq

LEMMA TakeKeeps ==
  ASSUME LinkInv, TakeLine
  PROVE  LinkInv'
<1>1. PICK n \in Nat : n = Len(session) /\ worker.sock = n /\ n \in DOMAIN session
  BY EmptySeq DEF TakeLine, LinkInv, LinkTypeOK, SocketOK, InSession
<1>2. PICK s \in Sessions : s = session[n]
  BY <1>1 DEF LinkInv, LinkTypeOK
<1>3. PICK unread \in Seq(Halves) : unread = client.buffer /\ client \in Clients
  BY DEF LinkInv, LinkTypeOK, Clients
<1>4. PICK j \in Nat : j = Taken(n)
  BY <1>3 DEF Taken, Clients
<1>5. worker.at = "take" /\ UNCHANGED <<sender, session, dll>>
  BY DEF TakeLine
<1>6. Reads(n, 2 * j, unread, s)
  BY <1>1, <1>2, <1>3, <1>4, <1>5 DEF LinkInv, InSession, Unread
<1>7. PICK e \in 1 .. Len(unread) : unread[e].half = 2
  BY <1>3 DEF TakeLine, LineEnds
<1>8. /\ 2 \in 1 .. Len(unread) /\ unread[1].half = 1 /\ unread[2].half = 2
      /\ unread[2].session = n /\ unread[2].number = j + 1
      /\ unread[1] = [unread[2] EXCEPT !.half = 1, !.ok = TRUE]
      /\ SubSeq(unread, 3, Len(unread)) \in Seq(Halves)
      /\ Reads(n, 2 * (j + 1), SubSeq(unread, 3, Len(unread)), s)
  BY <1>6, <1>7, ReadsLine
<1>9. LineEnd = 2
  <2>1. 2 \in LineEnds /\ 1 \notin LineEnds /\ \A i \in LineEnds : i \in Nat /\ i >= 1
    <3>1. \A i \in LineEnds : i \in 1 .. Len(unread) /\ unread[i].half = 2
      BY <1>3 DEF LineEnds
    <3>2. 2 \in LineEnds
      BY <1>3, <1>8 DEF LineEnds
    <3>3. 1 \notin LineEnds
      <4>1. unread[1].half # 2
        BY <1>8
      <4> QED BY <3>1, <4>1
    <3>4. \A i \in 1 .. Len(unread) : i \in Nat /\ i >= 1
      OBVIOUS
    <3> QED BY <3>1, <3>2, <3>3, <3>4
  <2>2. \A i \in LineEnds : 2 <= i
    BY <2>1
  <2>3. \A i \in LineEnds : (\A k \in LineEnds : i <= k) => i = 2
    BY <2>1, <2>2
  <2> QED BY <2>1, <2>2, <2>3 DEF LineEnd
<1>10. Line = unread[2]
  BY <1>3, <1>8, <1>9 DEF Line
<1> DEFINE rest == SubSeq(unread, 3, Len(unread))
<1>11. rest = SubSeq(client.buffer, LineEnd + 1, Len(client.buffer)) /\ rest \in Seq(Halves)
  BY <1>3, <1>8, <1>9
<1> HIDE DEF rest
<1>12. CASE ~Line.ok
  <2>1. client' = [client EXCEPT !.buffer = rest] /\ worker' = [at |-> "connect", sock |-> 0]
    BY <1>11, <1>12 DEF TakeLine
  <2>2. client' \in Clients /\ client'.inbox = client.inbox /\ client'.sock = client.sock
    BY <1>3, <1>11, <2>1 DEF Clients
  <2>3. LinkTypeOK' /\ ~InSession'
    BY <1>5, <2>1, <2>2 DEF LinkInv, LinkTypeOK, InSession
  <2> QED BY <1>5, <2>2, <2>3, LeavingKeeps
<1>13. CASE Line.ok
  <2> DEFINE inbox == Append(client.inbox, <<n, j + 1>>)
  <2>1. client' = [client EXCEPT !.buffer = rest, !.inbox = inbox] /\ worker' = [at |-> "recv", sock |-> 0]
    BY <1>8, <1>10, <1>11, <1>13 DEF TakeLine
  <2>2. client.inbox \in Seq(Nat \X Nat) /\ inbox \in Seq(Nat \X Nat)
    <3>1. <<n, j + 1>> \in Nat \X Nat
      OBVIOUS
    <3> QED BY <1>3, <3>1 DEF Clients
  <2> HIDE DEF inbox
  <2>3. client' \in Clients /\ client'.inbox = inbox /\ client'.sock = client.sock /\ client'.buffer = rest
    BY <1>3, <1>11, <2>1, <2>2 DEF Clients
  <2>4. LinkTypeOK' /\ worker'.at = "recv"
    BY <1>5, <2>1, <2>3 DEF LinkInv, LinkTypeOK
  <2>5. client.inbox # <<>> => client.inbox[Len(client.inbox)][1] <= n
    BY <1>1 DEF LinkInv, InboxOK
  <2>6. StreamWhole' /\ client'.inbox # <<>> /\ client'.inbox[Len(client'.inbox)] = <<n, j + 1>>
    BY <1>4, <2>2, <2>3, <2>5, AppendWhole DEF LinkInv, inbox
  <2>7. InboxOK' /\ SocketOK'
    BY <1>1, <1>5, <2>3, <2>4, <2>6 DEF LinkInv, InboxOK, SocketOK, InSession
  <2>8. Taken(Len(session))' = j + 1 /\ Unread' = rest
    BY <1>1, <1>5, <2>3, <2>4, <2>6 DEF Taken, Unread
  <2>9. Reads(n, 2 * (j + 1), rest, s)
    BY <1>8 DEF rest
  <2> QED BY <1>1, <1>2, <1>5, <2>4, <2>6, <2>7, <2>8, <2>9 DEF LinkInv
<1> QED BY <1>12, <1>13

LEMMA CloseKeeps ==
  ASSUME LinkInv, WorkerCloses \/ SenderCloses
  PROVE  LinkInv'
<1>1. LinkTypeOK /\ SocketOK /\ session \in Seq(Sessions)
  BY DEF LinkInv, LinkTypeOK
<1>2. \A j \in 1 .. Len(session) : Continues(session[j], session[j])
  BY DEF Continues
<1>3. session # <<>> => Len(session) \in 1 .. Len(session)
  BY <1>1, EmptySeq
<1>4. CASE WorkerCloses
  <2>1. /\ client' \in Clients /\ client'.inbox = client.inbox /\ client'.sock \in {0, client.sock}
        /\ session' \in Seq(Sessions) /\ Len(session') = Len(session)
    BY <1>1, <1>4, CloseFields DEF WorkerCloses
  <2>2. LinkTypeOK' /\ ~InSession'
    BY <1>1, <1>4, <2>1 DEF WorkerCloses, LinkTypeOK, InSession
  <2> QED BY <2>1, <2>2, LeavingKeeps
<1>5. CASE SenderCloses
  <2>1. /\ client' \in Clients /\ client'.inbox = client.inbox /\ client'.buffer = client.buffer
        /\ client'.sock \in {0, client.sock}
        /\ session' \in Seq(Sessions) /\ Len(session') = Len(session)
        /\ \A j \in 1 .. Len(session) : Continues(session[j], session'[j])
    BY <1>1, <1>2, <1>5, CloseFields DEF SenderCloses
  <2>2. LinkTypeOK' /\ worker' = worker
    BY <1>1, <1>5, <2>1 DEF SenderCloses, LinkTypeOK
  <2> QED BY <1>3, <2>1, <2>2, QuietKeeps
<1> QED BY <1>4, <1>5

LEMMA SpeaksKeeps ==
  ASSUME LinkInv, DllSpeaks
  PROVE  LinkInv'
<1>1. session \in Seq(Sessions) /\ dll \in [up : BOOLEAN, faults : Nat]
  BY DEF LinkInv, LinkTypeOK
<1>2. PICK n \in Served, ok \in BOOLEAN :
        LET half == 1 + (session[n].sent % 2)
        IN /\ session[n].open /\ session[n].sent < 2 * MaxLines
           /\ ok \/ (half = 2 /\ dll.faults < MaxFaults)
           /\ session' = [session EXCEPT ![n].sent = @ + 1,
                ![n].flow = Append(@, [session |-> n, number |-> 1 + (session[n].sent \div 2), half |-> half, ok |-> ok])]
           /\ dll' = [dll EXCEPT !.faults = @ + IF ok THEN 0 ELSE 1]
           /\ UNCHANGED <<client, worker, sender>>
  BY DEF DllSpeaks
<1>3. PICK s \in Sessions : s = session[n] /\ n \in DOMAIN session /\ n \in Nat /\ s.dll = "served" /\ s.open
  BY <1>1, <1>2 DEF Served
<1> DEFINE half == [session |-> n, number |-> 1 + (s.sent \div 2), half |-> 1 + (s.sent % 2), ok |-> ok]
           flow == Append(s.flow, half)
           t == [s EXCEPT !.sent = s.sent + 1, !.flow = flow]
<1>4. session' = [session EXCEPT ![n].sent = s.sent + 1, ![n].flow = flow]
  BY <1>1, <1>2, <1>3
<1>5. ok \/ 1 + (s.sent % 2) = 2
  BY <1>2, <1>3
<1>6. \A k \in Nat, unread \in Seq(Halves) : Reads(n, k, unread, s) => Reads(n, k, unread, t)
  BY <1>3, <1>5, ReadsSpoken
<1>7. t \in Sessions
  <2>1. <<>> \in Seq(Halves) /\ s.sent \in Nat /\ s.flow \in Seq(Halves)
    BY EmptySeq DEF Sessions
  <2>2. PICK q \in Nat, r \in {0, 1} : q = s.sent \div 2 /\ r = s.sent % 2
    <3>1. PICK m \in Nat : m = s.sent
      BY <2>1
    <3>2. m \div 2 \in Nat /\ m % 2 \in {0, 1}
      OBVIOUS
    <3> QED BY <3>1, <3>2
  <2>3. half \in Halves
    <3>1. half = [session |-> n, number |-> 1 + q, half |-> 1 + r, ok |-> ok]
      BY <2>2
    <3>2. 1 + q \in Nat /\ 1 + r \in {1, 2}
      OBVIOUS
    <3> HIDE DEF half
    <3> QED BY <1>3, <3>1, <3>2 DEF Halves
  <2> HIDE DEF half
  <2>4. flow \in Seq(Halves) /\ s.sent + 1 \in Nat
    BY <2>1, <2>3
  <2> HIDE DEF flow
  <2>5. ASSUME NEW v \in Nat, NEW w \in Seq(Halves) PROVE [s EXCEPT !.sent = v, !.flow = w] \in Sessions
    BY DEF Sessions
  <2> QED BY <2>4, <2>5
<1> HIDE DEF flow
<1>8. session' = [session EXCEPT ![n] = t]
  <2> DEFINE v == s.sent + 1
             e == [session EXCEPT ![n].sent = v]
             a == [s EXCEPT !.sent = v]
             b == [a EXCEPT !.flow = flow]
  <2>1. session' = [e EXCEPT ![n].flow = flow]
    BY <1>4
  <2>2. t = b
    OBVIOUS
  <2> HIDE DEF v, t
  <2>3. e = [session EXCEPT ![n] = a]
    BY <1>3
  <2> HIDE DEF a, e
  <2>4. e[n] = a
    BY <1>3, <2>3
  <2>5. [e EXCEPT ![n].flow = flow] = [e EXCEPT ![n] = b]
    BY <2>4
  <2> HIDE DEF b
  <2>6. [e EXCEPT ![n] = b] = [session EXCEPT ![n] = b]
    BY <1>1, <2>3
  <2> QED BY <2>1, <2>2, <2>5, <2>6
<1> HIDE DEF t
<1>9. /\ session' \in Seq(Sessions) /\ Len(session') = Len(session)
      /\ \A j \in 1 .. Len(session) : session'[j] = IF j = n THEN t ELSE session[j]
  BY <1>1, <1>3, <1>7, <1>8, SessionChanges
<1>10. dll' \in [up : BOOLEAN, faults : Nat]
  <2>1. dll.faults + 0 \in Nat /\ dll.faults + 1 \in Nat
    BY <1>1
  <2>2. dll' = [dll EXCEPT !.faults = dll.faults + IF ok THEN 0 ELSE 1]
    BY <1>2
  <2> QED BY <1>1, <2>1, <2>2
<1>11. LinkTypeOK' /\ UNCHANGED <<client, worker>>
  BY <1>2, <1>9, <1>10 DEF LinkInv, LinkTypeOK
<1>12. CASE n # Len(session)
  <2>1. session # <<>> => Continues(session[Len(session)], session'[Len(session)])
    <3>1. session # <<>> => Len(session) \in 1 .. Len(session)
      BY <1>1, EmptySeq
    <3> QED BY <1>9, <1>12, <3>1 DEF Continues
  <2> QED BY <1>9, <1>11, <2>1, QuietKeeps
<1>13. CASE n = Len(session)
  <2>1. SocketOK' /\ InboxOK' /\ StreamWhole' /\ session' # <<>>
    BY <1>1, <1>3, <1>9, <1>11, <1>13, EmptySeq DEF LinkInv, SocketOK, InboxOK, StreamWhole, InSession
  <2>2. client.inbox \in Seq(Nat \X Nat) /\ Unread \in Seq(Halves)
    BY EmptySeq DEF LinkInv, LinkTypeOK, Clients, Unread
  <2>3. PICK k \in Nat : k = 2 * Taken(n)
    BY <2>2, TakenType
  <2>4. InSession => Reads(n, k, Unread, t)
    BY <1>3, <1>6, <1>13, <2>2, <2>3 DEF LinkInv
  <2>5. session'[n] = t
    BY <1>1, <1>3, <1>9
  <2>6. Unread' = Unread /\ InSession' = InSession /\ Taken(Len(session))' = Taken(n)
    BY <1>9, <1>11, <1>13 DEF Unread, InSession, Taken
  <2> QED BY <1>9, <1>11, <1>13, <2>1, <2>3, <2>4, <2>5, <2>6 DEF LinkInv
<1> QED BY <1>12, <1>13

LEMMA OthersKeep ==
  ASSUME LinkInv, Send \/ Sent \/ SendFails \/ Collected \/ DllAccepts \/ DllNotices \/ DllDrops \/ DllStarts
  PROVE  LinkInv'
<1>1. LinkTypeOK /\ SocketOK /\ session \in Seq(Sessions) /\ DOMAIN session = 1 .. Len(session)
  BY DEF LinkInv, LinkTypeOK
<1>2. UNCHANGED <<client, worker>>
  BY DEF Send, Sent, SendFails, Collected, DllAccepts, DllNotices, DllDrops, DllStarts
<1>3. ASSUME /\ session' \in Seq(Sessions) /\ Len(session') = Len(session)
             /\ \A j \in 1 .. Len(session) : Continues(session[j], session'[j]),
             sender' \in [at : {"idle", "sending", "closing", "swapping"}, sock : Nat],
             dll' \in [up : BOOLEAN, faults : Nat]
      PROVE  LinkInv'
  <2>1. session # <<>> => Len(session) \in 1 .. Len(session)
    BY <1>1, EmptySeq
  <2>2. LinkTypeOK'
    BY <1>1, <1>2, <1>3 DEF LinkTypeOK
  <2> QED BY <1>2, <1>3, <2>1, <2>2, QuietKeeps
<1>4. \A j \in 1 .. Len(session) : Continues(session[j], session[j])
  BY DEF Continues
<1>5. CASE Send \/ Sent \/ SendFails \/ DllStarts
  <2>1. session' = session /\ dll' \in [up : BOOLEAN, faults : Nat]
        /\ sender' \in [at : {"idle", "sending", "closing", "swapping"}, sock : Nat]
    <3>1. client.sock \in Nat
      BY <1>1 DEF LinkTypeOK, Clients
    <3>2. CASE Send
      BY <1>1, <3>1, <3>2 DEF Send, LinkTypeOK
    <3>3. CASE Sent
      BY <1>1, <3>3 DEF Sent, LinkTypeOK
    <3>4. CASE SendFails
      BY <1>1, <3>4 DEF SendFails, LinkTypeOK
    <3>5. CASE DllStarts
      BY <1>1, <3>5 DEF DllStarts, LinkTypeOK
    <3> QED BY <1>5, <3>2, <3>3, <3>4, <3>5
  <2> QED BY <1>1, <1>3, <1>4, <2>1
<1>6. CASE Collected
  BY <1>1, <1>3, <1>6, ShutKeeps DEF Collected, LinkTypeOK
<1>7. ASSUME NEW n \in DOMAIN session, NEW d \in {"served", "gone"}, d = "gone" \/ session[n].dll = "queued",
             session' = [session EXCEPT ![n].dll = d], UNCHANGED <<sender, dll>>
      PROVE  LinkInv'
  <2> DEFINE t == [session[n] EXCEPT !.dll = d]
  <2>1. session[n] \in Sessions /\ t \in Sessions /\ Continues(session[n], t)
    <3>1. PICK s \in Sessions : s = session[n]
      BY <1>1
    <3>2. [s EXCEPT !.dll = d] \in Sessions /\ [s EXCEPT !.dll = d].flow = s.flow /\ [s EXCEPT !.dll = d].sent = s.sent
          /\ [s EXCEPT !.dll = d].dll = d /\ [s EXCEPT !.dll = d].open = s.open
      BY DEF Sessions
    <3>3. d # "gone" => s.dll # "gone"
      BY <1>7, <3>1
    <3> QED BY <3>1, <3>2, <3>3 DEF Continues
  <2>2. session' = [session EXCEPT ![n] = t]
    BY <1>7
  <2> HIDE DEF t
  <2>3. /\ session' \in Seq(Sessions) /\ Len(session') = Len(session)
        /\ \A j \in 1 .. Len(session) : session'[j] = IF j = n THEN t ELSE session[j]
    BY <1>1, <2>1, <2>2, SessionChanges
  <2>4. \A j \in 1 .. Len(session) : Continues(session[j], session'[j])
    BY <1>4, <2>1, <2>3
  <2>5. sender' \in [at : {"idle", "sending", "closing", "swapping"}, sock : Nat] /\ dll' \in [up : BOOLEAN, faults : Nat]
    BY <1>1, <1>7 DEF LinkTypeOK
  <2> QED BY <1>3, <2>3, <2>4, <2>5
<1>8. CASE DllAccepts \/ DllNotices
  BY <1>7, <1>8 DEF DllAccepts, DllNotices, Served
<1>9. CASE DllDrops
  <2>1. PICK all \in BOOLEAN, lost \in BOOLEAN :
          /\ session' = [n \in DOMAIN session |->
               IF all \/ n \in Served
                 THEN [session[n] EXCEPT !.dll = "gone", !.flow = IF lost THEN <<>> ELSE @]
                 ELSE session[n]]
          /\ dll' = [up |-> dll.up /\ ~all, faults |-> dll.faults + 1] /\ sender' = sender
    BY <1>9 DEF DllDrops
  <2>2. ASSUME NEW s \in Sessions
        PROVE  LET t == [s EXCEPT !.dll = "gone", !.flow = IF lost THEN <<>> ELSE @]
               IN t \in Sessions /\ Continues(s, t)
    <3>1. <<>> \in Seq(Halves)
      BY EmptySeq
    <3>2. ASSUME NEW w \in Seq(Halves)
          PROVE  [s EXCEPT !.dll = "gone", !.flow = w] \in Sessions /\ [s EXCEPT !.dll = "gone", !.flow = w].flow = w
                 /\ [s EXCEPT !.dll = "gone", !.flow = w].dll = "gone"
                 /\ [s EXCEPT !.dll = "gone", !.flow = w].sent = s.sent
      BY DEF Sessions
    <3>3. CASE lost
      BY <3>1, <3>2, <3>3 DEF Continues
    <3>4. CASE ~lost
      BY <3>2, <3>4 DEF Continues, Sessions
    <3> QED BY <3>3, <3>4
  <2>3. \A j \in 1 .. Len(session) : session'[j] \in Sessions /\ Continues(session[j], session'[j])
    <3> SUFFICES ASSUME NEW j \in 1 .. Len(session)
                 PROVE  session'[j] \in Sessions /\ Continues(session[j], session'[j])
      OBVIOUS
    <3>1. PICK s \in Sessions : s = session[j]
      BY <1>1
    <3>2. session'[j] = s \/ session'[j] = [s EXCEPT !.dll = "gone", !.flow = IF lost THEN <<>> ELSE @]
      BY <1>1, <2>1, <3>1
    <3>3. Continues(s, s)
      BY <1>4, <3>1
    <3> QED BY <2>2, <3>1, <3>2, <3>3
  <2>4. PICK len \in Nat : len = Len(session)
    <3>1. Len(session) \in Nat
      BY <1>1
    <3> QED BY <3>1
  <2>5. session' \in [1 .. len -> Sessions]
    BY <1>1, <2>1, <2>3, <2>4
  <2>6. session' \in Seq(Sessions) /\ Len(session') = len
    BY <2>5
  <2>7. dll' \in [up : BOOLEAN, faults : Nat]
    <3>1. dll.faults + 1 \in Nat
      BY <1>1 DEF LinkTypeOK
    <3> QED BY <2>1, <3>1
  <2> QED BY <1>1, <1>3, <2>1, <2>3, <2>4, <2>6, <2>7 DEF LinkTypeOK
<1> QED BY <1>5, <1>6, <1>8, <1>9

LEMMA NextKeeps == LinkInv /\ [LinkNext]_linkVars => LinkInv'
<1> SUFFICES ASSUME LinkInv, [LinkNext]_linkVars PROVE LinkInv'
  OBVIOUS
<1>1. CASE LinkNext
  BY <1>1, ConnectKeeps, ClearKeeps, RecvKeeps, TakeKeeps, ChunkKeeps, CloseKeeps, SpeaksKeeps, OthersKeep
  DEF LinkNext, Worker
<1>2. CASE UNCHANGED linkVars
  BY <1>2 DEF linkVars, LinkInv, LinkTypeOK, SocketOK, InboxOK, StreamWhole, InSession, Unread, Taken
<1> QED BY <1>1, <1>2

LEMMA InitKeeps == LinkInit => LinkInv
<1> SUFFICES ASSUME LinkInit PROVE LinkInv
  OBVIOUS
<1>1. LinkTypeOK /\ Len(session) = 0
  BY EmptySeq DEF LinkInit, LinkTypeOK, Clients
<1>2. SocketOK /\ InboxOK /\ ~InSession
  BY <1>1 DEF LinkInit, SocketOK, InboxOK, InSession
<1>3. StreamWhole
  BY EmptySeq DEF LinkInit, StreamWhole
<1> QED BY <1>1, <1>2, <1>3 DEF LinkInv

\* However the stream is cut, whichever thread closes the client, whatever a session left in the buffer and
\* whenever the DLL drops its host: the inbox holds the first lines of a session, in order and each once,
\* and then those of a later one.
THEOREM StreamIsWhole == LinkSpec => []StreamWhole
<1>1. LinkInv => StreamWhole
  BY DEF LinkInv
<1> QED BY <1>1, InitKeeps, NextKeeps, PTL DEF LinkSpec

=============================================================================
