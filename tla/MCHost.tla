------------------------------- MODULE MCHost -------------------------------
(***************************************************************************)
(* The parts of the host that share no state, each in its own behaviours:  *)
(* a behaviour is of one part, chosen at its start, and the others stand   *)
(* still in a state in which they can do nothing.                          *)
(***************************************************************************)
EXTENDS PacketClient, Commands, PathFinding, PortalStore, SavedFiles

VARIABLE part

hostVars == <<part, linkVars, cliVars, search, store, disk>>

\* A row of cells wide enough for two clusters and the space between them.
MCPlaces == [i \in 1 .. 8 |-> <<i - 1, 0>>]

\* One pair at opposite corners and one within.
MCEnds == {<<<<0, 0>>, <<3, 2>>>>, <<<<1, 0>>, <<2, 2>>>>}

LinkOff ==
  /\ client = [sock |-> 0, closed |-> FALSE, buffer |-> <<>>, inbox |-> <<>>]
  /\ worker = [at |-> "off", sock |-> 0] /\ sender = [at |-> "off", sock |-> 0]
  /\ session = <<>> /\ dll = [up |-> TRUE, faults |-> 0]

CliOff ==
  /\ command = [name |-> "monitor", at |-> "exit", toSend |-> 0, code |-> Running]
  /\ stream = [lines |-> <<>>, lost |-> FALSE] /\ request = "none"
  /\ alike = [lines |-> {}, count |-> 0] /\ late = [passed |-> FALSE, taken |-> 0]

PathOff  == search = [done |-> FALSE]
StoreOff == store = [busy |-> 0]
FilesOff == disk = [kind |-> "none", overlapped |-> TRUE]

HostInit ==
  /\ part \in {"link", "command", "path", "portals", "files"}
  /\ IF part = "link" THEN LinkInit ELSE LinkOff
  /\ IF part = "command" THEN CliInit ELSE CliOff
  /\ IF part = "path" THEN PathInit ELSE PathOff
  /\ IF part = "portals" THEN StoreInit ELSE StoreOff
  /\ IF part = "files" THEN FilesInit ELSE FilesOff

LinkStep    == part = "link" /\ LinkNext /\ UNCHANGED <<part, cliVars, search, store, disk>>
CommandStep == part = "command" /\ CliNext /\ UNCHANGED <<part, linkVars, search, store, disk>>
PathStep    == part = "path" /\ PathNext /\ UNCHANGED <<part, linkVars, cliVars, store, disk>>
StoreStep   == part = "portals" /\ StoreNext /\ UNCHANGED <<part, linkVars, cliVars, search, disk>>
FilesStep   == part = "files" /\ FilesNext /\ UNCHANGED <<part, linkVars, cliVars, search, store>>

HostNext == LinkStep \/ CommandStep \/ PathStep \/ StoreStep \/ FilesStep

\* LinkFair speaks of actions that are never enabled in the behaviours of the other parts.
HostSpec == HostInit /\ [][HostNext]_hostVars /\ LinkFair

\* LinkSettles of the behaviours that are the link's.
WorkerSettles == part = "link" => LinkSettles

=============================================================================
