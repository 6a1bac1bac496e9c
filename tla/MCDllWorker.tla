---------------------------- MODULE MCDllWorker ----------------------------
(***************************************************************************)
(* Instances of DllWorker.  The setups are the ones that differ in what    *)
(* the worker does: all hooks in; a client whose send signature moved, so  *)
(* that nothing can be injected; a hook that could not be written while    *)
(* send_packet works, so that an injected packet is not captured; and a    *)
(* port that is taken.                                                     *)
(***************************************************************************)
EXTENDS DllWorker

Setup(h, i, s) == [hooked |-> h, inject |-> i, serving |-> s]

AllHooks == {Setup({"recv", "send", "skill"}, TRUE, TRUE)}

CommandSetups == AllHooks \cup {Setup({"recv"}, TRUE, TRUE)}

EverySetup ==
  AllHooks \cup
  {Setup({"recv", "skill"}, FALSE, TRUE), Setup({"recv"}, TRUE, TRUE), Setup({}, FALSE, TRUE),
   Setup({"recv", "send"}, TRUE, FALSE)}

=============================================================================
