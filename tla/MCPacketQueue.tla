--------------------------- MODULE MCPacketQueue ---------------------------
(***************************************************************************)
(* A small PacketQueue: two hook threads and the worker, a ring of two     *)
(* slots whose indices wrap after four, slots of three bytes.  The short   *)
(* text fits, the long one is as long as the slot and is clipped to two.   *)
(***************************************************************************)
EXTENDS PacketQueue

CONSTANTS short, long

MCTexts == {[body |-> short, len |-> 1], [body |-> long, len |-> 3]}

=============================================================================
