---------------------------- MODULE BoundedFifo ----------------------------
(***************************************************************************)
(* What a capture ring promises the hooks that fill it and the worker that *)
(* empties it: a first-in first-out buffer of at most Capacity packets.  A *)
(* packet offered to a full buffer is refused and counted, never an older  *)
(* one, and nothing is refused while there is room.                        *)
(*                                                                         *)
(* PacketQueue implements this module; DllWorker is built on it.           *)
(***************************************************************************)
EXTENDS Integers, Sequences

CONSTANTS
  Items,     \* what the buffer holds
  None,      \* the value of `taken` before the first packet is taken
  Capacity,  \* packets the buffer holds at most
  CountMod   \* the drop counter is unsigned and wraps at this value

VARIABLES
  fifo,      \* the packets accepted and not taken yet, oldest first
  dropped,   \* packets refused because the buffer was full
  taken      \* the packet the consumer took last

vars == <<fifo, dropped, taken>>

Init ==
  /\ fifo = <<>>
  /\ dropped = 0
  /\ taken = None

Accept(x) ==
  /\ Len(fifo) < Capacity
  /\ fifo' = Append(fifo, x)
  /\ UNCHANGED <<dropped, taken>>

Refuse ==
  /\ Len(fifo) >= Capacity
  /\ dropped' = (dropped + 1) % CountMod
  /\ UNCHANGED <<fifo, taken>>

Deliver ==
  /\ fifo # <<>>
  /\ taken' = Head(fifo)
  /\ fifo' = Tail(fifo)
  /\ UNCHANGED dropped

Next ==
  \/ \E x \in Items : Accept(x)
  \/ Refuse
  \/ Deliver

Spec == Init /\ [][Next]_vars

=============================================================================
