---------------------------- MODULE PacketQueue ----------------------------
(***************************************************************************)
(* The ring between the hooks in the game's threads and the worker thread: *)
(* linux/src/dll/packet_queue.h.                                           *)
(*                                                                         *)
(* Every hook thread may push, the worker alone pops; a spinlock orders    *)
(* them.  The indices head and tail are free-running unsigned counters of  *)
(* IndexMod values (2^32 in the code) and a slot is index % Capacity.  One *)
(* step of this module is one access to shared memory, so that a missing   *)
(* or early unlock shows as a torn slot or a lost packet.                  *)
(*                                                                         *)
(* A captured text is a body and a length: the C string itself is a model  *)
(* value, its length is what the slot size clips.                          *)
(***************************************************************************)
EXTENDS Integers, Sequences, FiniteSets

CONSTANTS
  Producers,  \* game threads that run a hook
  Consumer,   \* the worker thread
  Bodies,     \* contents of the texts the game sends or receives
  NoBody,     \* the zeroed content of a slot nothing was written to
  Capacity,   \* slots in the ring (4096 in packetlogger.h)
  SlotSize,   \* bytes in a slot, its NUL included (2048)
  IndexMod,   \* values an index takes before it wraps (2^32)
  Texts       \* the texts the game passes to a hook, each a body and its length

Threads == Producers \cup {Consumer}

Free == "free"

\* The static_asserts of packet_queue.h:33-34, and what makes index % Capacity continuous over a
\* wrap: 512 and 4096, the capacities the code uses, divide 2^32.  The code states the first two.
ASSUME QueueAssumption ==
  /\ Capacity \in Nat \ {0}
  /\ SlotSize \in Nat /\ SlotSize >= 2
  /\ IndexMod \in Nat /\ IndexMod > Capacity
  /\ IndexMod % Capacity = 0

ASSUME ThreadAssumption ==
  /\ Consumer \notin Producers
  /\ Free \notin Threads

ASSUME TextAssumption ==
  /\ Texts \subseteq [body : Bodies, len : Nat]
  /\ NoBody \notin Bodies

VARIABLES
  lock,     \* lock_: the thread that holds the spinlock, or Free
  head,     \* head_: index of the next slot to write
  tail,     \* tail_: index of the next slot to read
  dropped,  \* dropped_: packets refused by a full ring
  data,     \* slots_[i].data
  len,      \* slots_[i].len
  pc,       \* where each thread is in push or pop
  arg,      \* text and clipped length a producer is pushing
  index,    \* the index register a thread loaded under the lock
  tmp,      \* pop's stack copy of the slot
  out       \* the string the last successful pop returned

vars == <<lock, head, tail, dropped, data, len, pc, arg, index, tmp, out>>

Slots  == 0 .. Capacity - 1
Copies == [body : Bodies \cup {NoBody}, len : 0 .. SlotSize - 1]
NoText == [body |-> NoBody, len |-> 0]
NoArg  == [body |-> NoBody, len |-> 0]

\* head - tail in unsigned arithmetic.
Distance == (head - tail) % IndexMod

\* slots_[i % Capacity] as the worker would read it.
SlotAt(i) == [body |-> data[i % Capacity], len |-> len[i % Capacity]]

\* The packets between tail and head, oldest first.
Contents == [i \in 1 .. Distance |-> SlotAt((tail + i - 1) % IndexMod)]

Init ==
  /\ lock = Free
  /\ head = 0 /\ tail = 0 /\ dropped = 0
  /\ data = [i \in Slots |-> NoBody]
  /\ len = [i \in Slots |-> 0]
  /\ pc = [t \in Threads |-> "idle"]
  /\ arg = [p \in Producers |-> NoArg]
  /\ index = [t \in Threads |-> 0]
  /\ tmp = NoText /\ out = NoText

-----------------------------------------------------------------------------
(* The spinlock. *)

Goto(t, from, to) == pc[t] = from /\ pc' = [pc EXCEPT ![t] = to]

AcquireUnguarded(t) ==
  /\ Goto(t, "spin", "load")
  /\ lock' = t
  /\ UNCHANGED <<head, tail, dropped, data, len, arg, index, tmp, out>>

\* test_and_set returned false: this thread set the flag.
Acquire(t) ==
  /\ lock = Free
  /\ Goto(t, "spin", "load")
  /\ lock' = t
  /\ UNCHANGED <<head, tail, dropped, data, len, arg, index, tmp, out>>

\* The registers of the call end with it.
Release(t) ==
  /\ lock' = Free
  /\ \/ Goto(t, "unlock", "idle")
     \/ Goto(t, "unlockTaken", "assign")
  /\ arg' = [p \in Producers |-> IF p = t THEN NoArg ELSE arg[p]]
  /\ index' = [index EXCEPT ![t] = 0]
  /\ UNCHANGED <<head, tail, dropped, data, len, tmp, out>>

-----------------------------------------------------------------------------
(* push: called by ntpl_on_packet_recv and ntpl_on_packet_send. *)

ClipOffByOne(n) == IF n > SlotSize THEN SlotSize - 1 ELSE n

Clip(n) == IF n >= SlotSize THEN SlotSize - 1 ELSE n

\* The length is found and clipped before the lock is taken.
PushBegin(p) ==
  \E text \in Texts :
    /\ Goto(p, "idle", "spin")
    /\ arg' = [arg EXCEPT ![p] = [body |-> text.body, len |-> Clip(text.len)]]
    /\ UNCHANGED <<lock, head, tail, dropped, data, len, index, tmp, out>>

FullOffByOne == Distance > Capacity

Full == Distance >= Capacity

PushFullKeepsLock(p) ==
  /\ Full
  /\ Goto(p, "load", "idle")
  /\ dropped' = (dropped + 1) % IndexMod
  /\ UNCHANGED <<lock, head, tail, data, len, arg, index, tmp, out>>

PushFull(p) ==
  /\ Full
  /\ Goto(p, "load", "unlock")
  /\ dropped' = (dropped + 1) % IndexMod
  /\ UNCHANGED <<lock, head, tail, data, len, arg, index, tmp, out>>

PushLoad(p) ==
  /\ ~Full
  /\ Goto(p, "load", "data")
  /\ index' = [index EXCEPT ![p] = head]
  /\ UNCHANGED <<lock, head, tail, dropped, data, len, arg, tmp, out>>

PushData(p) ==
  /\ Goto(p, "data", "len")
  /\ data' = [data EXCEPT ![index[p] % Capacity] = arg[p].body]
  /\ UNCHANGED <<lock, head, tail, dropped, len, arg, index, tmp, out>>

PushLen(p) ==
  /\ Goto(p, "len", "publish")
  /\ len' = [len EXCEPT ![index[p] % Capacity] = arg[p].len]
  /\ UNCHANGED <<lock, head, tail, dropped, data, arg, index, tmp, out>>

PushPublish(p) ==
  /\ Goto(p, "publish", "unlock")
  /\ head' = (index[p] + 1) % IndexMod
  /\ UNCHANGED <<lock, tail, dropped, data, len, arg, index, tmp, out>>

-----------------------------------------------------------------------------
(* pop: called by drain in the worker. *)

PopBegin(c) ==
  /\ Goto(c, "idle", "spin")
  /\ UNCHANGED <<lock, head, tail, dropped, data, len, arg, index, tmp, out>>

PopEmpty(c) ==
  /\ tail = head
  /\ Goto(c, "load", "unlock")
  /\ UNCHANGED <<lock, head, tail, dropped, data, len, arg, index, tmp, out>>

\* The indices are loaded and the slot's length is read and clipped again.
PopLoad(c) ==
  /\ tail # head
  /\ Goto(c, "load", "copy")
  /\ index' = [index EXCEPT ![c] = tail]
  /\ tmp' = [tmp EXCEPT !.len = Clip(len[tail % Capacity])]
  /\ UNCHANGED <<lock, head, tail, dropped, data, len, arg, out>>

PopCopy(c) ==
  /\ Goto(c, "copy", "advance")
  /\ tmp' = [tmp EXCEPT !.body = data[index[c] % Capacity]]
  /\ UNCHANGED <<lock, head, tail, dropped, data, len, arg, index, out>>

PopAdvance(c) ==
  /\ Goto(c, "advance", "unlockTaken")
  /\ tail' = (index[c] + 1) % IndexMod
  /\ UNCHANGED <<lock, head, dropped, data, len, arg, index, tmp, out>>

\* out.assign: the only allocation, after the lock is released.
PopAssign(c) ==
  /\ Goto(c, "assign", "idle")
  /\ out' = tmp
  /\ tmp' = NoText
  /\ UNCHANGED <<lock, head, tail, dropped, data, len, arg, index>>

-----------------------------------------------------------------------------

Push(p) ==
  \/ PushFull(p) \/ PushLoad(p) \/ PushData(p) \/ PushLen(p) \/ PushPublish(p)

Pop(c) ==
  \/ PopEmpty(c) \/ PopLoad(c) \/ PopCopy(c) \/ PopAdvance(c)

Next ==
  \/ \E t \in Threads : Acquire(t) \/ Release(t)
  \/ \E p \in Producers : PushBegin(p) \/ Push(p)
  \/ PopBegin(Consumer) \/ Pop(Consumer) \/ PopAssign(Consumer)

Spec == Init /\ [][Next]_vars

\* A thread inside the critical section is runnable and calls nothing that blocks, so it goes on;
\* nothing is assumed of a thread that spins or that has not called push or pop.
FairSpec ==
  /\ Spec
  /\ \A t \in Threads : WF_vars(Release(t))
  /\ \A p \in Producers : WF_vars(Push(p))
  /\ WF_vars(Pop(Consumer))

-----------------------------------------------------------------------------
(* Properties. *)

Holding == {"load", "data", "len", "publish", "copy", "advance", "unlock", "unlockTaken"}

\* Every variable keeps its type; in particular the indices stay below IndexMod and no slot, no
\* stack copy and no returned string is as long as SlotSize.
TypeOK ==
  /\ lock \in Threads \cup {Free}
  /\ head \in 0 .. IndexMod - 1
  /\ tail \in 0 .. IndexMod - 1
  /\ dropped \in 0 .. IndexMod - 1
  /\ data \in [Slots -> Bodies \cup {NoBody}]
  /\ len \in [Slots -> 0 .. SlotSize - 1]
  /\ pc \in [Threads -> Holding \cup {"idle", "spin", "assign"}]
  /\ arg \in [Producers -> [body : Bodies \cup {NoBody}, len : 0 .. SlotSize - 1]]
  /\ index \in [Threads -> 0 .. IndexMod - 1]
  /\ tmp \in Copies
  /\ out \in Copies

\* The spinlock excludes: a thread between lock() and unlock() is the one that holds it, so two
\* hooks on two game threads never write a slot at once, nor while the worker copies it.
MutualExclusion == \A t \in Threads : pc[t] \in Holding => lock = t

\* No slot a producer is writing is one of the packets still waiting, and the slot the worker
\* copies is the oldest of them: neither a wrap of the indices nor a full ring makes them meet.
SlotsDisjoint ==
  /\ Distance <= Capacity
  /\ \A p \in Producers : pc[p] \in {"data", "len", "publish"} =>
       \A i \in 1 .. Distance : index[p] % Capacity # ((tail + i - 1) % IndexMod) % Capacity
  /\ pc[Consumer] \in {"copy", "advance"} => index[Consumer] = tail /\ Distance > 0

\* The packet the worker took last: its stack copy from the moment tail moves past the slot.
Taken == IF pc[Consumer] \in {"unlockTaken", "assign"} THEN tmp ELSE out

Fifo == INSTANCE BoundedFifo
          WITH Items <- Copies, None <- NoText, CountMod <- IndexMod,
               fifo <- Contents, taken <- Taken

\* The ring is a bounded first-in first-out buffer: a push appends its own text whole or is
\* counted as dropped, a pop returns the oldest, whatever the interleaving and the wraps.
RefinesFifo == Fifo!Spec

\* push and pop let go of the lock on every path, the early returns included: a hook never
\* leaves the game's other threads spinning.
LockIsReleased == \A t \in Threads : (lock = t) ~> (lock # t)

=============================================================================
