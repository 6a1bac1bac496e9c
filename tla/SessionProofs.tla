---------------------------- MODULE SessionProofs ----------------------------
(***************************************************************************)
(* What a host knows of the game it follows, for every game, every list of *)
(* near entities, every number of requests and any loss of packets.        *)
(*                                                                         *)
(* None of the properties is inductive: they speak of a host that has read *)
(* everything.  The invariants say what the packets on the way will tell:  *)
(* of the packets that touch a field the last one shows the truth, and     *)
(* with none on the way the field is right already.                        *)
(***************************************************************************)
EXTENDS EngineSession, SequenceTheorems, FiniteSetTheorems, TLAPS

-----------------------------------------------------------------------------
(* What feed keeps, whatever packet comes. *)

\* A field of a world can be given any value of its set.
LEMMA FieldTyped ==
  ASSUME NEW w \in Worlds
  PROVE  /\ \A v \in Maps \cup {None} : [w EXCEPT !.map = v] \in Worlds
         /\ \A v \in Cells \cup {None} : [w EXCEPT !.pos = v] \in Worlds
         /\ \A v \in [Ids -> Cells \cup {None}] : [w EXCEPT !.entities = v] \in Worlds
         /\ \A v \in SUBSET Drops : [w EXCEPT !.drops = v] \in Worlds
         /\ \A v \in Players \cup {None} : [w EXCEPT !.self = v] \in Worlds
  BY DEF Worlds

LEMMA ForgetTyped ==
  ASSUME NEW w \in Worlds
  PROVE  ForgetMap(w) \in Worlds
<1>1. Unseen \in [Ids -> Cells \cup {None}]
  BY DEF Unseen
<1> QED BY <1>1 DEF ForgetMap, Worlds

LEMMA DepartureTyped ==
  ASSUME NEW w \in Worlds
  PROVE  RememberDeparture(w) \in Worlds
  BY DEF RememberDeparture, Worlds, Places

LEMMA MapTyped ==
  ASSUME NEW w \in Worlds, NEW p \in Packets
  PROVE  /\ p.op = "c_map" => OnMap(w, p) \in Worlds
         /\ p.op = "mapout" => OnMapout(w, p) \in Worlds
<1>1. RememberDeparture(w) \in Worlds /\ ForgetMap(w) \in Worlds /\ ForgetMap(RememberDeparture(w)) \in Worlds
  BY DepartureTyped, ForgetTyped
<1>2. p.op = "c_map" => p.map \in Maps
  BY DEF Packets
<1>3. p.op = "c_map" =>
        OnMap(w, p) = [ForgetMap(w) EXCEPT !.map = p.map]
        \/ OnMap(w, p) = [ForgetMap(RememberDeparture(w)) EXCEPT !.map = p.map]
  BY DEF OnMap
<1> QED BY <1>1, <1>2, <1>3, FieldTyped DEF OnMapout

LEMMA PositionTyped ==
  ASSUME NEW w \in Worlds, NEW p \in Packets, p.op = "at"
  PROVE  OnPosition(w, p) \in Worlds
<1>1. p.id \in Players /\ p.map \in Maps /\ p.cell \in Cells
  BY DEF Packets
<1>2. Crossed(w, p) \in [Places -> Maps \cup {None}]
  <2>1. w.departure # None => w.departure[1] \in Maps
    BY DEF Worlds, Places
  <2> QED BY <1>1, <2>1 DEF Crossed, Worlds
<1>3. w \in Worlds /\ ForgetMap(w) \in Worlds
  BY ForgetTyped
<1> DEFINE seen == IF w.map \in {None, p.map} THEN w ELSE ForgetMap(w)
<1>4. PICK x : x = Crossed(w, p)
  OBVIOUS
<1>5. seen \in Worlds /\ x \in [Places -> Maps \cup {None}]
  BY <1>2, <1>3, <1>4
<1>6. OnPosition(w, p) = [seen EXCEPT !.portals = x, !.departure = None, !.self = p.id, !.map = p.map, !.pos = p.cell]
  BY <1>4 DEF OnPosition
<1> HIDE DEF seen
<1> QED BY <1>1, <1>5, <1>6 DEF Worlds

LEMMA EntityTyped ==
  ASSUME NEW w \in Worlds, NEW p \in Packets
  PROVE  /\ p.op \in {"mv", "tp"} => OnMove(w, p) \in Worlds
         /\ p.op = "in" => OnSpawn(w, p) \in Worlds
         /\ p.op = "out" => OnDespawn(w, p) \in Worlds
         /\ p.op = "st" => OnStatus(w, p) \in Worlds
<1>1. p.op \in {"mv", "tp", "in"} => p.id \in Ids /\ p.cell \in Cells
  BY DEF Packets
<1>2. w.entities \in [Ids -> Cells \cup {None}]
  BY DEF Worlds
<1>3. \A id, c \in Cells \cup {None} : [w.entities EXCEPT ![id] = c] \in [Ids -> Cells \cup {None}]
  BY <1>2
<1>4. p.op \in {"mv", "tp"} => OnMove(w, p) \in Worlds
  BY <1>1, <1>3 DEF OnMove, Worlds
<1>5. p.op = "in" => OnSpawn(w, p) \in Worlds
  BY <1>1, <1>3 DEF OnSpawn, Worlds
<1>6. [w.entities EXCEPT ![p.id] = None] \in [Ids -> Cells \cup {None}]
  BY <1>2
<1>7. OnDespawn(w, p) \in Worlds
  BY <1>6 DEF OnDespawn, Worlds
<1>8. OnStatus(w, p) \in Worlds
  BY <1>6 DEF OnStatus, Worlds
<1> QED BY <1>4, <1>5, <1>7, <1>8

LEMMA ListTyped ==
  ASSUME NEW w \in Worlds, NEW p \in Packets
  PROVE  /\ p.op = "drop" => OnDrop(w, p) \in Worlds
         /\ p.op = "get" => OnGet(w, p) \in Worlds
         /\ p.op = "gp" => OnGate(w, p) \in Worlds
         /\ p.op = "wp" => OnWaypoint(w, p) \in Worlds
<1>1. (p.op = "drop" => p.drop \in Drops) /\ (p.op \in {"gp", "wp"} => p.cell \in Cells) /\ (p.op = "gp" => p.to \in Maps)
  BY DEF Packets
<1>2. p.op = "drop" => OnDrop(w, p) \in Worlds
  BY <1>1 DEF OnDrop, Worlds
<1>3. p.op = "get" => OnGet(w, p) \in Worlds
  BY DEF OnGet, Worlds
<1>4. p.op = "gp" => OnGate(w, p) \in Worlds
  BY <1>1 DEF OnGate, Worlds
<1>5. p.op = "wp" => OnWaypoint(w, p) \in Worlds
  BY <1>1 DEF OnWaypoint, Worlds, Places
<1> QED BY <1>2, <1>3, <1>4, <1>5

LEMMA SelfTyped ==
  ASSUME NEW w \in Worlds, NEW p \in Packets
  PROVE  /\ p.op = "walk" => OnWalk(w, p) \in Worlds
         /\ p.op = "rest" => OnRest(w, p) \in Worlds
         /\ p.op = "cond" => OnCondition(w, p) \in Worlds
<1>1. (p.op = "walk" => p.cell \in Cells \cup {None}) /\ (p.op = "rest" => p.id \in Players)
  BY DEF Packets
<1>2. p.op = "rest" => OnRest(w, p) \in Worlds
  BY <1>1 DEF OnRest, Worlds, Postures
<1> QED BY <1>1, <1>2, FieldTyped DEF OnWalk, OnCondition

LEMMA SkillTyped ==
  ASSUME NEW w \in Worlds, NEW p \in Packets
  PROVE  /\ p.op = "ski" => OnSkillList(w, p) \in Worlds
         /\ p.op = "u_s" => OnSkillSend(w, p) \in Worlds
         /\ p.op = "su" => OnSkillUsed(w, p) \in Worlds
<1>1. (p.op = "ski" => p.first \in Vnums) /\ (p.op = "u_s" => p.slot \in Slots) /\ (p.op = "su" => p.vnum \in Vnums)
  BY DEF Packets
<1>2. p.op = "su" => OnSkillUsed(w, p) \in Worlds
  BY <1>1 DEF OnSkillUsed, Worlds
<1>3. p.op = "ski" => OnSkillList(w, p) \in Worlds
  BY <1>1 DEF OnSkillList, Worlds
<1> QED BY <1>1, <1>2, <1>3 DEF OnSkillSend, Worlds

\* Every packet, in every world, leads to a world: no handler stores a field of a packet where
\* it does not belong.
THEOREM FeedTyped ==
  ASSUME NEW w \in Worlds, NEW packet \in Packets
  PROVE  Feed(w, packet) \in Worlds
  BY MapTyped, PositionTyped, EntityTyped, ListTyped, SelfTyped, SkillTyped DEF Feed, OnTeleport

\* A packet that bears another id.
OfAnother(w, packet) ==
  \/ packet.op \in {"mv", "tp", "in", "out", "st", "rest", "cond"} /\ packet.id # w.self
  \/ packet.op = "su" /\ packet.by # w.self

\* Once the own id is known, no packet of anyone else changes the own place, map, posture, id
\* or skills: a host follows its own character through a crowd.
THEOREM OthersChangeNothing ==
  ASSUME NEW w \in Worlds, NEW packet \in Packets, w.self # None, OfAnother(w, packet)
  PROVE  LET after == Feed(w, packet)
         IN \A field \in {"map", "pos", "self", "resting", "pending", "learned", "basic"} :
              after[field] = w[field]
<1>1. CASE packet.op \in {"mv", "tp"}
  BY <1>1 DEF OfAnother, Feed, OnMove, OnTeleport, Worlds
<1>2. CASE packet.op = "in"
  BY <1>2 DEF OfAnother, Feed, OnSpawn, Worlds
<1>3. CASE packet.op \in {"out", "st"}
  BY <1>3 DEF OfAnother, Feed, OnDespawn, OnStatus, Worlds
<1>4. CASE packet.op \in {"rest", "cond"}
  BY <1>4 DEF OfAnother, Feed, OnRest, OnCondition
<1>5. CASE packet.op = "su"
  BY <1>5 DEF OfAnother, Feed, OnSkillUsed, OwnHit
<1> QED BY <1>1, <1>2, <1>3, <1>4, <1>5 DEF OfAnother

-----------------------------------------------------------------------------
(* The last packet of a kind in a sequence. *)

LastIn(s, T, i) == i \in 1 .. Len(s) /\ s[i] \in T /\ \A j \in i + 1 .. Len(s) : s[j] \notin T

Free(s, T) == \A i \in 1 .. Len(s) : s[i] \notin T

\* A sequence with one more element.
LEMMA LastAppend ==
  ASSUME NEW S, NEW s \in Seq(S), NEW p \in S, NEW T
  PROVE  /\ Append(s, p) \in Seq(S) /\ Len(Append(s, p)) = Len(s) + 1
         /\ \A i \in 1 .. Len(s) : Append(s, p)[i] = s[i]
         /\ Append(s, p)[Len(s) + 1] = p
         /\ \A i : LastIn(Append(s, p), T, i) =>
              \/ i = Len(s) + 1 /\ p \in T
              \/ i \in 1 .. Len(s) /\ p \notin T /\ LastIn(s, T, i)
         /\ Free(Append(s, p), T) => Free(s, T) /\ p \notin T
<1>1. /\ Append(s, p) \in Seq(S) /\ Len(Append(s, p)) = Len(s) + 1 /\ Len(s) \in Nat
      /\ Append(s, p)[Len(s) + 1] = p
  OBVIOUS
<1>2. \A i \in 1 .. Len(s) : Append(s, p)[i] = s[i]
  OBVIOUS
<1>3. ASSUME NEW i, LastIn(Append(s, p), T, i)
      PROVE  \/ i = Len(s) + 1 /\ p \in T
             \/ i \in 1 .. Len(s) /\ p \notin T /\ LastIn(s, T, i)
  <2>1. i \in 1 .. Len(s) + 1 /\ Append(s, p)[i] \in T /\ \A j \in i + 1 .. Len(s) + 1 : Append(s, p)[j] \notin T
    BY <1>1, <1>3 DEF LastIn
  <2>2. CASE i = Len(s) + 1
    BY <1>1, <2>1, <2>2
  <2>3. CASE i \in 1 .. Len(s)
    <3>1. p \notin T
      <4>1. Len(s) + 1 \in i + 1 .. Len(s) + 1
        BY <1>1, <2>3
      <4> QED BY <1>1, <2>1, <4>1
    <3>2. \A j \in i + 1 .. Len(s) : s[j] \notin T
      <4> SUFFICES ASSUME NEW j \in i + 1 .. Len(s) PROVE s[j] \notin T
        OBVIOUS
      <4>1. j \in i + 1 .. Len(s) + 1 /\ j \in 1 .. Len(s)
        BY <1>1, <2>3
      <4> QED BY <1>2, <2>1, <4>1
    <3> QED BY <1>2, <2>1, <2>3, <3>1, <3>2 DEF LastIn
  <2> QED BY <1>1, <2>1, <2>2, <2>3
<1>4. ASSUME Free(Append(s, p), T) PROVE Free(s, T) /\ p \notin T
  <2>1. \A i \in 1 .. Len(s) + 1 : Append(s, p)[i] \notin T
    BY <1>1, <1>4 DEF Free
  <2>2. Len(s) + 1 \in 1 .. Len(s) + 1 /\ \A i \in 1 .. Len(s) : i \in 1 .. Len(s) + 1
    BY <1>1
  <2> QED BY <1>1, <1>2, <2>1, <2>2 DEF Free
<1> QED BY <1>1, <1>2, <1>3, <1>4

\* One sequence behind another.
LEMMA LastConcat ==
  ASSUME NEW S, NEW s \in Seq(S), NEW a \in Seq(S), NEW T
  PROVE  /\ s \o a \in Seq(S) /\ Len(s \o a) = Len(s) + Len(a) /\ Len(s) \in Nat /\ Len(a) \in Nat
         /\ \A i \in 1 .. Len(s) : (s \o a)[i] = s[i]
         /\ \A i \in 1 .. Len(a) : Len(s) + i \in 1 .. Len(s) + Len(a) /\ (s \o a)[Len(s) + i] = a[i]
         /\ \A i \in 1 .. Len(s) + Len(a) : i \in 1 .. Len(s) \/ \E j \in 1 .. Len(a) : i = Len(s) + j
         /\ \A i : LastIn(s \o a, T, i) =>
              \/ \E j \in 1 .. Len(a) : i = Len(s) + j /\ LastIn(a, T, j)
              \/ i \in 1 .. Len(s) /\ LastIn(s, T, i) /\ Free(a, T)
         /\ Free(s \o a, T) => Free(s, T) /\ Free(a, T)
<1>1. s \o a \in Seq(S) /\ Len(s \o a) = Len(s) + Len(a) /\ Len(s) \in Nat /\ Len(a) \in Nat
  OBVIOUS
<1>2. \A i \in 1 .. Len(s) : (s \o a)[i] = s[i]
  OBVIOUS
<1>3. \A i \in 1 .. Len(a) : Len(s) + i \in 1 .. Len(s) + Len(a) /\ (s \o a)[Len(s) + i] = a[i]
  <2> SUFFICES ASSUME NEW i \in 1 .. Len(a)
               PROVE  Len(s) + i \in 1 .. Len(s) + Len(a) /\ (s \o a)[Len(s) + i] = a[i]
    OBVIOUS
  <2>1. Len(s) + i \in 1 .. Len(s) + Len(a) /\ Len(s) + i > Len(s) /\ (Len(s) + i) - Len(s) = i
    BY <1>1
  <2> QED BY <2>1
<1>4. \A i \in 1 .. Len(s) + Len(a) : i \in 1 .. Len(s) \/ \E j \in 1 .. Len(a) : i = Len(s) + j
  <2> SUFFICES ASSUME NEW i \in 1 .. Len(s) + Len(a), i \notin 1 .. Len(s)
               PROVE  \E j \in 1 .. Len(a) : i = Len(s) + j
    OBVIOUS
  <2>1. i - Len(s) \in 1 .. Len(a) /\ i = Len(s) + (i - Len(s))
    BY <1>1
  <2> QED BY <2>1
<1>5. ASSUME NEW i, LastIn(s \o a, T, i)
      PROVE  \/ \E j \in 1 .. Len(a) : i = Len(s) + j /\ LastIn(a, T, j)
             \/ i \in 1 .. Len(s) /\ LastIn(s, T, i) /\ Free(a, T)
  <2>1. /\ i \in 1 .. Len(s) + Len(a) /\ (s \o a)[i] \in T
        /\ \A k \in i + 1 .. Len(s) + Len(a) : (s \o a)[k] \notin T
    BY <1>1, <1>5 DEF LastIn
  <2>2. CASE i \in 1 .. Len(s)
    <3>1. \A k \in i + 1 .. Len(s) : k \in i + 1 .. Len(s) + Len(a) /\ k \in 1 .. Len(s)
      BY <1>1, <2>2
    <3>2. LastIn(s, T, i)
      BY <1>2, <2>1, <2>2, <3>1 DEF LastIn
    <3>3. \A k \in 1 .. Len(a) : Len(s) + k \in i + 1 .. Len(s) + Len(a)
      BY <1>1, <2>2
    <3>4. Free(a, T)
      BY <1>3, <2>1, <3>3 DEF Free
    <3> QED BY <2>2, <3>2, <3>4
  <2>3. CASE \E j \in 1 .. Len(a) : i = Len(s) + j
    <3>1. PICK j \in 1 .. Len(a) : i = Len(s) + j
      BY <2>3
    <3>2. a[j] \in T
      BY <1>3, <2>1, <3>1
    <3>3. \A k \in j + 1 .. Len(a) : k \in 1 .. Len(a) /\ Len(s) + k \in i + 1 .. Len(s) + Len(a)
      BY <1>1, <3>1
    <3>4. \A k \in j + 1 .. Len(a) : a[k] \notin T
      BY <1>3, <2>1, <3>3
    <3> QED BY <3>1, <3>2, <3>4 DEF LastIn
  <2> QED BY <1>4, <2>1, <2>2, <2>3
<1>6. ASSUME Free(s \o a, T) PROVE Free(s, T) /\ Free(a, T)
  <2>1. \A i \in 1 .. Len(s) + Len(a) : (s \o a)[i] \notin T
    BY <1>1, <1>6 DEF Free
  <2>2. \A i \in 1 .. Len(s) : i \in 1 .. Len(s) + Len(a)
    BY <1>1
  <2> QED BY <1>2, <1>3, <2>1, <2>2 DEF Free
<1> QED BY <1>1, <1>2, <1>3, <1>4, <1>5, <1>6

\* Concatenation without a word about a last element.
LEMMA ConcatFields ==
  ASSUME NEW S, NEW s \in Seq(S), NEW a \in Seq(S)
  PROVE  /\ s \o a \in Seq(S) /\ Len(s \o a) = Len(s) + Len(a)
         /\ \A i \in 1 .. Len(s) : (s \o a)[i] = s[i]
         /\ \A i \in 1 .. Len(a) : (s \o a)[Len(s) + i] = a[i]
<1> PICK T : T = {}
  OBVIOUS
<1> QED BY LastConcat

\* A sequence without its first k elements.
LEMMA LastShift ==
  ASSUME NEW s, Len(s) \in Nat, NEW k \in 0 .. Len(s), NEW T, NEW r, Len(r) = Len(s) - k,
         \A i \in 1 .. Len(r) : r[i] = s[i + k]
  PROVE  /\ \A i \in 1 .. Len(r) : i + k \in 1 .. Len(s)
         /\ \A i : LastIn(r, T, i) => i \in 1 .. Len(r) /\ LastIn(s, T, i + k)
<1>1. Len(s) \in Nat /\ k \in Nat /\ k <= Len(s)
  OBVIOUS
<1>2. ASSUME NEW i \in 1 .. Len(r) PROVE i + k \in 1 .. Len(s)
  BY <1>1
<1>3. ASSUME NEW i, LastIn(r, T, i) PROVE i \in 1 .. Len(r) /\ LastIn(s, T, i + k)
  <2>1. i \in 1 .. Len(r) /\ r[i] \in T /\ \A j \in i + 1 .. Len(r) : r[j] \notin T
    BY <1>3 DEF LastIn
  <2>2. \A j \in (i + k) + 1 .. Len(s) : s[j] \notin T
    <3> SUFFICES ASSUME NEW j \in (i + k) + 1 .. Len(s) PROVE s[j] \notin T
      OBVIOUS
    <3>1. j - k \in i + 1 .. Len(r) /\ j - k \in 1 .. Len(r) /\ (j - k) + k = j
      BY <1>1, <2>1
    <3>2. r[j - k] = s[(j - k) + k]
      BY <3>1
    <3> QED BY <2>1, <3>1, <3>2
  <2> QED BY <1>2, <2>1, <2>2 DEF LastIn
<1> QED BY <1>2, <1>3

LEMMA LastSuffix ==
  ASSUME NEW S, NEW s \in Seq(S), NEW k \in 0 .. Len(s), NEW T, NEW r, r = SubSeq(s, k + 1, Len(s))
  PROVE  /\ r \in Seq(S) /\ Len(r) = Len(s) - k /\ Len(r) \in Nat
         /\ \A i \in 1 .. Len(r) : i + k \in 1 .. Len(s) /\ r[i] = s[i + k]
         /\ \A i : LastIn(r, T, i) => i \in 1 .. Len(r) /\ LastIn(s, T, i + k)
<1>1. Len(s) \in Nat /\ k \in Nat /\ k <= Len(s)
  OBVIOUS
<1>2. r \in Seq(S) /\ Len(r) = Len(s) - k /\ \A i \in 1 .. Len(s) - k : r[i] = s[(k + 1) + i - 1]
  <2>1. \A i \in k + 1 .. Len(s) : s[i] \in S
    BY <1>1
  <2>2. k + 1 \in Int /\ Len(s) \in Int
    BY <1>1
  <2> QED BY <1>1, <2>1, <2>2, SubSeqProperties
<1>3. \A i \in 1 .. Len(r) : r[i] = s[i + k]
  <2> SUFFICES ASSUME NEW i \in 1 .. Len(s) - k PROVE r[i] = s[i + k]
    BY <1>2
  <2>1. (k + 1) + i - 1 = i + k
    BY <1>1
  <2> QED BY <1>2, <2>1
<1>4. Len(r) \in Nat
  BY <1>1, <1>2
<1>5. /\ \A i \in 1 .. Len(r) : i + k \in 1 .. Len(s)
      /\ \A i : LastIn(r, T, i) => i \in 1 .. Len(r) /\ LastIn(s, T, i + k)
  BY <1>1, <1>2, <1>3, LastShift
<1> QED BY <1>2, <1>3, <1>4, <1>5

\* A sequence without its first element.
LEMMA LastTail ==
  ASSUME NEW S, NEW s \in Seq(S), s # <<>>, NEW T
  PROVE  /\ Tail(s) \in Seq(S) /\ Len(Tail(s)) = Len(s) - 1 /\ Len(s) >= 1 /\ Head(s) = s[1] /\ Head(s) \in S
         /\ Len(s) \in Nat
         /\ \A i \in 1 .. Len(Tail(s)) : i + 1 \in 1 .. Len(s) /\ Tail(s)[i] = s[i + 1]
         /\ \A i : LastIn(Tail(s), T, i) => i \in 1 .. Len(Tail(s)) /\ LastIn(s, T, i + 1)
         /\ Free(Tail(s), T) => LastIn(s, T, 1) \/ (Head(s) \notin T /\ Free(s, T))
<1>1. Len(s) \in Nat /\ Len(s) >= 1 /\ Head(s) = s[1] /\ Head(s) \in S
  OBVIOUS
<1>2. Tail(s) \in Seq(S) /\ Len(Tail(s)) = Len(s) - 1 /\ \A i \in 1 .. Len(Tail(s)) : Tail(s)[i] = s[i + 1]
  OBVIOUS
<1>3. 1 \in 0 .. Len(s)
  BY <1>1
<1>4. /\ Tail(s) \in Seq(S) /\ Len(Tail(s)) = Len(s) - 1
      /\ \A i \in 1 .. Len(Tail(s)) : i + 1 \in 1 .. Len(s) /\ Tail(s)[i] = s[i + 1]
      /\ \A i : LastIn(Tail(s), T, i) => i \in 1 .. Len(Tail(s)) /\ LastIn(s, T, i + 1)
  <2>1. PICK r, k : r = Tail(s) /\ k = 1
    OBVIOUS
  <2>2. Len(r) = Len(s) - k /\ k \in 0 .. Len(s) /\ \A i \in 1 .. Len(r) : r[i] = s[i + k]
    BY <1>2, <1>3, <2>1
  <2>3. /\ \A i \in 1 .. Len(r) : i + k \in 1 .. Len(s)
        /\ \A i : LastIn(r, T, i) => i \in 1 .. Len(r) /\ LastIn(s, T, i + k)
    BY <1>1, <2>2, LastShift
  <2> QED BY <1>2, <2>1, <2>3
<1>5. ASSUME Free(Tail(s), T) PROVE LastIn(s, T, 1) \/ (Head(s) \notin T /\ Free(s, T))
  <2>1. \A j \in 1 + 1 .. Len(s) : s[j] \notin T
    <3> SUFFICES ASSUME NEW j \in 1 + 1 .. Len(s) PROVE s[j] \notin T
      OBVIOUS
    <3>1. j - 1 \in 1 .. Len(Tail(s)) /\ (j - 1) + 1 = j
      BY <1>1, <1>4
    <3> QED BY <1>4, <1>5, <3>1 DEF Free
  <2>2. \A j \in 1 .. Len(s) : j = 1 \/ j \in 1 + 1 .. Len(s)
    BY <1>1
  <2>3. 1 \in 1 .. Len(s)
    BY <1>1
  <2> QED BY <1>1, <2>1, <2>2, <2>3 DEF LastIn, Free
<1> QED BY <1>1, <1>4, <1>5

-----------------------------------------------------------------------------
(* Lists made of sets. *)

\* A sequence made of a finite set has its elements and no other.
LEMMA SeqOfSet ==
  ASSUME NEW D, IsFiniteSet(D)
  PROVE  /\ SetToSeq(D) \in Seq(D)
         /\ \A x \in D : \E i \in 1 .. Len(SetToSeq(D)) : SetToSeq(D)[i] = x
<1> DEFINE n == Cardinality(D)
           f == SetToSeq(D)
<1>1. n \in Nat /\ ExistsBijection(1 .. n, D)
  BY FS_CardinalityType
<1>2. \E g \in [1 .. n -> D] : IsInjective(g)
  BY <1>1 DEF ExistsBijection, Bijection, Injection
<1>3. f \in [1 .. n -> D] /\ IsInjective(f)
  BY <1>2 DEF SetToSeq
<1>4. f \in Injection(1 .. n, D)
  BY <1>3 DEF Injection
<1>5. IsFiniteSet(1 .. n) /\ Cardinality(1 .. n) = n
  BY <1>1, FS_Interval
<1>6. f \in Surjection(1 .. n, D)
  BY <1>4, <1>5, FS_Injection
<1>7. \A x \in D : \E i \in 1 .. n : f[i] = x
  BY <1>6 DEF Surjection
<1> HIDE DEF f, n
<1>8. f \in Seq(D) /\ Len(f) = n
  BY <1>1, <1>3
<1>9. /\ f \in Seq(D)
      /\ \A x \in D : \E i \in 1 .. Len(f) : f[i] = x
  BY <1>7, <1>8
<1> QED BY <1>9 DEF f

-----------------------------------------------------------------------------
(* The invariants. *)

\* What the server sends.
Sent ==
  [op : {"c_map"}, map : Maps, entering : BOOLEAN] \cup [op : {"mapout", "cancel"}]
  \cup [op : {"at"}, id : {Me}, map : Maps, cell : Cells] \cup [op : {"tp"}, id : {Me}, cell : Cells]
  \cup [op : {"mv", "in"}, id : Others, cell : Cells] \cup [op : {"out"}, id : Others]
  \cup [op : {"st"}, id : Monsters, dead : BOOLEAN] \cup [op : {"drop", "get"}, drop : Drops]
  \cup [op : {"rest"}, id : Players, sitting : BOOLEAN] \cup [op : {"cond"}, id : {Me}]
  \cup [op : {"gp"}, cell : Cells, to : Maps] \cup [op : {"wp"}, cell : Cells]
  \cup [op : {"ski"}, first : Vnums] \cup [op : {"su"}, by : Players, vnum : Vnums]

Mishaps == {"gap", "overtaken", "overlapped", "ignored", "warped", "mistaken", "ahead", "misplaced"}

SessionTypeOK ==
  /\ game \in Games /\ asked \in Seq(Requests)
  /\ wire \in [SEND : Seq(Requests), RECV : Seq(Sent)]
  /\ world \in Worlds /\ told \subseteq {"place", "map", "rest"} /\ mishaps \subseteq Mishaps
  /\ count \in Nat

Going  == wire.SEND
Coming == wire.RECV

\* The packets after which the view of an entity is another, and what it is then.
Touches(id) ==
  {p \in Sent : \/ p.op \in {"c_map", "mapout"}
                \/ p.op \in {"mv", "in", "out"} /\ p.id = id
                \/ p.op = "st" /\ p.dead /\ p.id = id}
Shows(p, id) == IF p.op \in {"mv", "in"} THEN p.cell ELSE None

Handles(d) == {p \in Sent : p.op \in {"c_map", "mapout"} \/ (p.op \in {"drop", "get"} /\ p.drop = d)}

\* Every at is followed by the c_map that enters its map.
Followed ==
  \A i \in 1 .. Len(Coming) : Coming[i].op = "at" =>
    i + 1 \in 1 .. Len(Coming) /\ Coming[i + 1] = [op |-> "c_map", map |-> Coming[i].map, entering |-> TRUE]

ViewInv ==
  \A id \in Others :
    /\ \A i \in 1 .. Len(Coming) : LastIn(Coming, Touches(id), i) => Shows(Coming[i], id) = game.near[id]
    /\ "map" \in told /\ Free(Coming, Touches(id)) => world.entities[id] = game.near[id]

DropsInv ==
  \A d \in Drops :
    /\ \A i \in 1 .. Len(Coming) : LastIn(Coming, Handles(d), i) => (Coming[i].op = "drop" <=> d \in game.drops)
    /\ "map" \in told /\ Free(Coming, Handles(d)) => (d \in world.drops <=> d \in game.drops)

\* The packets that name the map the host believes in.
Setters == {p \in Sent : p.op \in {"c_map", "at"}}

\* A gp or wp that is of map m.
TrueOf(m, p) ==
  /\ p.op = "gp" => Exit[m][p.cell] = p.to
  /\ p.op = "wp" => p.cell \in Stones[m]

\* The gp and wp of map m that its list has.
Listed(m) ==
  {[op |-> "gp", cell |-> e, to |-> Exit[m][e]] : e \in {e \in Cells : Exit[m][e] # None}}
  \cup {[op |-> "wp", cell |-> e] : e \in Stones[m]}

\* The packets between setter i of a sequence and the next are of its map.
SetterOf(s, i, j) == i \in 1 .. j - 1 /\ s[i] \in Setters /\ \A k \in i + 1 .. j - 1 : s[k] \notin Setters

ListInv ==
  /\ \A i, j \in 1 .. Len(Coming) : SetterOf(Coming, i, j) => TrueOf(Coming[i].map, Coming[j])
  /\ \A i \in 1 .. Len(Coming) : LastIn(Coming, Setters, i) =>
       /\ Coming[i] = [op |-> "c_map", map |-> game.map, entering |-> TRUE]
       /\ \A p \in Listed(game.map) : \E j \in i + 1 .. Len(Coming) : Coming[j] = p

Knows(p) == IF p.op = "gp" THEN world.gates[<<world.map, p.cell>>] = p.to ELSE <<world.map, p.cell>> \in world.spaces

GatesInv ==
  /\ "gap" \notin mishaps \/ "map" \in told =>
       \A j \in 1 .. Len(Coming) :
         (\A k \in 1 .. j - 1 : Coming[k] \notin Setters) => world.map = None \/ TrueOf(world.map, Coming[j])
  /\ "gap" \notin mishaps =>
       \A p \in Places : /\ world.gates[p] \in {None, Exit[p[1]][p[2]]}
                         /\ p \in world.spaces => p[2] \in Stones[p[1]]
  /\ "map" \in told /\ Free(Coming, Setters) =>
       /\ world.map = game.map
       /\ \A p \in Listed(game.map) : Knows(p) \/ \E j \in 1 .. Len(Coming) : Coming[j] = p

OwnRests == {p \in Sent : p.op = "rest" /\ p.id = Me}

RestInv ==
  /\ "place" \in told => world.self = Me
  /\ "rest" \in told => "place" \in told
  /\ \A i \in 1 .. Len(Coming) : LastIn(Coming, OwnRests, i) => Coming[i].sitting = game.sitting
  /\ "rest" \in told /\ Free(Coming, OwnRests) =>
       world.resting = IF game.sitting THEN "sitting" ELSE "standing"

-----------------------------------------------------------------------------
(* Requests and answers: while one wire is empty no packet can be overtaken. *)

Alive == Going = <<>> \/ Coming = <<>>

Movers == {p \in Sent : p.op \in {"at", "tp"}}
Walks  == {p \in Requests : p.op = "walk" /\ p.cell # None}

Walking == asked # <<>> /\ asked[1] \in Walks

\* What pos is once the host has read what the client sent.
Heard(c) ==
  /\ \A i \in 1 .. Len(Going) : LastIn(Going, Walks, i) => Going[i].cell = c
  /\ Free(Going, Walks) => world.pos = c

AskInv ==
  /\ "overlapped" \notin mishaps => Len(asked) <= 1
  /\ mishaps \cap {"gap", "overtaken", "overlapped"} = {} /\ asked # <<>> /\ Going # <<>> =>
       Going[Len(Going)] = asked[1]
  /\ "mistaken" \notin mishaps => world.self \in {None, Me}

Settled(allowed) == mishaps \subseteq allowed /\ Alive

PlaceInv ==
  /\ Settled({"mistaken", "ignored"}) /\ Going = <<>> /\ ~Free(Coming, Movers) => asked = <<>>
  /\ Settled({"mistaken"}) /\ Going = <<>> =>
       \A i \in 1 .. Len(Coming) : LastIn(Coming, Movers, i) => Coming[i].cell = game.cell
  /\ (Settled({"ignored"}) \/ (Settled({"mistaken"}) /\ "place" \in told)) /\ Walking =>
       Heard(asked[1].cell)
  /\ Settled({"mistaken"}) /\ "place" \in told /\ Free(Coming, Movers) /\ ~Walking =>
       Heard(game.cell)

\* What the host knows of a crossing from cell c of map m that the at at place i of what comes ends.
Crossing(i, m, c) ==
  /\ Exit[m][c] = Coming[i].map /\ Exit[Coming[i].map][Coming[i].cell] = m /\ Coming[i].map = game.map
  /\ \A j \in 1 .. Len(Coming) :
       /\ j # i => Coming[j] \notin Movers
       /\ j < i /\ Coming[j].op = "c_map" => Coming[j].map = m
       /\ j > i => Coming[j].op # "mapout"
                   /\ (Coming[j].op = "c_map" => Coming[j].entering /\ Coming[j].map = game.map)
  /\ world.map \in {None, m} /\ world.pos = c /\ world.departure \in {None, <<m, c>>}

PortalsInv ==
  mishaps \subseteq {"ignored"} =>
    /\ \A p \in Places : world.portals[p] \in {None, Exit[p[1]][p[2]]}
    /\ Alive =>
         /\ \A i \in 1 .. Len(Coming) : Coming[i].op = "at" => \E m \in Maps, c \in Cells : Crossing(i, m, c)
         /\ (\A i \in 1 .. Len(Coming) : Coming[i].op # "at") =>
              /\ world.departure = None /\ world.map \in {None, game.map}
              /\ \A i \in 1 .. Len(Coming) :
                   /\ Coming[i].op # "mapout"
                   /\ Coming[i].op = "c_map" => Coming[i].entering /\ Coming[i].map = game.map

Paired == mishaps \cap {"gap", "overtaken", "overlapped", "mistaken"} = {}

SkillsInv ==
  Paired =>
    /\ \A s \in Slots : world.learned[s] \in {None, Skill[s]}
    /\ world.basic \in {None, Skill[0]}
    /\ \A i \in 1 .. Len(Coming) : Coming[i].op = "ski" => Coming[i].first = Skill[0]
    /\ Going = <<>> =>
         /\ \A i \in 1 .. Len(Coming) : Coming[i].op = "su" /\ Coming[i].by = Me =>
              asked = <<>> /\ (world.pending # None => Coming[i].vnum = Skill[world.pending])
         /\ asked # <<>> /\ asked[1].op = "u_s" => world.pending \in {None, asked[1].slot}

SessionInv ==
  /\ SessionTypeOK /\ Followed /\ ViewInv /\ DropsInv /\ ListInv /\ GatesInv /\ RestInv
  /\ AskInv /\ PlaceInv /\ PortalsInv /\ SkillsInv

-----------------------------------------------------------------------------
(* What comes with a change of map. *)

\* The gp, wp and in of a map.
Gps(m) == {[op |-> "gp", cell |-> e, to |-> Exit[m][e]] : e \in {e \in Cells : Exit[m][e] # None}}
Wps(m) == {[op |-> "wp", cell |-> e] : e \in Stones[m]}
Ins(view) == {InPacket(view, id) : id \in {id \in Others : view[id] # None}}

LEMMA FiniteLists ==
  ASSUME NEW m \in Maps, NEW view \in Views
  PROVE  IsFiniteSet(Gps(m)) /\ IsFiniteSet(Wps(m)) /\ IsFiniteSet(Ins(view))
<1>1. IsFiniteSet(Gps(m))
  <2> DEFINE D == {e \in Cells : Exit[m][e] # None}
             f == [e \in D |-> [op |-> "gp", cell |-> e, to |-> Exit[m][e]]]
  <2>1. IsFiniteSet(D)
    BY SessionAssumption, FS_Subset
  <2>2. f \in Surjection(D, Gps(m))
    BY DEF Surjection, Gps
  <2> HIDE DEF D, f
  <2> QED BY <2>1, <2>2, FS_Surjection
<1>2. IsFiniteSet(Wps(m))
  <2> DEFINE f == [e \in Stones[m] |-> [op |-> "wp", cell |-> e]]
  <2>1. IsFiniteSet(Stones[m])
    BY SessionAssumption, FS_Subset
  <2>2. f \in Surjection(Stones[m], Wps(m))
    BY DEF Surjection, Wps
  <2> HIDE DEF f
  <2> QED BY <2>1, <2>2, FS_Surjection
<1>3. IsFiniteSet(Ins(view))
  <2> DEFINE D == {id \in Others : view[id] # None}
             f == [id \in D |-> InPacket(view, id)]
  <2>1. IsFiniteSet(D)
    <3>1. D \in SUBSET Ids
      BY DEF Others
    <3> QED BY <3>1, SessionAssumption, FS_Subset
  <2>2. f \in Surjection(D, Ins(view))
    BY DEF Surjection, Ins
  <2> HIDE DEF D, f
  <2> QED BY <2>1, <2>2, FS_Surjection
<1> QED BY <1>1, <1>2, <1>3

\* The list of a map: all that is on it, and nothing else.
ListOf(m, view) == SetToSeq(Gps(m)) \o SetToSeq(Wps(m)) \o SetToSeq(Ins(view))

LEMMA ListsOnly ==
  ASSUME NEW m \in Maps, NEW view \in Views
  PROVE  /\ ListOf(m, view) \in Seq(Gps(m) \cup Wps(m) \cup Ins(view))
         /\ \A p \in Gps(m) \cup Wps(m) \cup Ins(view) :
              \E i \in 1 .. Len(ListOf(m, view)) : ListOf(m, view)[i] = p
<1> DEFINE a == SetToSeq(Gps(m))
           b == SetToSeq(Wps(m))
           c == SetToSeq(Ins(view))
           P == Gps(m) \cup Wps(m) \cup Ins(view)
<1>1. /\ a \in Seq(Gps(m)) /\ \A p \in Gps(m) : \E i \in 1 .. Len(a) : a[i] = p
  BY FiniteLists, SeqOfSet
<1>2. /\ b \in Seq(Wps(m)) /\ \A p \in Wps(m) : \E i \in 1 .. Len(b) : b[i] = p
  BY FiniteLists, SeqOfSet
<1>3. /\ c \in Seq(Ins(view)) /\ \A p \in Ins(view) : \E i \in 1 .. Len(c) : c[i] = p
  BY FiniteLists, SeqOfSet
<1>4. a \in Seq(P) /\ b \in Seq(P) /\ c \in Seq(P)
  <2> HIDE DEF a, b, c
  <2> QED BY <1>1, <1>2, <1>3
<1> HIDE DEF a, b, c, P
<1>5. /\ a \o b \in Seq(P) /\ Len(a \o b) = Len(a) + Len(b)
      /\ \A i \in 1 .. Len(a) : (a \o b)[i] = a[i]
      /\ \A i \in 1 .. Len(b) : Len(a) + i \in 1 .. Len(a) + Len(b) /\ (a \o b)[Len(a) + i] = b[i]
  BY <1>4, LastConcat
<1>6. /\ (a \o b) \o c \in Seq(P) /\ Len((a \o b) \o c) = Len(a \o b) + Len(c)
      /\ \A i \in 1 .. Len(a \o b) : ((a \o b) \o c)[i] = (a \o b)[i]
      /\ \A i \in 1 .. Len(c) : /\ Len(a \o b) + i \in 1 .. Len(a \o b) + Len(c)
                                /\ ((a \o b) \o c)[Len(a \o b) + i] = c[i]
  BY <1>4, <1>5, LastConcat
<1>7. Len(a) \in Nat /\ Len(b) \in Nat /\ Len(c) \in Nat
  BY <1>4
<1>8. ASSUME NEW p \in P PROVE \E i \in 1 .. Len((a \o b) \o c) : ((a \o b) \o c)[i] = p
  <2>1. CASE p \in Gps(m)
    <3>1. PICK i \in 1 .. Len(a) : a[i] = p
      BY <1>1, <2>1
    <3>2. i \in 1 .. Len(a \o b) /\ i \in 1 .. Len((a \o b) \o c)
      BY <1>5, <1>6, <1>7
    <3> QED BY <1>5, <1>6, <3>1, <3>2
  <2>2. CASE p \in Wps(m)
    <3>1. PICK i \in 1 .. Len(b) : b[i] = p
      BY <1>2, <2>2
    <3>2. Len(a) + i \in 1 .. Len(a \o b) /\ Len(a) + i \in 1 .. Len((a \o b) \o c)
      BY <1>5, <1>6, <1>7
    <3> QED BY <1>5, <1>6, <3>1, <3>2
  <2>3. CASE p \in Ins(view)
    <3>1. PICK i \in 1 .. Len(c) : c[i] = p
      BY <1>3, <2>3
    <3> QED BY <1>6, <3>1
  <2> QED BY <2>1, <2>2, <2>3 DEF P
<1>9. ListOf(m, view) = (a \o b) \o c
  BY DEF ListOf, a, b, c
<1> QED BY <1>6, <1>8, <1>9 DEF P

LEMMA ListsSent ==
  ASSUME NEW m \in Maps, NEW view \in Views
  PROVE  Gps(m) \cup Wps(m) \cup Ins(view) \subseteq Sent
<1>1. \A e \in Cells : Exit[m][e] # None => Exit[m][e] \in Maps
  BY SessionAssumption
<1>2. Gps(m) \subseteq Sent
  BY <1>1 DEF Gps, Sent
<1>3. Stones[m] \subseteq Cells
  BY SessionAssumption
<1>4. Wps(m) \subseteq Sent
  BY <1>3 DEF Wps, Sent
<1>5. \A id \in Others : view[id] # None => view[id] \in Cells
  BY DEF Views
<1>6. Ins(view) \subseteq Sent
  BY <1>5 DEF Ins, InPacket, Sent
<1> QED BY <1>2, <1>4, <1>6

\* Leaving packets, an at at place a, the c_map that enters, and the list of the map.
ArrivalAt(s, a, from, m, c, view) ==
  /\ a \in Nat /\ a >= 2 /\ a + 1 <= Len(s)
  /\ \A j \in 1 .. a - 1 : s[j] \in {[op |-> "c_map", map |-> from, entering |-> FALSE], [op |-> "mapout"]}
  /\ s[a] = [op |-> "at", id |-> Me, map |-> m, cell |-> c]
  /\ s[a + 1] = [op |-> "c_map", map |-> m, entering |-> TRUE]
  /\ \A j \in a + 2 .. Len(s) : s[j] \in Gps(m) \cup Wps(m) \cup Ins(view)
  /\ \A p \in Gps(m) \cup Wps(m) \cup Ins(view) : \E j \in a + 2 .. Len(s) : s[j] = p

\* A sequence that begins with what leaves and arrives.
LEMMA Begins ==
  ASSUME NEW S, NEW leave \in S, NEW at \in S, NEW enter \in S, NEW mapout \in S,
         NEW out \in Seq(S), \A j \in 1 .. Len(out) : out[j] = mapout
  PROVE  LET pre == <<leave>> \o out \o <<at, enter>>
         IN /\ pre \in Seq(S) /\ Len(pre) = Len(out) + 3
            /\ \A j \in 1 .. Len(out) + 1 : pre[j] \in {leave, mapout}
            /\ pre[Len(out) + 2] = at /\ pre[Len(out) + 3] = enter
<1> DEFINE h   == <<leave>> \o out
           l   == <<at, enter>>
           pre == h \o l
<1>1. <<leave>> \in Seq(S) /\ Len(<<leave>>) = 1 /\ <<leave>>[1] = leave
  OBVIOUS
<1>2. l \in Seq(S) /\ Len(l) = 2 /\ l[1] = at /\ l[2] = enter
  OBVIOUS
<1>3. Len(out) \in Nat
  OBVIOUS
<1>4. /\ h \in Seq(S) /\ Len(h) = 1 + Len(out)
      /\ \A j \in 1 .. 1 : h[j] = <<leave>>[j]
      /\ \A j \in 1 .. Len(out) : h[1 + j] = out[j]
  BY <1>1, ConcatFields
<1> HIDE DEF h, l
<1>5. ASSUME NEW j \in 1 .. Len(out) + 1 PROVE h[j] \in {leave, mapout}
  <2>1. CASE j = 1
    BY <1>1, <1>4, <2>1
  <2>2. CASE j # 1
    <3>1. j - 1 \in 1 .. Len(out) /\ 1 + (j - 1) = j
      BY <1>3, <2>2
    <3>2. h[1 + (j - 1)] = out[j - 1] /\ out[j - 1] = mapout
      BY <1>4, <3>1
    <3> QED BY <3>1, <3>2
  <2> QED BY <2>1, <2>2
<1>6. /\ pre \in Seq(S) /\ Len(pre) = Len(h) + Len(l)
      /\ \A j \in 1 .. Len(h) : pre[j] = h[j]
      /\ \A j \in 1 .. Len(l) : pre[Len(h) + j] = l[j]
  <2>1. PICK r : r = h \o l
    OBVIOUS
  <2>4. h \in Seq(S) /\ l \in Seq(S)
    BY <1>2, <1>4
  <2>5. /\ h \o l \in Seq(S) /\ Len(h \o l) = Len(h) + Len(l)
        /\ \A j \in 1 .. Len(h) : (h \o l)[j] = h[j]
        /\ \A j \in 1 .. Len(l) : (h \o l)[Len(h) + j] = l[j]
    BY <2>4, ConcatFields
  <2>2. /\ r \in Seq(S) /\ Len(r) = Len(h) + Len(l)
        /\ \A j \in 1 .. Len(h) : r[j] = h[j]
        /\ \A j \in 1 .. Len(l) : r[Len(h) + j] = l[j]
    BY <2>1, <2>5
  <2>3. pre = r
    BY <2>1
  <2> HIDE DEF pre
  <2> QED BY <2>2, <2>3
<1> HIDE DEF pre
<1>7. pre[Len(h) + 1] = at /\ pre[Len(h) + 2] = enter
  BY <1>2, <1>6
<1>8. Len(h) + 1 = Len(out) + 2 /\ Len(h) + 2 = Len(out) + 3 /\ Len(pre) = Len(out) + 3
  BY <1>2, <1>3, <1>4, <1>6
<1>9. \A j \in 1 .. Len(out) + 1 : pre[j] \in {leave, mapout}
  BY <1>3, <1>4, <1>5, <1>6
<1> QED BY <1>6, <1>7, <1>8, <1>9 DEF pre, h, l

LEMMA SentAssociative ==
  ASSUME NEW x \in Seq(Sent), NEW y \in Seq(Sent), NEW z \in Seq(Sent)
  PROVE  (x \o y) \o z = x \o (y \o z)
<1> DEFINE S == Sent
<1>1. x \in Seq(S) /\ y \in Seq(S) /\ z \in Seq(S)
  OBVIOUS
<1> HIDE DEF S
<1> QED BY <1>1, ConcatAssociative

\* With the list of a map behind it.
LEMMA Goes ==
  ASSUME NEW m \in Maps, NEW view \in Views, NEW pre \in Seq(Sent)
  PROVE  LET s == pre \o SetToSeq(Gps(m)) \o SetToSeq(Wps(m)) \o SetToSeq(Ins(view))
         IN /\ s \in Seq(Sent) /\ Len(s) = Len(pre) + Len(ListOf(m, view))
            /\ \A j \in 1 .. Len(pre) : s[j] = pre[j]
            /\ \A j \in 1 .. Len(ListOf(m, view)) : s[Len(pre) + j] = ListOf(m, view)[j]
<1> DEFINE g    == SetToSeq(Gps(m))
           w    == SetToSeq(Wps(m))
           i    == SetToSeq(Ins(view))
<1>1. g \in Seq(Sent) /\ w \in Seq(Sent) /\ i \in Seq(Sent)
  <2>1. g \in Seq(Gps(m)) /\ w \in Seq(Wps(m)) /\ i \in Seq(Ins(view))
    BY FiniteLists, SeqOfSet
  <2>2. Gps(m) \subseteq Sent /\ Wps(m) \subseteq Sent /\ Ins(view) \subseteq Sent
    BY ListsSent
  <2> HIDE DEF g, w, i
  <2> QED BY <2>1, <2>2
<1> HIDE DEF g, w, i
<1>2. (pre \o g) \o w = pre \o (g \o w)
  BY <1>1, ConcatAssociative
<1>3. g \o w \in Seq(Sent)
  BY <1>1, ConcatProperties
<1>4. (pre \o (g \o w)) \o i = pre \o ((g \o w) \o i)
  <2>1. PICK gw : gw = g \o w
    OBVIOUS
  <2>2. gw \in Seq(Sent)
    BY <1>3, <2>1
  <2>3. (pre \o gw) \o i = pre \o (gw \o i)
    BY <1>1, <2>2, SentAssociative
  <2> QED BY <2>1, <2>3
<1> DEFINE list == g \o w \o i
<1>5. list \in Seq(Sent)
  BY <1>1, <1>3, ConcatProperties
<1>6. pre \o g \o w \o i = pre \o list
  BY <1>2, <1>4
<1> HIDE DEF list
<1>7. /\ pre \o list \in Seq(Sent) /\ Len(pre \o list) = Len(pre) + Len(list)
      /\ \A j \in 1 .. Len(pre) : (pre \o list)[j] = pre[j]
      /\ \A j \in 1 .. Len(list) : (pre \o list)[Len(pre) + j] = list[j]
  BY <1>5, ConcatFields
<1>8. ListOf(m, view) = list
  BY DEF ListOf, list, g, w, i
<1> DEFINE s == pre \o g \o w \o i
<1>9. s = pre \o list
  BY <1>6
<1> HIDE DEF s
<1>10. /\ s \in Seq(Sent) /\ Len(s) = Len(pre) + Len(ListOf(m, view))
       /\ \A j \in 1 .. Len(pre) : s[j] = pre[j]
       /\ \A j \in 1 .. Len(ListOf(m, view)) : s[Len(pre) + j] = ListOf(m, view)[j]
  BY <1>7, <1>8, <1>9
<1> QED BY <1>10 DEF s, g, w, i

LEMMA ArrivalMade ==
  ASSUME NEW from \in Maps, NEW m \in Maps, NEW c \in Cells, NEW view \in Views,
         NEW out \in Seq(Sent), \A j \in 1 .. Len(out) : out[j] = [op |-> "mapout"]
  PROVE  /\ Arrival(from, m, c, view, out) \in Seq(Sent)
         /\ \E a : ArrivalAt(Arrival(from, m, c, view, out), a, from, m, c, view)
<1> DEFINE leave  == [op |-> "c_map", map |-> from, entering |-> FALSE]
           at     == [op |-> "at", id |-> Me, map |-> m, cell |-> c]
           enter  == [op |-> "c_map", map |-> m, entering |-> TRUE]
           mapout == [op |-> "mapout"]
           pre    == <<leave>> \o out \o <<at, enter>>
           list   == ListOf(m, view)
           P      == Gps(m) \cup Wps(m) \cup Ins(view)
           a      == Len(out) + 2
           A      == Arrival(from, m, c, view, out)
<1>1. leave \in Sent /\ at \in Sent /\ enter \in Sent /\ mapout \in Sent
  BY SessionAssumption DEF Sent
<1>4. A = pre \o SetToSeq(Gps(m)) \o SetToSeq(Wps(m)) \o SetToSeq(Ins(view))
  BY DEF Arrival, Gps, Wps, Ins
<1>5. list \in Seq(P) /\ \A p \in P : \E k \in 1 .. Len(list) : list[k] = p
  BY ListsOnly
<1>6. Len(list) \in Nat /\ a \in Nat /\ a >= 2
  BY <1>5
<1>7. \A j \in 1 .. Len(out) : out[j] = mapout
  OBVIOUS
<1> HIDE DEF leave, at, enter, mapout, list, P, A
<1>8. /\ pre \in Seq(Sent) /\ Len(pre) = Len(out) + 3
      /\ \A j \in 1 .. Len(out) + 1 : pre[j] \in {leave, mapout}
      /\ pre[Len(out) + 2] = at /\ pre[Len(out) + 3] = enter
  BY <1>1, <1>7, Begins
<1> HIDE DEF pre
<1>9. /\ A \in Seq(Sent) /\ Len(A) = Len(pre) + Len(list)
      /\ \A j \in 1 .. Len(pre) : A[j] = pre[j]
      /\ \A j \in 1 .. Len(list) : A[Len(pre) + j] = list[j]
  <2>1. LET s == pre \o SetToSeq(Gps(m)) \o SetToSeq(Wps(m)) \o SetToSeq(Ins(view))
        IN /\ s \in Seq(Sent) /\ Len(s) = Len(pre) + Len(ListOf(m, view))
           /\ \A j \in 1 .. Len(pre) : s[j] = pre[j]
           /\ \A j \in 1 .. Len(ListOf(m, view)) : s[Len(pre) + j] = ListOf(m, view)[j]
    BY <1>8, Goes
  <2> QED BY <1>4, <2>1 DEF list
<1>10. Len(pre) = a + 1 /\ a - 1 = Len(out) + 1 /\ Len(out) \in Nat
  BY <1>8
<1> HIDE DEF a
<1>11. a + 1 <= Len(A) /\ A[a] = at /\ A[a + 1] = enter /\ \A j \in 1 .. a - 1 : A[j] \in {leave, mapout}
  <2>1. a \in 1 .. Len(pre) /\ a + 1 \in 1 .. Len(pre) /\ \A j \in 1 .. a - 1 : j \in 1 .. Len(pre)
    BY <1>6, <1>10
  <2>2. pre[a] = at /\ pre[a + 1] = enter /\ \A j \in 1 .. a - 1 : pre[j] \in {leave, mapout}
    BY <1>8, <1>10 DEF a
  <2>3. A[a] = pre[a] /\ A[a + 1] = pre[a + 1] /\ \A j \in 1 .. a - 1 : A[j] = pre[j]
    BY <1>9, <2>1
  <2>4. a + 1 <= Len(A)
    BY <1>6, <1>9, <1>10
  <2> QED BY <2>2, <2>3, <2>4
<1>12. \A j \in a + 2 .. Len(A) : A[j] \in P
  <2> SUFFICES ASSUME NEW j \in a + 2 .. Len(A) PROVE A[j] \in P
    OBVIOUS
  <2>1. j - (a + 1) \in 1 .. Len(list) /\ (a + 1) + (j - (a + 1)) = j
    BY <1>6, <1>9, <1>10
  <2>2. list[j - (a + 1)] \in P
    BY <1>5, <2>1
  <2> QED BY <1>9, <1>10, <2>1, <2>2
<1>13. \A p \in P : \E j \in a + 2 .. Len(A) : A[j] = p
  <2> SUFFICES ASSUME NEW p \in P PROVE \E j \in a + 2 .. Len(A) : A[j] = p
    OBVIOUS
  <2>1. PICK k \in 1 .. Len(list) : list[k] = p
    BY <1>5
  <2>2. (a + 1) + k \in a + 2 .. Len(A)
    BY <1>6, <1>9, <1>10
  <2> QED BY <1>9, <1>10, <2>1, <2>2
<1>14. ArrivalAt(A, a, from, m, c, view)
  BY <1>6, <1>11, <1>12, <1>13 DEF ArrivalAt, P, leave, at, enter, mapout
<1> QED BY <1>9, <1>14 DEF A

LEMMA ArrivalShape ==
  ASSUME NEW from \in Maps, NEW m \in Maps, NEW c \in Cells, NEW view \in Views,
         NEW out \in {<<>>, <<[op |-> "mapout"]>>}
  PROVE  /\ Arrival(from, m, c, view, out) \in Seq(Sent)
         /\ \E a : ArrivalAt(Arrival(from, m, c, view, out), a, from, m, c, view)
<1>1. out \in Seq(Sent) /\ \A j \in 1 .. Len(out) : out[j] = [op |-> "mapout"]
  <2>1. CASE out = <<>>
    BY <2>1
  <2>2. CASE out = <<[op |-> "mapout"]>>
    <3>1. Len(out) = 1 /\ out[1] = [op |-> "mapout"]
      BY <2>2
    <3>2. [op |-> "mapout"] \in Sent
      BY DEF Sent
    <3> QED BY <2>2, <3>1, <3>2
  <2> QED BY <2>1, <2>2
<1> QED BY <1>1, ArrivalMade

-----------------------------------------------------------------------------
(* The steps, by what they do to the wires. *)

LEMMA SentFields ==
  ASSUME NEW p \in Sent
  PROVE  /\ p \in Packets
         /\ p.op \in {"c_map", "mapout", "cancel", "at", "tp", "mv", "in", "out", "st", "drop", "get", "rest", "cond",
                      "gp", "wp", "ski", "su"}
         /\ p.op = "c_map" => p.map \in Maps /\ p.entering \in BOOLEAN
         /\ p.op = "at" => p.id = Me /\ p.map \in Maps /\ p.cell \in Cells
         /\ p.op = "tp" => p.id = Me /\ p.cell \in Cells
         /\ p.op \in {"mv", "in"} => p.id \in Others /\ p.cell \in Cells
         /\ p.op = "out" => p.id \in Others
         /\ p.op = "st" => p.id \in Monsters /\ p.id \in Others /\ p.dead \in BOOLEAN
         /\ p.op \in {"drop", "get"} => p.drop \in Drops
         /\ p.op = "rest" => p.id \in Players /\ p.sitting \in BOOLEAN
         /\ p.op = "cond" => p.id = Me
         /\ p.op = "gp" => p.cell \in Cells /\ p.to \in Maps
         /\ p.op = "wp" => p.cell \in Cells
         /\ p.op = "ski" => p.first \in Vnums
         /\ p.op = "su" => p.by \in Players /\ p.vnum \in Vnums
<1>1. Me \in Players /\ Me \in Ids /\ Players \subseteq Ids /\ Others \subseteq Ids /\ Monsters \subseteq Others
  BY SessionAssumption DEF Ids, Others
<1>2. p \in Packets
  BY <1>1 DEF Sent, Packets
<1> QED BY <1>1, <1>2 DEF Sent

LEMMA RequestFields ==
  ASSUME NEW p \in Requests
  PROVE  /\ p \in Packets
         /\ p.op \in {"walk", "u_s", "rest"}
         /\ p.op = "walk" => p.cell \in Cells \cup {None}
         /\ p.op = "u_s" => p.slot \in Slots
         /\ p.op = "rest" => p.id = One
<1>1. One \in Players /\ FALSE \in BOOLEAN
  BY SessionAssumption
<1>2. CASE p \in [op : {"walk"}, cell : Cells \cup {None}]
  BY <1>2 DEF Packets
<1>3. CASE p \in [op : {"u_s"}, slot : Slots]
  BY <1>3 DEF Packets
<1>4. CASE p = [op |-> "rest", id |-> One, sitting |-> FALSE]
  <2>1. p \in [op : {"rest"}, id : Players, sitting : BOOLEAN]
    BY <1>1, <1>4
  <2> QED BY <1>4, <2>1 DEF Packets
<1> QED BY <1>2, <1>3, <1>4 DEF Requests

\* The game says p: it is the truth of what it touches, and the rest of the game is as it was.
Truly(p) ==
  /\ p \in Sent /\ p.op \notin {"c_map", "mapout", "at", "gp", "wp"}
  /\ game' \in Games /\ game'.map = game.map /\ game'.cell = game.cell
  /\ p.op = "tp" => p.cell = game.cell
  /\ p.op = "ski" => p.first = Skill[0]
  /\ \A id \in Others : game'.near[id] = IF p \in Touches(id) THEN Shows(p, id) ELSE game.near[id]
  /\ \A d \in Drops : d \in game'.drops <=> IF p \in Handles(d) THEN p.op = "drop" ELSE d \in game.drops
  /\ game'.sitting = IF p \in OwnRests THEN p.sitting ELSE game.sitting

Saying(p) ==
  /\ Truly(p) /\ wire' = [SEND |-> Going, RECV |-> Append(Coming, p)]
  /\ UNCHANGED <<world, told, mishaps>>

\* The own cell is all that changes, if anything.
Silent ==
  /\ game' \in Games /\ game'.map = game.map /\ game'.near = game.near /\ game'.drops = game.drops
  /\ game'.sitting = game.sitting
  /\ UNCHANGED <<world, told>>

\* The character comes to cell c of map m.
Moving(m, c) ==
  \E s \in Seq(Sent), view \in Views, a \in Nat :
    /\ ArrivalAt(s, a, game.map, m, c, view) /\ m \in Maps /\ c \in Cells
    /\ game' = [map |-> m, cell |-> c, sitting |-> game.sitting, near |-> view, drops |-> {}]
    /\ game' \in Games
    /\ wire' = [SEND |-> Going, RECV |-> Coming \o s]
    /\ UNCHANGED <<world, told>>

Serving(request) == asked # <<>> /\ request = Head(asked) /\ request \in Requests /\ asked' = Tail(asked)

Asking(request) ==
  /\ request \in Requests /\ asked' = Append(asked, request)
  /\ wire' = [SEND |-> Append(Going, request), RECV |-> Coming]
  /\ Silent /\ game' = game
  /\ mishaps' = IF asked = <<>> THEN mishaps ELSE mishaps \cup {"overlapped"}

Walked(request) ==
  /\ Serving(request) /\ request.op = "walk" /\ request.cell # None
  /\ Silent /\ game'.cell = request.cell /\ UNCHANGED <<wire, mishaps>>

Went(request) ==
  /\ Serving(request) /\ request.op = "walk" /\ request.cell # None /\ UNCHANGED mishaps
  /\ \E m \in Maps, c \in Cells : m = Exit[game.map][request.cell] /\ Exit[m][c] = game.map /\ Moving(m, c)

Ignored(request) ==
  Serving(request) /\ Silent /\ game' = game /\ UNCHANGED wire /\ mishaps' = mishaps \cup {"ignored"}

Replied(request, p) ==
  /\ Serving(request) /\ Saying(p) /\ p.op \in {"tp", "su", "cancel", "rest"}
  /\ p.op = "tp" <=> request.op = "walk"
  /\ p.op = "su" => request.op = "u_s" /\ p.vnum = Skill[request.slot]

Told(p) ==
  /\ Saying(p) /\ UNCHANGED asked /\ p.op # "tp" /\ ~(p.op = "su" /\ p.by = Me)
  /\ p.op = "mv" => game.near[p.id] # None

Warped == /\ \E m \in Maps, c \in Cells : Moving(m, c)
          /\ UNCHANGED asked /\ mishaps' = mishaps \cup {"warped"}

Read(way) ==
  /\ wire[way] # <<>> /\ world' = Feed(world, Head(wire[way])) /\ told' = ToldBy(Head(wire[way]))
  /\ wire' = IF way = "RECV" THEN [SEND |-> Going, RECV |-> Tail(Coming)] ELSE [SEND |-> Tail(Going), RECV |-> Coming]
  /\ mishaps \subseteq mishaps' /\ mishaps' \subseteq mishaps \cup {"overtaken", "mistaken"}
  /\ (Going # <<>> /\ Coming # <<>>) => "overtaken" \in mishaps'
  /\ world'.self \notin {None, Me} => "mistaken" \in mishaps'
  /\ UNCHANGED <<game, asked>>

Losing ==
  /\ \E j \in 0 .. Len(Going), k \in 0 .. Len(Coming) :
       wire' = [SEND |-> SubSeq(Going, j + 1, Len(Going)), RECV |-> SubSeq(Coming, k + 1, Len(Coming))]
  /\ mishaps \cup {"gap"} \subseteq mishaps' /\ mishaps' \subseteq mishaps \cup {"gap", "overtaken"}
  /\ told' = {} /\ UNCHANGED <<game, asked, world>>

Aging == world' = Aged(world) /\ UNCHANGED <<game, asked, wire, told, mishaps>>

\* The client and its server.
Played ==
  \/ \E request \in Requests : Asking(request) \/ Walked(request) \/ Went(request) \/ Ignored(request)
  \/ \E request \in Requests, p \in Sent : Replied(request, p)
  \/ \E p \in Sent : Told(p)
  \/ Warped

Step ==
  \/ \E request \in Requests : Asking(request) \/ Walked(request) \/ Went(request) \/ Ignored(request)
  \/ \E request \in Requests, p \in Sent : Replied(request, p)
  \/ \E p \in Sent : Told(p)
  \/ Warped \/ Read("RECV") \/ Read("SEND") \/ Losing \/ Aging
  \/ UNCHANGED vars

LEMMA WireFields ==
  ASSUME SessionTypeOK
  PROVE  /\ wire = [SEND |-> Going, RECV |-> Coming] /\ Going \in Seq(Requests) /\ Coming \in Seq(Sent)
         /\ \A s : [wire EXCEPT !.SEND = s] = [SEND |-> s, RECV |-> Coming]
         /\ \A s : [wire EXCEPT !.RECV = s] = [SEND |-> Going, RECV |-> s]
         /\ wire["SEND"] = Going /\ wire["RECV"] = Coming
  BY DEF SessionTypeOK, Going, Coming

LEMMA GameFields ==
  ASSUME SessionTypeOK
  PROVE  /\ game.map \in Maps /\ game.cell \in Cells /\ game.sitting \in BOOLEAN /\ game.near \in Views
         /\ game.drops \subseteq Drops
         /\ \A id \in Others : game.near[id] \in Cells \cup {None}
  BY DEF SessionTypeOK, Games, Views

LEMMA SaysOne ==
  ASSUME SessionTypeOK, NEW p \in Sent, Sends(<<p>>)
  PROVE  wire' = [SEND |-> Going, RECV |-> Append(Coming, p)]
<1>1. Coming \o <<p>> = Append(Coming, p)
  BY WireFields, AppendIsConcat
<1>2. wire' = [wire EXCEPT !.RECV = Coming \o <<p>>]
  BY DEF Sends, Coming
<1> QED BY <1>1, <1>2, WireFields

\* A packet that tells nothing of what the game keeps.
LEMMA TrulyNothing ==
  ASSUME SessionTypeOK, NEW p \in Sent, game' = game,
         \/ p.op \in {"cancel", "cond", "su"}
         \/ p.op = "rest" /\ p.id # Me
         \/ p.op = "tp" /\ p.cell = game.cell
         \/ p.op = "ski" /\ p.first = Skill[0]
         \/ p.op = "st" /\ ~p.dead
  PROVE  Truly(p)
<1>1. \A id \in Others : p \notin Touches(id)
  BY DEF Touches
<1>2. \A d \in Drops : p \notin Handles(d)
  BY DEF Handles
<1>3. p \notin OwnRests
  BY DEF OwnRests
<1>4. game' \in Games
  BY DEF SessionTypeOK
<1> QED BY <1>1, <1>2, <1>3, <1>4 DEF Truly

\* A packet that tells of one other entity.
LEMMA TrulyNear ==
  ASSUME SessionTypeOK, NEW p \in Sent, NEW id \in Others, NEW v \in Cells \cup {None},
         game' = [game EXCEPT !.near[id] = v], v = Shows(p, id),
         p.op \in {"mv", "in", "out"} \/ (p.op = "st" /\ p.dead), p.id = id
  PROVE  Truly(p)
<1>1. /\ game'.map = game.map /\ game'.cell = game.cell /\ game'.sitting = game.sitting /\ game'.drops = game.drops
      /\ game'.near = [game.near EXCEPT ![id] = v] /\ game' \in Games
  BY DEF SessionTypeOK, Games, Views
<1>2. \A e \in Others : p \in Touches(e) <=> e = id
  BY DEF Touches
<1>3. \A e \in Others : game'.near[e] = IF p \in Touches(e) THEN Shows(p, e) ELSE game.near[e]
  BY <1>1, <1>2, GameFields DEF Views
<1>4. \A d \in Drops : p \notin Handles(d)
  BY DEF Handles
<1>5. p \notin OwnRests
  BY DEF OwnRests
<1> QED BY <1>1, <1>3, <1>4, <1>5 DEF Truly

\* A packet that tells of an item.
LEMMA TrulyDrop ==
  ASSUME SessionTypeOK, NEW p \in Sent, NEW d \in Drops, p.drop = d,
         \/ p.op = "drop" /\ game' = [game EXCEPT !.drops = @ \cup {d}]
         \/ p.op = "get" /\ game' = [game EXCEPT !.drops = @ \ {d}]
  PROVE  Truly(p)
<1>1. /\ game'.map = game.map /\ game'.cell = game.cell /\ game'.sitting = game.sitting /\ game'.near = game.near
      /\ game'.drops = IF p.op = "drop" THEN game.drops \cup {d} ELSE game.drops \ {d}
  BY DEF SessionTypeOK, Games
<1>2. game' \in Games
  BY DEF SessionTypeOK, Games
<1>3. \A e \in Others : p \notin Touches(e)
  BY DEF Touches
<1>4. \A e \in Drops : p \in Handles(e) <=> e = d
  BY DEF Handles
<1>5. p \notin OwnRests
  BY DEF OwnRests
<1> QED BY <1>1, <1>2, <1>3, <1>4, <1>5 DEF Truly

\* The events of the game that one packet announces.
LEMMA EventTold ==
  ASSUME SessionTypeOK,
         \/ \E id \in Players, sitting \in BOOLEAN : OtherRests(id, sitting)
         \/ Condition \/ ListSkills
         \/ \E id \in Others, c \in Cells : Appear(id, c) \/ Move(id, c)
         \/ \E id \in Others : Leave(id)
         \/ \E id \in Monsters, dead \in BOOLEAN : Hurt(id, dead)
         \/ \E id \in Players \ {Me}, vnum \in Vnums : HitBy(id, vnum)
         \/ \E d \in Drops : Fall(d) \/ Take(d)
  PROVE  \E p \in Sent : Told(p)
<1>1. \A truth, p : Announce(truth, p) => /\ game' = truth /\ Sends(<<p>>)
                                         /\ UNCHANGED <<asked, world, told, mishaps>>
  BY DEF Announce, Happened
<1>2. ASSUME NEW p \in Sent, NEW truth, Announce(truth, p), Truly(p), p.op # "tp", ~(p.op = "su" /\ p.by = Me),
             p.op = "mv" => game.near[p.id] # None
      PROVE  Told(p)
  <2>1. wire' = [SEND |-> Going, RECV |-> Append(Coming, p)]
    BY <1>1, <1>2, SaysOne
  <2> QED BY <1>1, <1>2, <2>1 DEF Told, Saying
<1>3. CASE \E id \in Players, sitting \in BOOLEAN : OtherRests(id, sitting)
  <2>1. PICK id \in Players, sitting \in BOOLEAN : OtherRests(id, sitting)
    BY <1>3
  <2> DEFINE p == [op |-> "rest", id |-> id, sitting |-> sitting]
  <2>2. p \in Sent /\ Announce(game, p) /\ id # Me
    BY <2>1 DEF OtherRests, Sent
  <2>3. Truly(p)
    BY <1>1, <2>2, TrulyNothing
  <2> QED BY <1>2, <2>2, <2>3
<1>4. CASE Condition
  <2> PICK p : p = [op |-> "cond", id |-> Me]
    OBVIOUS
  <2>1. p \in Sent /\ Announce(game, p) /\ p.op = "cond"
    BY <1>4 DEF Condition, Sent
  <2>3. game' = game
    BY <1>1, <2>1
  <2>2. Truly(p)
    BY <2>1, <2>3, TrulyNothing
  <2> QED BY <1>2, <2>1, <2>2
<1>5. CASE ListSkills
  <2> PICK p : p = [op |-> "ski", first |-> Skill[0]]
    OBVIOUS
  <2>1. p \in Sent /\ Announce(game, p) /\ p.op = "ski" /\ p.first = Skill[0]
    BY <1>5, SessionAssumption DEF ListSkills, Sent
  <2>3. game' = game
    BY <1>1, <2>1
  <2>2. Truly(p) /\ p.op = "ski"
    BY <2>1, <2>3, TrulyNothing
  <2> QED BY <1>2, <2>1, <2>2
<1>6. CASE \E id \in Others, c \in Cells : Appear(id, c) \/ Move(id, c)
  <2>1. PICK id \in Others, c \in Cells : Appear(id, c) \/ Move(id, c)
    BY <1>6
  <2>2. PICK op \in {"in", "mv"} : /\ Announce([game EXCEPT !.near[id] = c], [op |-> op, id |-> id, cell |-> c])
                                   /\ op = "mv" => game.near[id] # None
    BY <2>1 DEF Appear, Move
  <2> DEFINE p == [op |-> op, id |-> id, cell |-> c]
  <2>3. p \in Sent /\ Shows(p, id) = c
    BY <2>2 DEF Sent, Shows
  <2>4. p.op \in {"mv", "in"} /\ p.id = id /\ (p.op = "mv" => game.near[id] # None)
    BY <2>2
  <2>5. game' = [game EXCEPT !.near[id] = c] /\ Announce([game EXCEPT !.near[id] = c], p)
    BY <1>1, <2>2
  <2> HIDE DEF p
  <2>6. Truly(p)
    BY <2>3, <2>4, <2>5, TrulyNear
  <2> QED BY <1>2, <2>3, <2>4, <2>5, <2>6
<1>7. CASE \E id \in Others : Leave(id)
  <2>1. PICK id \in Others : Leave(id)
    BY <1>7
  <2> DEFINE p == [op |-> "out", id |-> id]
  <2>2. p \in Sent /\ Shows(p, id) = None /\ Announce([game EXCEPT !.near[id] = None], p)
    BY <2>1 DEF Sent, Shows, Leave
  <2>3. Truly(p)
    BY <1>1, <2>2, TrulyNear
  <2> QED BY <1>2, <2>2, <2>3
<1>8. CASE \E id \in Monsters, dead \in BOOLEAN : Hurt(id, dead)
  <2>1. PICK id \in Monsters, dead \in BOOLEAN : Hurt(id, dead)
    BY <1>8
  <2> DEFINE p == [op |-> "st", id |-> id, dead |-> dead]
  <2>2. p \in Sent /\ Shows(p, id) = None
    BY DEF Sent, Shows
  <2>3. id \in Others
    BY SentFields, <2>2
  <2>4. CASE dead
    <3>1. Announce([game EXCEPT !.near[id] = None], p)
      BY <2>1, <2>4 DEF Hurt
    <3>3. game' = [game EXCEPT !.near[id] = None] /\ p.op = "st" /\ p.dead /\ p.id = id
      BY <1>1, <2>4, <3>1
    <3> HIDE DEF p
    <3>2. Truly(p) /\ p.op = "st"
      BY <2>2, <2>3, <3>3, TrulyNear
    <3> QED BY <1>2, <2>2, <3>1, <3>2
  <2>5. CASE ~dead
    <3>1. Announce(game, p)
      BY <2>1, <2>5 DEF Hurt
    <3>2. Truly(p)
      BY <1>1, <2>2, <2>5, <3>1, TrulyNothing
    <3> QED BY <1>2, <2>2, <3>1, <3>2
  <2> QED BY <2>4, <2>5
<1>9. CASE \E id \in Players \ {Me}, vnum \in Vnums : HitBy(id, vnum)
  <2>1. PICK id \in Players \ {Me}, vnum \in Vnums : HitBy(id, vnum)
    BY <1>9
  <2> PICK p : p = [op |-> "su", by |-> id, vnum |-> vnum]
    OBVIOUS
  <2>2. p \in Sent /\ Announce(game, p) /\ p.op = "su" /\ p.by # Me
    BY <2>1 DEF HitBy, Sent
  <2>3. game' = game
    BY <1>1, <2>2
  <2>4. Truly(p)
    BY <2>2, <2>3, TrulyNothing
  <2> QED BY <1>2, <2>2, <2>4
<1>10. CASE \E d \in Drops : Fall(d) \/ Take(d)
  <2>1. PICK d \in Drops : Fall(d) \/ Take(d)
    BY <1>10
  <2>2. CASE Fall(d)
    <3> DEFINE p == [op |-> "drop", drop |-> d]
    <3>1. p \in Sent /\ Announce([game EXCEPT !.drops = @ \cup {d}], p)
      BY <2>2 DEF Fall, Sent
    <3>2. Truly(p)
      BY <1>1, <3>1, TrulyDrop
    <3> QED BY <1>2, <3>1, <3>2
  <2>3. CASE Take(d)
    <3> DEFINE p == [op |-> "get", drop |-> d]
    <3>1. p \in Sent /\ Announce([game EXCEPT !.drops = @ \ {d}], p)
      BY <2>3 DEF Take, Sent
    <3>2. Truly(p)
      BY <1>1, <3>1, TrulyDrop
    <3> QED BY <1>2, <3>1, <3>2
  <2> QED BY <2>1, <2>2, <2>3
<1> QED BY <1>3, <1>4, <1>5, <1>6, <1>7, <1>8, <1>9, <1>10

LEMMA Moves ==
  ASSUME SessionTypeOK, NEW m \in Maps, NEW c \in Cells, ChangeMap(m, c), UNCHANGED <<world, told>>
  PROVE  Moving(m, c)
<1>1. PICK view \in Arrivals, out \in {<<>>, <<[op |-> "mapout"]>>} :
        /\ game' = [map |-> m, cell |-> c, sitting |-> game.sitting, near |-> view, drops |-> {}]
        /\ Sends(Arrival(game.map, m, c, view, out))
  BY DEF ChangeMap
<1>2. view \in Views /\ game.map \in Maps
  BY SessionAssumption, GameFields
<1> DEFINE s == Arrival(game.map, m, c, view, out)
<1>3. s \in Seq(Sent) /\ \E a : ArrivalAt(s, a, game.map, m, c, view)
  BY <1>2, ArrivalShape
<1>4. PICK a : ArrivalAt(s, a, game.map, m, c, view)
  BY <1>3
<1>5. a \in Nat
  BY <1>4 DEF ArrivalAt
<1>6. game' \in Games
  BY <1>1, <1>2, GameFields DEF Games
<1>7. wire' = [SEND |-> Going, RECV |-> Coming \o s]
  <2>1. wire' = [wire EXCEPT !.RECV = Coming \o s]
    BY <1>1 DEF Sends, Coming
  <2> HIDE DEF s
  <2> QED BY <2>1, WireFields
<1> HIDE DEF s
<1> QED BY <1>1, <1>2, <1>3, <1>4, <1>5, <1>6, <1>7 DEF Moving

LEMMA ServeSteps ==
  ASSUME SessionTypeOK, Serve
  PROVE  \E request \in Requests : Walked(request) \/ Went(request) \/ Ignored(request) \/ \E p \in Sent : Replied(request, p)
<1> DEFINE request == Head(asked)
<1>1. request \in Requests /\ Serving(request) /\ UNCHANGED <<world, told>>
  <2>1. asked \in Seq(Requests) /\ asked # <<>> /\ asked' = Tail(asked) /\ UNCHANGED <<world, told>>
    BY DEF Serve, Answered, SessionTypeOK
  <2>2. request \in Requests
    BY <2>1
  <2> QED BY <2>1, <2>2 DEF Serving
<1>2. \/ request.op = "walk" /\ request.cell # None /\ (ServeWalk(request.cell) \/ ServeIgnore)
      \/ request.op = "walk" /\ ServeReject
      \/ request.op = "u_s" /\ (ServeHit(request.slot) \/ ServeCancel)
      \/ request.op = "rest" /\ ServeRest
  BY DEF Serve
<1>3. /\ request.op = "walk" /\ request.cell # None => request.cell \in Cells
      /\ request.op = "u_s" => request.slot \in Slots
  BY <1>1, RequestFields
<1> HIDE DEF request
<1>4. ASSUME NEW p \in Sent, Truly(p), Sends(<<p>>), UNCHANGED mishaps, p.op \in {"tp", "su", "cancel", "rest"},
             p.op = "tp" <=> request.op = "walk",
             p.op = "su" => request.op = "u_s" /\ p.vnum = Skill[request.slot]
      PROVE  Replied(request, p)
  <2>1. wire' = [SEND |-> Going, RECV |-> Append(Coming, p)]
    BY <1>4, SaysOne
  <2> QED BY <1>1, <1>4, <2>1 DEF Replied, Saying
<1>5. CASE request.op = "walk" /\ request.cell # None /\ ServeWalk(request.cell)
  <2>1. CASE Exit[game.map][request.cell] = None
    <3>1. game' = [game EXCEPT !.cell = request.cell] /\ UNCHANGED wire /\ UNCHANGED mishaps
      BY <1>5, <2>1 DEF ServeWalk
    <3>2. /\ game'.map = game.map /\ game'.near = game.near /\ game'.drops = game.drops
          /\ game'.sitting = game.sitting /\ game'.cell = request.cell /\ game' \in Games
      BY <1>3, <1>5, <3>1 DEF SessionTypeOK, Games
    <3>3. Walked(request)
      BY <1>1, <1>5, <3>1, <3>2 DEF Walked, Silent
    <3> QED BY <1>1, <3>3
  <2>2. CASE Exit[game.map][request.cell] # None
    <3>1. PICK back \in {e \in Cells : Exit[Exit[game.map][request.cell]][e] = game.map} :
            ChangeMap(Exit[game.map][request.cell], back)
      BY <1>5, <2>2 DEF ServeWalk
    <3>2. UNCHANGED mishaps
      BY <1>5 DEF ServeWalk
    <3>3. Exit[game.map][request.cell] \in Maps
      BY <1>3, <1>5, <2>2, GameFields, SessionAssumption
    <3>4. Moving(Exit[game.map][request.cell], back)
      BY <1>1, <3>1, <3>3, Moves
    <3>5. Went(request)
      BY <1>1, <1>5, <3>1, <3>2, <3>3, <3>4 DEF Went
    <3> QED BY <1>1, <3>5
  <2> QED BY <2>1, <2>2
<1>6. CASE ServeIgnore
  <2>1. Silent /\ game' = game
    BY <1>1, <1>6 DEF ServeIgnore, Silent, SessionTypeOK
  <2>2. Ignored(request)
    BY <1>1, <1>6, <2>1 DEF ServeIgnore, Ignored
  <2> QED BY <1>1, <2>2
<1>7. CASE request.op = "walk" /\ ServeReject
  <2> PICK p : p = [op |-> "tp", id |-> Me, cell |-> game.cell]
    OBVIOUS
  <2>1. p \in Sent /\ Sends(<<p>>) /\ game' = game /\ UNCHANGED mishaps /\ p.op = "tp" /\ p.cell = game.cell
    BY <1>7, GameFields DEF ServeReject, Sent
  <2>2. Truly(p)
    BY <2>1, TrulyNothing
  <2>3. Replied(request, p)
    BY <1>4, <1>7, <2>1, <2>2
  <2> QED BY <1>1, <2>1, <2>3
<1>8. CASE request.op = "u_s" /\ ServeHit(request.slot)
  <2> PICK p : p = [op |-> "su", by |-> Me, vnum |-> Skill[request.slot]]
    OBVIOUS
  <2>1. /\ p \in Sent /\ Sends(<<p>>) /\ game' = game /\ UNCHANGED mishaps /\ p.op = "su"
        /\ p.vnum = Skill[request.slot]
    BY <1>3, <1>8, SessionAssumption DEF ServeHit, Sent
  <2>2. Truly(p)
    BY <2>1, TrulyNothing
  <2>3. Replied(request, p)
    BY <1>4, <1>8, <2>1, <2>2
  <2> QED BY <1>1, <2>1, <2>3
<1>9. CASE request.op = "u_s" /\ ServeCancel
  <2> PICK p : p = [op |-> "cancel"]
    OBVIOUS
  <2>1. p \in Sent /\ Sends(<<p>>) /\ game' = game /\ UNCHANGED mishaps /\ p.op = "cancel"
    BY <1>9 DEF ServeCancel, Sent
  <2>2. Truly(p)
    BY <2>1, TrulyNothing
  <2>3. Replied(request, p)
    BY <1>4, <1>9, <2>1, <2>2
  <2> QED BY <1>1, <2>1, <2>3
<1>10. CASE request.op = "rest" /\ ServeRest
  <2> PICK p : p = [op |-> "rest", id |-> Me, sitting |-> ~game.sitting]
    OBVIOUS
  <2>1. /\ p \in Sent /\ Sends(<<p>>) /\ game' = [game EXCEPT !.sitting = ~game.sitting] /\ UNCHANGED mishaps
        /\ p.op = "rest" /\ p.id = Me /\ p.sitting = ~game.sitting
    BY <1>10, GameFields, SessionAssumption DEF ServeRest, Sent
  <2>2. /\ game'.map = game.map /\ game'.near = game.near /\ game'.drops = game.drops
        /\ game'.sitting = ~game.sitting /\ game'.cell = game.cell
    BY <2>1 DEF SessionTypeOK, Games
  <2>3. game' \in Games
    BY <2>1, GameFields DEF SessionTypeOK, Games
  <2>4. p \in OwnRests /\ (\A id \in Others : p \notin Touches(id)) /\ (\A d \in Drops : p \notin Handles(d))
    BY <2>1 DEF OwnRests, Touches, Handles
  <2>5. Truly(p)
    BY <2>1, <2>2, <2>3, <2>4 DEF Truly
  <2>6. Replied(request, p)
    BY <1>4, <1>10, <2>1, <2>5
  <2> QED BY <1>1, <2>1, <2>6
<1> QED BY <1>2, <1>5, <1>6, <1>7, <1>8, <1>9, <1>10

LEMMA DeliverSteps ==
  ASSUME SessionTypeOK, NEW way \in {"SEND", "RECV"}, Deliver(way)
  PROVE  Read(way)
<1>1. wire = [SEND |-> Going, RECV |-> Coming]
  BY WireFields
<1>2. /\ wire[way] # <<>> /\ world' = Feed(world, Head(wire[way])) /\ told' = ToldBy(Head(wire[way]))
      /\ wire' = [wire EXCEPT ![way] = Tail(wire[way])]
      /\ mishaps' = mishaps \cup (IF wire[OtherWay[way]] = <<>> THEN {} ELSE {"overtaken"})
                            \cup (IF world'.self \in {None, Me} THEN {} ELSE {"mistaken"})
      /\ UNCHANGED <<game, asked>>
  BY DEF Deliver
<1>3. wire' = IF way = "RECV" THEN [SEND |-> Going, RECV |-> Tail(Coming)] ELSE [SEND |-> Tail(Going), RECV |-> Coming]
  <2>1. CASE way = "RECV"
    <3>1. wire' = [wire EXCEPT !.RECV = Tail(Coming)]
      BY <1>2, <2>1 DEF Coming
    <3> QED BY <2>1, <3>1, WireFields
  <2>2. CASE way = "SEND"
    <3>1. wire' = [wire EXCEPT !.SEND = Tail(Going)]
      BY <1>2, <2>2 DEF Going
    <3> QED BY <2>2, <3>1, WireFields
  <2> QED BY <2>1, <2>2
<1>4. Going # <<>> /\ Coming # <<>> => wire[OtherWay[way]] # <<>>
  BY <1>1 DEF OtherWay
<1>5. mishaps \subseteq mishaps' /\ mishaps' \subseteq mishaps \cup {"overtaken", "mistaken"}
  BY <1>2
<1>6. Going # <<>> /\ Coming # <<>> => "overtaken" \in mishaps'
  BY <1>2, <1>4
<1>7. world'.self \notin {None, Me} => "mistaken" \in mishaps'
  BY <1>2
<1> QED BY <1>2, <1>3, <1>5, <1>6, <1>7 DEF Read

\* What the game does is one of these, and the count stays a number.
LEMMA GameSteps ==
  ASSUME SessionTypeOK, Game
  PROVE  Played /\ count' \in Nat
<1>1. /\ Counted => count' \in Nat
      /\ UNCHANGED count => count' \in Nat
  BY DEF SessionTypeOK, Counted
<1>3. ASSUME NEW request \in Requests, Ask(request) PROVE Played /\ count' \in Nat
  <2>1. /\ Counted /\ asked' = Append(asked, request) /\ wire' = [wire EXCEPT !.SEND = Append(Going, request)]
        /\ mishaps' = (IF asked = <<>> THEN mishaps ELSE mishaps \cup {"overlapped"})
        /\ UNCHANGED <<game, world, told>>
    BY <1>3 DEF Ask, Going
  <2>2. wire' = [SEND |-> Append(Going, request), RECV |-> Coming]
    BY <2>1, WireFields
  <2>3. Silent
    BY <2>1 DEF Silent, SessionTypeOK
  <2>4. Asking(request)
    BY <2>1, <2>2, <2>3 DEF Asking
  <2> QED BY <1>1, <2>1, <2>4 DEF Played
<1>4. CASE Serve
  <2>1. UNCHANGED count
    BY <1>4 DEF Serve, Answered
  <2>2. \E request \in Requests : Walked(request) \/ Went(request) \/ Ignored(request) \/ \E p \in Sent : Replied(request, p)
    BY <1>4, ServeSteps
  <2> QED BY <1>1, <2>1, <2>2 DEF Played
<1>5. CASE \E m \in Maps, c \in Cells : Warp(m, c)
  <2>1. PICK m \in Maps, c \in Cells : Warp(m, c)
    BY <1>5
  <2>2. ChangeMap(m, c) /\ UNCHANGED <<asked, world, told>> /\ mishaps' = mishaps \cup {"warped"} /\ Counted
    BY <2>1 DEF Warp, Happened
  <2>3. Moving(m, c)
    BY <2>2, Moves
  <2>4. Warped
    BY <2>2, <2>3 DEF Warped
  <2> QED BY <1>1, <2>2, <2>4 DEF Played
<1>6. ASSUME \/ \E id \in Players, sitting \in BOOLEAN : OtherRests(id, sitting)
             \/ Condition \/ ListSkills
             \/ \E id \in Others, c \in Cells : Appear(id, c) \/ Move(id, c)
             \/ \E id \in Others : Leave(id)
             \/ \E id \in Monsters, dead \in BOOLEAN : Hurt(id, dead)
             \/ \E id \in Players \ {Me}, vnum \in Vnums : HitBy(id, vnum)
             \/ \E d \in Drops : Fall(d) \/ Take(d)
      PROVE  Played /\ count' \in Nat
  <2>1. \E truth, p : Announce(truth, p)
    BY <1>6 DEF OtherRests, Condition, ListSkills, Appear, Move, Leave, Hurt, HitBy, Fall, Take
  <2>2. Counted
    BY <2>1 DEF Announce, Happened
  <2>3. \E p \in Sent : Told(p)
    BY <1>6, EventTold
  <2> QED BY <1>1, <2>2, <2>3 DEF Played
<1> QED BY <1>3, <1>4, <1>5, <1>6 DEF Game

\* What Next does is one of the steps above, and the count stays a number.
LEMMA Steps ==
  ASSUME SessionTypeOK, [Next]_vars
  PROVE  Step /\ count' \in Nat
<1>1. /\ Counted => count' \in Nat
      /\ UNCHANGED count => count' \in Nat
  BY DEF SessionTypeOK, Counted
<1>2. CASE UNCHANGED vars
  BY <1>1, <1>2 DEF Step, vars
<1>3. CASE Game
  BY <1>3, GameSteps DEF Step, Played
<1>7. ASSUME NEW way \in {"SEND", "RECV"}, Deliver(way) PROVE Step /\ count' \in Nat
  <2>1. Read(way) /\ UNCHANGED count
    BY <1>7, DeliverSteps DEF Deliver
  <2> QED BY <1>1, <2>1 DEF Step
<1>8. CASE Gap
  <2>1. PICK j \in 0 .. Len(Going), k \in 0 .. Len(Coming) :
          /\ wire' = [SEND |-> SubSeq(Going, j + 1, Len(Going)), RECV |-> SubSeq(Coming, k + 1, Len(Coming))]
          /\ mishaps' = mishaps \cup {"gap"}
               \cup (IF (k > 0 /\ wire.SEND # <<>>) \/ (j > 0 /\ wire'.RECV # <<>>) THEN {"overtaken"} ELSE {})
    BY <1>8 DEF Gap, Going, Coming
  <2>2. Counted /\ told' = {} /\ UNCHANGED <<game, asked, world>>
    BY <1>8 DEF Gap
  <2>3. mishaps \cup {"gap"} \subseteq mishaps' /\ mishaps' \subseteq mishaps \cup {"gap", "overtaken"}
    BY <2>1
  <2>4. Losing
    BY <2>1, <2>2, <2>3 DEF Losing
  <2> QED BY <1>1, <2>2, <2>4 DEF Step
<1>9. CASE Age
  <2>1. Aging /\ UNCHANGED count
    BY <1>9 DEF Age, Aging
  <2> QED BY <1>1, <2>1 DEF Step
<1> QED BY <1>2, <1>3, <1>7, <1>8, <1>9 DEF Next

-----------------------------------------------------------------------------
(* What one packet of the server changes. *)

LEMMA OthersIds == /\ Me \in Players /\ Me \in Ids /\ Players \subseteq Ids /\ Others \subseteq Ids
                   /\ Monsters \subseteq Others /\ Me \notin Others /\ One \in Players /\ One # Me
                   /\ None \notin Ids /\ None \notin Maps /\ None \notin Cells /\ None \notin Slots /\ None \notin Vnums
  BY SessionAssumption, NoneAssumption DEF Ids, Others

LEMMA FedEntities ==
  ASSUME NEW w \in Worlds, NEW p \in Sent, NEW id \in Others
  PROVE  /\ p \in Touches(id) => Feed(w, p).entities[id] = Shows(p, id)
         /\ p \notin Touches(id) /\ p.op # "at" => Feed(w, p).entities[id] = w.entities[id]
<1>0. /\ w.entities \in [Ids -> Cells \cup {None}] /\ id \in Ids
  BY OthersIds DEF Worlds
<1>1. CASE p.op \in {"c_map", "mapout"}
  <2>1. p \in Touches(id) /\ Shows(p, id) = None
    BY <1>1 DEF Touches, Shows
  <2>2. Feed(w, p).entities = Unseen
    BY <1>1, <1>0 DEF Feed, OnMap, OnMapout, ForgetMap, RememberDeparture
  <2> QED BY <2>1, <2>2, <1>0 DEF Unseen
<1>2. CASE p.op \in {"mv", "tp", "in"}
  <2>1. p.id \in Ids /\ p.cell \in Cells /\ (p.op = "tp" => p.id # id)
    BY <1>2, SentFields, OthersIds
  <2>2. Feed(w, p).entities = [w.entities EXCEPT ![p.id] = p.cell]
    BY <1>2, <1>0 DEF Feed, OnMove, OnTeleport, OnSpawn
  <2>3. p \in Touches(id) <=> p.id = id /\ p.op # "tp"
    BY <1>2 DEF Touches
  <2> QED BY <1>0, <1>2, <2>1, <2>2, <2>3 DEF Shows
<1>3. CASE p.op \in {"out", "st"}
  <2>1. p.id \in Ids /\ (p.op = "st" => p.id \in Monsters)
    BY <1>3, SentFields, OthersIds
  <2>2. Feed(w, p).entities = IF p.op = "out" \/ p.dead THEN [w.entities EXCEPT ![p.id] = None] ELSE w.entities
    BY <1>3, <1>0, <2>1 DEF Feed, OnDespawn, OnStatus
  <2>3. p \in Touches(id) <=> p.id = id /\ (p.op = "out" \/ p.dead)
    BY <1>3 DEF Touches
  <2> QED BY <1>0, <1>3, <2>1, <2>2, <2>3 DEF Shows
<1>4. CASE p.op \in {"cancel", "drop", "get", "rest", "cond", "gp", "wp", "ski", "su"}
  <2>1. p \notin Touches(id)
    BY <1>4 DEF Touches
  <2>2. Feed(w, p).entities = w.entities
    BY <1>4, <1>0 DEF Feed, OnDrop, OnGet, OnRest, OnCondition, OnGate, OnWaypoint, OnSkillList, OnSkillUsed
  <2> QED BY <2>1, <2>2
<1>5. p.op = "at" => p \notin Touches(id)
  BY DEF Touches
<1> QED BY <1>1, <1>2, <1>3, <1>4, <1>5, SentFields

LEMMA FedDrops ==
  ASSUME NEW w \in Worlds, NEW p \in Sent, NEW d \in Drops
  PROVE  /\ p \in Handles(d) => (d \in Feed(w, p).drops <=> p.op = "drop")
         /\ p \notin Handles(d) /\ p.op # "at" => (d \in Feed(w, p).drops <=> d \in w.drops)
<1>0. w.drops \subseteq Drops
  BY DEF Worlds
<1>1. CASE p.op \in {"c_map", "mapout"}
  <2>1. p \in Handles(d)
    BY <1>1 DEF Handles
  <2>2. Feed(w, p).drops = {}
    BY <1>1 DEF Feed, OnMap, OnMapout, ForgetMap, RememberDeparture, Worlds
  <2> QED BY <1>1, <2>1, <2>2
<1>2. CASE p.op \in {"drop", "get"}
  <2>1. p \in Handles(d) <=> p.drop = d
    BY <1>2 DEF Handles
  <2>2. Feed(w, p).drops = IF p.op = "drop" THEN w.drops \cup {p.drop} ELSE w.drops \ {p.drop}
    BY <1>2 DEF Feed, OnDrop, OnGet, Worlds
  <2> QED BY <1>2, <2>1, <2>2
<1>3. CASE p.op \in {"cancel", "tp", "mv", "in", "out", "st", "rest", "cond", "gp", "wp", "ski", "su"}
  <2>1. p \notin Handles(d)
    BY <1>3 DEF Handles
  <2>2. CASE p.op \in {"cancel", "tp", "mv", "in", "out", "st"}
    BY <2>1, <2>2 DEF Feed, OnMove, OnTeleport, OnSpawn, OnDespawn, OnStatus, Worlds
  <2>3. CASE p.op \in {"rest", "cond", "gp", "wp", "ski", "su"}
    BY <2>1, <2>3 DEF Feed, OnRest, OnCondition, OnGate, OnWaypoint, OnSkillList, OnSkillUsed, Worlds
  <2> QED BY <1>3, <2>2, <2>3
<1>4. p.op = "at" => p \notin Handles(d)
  BY DEF Handles
<1> QED BY <1>1, <1>2, <1>3, <1>4, SentFields

LEMMA FedMap ==
  ASSUME NEW w \in Worlds, NEW p \in Sent
  PROVE  /\ Feed(w, p).map = IF p \in Setters THEN p.map ELSE w.map
         /\ Feed(w, p).gates = IF p.op = "gp" /\ w.map # None THEN [w.gates EXCEPT ![<<w.map, p.cell>>] = p.to]
                               ELSE w.gates
         /\ Feed(w, p).spaces = IF p.op = "wp" /\ w.map # None THEN w.spaces \cup {<<w.map, p.cell>>} ELSE w.spaces
<1>1. p \in Setters <=> p.op \in {"c_map", "at"}
  BY DEF Setters
<1>2. CASE p.op \in {"c_map", "mapout"}
  BY <1>1, <1>2 DEF Feed, OnMap, OnMapout, ForgetMap, RememberDeparture, Worlds
<1>3. CASE p.op = "at"
  BY <1>1, <1>3 DEF Feed, OnPosition, ForgetMap, Worlds
<1>4. CASE p.op \in {"gp", "wp"}
  BY <1>1, <1>4 DEF Feed, OnGate, OnWaypoint, Worlds
<1>5. CASE p.op \in {"cancel", "tp", "mv", "in", "out", "st"}
  BY <1>1, <1>5 DEF Feed, OnMove, OnTeleport, OnSpawn, OnDespawn, OnStatus, Worlds
<1>6. CASE p.op \in {"drop", "get", "rest", "cond", "ski", "su"}
  BY <1>1, <1>6 DEF Feed, OnDrop, OnGet, OnRest, OnCondition, OnSkillList, OnSkillUsed, Worlds
<1> QED BY <1>2, <1>3, <1>4, <1>5, <1>6, SentFields

\* The own id and posture.
LEMMA FedSelf ==
  ASSUME NEW w \in Worlds, NEW p \in Sent
  PROVE  /\ Feed(w, p).self = CASE p.op = "at" -> Me
                                [] p.op = "rest" /\ w.self = None -> p.id
                                [] p.op = "cond" /\ w.self = None -> Me
                                [] OTHER -> w.self
         /\ Feed(w, p).resting = IF p.op = "rest" /\ w.self \in {None, p.id}
                                   THEN IF p.sitting THEN "sitting" ELSE "standing"
                                   ELSE w.resting
<1>2. CASE p.op \in {"c_map", "mapout"}
  BY <1>2 DEF Feed, OnMap, OnMapout, ForgetMap, RememberDeparture, Worlds
<1>3. CASE p.op = "at"
  BY <1>3, SentFields DEF Feed, OnPosition, ForgetMap, Worlds
<1>4. CASE p.op \in {"gp", "wp", "drop", "get", "ski", "su"}
  BY <1>4 DEF Feed, OnGate, OnWaypoint, OnDrop, OnGet, OnSkillList, OnSkillUsed, Worlds
<1>5. CASE p.op \in {"cancel", "tp", "mv", "in", "out", "st"}
  BY <1>5 DEF Feed, OnMove, OnTeleport, OnSpawn, OnDespawn, OnStatus, Worlds
<1>6. CASE p.op = "rest"
  BY <1>6 DEF Feed, OnRest, Worlds
<1>7. CASE p.op = "cond"
  BY <1>7, SentFields, OthersIds DEF Feed, OnCondition, Worlds
<1> QED BY <1>2, <1>3, <1>4, <1>5, <1>6, <1>7, SentFields

\* The own place and what is learned from a crossing.
LEMMA FedPlace ==
  ASSUME NEW w \in Worlds, NEW p \in Sent
  PROVE  /\ Feed(w, p).pos = CASE p.op = "at" -> p.cell
                               [] p.op \in {"mv", "tp"} /\ p.id = w.self -> p.cell
                               [] OTHER -> w.pos
         /\ Feed(w, p).departure =
              CASE p.op = "at" -> None
                [] /\ p.op = "mapout" \/ (p.op = "c_map" /\ ~p.entering)
                   /\ w.map # None /\ w.pos # None -> <<w.map, w.pos>>
                [] OTHER -> w.departure
         /\ Feed(w, p).portals = IF p.op = "at" THEN Crossed(w, p) ELSE w.portals
<1>2. CASE p.op \in {"c_map", "mapout"}
  BY <1>2 DEF Feed, OnMap, OnMapout, ForgetMap, RememberDeparture, Worlds
<1>3. CASE p.op = "at"
  <2>1. Feed(w, p) = OnPosition(w, p)
    BY <1>3 DEF Feed
  <2>2. OnPosition(w, p).pos = p.cell /\ OnPosition(w, p).departure = None /\ OnPosition(w, p).portals = Crossed(w, p)
    BY DEF OnPosition, ForgetMap, Worlds
  <2> QED BY <1>3, <2>1, <2>2
<1>4. CASE p.op \in {"gp", "wp", "drop", "get", "ski", "su"}
  BY <1>4 DEF Feed, OnGate, OnWaypoint, OnDrop, OnGet, OnSkillList, OnSkillUsed, Worlds
<1>5. CASE p.op \in {"cancel", "tp", "mv", "in", "out", "st"}
  BY <1>5 DEF Feed, OnMove, OnTeleport, OnSpawn, OnDespawn, OnStatus, Worlds
<1>6. CASE p.op \in {"rest", "cond"}
  BY <1>6 DEF Feed, OnRest, OnCondition, Worlds
<1> QED BY <1>2, <1>3, <1>4, <1>5, <1>6, SentFields

\* The skills.
LEMMA FedSkills ==
  ASSUME NEW w \in Worlds, NEW p \in Sent
  PROVE  LET paired == p.op = "su" /\ w.self # None /\ p.by = w.self /\ w.pending # None
         IN /\ Feed(w, p).pending = IF paired THEN None ELSE w.pending
            /\ Feed(w, p).learned = IF paired THEN [w.learned EXCEPT ![w.pending] = p.vnum] ELSE w.learned
            /\ Feed(w, p).basic = CASE paired /\ w.pending = 0 -> p.vnum
                                    [] p.op = "ski" /\ w.basic = None -> p.first
                                    [] OTHER -> w.basic
<1>2. CASE p.op \in {"c_map", "mapout", "at"}
  BY <1>2 DEF Feed, OnMap, OnMapout, OnPosition, ForgetMap, RememberDeparture, Worlds
<1>4. CASE p.op \in {"gp", "wp", "drop", "get", "ski"}
  BY <1>4 DEF Feed, OnGate, OnWaypoint, OnDrop, OnGet, OnSkillList, Worlds
<1>5. CASE p.op \in {"cancel", "tp", "mv", "in", "out", "st"}
  BY <1>5 DEF Feed, OnMove, OnTeleport, OnSpawn, OnDespawn, OnStatus, Worlds
<1>6. CASE p.op \in {"rest", "cond"}
  BY <1>6 DEF Feed, OnRest, OnCondition, Worlds
<1>7. CASE p.op = "su"
  BY <1>7 DEF Feed, OnSkillUsed, OwnHit, Worlds
<1> QED BY <1>2, <1>4, <1>5, <1>6, <1>7, SentFields

\* What the client sends changes the place it thinks it is on, the slot it waits for, and
\* if the host does not know its character yet, the id and posture.
LEMMA FedSends ==
  ASSUME NEW w \in Worlds, NEW p \in Requests
  PROVE  LET after == Feed(w, p)
         IN /\ after.map = w.map /\ after.entities = w.entities /\ after.drops = w.drops /\ after.gates = w.gates
            /\ after.spaces = w.spaces /\ after.portals = w.portals /\ after.departure = w.departure
            /\ after.learned = w.learned /\ after.basic = w.basic
            /\ after.pos = (IF p \in Walks THEN p.cell ELSE w.pos)
            /\ after.pending = (IF p.op = "u_s" THEN p.slot ELSE w.pending)
            /\ w.self = Me => after.self = Me /\ after.resting = w.resting
            /\ p.op # "rest" => after.self = w.self
<1>1. p.op \in {"walk", "u_s", "rest"} /\ (p.op = "rest" => p.id # Me)
  BY RequestFields, OthersIds
<1>2. p \in Walks <=> p.op = "walk" /\ p.cell # None
  BY DEF Walks
<1>3. CASE p.op = "walk"
  BY <1>2, <1>3 DEF Feed, OnWalk, Worlds
<1>4. CASE p.op = "u_s"
  BY <1>2, <1>4 DEF Feed, OnSkillSend, Worlds
<1>5. CASE p.op = "rest"
  BY <1>1, <1>2, <1>5, OthersIds DEF Feed, OnRest, Worlds
<1> QED BY <1>1, <1>3, <1>4, <1>5

LEMMA ToldWhat ==
  ASSUME SessionTypeOK, NEW p \in Packets
  PROVE  /\ told \subseteq ToldBy(p) /\ ToldBy(p) \subseteq {"place", "map", "rest"}
         /\ "place" \in ToldBy(p) => "place" \in told \/ p.op = "at"
         /\ "map" \in ToldBy(p) => "map" \in told \/ p.op = "c_map"
         /\ "rest" \in ToldBy(p) => "rest" \in told \/ (p.op = "rest" /\ p.id = Me /\ "place" \in told)
  BY DEF ToldBy, SessionTypeOK

-----------------------------------------------------------------------------
(* Types. *)

LEMMA AgedTyped ==
  ASSUME NEW w \in Worlds
  PROVE  Aged(w) \in Worlds
  BY DEF Aged, Worlds

LEMMA WireTyped ==
  ASSUME NEW g \in Seq(Requests), NEW c \in Seq(Sent)
  PROVE  [SEND |-> g, RECV |-> c] \in [SEND : Seq(Requests), RECV : Seq(Sent)]
  OBVIOUS

LEMMA TypeKept ==
  ASSUME SessionTypeOK, [Next]_vars
  PROVE  SessionTypeOK'
<1> DEFINE W == [SEND : Seq(Requests), RECV : Seq(Sent)]
<1>0. /\ Step /\ count' \in Nat
      /\ game \in Games /\ asked \in Seq(Requests) /\ world \in Worlds /\ told \subseteq {"place", "map", "rest"}
      /\ mishaps \subseteq Mishaps /\ wire \in W
  BY Steps DEF SessionTypeOK
<1>1. Going \in Seq(Requests) /\ Coming \in Seq(Sent) /\ wire = [SEND |-> Going, RECV |-> Coming]
  BY WireFields
<1>2. /\ Going # <<>> => Tail(Going) \in Seq(Requests) /\ Head(Going) \in Requests
      /\ Coming # <<>> => Tail(Coming) \in Seq(Sent) /\ Head(Coming) \in Sent
      /\ asked # <<>> => Tail(asked) \in Seq(Requests)
  BY <1>0, <1>1
<1>3. /\ \A p \in Requests : Append(Going, p) \in Seq(Requests) /\ Append(asked, p) \in Seq(Requests)
      /\ \A p \in Sent : Append(Coming, p) \in Seq(Sent)
  BY <1>0, <1>1
<1>4. \A s \in Seq(Sent) : Coming \o s \in Seq(Sent)
  BY <1>1
<1>5. mishaps \cup {"overlapped", "ignored", "warped", "gap", "overtaken", "mistaken"} \subseteq Mishaps
  BY <1>0 DEF Mishaps
<1> DEFINE Type == /\ game' \in Games /\ asked' \in Seq(Requests) /\ wire' \in W
                   /\ world' \in Worlds /\ told' \subseteq {"place", "map", "rest"} /\ mishaps' \subseteq Mishaps
<1> HIDE DEF W
<1>W. \A g \in Seq(Requests), c \in Seq(Sent) : [SEND |-> g, RECV |-> c] \in W
  BY DEF W
<1>6. ASSUME NEW request \in Requests, Asking(request) PROVE Type
  BY <1>0, <1>1, <1>3, <1>5, <1>6, <1>W DEF Asking, Silent
<1>7. ASSUME NEW request \in Requests, Walked(request) \/ Ignored(request) PROVE Type
  BY <1>0, <1>1, <1>2, <1>5, <1>7 DEF Walked, Ignored, Serving, Silent
<1>8. ASSUME NEW m, NEW c, Moving(m, c) PROVE game' \in Games /\ wire' \in W /\ UNCHANGED <<world, told>>
  BY <1>1, <1>4, <1>8, <1>W DEF Moving
<1>9. ASSUME NEW request \in Requests, Went(request) PROVE Type
  <2>1. asked' \in Seq(Requests) /\ UNCHANGED mishaps /\ \E m, c : Moving(m, c)
    BY <1>2, <1>9 DEF Went, Serving
  <2> QED BY <1>0, <1>8, <2>1
<1>10. ASSUME Warped PROVE Type
  <2>1. UNCHANGED asked /\ mishaps' = mishaps \cup {"warped"} /\ \E m, c : Moving(m, c)
    BY <1>10 DEF Warped
  <2> QED BY <1>0, <1>5, <1>8, <2>1
<1>11. ASSUME NEW p \in Sent, Saying(p)
       PROVE  game' \in Games /\ wire' \in W /\ UNCHANGED <<world, told, mishaps>>
  BY <1>1, <1>3, <1>11, <1>W DEF Saying, Truly
<1>12. ASSUME NEW request \in Requests, NEW p \in Sent, Replied(request, p) PROVE Type
  <2>1. asked' \in Seq(Requests) /\ Saying(p)
    BY <1>2, <1>12 DEF Replied, Serving
  <2> QED BY <1>0, <1>11, <2>1
<1>13. ASSUME NEW p \in Sent, Told(p) PROVE Type
  <2>1. UNCHANGED asked /\ Saying(p)
    BY <1>13 DEF Told
  <2> QED BY <1>0, <1>11, <2>1
<1>14. ASSUME NEW way \in {"SEND", "RECV"}, Read(way) PROVE Type
  <2>1. /\ wire[way] # <<>> /\ world' = Feed(world, Head(wire[way])) /\ told' = ToldBy(Head(wire[way]))
        /\ wire' = (IF way = "RECV" THEN [SEND |-> Going, RECV |-> Tail(Coming)] ELSE [SEND |-> Tail(Going), RECV |-> Coming])
        /\ mishaps' \subseteq mishaps \cup {"overtaken", "mistaken"} /\ UNCHANGED <<game, asked>>
    BY <1>14 DEF Read
  <2>2. Head(wire[way]) \in Packets /\ wire' \in W
    <3>1. CASE way = "RECV"
      <4>1. wire[way] = Coming /\ Coming # <<>>
        BY <2>1, <3>1 DEF Coming
      <4> QED BY <1>1, <1>2, <1>W, <2>1, <3>1, <4>1, SentFields
    <3>2. CASE way = "SEND"
      <4>1. wire[way] = Going /\ Going # <<>>
        BY <2>1, <3>2 DEF Going
      <4> QED BY <1>1, <1>2, <1>W, <2>1, <3>2, <4>1, RequestFields
    <3> QED BY <3>1, <3>2
  <2>3. world' \in Worlds /\ told' \subseteq {"place", "map", "rest"}
    BY <1>0, <2>1, <2>2, FeedTyped, ToldWhat
  <2> QED BY <1>0, <1>5, <2>1, <2>2, <2>3
<1>15. ASSUME Losing PROVE Type
  <2>1. PICK j \in 0 .. Len(Going), k \in 0 .. Len(Coming) :
          wire' = [SEND |-> SubSeq(Going, j + 1, Len(Going)), RECV |-> SubSeq(Coming, k + 1, Len(Coming))]
    BY <1>15 DEF Losing
  <2>2. SubSeq(Going, j + 1, Len(Going)) \in Seq(Requests) /\ SubSeq(Coming, k + 1, Len(Coming)) \in Seq(Sent)
    BY <1>1, LastSuffix
  <2> QED BY <1>0, <1>5, <1>15, <1>W, <2>1, <2>2 DEF Losing
<1>16. ASSUME Aging PROVE Type
  BY <1>0, <1>16, AgedTyped DEF Aging
<1>17. ASSUME UNCHANGED vars PROVE Type
  BY <1>0, <1>17 DEF vars
<1> QED
  <2>1. Type
    <3> HIDE DEF Type
    <3> QED BY <1>0, <1>6, <1>7, <1>9, <1>10, <1>12, <1>13, <1>14, <1>15, <1>16, <1>17 DEF Step
  <2> QED BY <1>0, <2>1 DEF SessionTypeOK, W

-----------------------------------------------------------------------------
(* The packets of the server, whatever the client does meanwhile. *)

\* No packet of the server is sent, read or lost.
Still ==
  /\ Coming' = Coming /\ told' = told
  /\ game'.map = game.map /\ game'.near = game.near /\ game'.drops = game.drops /\ game'.sitting = game.sitting
  /\ world'.map = world.map /\ world'.entities = world.entities /\ world'.drops = world.drops
  /\ world'.gates = world.gates /\ world'.spaces = world.spaces /\ world'.departure = world.departure
  /\ world.self = Me => world'.self = Me /\ world'.resting = world.resting

Says(p) == Truly(p) /\ Coming' = Append(Coming, p) /\ UNCHANGED <<world, told>>

Comes ==
  \E s \in Seq(Sent), m \in Maps, c \in Cells, view \in Views, a \in Nat :
    /\ ArrivalAt(s, a, game.map, m, c, view) /\ Coming' = Coming \o s
    /\ game'.map = m /\ game'.cell = c /\ game'.near = view /\ game'.drops = {} /\ game'.sitting = game.sitting
    /\ UNCHANGED <<world, told>>

Hears ==
  /\ Coming # <<>> /\ Coming' = Tail(Coming) /\ Head(Coming) \in Sent
  /\ world' = Feed(world, Head(Coming)) /\ told' = ToldBy(Head(Coming)) /\ UNCHANGED game

Misses ==
  /\ \E k \in 0 .. Len(Coming) : Coming' = SubSeq(Coming, k + 1, Len(Coming))
  /\ told' = {} /\ "gap" \in mishaps' /\ UNCHANGED <<game, world>>

Sight == mishaps \subseteq mishaps' /\ (Still \/ (\E p \in Sent : Says(p)) \/ Comes \/ Hears \/ Misses)

LEMMA MovingComes ==
  ASSUME NEW m, NEW c, Moving(m, c)
  PROVE  Comes
<1>1. PICK s \in Seq(Sent), view \in Views, a \in Nat :
        /\ ArrivalAt(s, a, game.map, m, c, view) /\ m \in Maps /\ c \in Cells
        /\ game' = [map |-> m, cell |-> c, sitting |-> game.sitting, near |-> view, drops |-> {}]
        /\ wire' = [SEND |-> Going, RECV |-> Coming \o s]
        /\ UNCHANGED <<world, told>>
  BY DEF Moving
<1>2. Coming' = Coming \o s
  BY <1>1 DEF Coming
<1>3. game'.map = m /\ game'.cell = c /\ game'.near = view /\ game'.drops = {} /\ game'.sitting = game.sitting
  BY <1>1
<1> QED BY <1>1, <1>2, <1>3 DEF Comes

LEMMA Sights ==
  ASSUME SessionTypeOK, Step
  PROVE  Sight
<1>1. /\ wire = [SEND |-> Going, RECV |-> Coming] /\ Going \in Seq(Requests) /\ Coming \in Seq(Sent)
      /\ world \in Worlds
  BY WireFields DEF SessionTypeOK
<1>2. ASSUME NEW request \in Requests, Asking(request) \/ Walked(request) \/ Ignored(request) PROVE Sight
  <2>1. Silent /\ Coming' = Coming /\ mishaps \subseteq mishaps'
    BY <1>2, <1>1 DEF Asking, Walked, Ignored, Coming
  <2> QED BY <2>1 DEF Sight, Still, Silent
<1>3. ASSUME NEW m, NEW c, Moving(m, c), mishaps \subseteq mishaps' PROVE Sight
  BY <1>3, MovingComes DEF Sight
<1>4. ASSUME NEW request \in Requests, Went(request) PROVE Sight
  BY <1>3, <1>4 DEF Went
<1>5. ASSUME Warped PROVE Sight
  BY <1>3, <1>5 DEF Warped
<1>6. ASSUME NEW p \in Sent, Saying(p) PROVE Sight
  BY <1>6 DEF Saying, Sight, Says, Coming
<1>7. ASSUME NEW request \in Requests, NEW p \in Sent, Replied(request, p) PROVE Sight
  BY <1>6, <1>7 DEF Replied
<1>8. ASSUME NEW p \in Sent, Told(p) PROVE Sight
  BY <1>6, <1>8 DEF Told
<1>9. ASSUME Read("RECV") PROVE Sight
  <2>1. Coming # <<>> /\ Coming' = Tail(Coming) /\ Head(Coming) \in Sent
    BY <1>1, <1>9 DEF Read, Coming
  <2>2. world' = Feed(world, Head(Coming)) /\ told' = ToldBy(Head(Coming)) /\ UNCHANGED game /\ mishaps \subseteq mishaps'
    BY <1>9 DEF Read, Coming
  <2> QED BY <2>1, <2>2 DEF Sight, Hears
<1>10. ASSUME Read("SEND") PROVE Sight
  <2>1. Going # <<>> /\ Head(Going) \in Requests
    BY <1>1, <1>10 DEF Read, Going
  <2>2. /\ world' = Feed(world, Head(Going)) /\ told' = ToldBy(Head(Going)) /\ UNCHANGED game /\ mishaps \subseteq mishaps'
        /\ Coming' = Coming
    BY <1>10 DEF Read, Going, Coming
  <2>3. told' = told
    BY <2>1, <2>2, RequestFields, OthersIds DEF ToldBy
  <2>4. /\ world'.map = world.map /\ world'.entities = world.entities /\ world'.drops = world.drops
        /\ world'.gates = world.gates /\ world'.spaces = world.spaces /\ world'.departure = world.departure
        /\ world.self = Me => world'.self = Me /\ world'.resting = world.resting
    BY <1>1, <2>1, <2>2, FedSends
  <2> QED BY <2>2, <2>3, <2>4 DEF Sight, Still
<1>11. ASSUME Losing PROVE Sight
  BY <1>11 DEF Losing, Sight, Misses, Coming
<1>12. ASSUME Aging PROVE Sight
  BY <1>1, <1>12 DEF Aging, Aged, Sight, Still, Coming, Worlds
<1>13. ASSUME UNCHANGED vars PROVE Sight
  BY <1>13 DEF vars, Sight, Still, Coming
<1> QED BY <1>2, <1>4, <1>5, <1>7, <1>8, <1>9, <1>10, <1>11, <1>12, <1>13 DEF Step

\* What comes with a change of map is r, with its at at place a.
Came(r, a, m, view) ==
  /\ r \in Seq(Sent) /\ a \in 1 .. Len(r) /\ a + 1 \in 1 .. Len(r) /\ Len(r) \in Nat /\ a \in Nat
  /\ m \in Maps /\ view \in Views
  /\ game'.map = m /\ game'.near = view /\ game'.drops = {} /\ game'.sitting = game.sitting
  /\ UNCHANGED <<world, told>>
  /\ Coming' = Coming \o r /\ Len(Coming') = Len(Coming) + Len(r)
  /\ \A i \in 1 .. Len(Coming) : Coming'[i] = Coming[i]
  /\ \A i \in 1 .. Len(r) : Len(Coming) + i \in 1 .. Len(Coming') /\ Coming'[Len(Coming) + i] = r[i]
  /\ \A i \in 1 .. Len(Coming') : i \in 1 .. Len(Coming) \/ \E j \in 1 .. Len(r) : i = Len(Coming) + j
  /\ r[a].op = "at" /\ r[a].map = m /\ r[a].cell = game'.cell
  /\ r[a + 1] = [op |-> "c_map", map |-> m, entering |-> TRUE]
  /\ \A j \in 1 .. Len(r) :
       \/ j < a /\ r[j].op \in {"c_map", "mapout"} /\ (r[j].op = "c_map" => r[j].map = game.map)
       \/ j = a
       \/ j = a + 1
       \/ j \in a + 2 .. Len(r) /\ r[j].op \in {"gp", "wp", "in"} /\ TrueOf(m, r[j])
          /\ (r[j].op = "in" => r[j].cell = view[r[j].id])
  /\ \A p \in Listed(m) : \E j \in a + 2 .. Len(r) : r[j] = p
  /\ \A id \in Others : view[id] # None =>
       \E j \in a + 2 .. Len(r) : r[j] = [op |-> "in", id |-> id, cell |-> view[id]]

LEMMA ComesAs ==
  ASSUME SessionTypeOK, Comes
  PROVE  \E r, a, m, view : Came(r, a, m, view)
<1>0. PICK s \in Seq(Sent), m \in Maps, c \in Cells, view \in Views, a \in Nat :
        /\ ArrivalAt(s, a, game.map, m, c, view) /\ Coming' = Coming \o s
        /\ game'.map = m /\ game'.cell = c /\ game'.near = view /\ game'.drops = {} /\ game'.sitting = game.sitting
        /\ UNCHANGED <<world, told>>
  BY DEF Comes
<1>1. /\ a \in Nat /\ a >= 2 /\ a + 1 <= Len(s)
      /\ \A j \in 1 .. a - 1 : s[j] \in {[op |-> "c_map", map |-> game.map, entering |-> FALSE], [op |-> "mapout"]}
      /\ s[a] = [op |-> "at", id |-> Me, map |-> m, cell |-> c]
      /\ s[a + 1] = [op |-> "c_map", map |-> m, entering |-> TRUE]
      /\ \A j \in a + 2 .. Len(s) : s[j] \in Gps(m) \cup Wps(m) \cup Ins(view)
      /\ \A p \in Gps(m) \cup Wps(m) \cup Ins(view) : \E j \in a + 2 .. Len(s) : s[j] = p
  BY <1>0 DEF ArrivalAt
<1>2. Len(s) \in Nat /\ Coming \in Seq(Sent) /\ Len(Coming) \in Nat
  BY WireFields
<1>3. a \in 1 .. Len(s) /\ a + 1 \in 1 .. Len(s)
  BY <1>1, <1>2
<1>4. \A p \in Gps(m) \cup Wps(m) \cup Ins(view) :
        p.op \in {"gp", "wp", "in"} /\ TrueOf(m, p) /\ (p.op = "in" => p.cell = view[p.id])
  BY DEF Gps, Wps, Ins, InPacket, TrueOf
<1>5. ASSUME NEW j \in 1 .. Len(s)
      PROVE  \/ j < a /\ s[j].op \in {"c_map", "mapout"} /\ (s[j].op = "c_map" => s[j].map = game.map)
             \/ j = a
             \/ j = a + 1
             \/ j \in a + 2 .. Len(s) /\ s[j].op \in {"gp", "wp", "in"} /\ TrueOf(m, s[j])
                /\ (s[j].op = "in" => s[j].cell = view[s[j].id])
  <2>1. j \in 1 .. a - 1 \/ j = a \/ j = a + 1 \/ j \in a + 2 .. Len(s)
    BY <1>1, <1>2
  <2>2. CASE j \in 1 .. a - 1
    <3>1. j < a
      BY <1>1, <2>2
    <3> QED BY <1>1, <2>2, <3>1
  <2>3. CASE j \in a + 2 .. Len(s)
    BY <1>1, <1>4, <2>3
  <2> QED BY <2>1, <2>2, <2>3
<1>6. Listed(m) \subseteq Gps(m) \cup Wps(m) \cup Ins(view)
  BY DEF Listed, Gps, Wps
<1>7. \A id \in Others : view[id] # None => [op |-> "in", id |-> id, cell |-> view[id]] \in Ins(view)
  BY DEF Ins, InPacket
<1>8. /\ Len(Coming \o s) = Len(Coming) + Len(s)
      /\ \A i \in 1 .. Len(Coming) : (Coming \o s)[i] = Coming[i]
      /\ \A i \in 1 .. Len(s) : Len(Coming) + i \in 1 .. Len(Coming) + Len(s) /\ (Coming \o s)[Len(Coming) + i] = s[i]
      /\ \A i \in 1 .. Len(Coming) + Len(s) : i \in 1 .. Len(Coming) \/ \E j \in 1 .. Len(s) : i = Len(Coming) + j
  <2> PICK T : T = {}
    OBVIOUS
  <2> QED BY <1>2, LastConcat
<1>9. \A p \in Listed(m) : \E j \in a + 2 .. Len(s) : s[j] = p
  BY <1>1, <1>6
<1>10. \A id \in Others : view[id] # None => \E j \in a + 2 .. Len(s) : s[j] = [op |-> "in", id |-> id, cell |-> view[id]]
  BY <1>1, <1>7
<1>11. s[a].op = "at" /\ s[a].map = m /\ s[a].cell = game'.cell
  BY <1>0, <1>1
<1>12. Came(s, a, m, view)
  BY <1>0, <1>1, <1>2, <1>3, <1>5, <1>8, <1>9, <1>10, <1>11 DEF Came
<1> QED BY <1>12

\* An at is always followed by the c_map that enters its map.
LEMMA FollowedKept ==
  ASSUME SessionTypeOK, Followed, Sight
  PROVE  Followed'
<1> DEFINE F(s) == \A i \in 1 .. Len(s) : s[i].op = "at" =>
                     i + 1 \in 1 .. Len(s) /\ s[i + 1] = [op |-> "c_map", map |-> s[i].map, entering |-> TRUE]
<1>1. Coming \in Seq(Sent) /\ F(Coming) /\ Len(Coming) \in Nat
  BY WireFields DEF Followed
<1>2. F(Coming') => Followed'
  BY DEF Followed
<1>3. CASE Still
  BY <1>1, <1>2, <1>3 DEF Still
<1>4. ASSUME NEW p \in Sent, Says(p) PROVE Followed'
  <2>1. p.op # "at" /\ Coming' = Append(Coming, p)
    BY <1>4 DEF Says, Truly
  <2>2. /\ Len(Append(Coming, p)) = Len(Coming) + 1 /\ Append(Coming, p)[Len(Coming) + 1] = p
        /\ \A i \in 1 .. Len(Coming) : Append(Coming, p)[i] = Coming[i]
    BY <1>1
  <2> PICK s : s = Append(Coming, p)
    OBVIOUS
  <2>3. ASSUME NEW i \in 1 .. Len(s), s[i].op = "at"
        PROVE  i + 1 \in 1 .. Len(s) /\ s[i + 1] = [op |-> "c_map", map |-> s[i].map, entering |-> TRUE]
    <3>1. i \in 1 .. Len(Coming)
      BY <1>1, <2>1, <2>2, <2>3
    <3>2. i + 1 \in 1 .. Len(Coming) /\ Coming[i + 1] = [op |-> "c_map", map |-> Coming[i].map, entering |-> TRUE]
      BY <1>1, <2>2, <2>3, <3>1
    <3> QED BY <1>1, <2>2, <3>1, <3>2
  <2> QED BY <1>2, <2>1, <2>3
<1>5. CASE Comes
  <2>1. PICK r, a, m, view : Came(r, a, m, view)
    BY <1>5, ComesAs
  <2>5. /\ a \in 1 .. Len(r) /\ a + 1 \in 1 .. Len(r) /\ Len(r) \in Nat
        /\ r[a].map = m /\ r[a + 1] = [op |-> "c_map", map |-> m, entering |-> TRUE]
    BY <2>1 DEF Came
  <2>6. ASSUME NEW j \in 1 .. Len(r), r[j].op = "at" PROVE j = a
    <3>1. \/ r[j].op \in {"c_map", "mapout"}
          \/ j = a
          \/ j = a + 1
          \/ r[j].op \in {"gp", "wp", "in"}
      BY <2>1 DEF Came
    <3> QED BY <2>5, <2>6, <3>1
  <2>2. /\ a \in 1 .. Len(r) /\ a + 1 \in 1 .. Len(r) /\ Len(r) \in Nat
        /\ r[a].map = m /\ r[a + 1] = [op |-> "c_map", map |-> m, entering |-> TRUE]
        /\ \A j \in 1 .. Len(r) : r[j].op = "at" => j = a
    BY <2>5, <2>6
  <2> PICK s : s = Coming'
    OBVIOUS
  <2>3. /\ Len(s) = Len(Coming) + Len(r)
        /\ \A i \in 1 .. Len(Coming) : s[i] = Coming[i]
        /\ \A i \in 1 .. Len(r) : Len(Coming) + i \in 1 .. Len(s) /\ s[Len(Coming) + i] = r[i]
        /\ \A i \in 1 .. Len(s) : i \in 1 .. Len(Coming) \/ \E j \in 1 .. Len(r) : i = Len(Coming) + j
    BY <2>1 DEF Came
  <2>4. ASSUME NEW i \in 1 .. Len(s), s[i].op = "at"
        PROVE  i + 1 \in 1 .. Len(s) /\ s[i + 1] = [op |-> "c_map", map |-> s[i].map, entering |-> TRUE]
    <3>1. CASE i \in 1 .. Len(Coming)
      <4>1. i + 1 \in 1 .. Len(Coming) /\ Coming[i + 1] = [op |-> "c_map", map |-> Coming[i].map, entering |-> TRUE]
        BY <1>1, <2>3, <2>4, <3>1
      <4>2. i + 1 \in 1 .. Len(s)
        BY <1>1, <2>2, <2>3, <4>1
      <4> QED BY <1>1, <2>3, <3>1, <4>1, <4>2
    <3>2. ASSUME NEW j \in 1 .. Len(r), i = Len(Coming) + j
          PROVE  i + 1 \in 1 .. Len(s) /\ s[i + 1] = [op |-> "c_map", map |-> s[i].map, entering |-> TRUE]
      <4>1. s[i] = r[j] /\ j = a
        BY <2>2, <2>3, <2>4, <3>2
      <4>2. s[Len(Coming) + (a + 1)] = r[a + 1] /\ Len(Coming) + (a + 1) \in 1 .. Len(s)
        BY <2>2, <2>3
      <4>3. Len(Coming) + (a + 1) = i + 1
        BY <1>1, <3>2, <4>1, <2>2
      <4>4. i + 1 \in 1 .. Len(s) /\ s[i + 1] = r[a + 1] /\ s[i].map = m
        BY <2>2, <4>1, <4>2, <4>3
      <4> QED BY <2>2, <4>4
    <3> QED BY <2>3, <3>1, <3>2
  <2> QED BY <1>2, <2>4
<1>6. ASSUME NEW k \in 0 .. Len(Coming), NEW s, Len(s) = Len(Coming) - k, \A i \in 1 .. Len(s) : s[i] = Coming[i + k]
      PROVE  F(s)
  <2> SUFFICES ASSUME NEW i \in 1 .. Len(s), s[i].op = "at"
               PROVE  i + 1 \in 1 .. Len(s) /\ s[i + 1] = [op |-> "c_map", map |-> s[i].map, entering |-> TRUE]
    OBVIOUS
  <2>1. i + k \in 1 .. Len(Coming) /\ (i + k) + 1 = (i + 1) + k
    BY <1>1, <1>6
  <2>2. (i + k) + 1 \in 1 .. Len(Coming) /\ Coming[(i + k) + 1] = [op |-> "c_map", map |-> s[i].map, entering |-> TRUE]
    BY <1>1, <1>6, <2>1
  <2>3. i + 1 \in 1 .. Len(s)
    BY <1>1, <1>6, <2>1, <2>2
  <2> QED BY <1>6, <2>1, <2>2, <2>3
<1>7. CASE Hears
  <2>1. Coming # <<>> /\ Coming' = Tail(Coming)
    BY <1>7 DEF Hears
  <2>2. /\ Len(Tail(Coming)) = Len(Coming) - 1 /\ Len(Coming) >= 1
        /\ \A i \in 1 .. Len(Tail(Coming)) : Tail(Coming)[i] = Coming[i + 1]
    BY <1>1, <2>1, LastTail
  <2>3. 1 \in 0 .. Len(Coming)
    BY <1>1, <2>2
  <2> HIDE DEF F
  <2> QED BY <1>2, <1>6, <2>1, <2>2, <2>3
<1>8. CASE Misses
  <2>1. PICK k \in 0 .. Len(Coming) : Coming' = SubSeq(Coming, k + 1, Len(Coming))
    BY <1>8 DEF Misses
  <2> PICK s : s = SubSeq(Coming, k + 1, Len(Coming))
    OBVIOUS
  <2>2. Len(s) = Len(Coming) - k /\ \A i \in 1 .. Len(s) : s[i] = Coming[i + k]
    BY <1>1, LastSuffix
  <2> HIDE DEF F
  <2> QED BY <1>2, <1>6, <2>1, <2>2
<1> QED BY <1>3, <1>4, <1>5, <1>7, <1>8 DEF Sight

-----------------------------------------------------------------------------
(* The last packet of a kind in what comes, after a step. *)

LEMMA SaysLast ==
  ASSUME SessionTypeOK, NEW p \in Sent, Coming' = Append(Coming, p), NEW T
  PROVE  /\ Len(Coming') = Len(Coming) + 1 /\ Len(Coming) \in Nat
         /\ \A i \in 1 .. Len(Coming) : Coming'[i] = Coming[i]
         /\ Coming'[Len(Coming) + 1] = p
         /\ \A i : LastIn(Coming', T, i) => \/ i = Len(Coming) + 1 /\ p \in T
                                            \/ i \in 1 .. Len(Coming) /\ p \notin T /\ LastIn(Coming, T, i)
         /\ Free(Coming', T) => Free(Coming, T) /\ p \notin T
<1>1. Coming \in Seq(Sent) /\ Len(Coming) \in Nat
  BY WireFields
<1>2. /\ Len(Append(Coming, p)) = Len(Coming) + 1
      /\ \A i \in 1 .. Len(Coming) : Append(Coming, p)[i] = Coming[i]
      /\ Append(Coming, p)[Len(Coming) + 1] = p
      /\ \A i : LastIn(Append(Coming, p), T, i) =>
           \/ i = Len(Coming) + 1 /\ p \in T
           \/ i \in 1 .. Len(Coming) /\ p \notin T /\ LastIn(Coming, T, i)
      /\ Free(Append(Coming, p), T) => Free(Coming, T) /\ p \notin T
  BY <1>1, LastAppend
<1> PICK u : u = Append(Coming, p)
  OBVIOUS
<1>3. Coming' = u
  OBVIOUS
<1>4. /\ Len(u) = Len(Coming) + 1
      /\ \A i \in 1 .. Len(Coming) : u[i] = Coming[i]
      /\ u[Len(Coming) + 1] = p
      /\ \A i : LastIn(u, T, i) => \/ i = Len(Coming) + 1 /\ p \in T
                                   \/ i \in 1 .. Len(Coming) /\ p \notin T /\ LastIn(Coming, T, i)
      /\ Free(u, T) => Free(Coming, T) /\ p \notin T
  BY <1>2
<1> QED BY <1>1, <1>3, <1>4

LEMMA ComesLast ==
  ASSUME SessionTypeOK, NEW r \in Seq(Sent), Coming' = Coming \o r, NEW T
  PROVE  /\ \A i : LastIn(Coming', T, i) =>
              \/ \E j \in 1 .. Len(r) : i = Len(Coming) + j /\ LastIn(r, T, j)
              \/ i \in 1 .. Len(Coming) /\ LastIn(Coming, T, i) /\ Free(r, T)
         /\ Free(Coming', T) => Free(Coming, T) /\ Free(r, T)
<1>1. Coming \in Seq(Sent) /\ Len(Coming) \in Nat
  BY WireFields
<1>2. /\ \A i : LastIn(Coming \o r, T, i) =>
           \/ \E j \in 1 .. Len(r) : i = Len(Coming) + j /\ LastIn(r, T, j)
           \/ i \in 1 .. Len(Coming) /\ LastIn(Coming, T, i) /\ Free(r, T)
      /\ Free(Coming \o r, T) => Free(Coming, T) /\ Free(r, T)
  BY <1>1, LastConcat
<1> QED BY <1>2

LEMMA HearsLast ==
  ASSUME SessionTypeOK, Coming # <<>>, Coming' = Tail(Coming), NEW T
  PROVE  /\ Len(Coming') = Len(Coming) - 1 /\ Len(Coming) >= 1 /\ Head(Coming) = Coming[1] /\ Head(Coming) \in Sent
         /\ Len(Coming) \in Nat /\ 1 \in 1 .. Len(Coming)
         /\ \A i \in 1 .. Len(Coming') : i + 1 \in 1 .. Len(Coming) /\ Coming'[i] = Coming[i + 1]
         /\ \A i : LastIn(Coming', T, i) => i \in 1 .. Len(Coming') /\ LastIn(Coming, T, i + 1)
         /\ Free(Coming', T) => LastIn(Coming, T, 1) \/ (Head(Coming) \notin T /\ Free(Coming, T))
<1>1. Coming \in Seq(Sent) /\ Len(Coming) \in Nat
  BY WireFields
<1>2. /\ Len(Tail(Coming)) = Len(Coming) - 1 /\ Len(Coming) >= 1 /\ Head(Coming) = Coming[1] /\ Head(Coming) \in Sent
      /\ \A i \in 1 .. Len(Tail(Coming)) : i + 1 \in 1 .. Len(Coming) /\ Tail(Coming)[i] = Coming[i + 1]
      /\ \A i : LastIn(Tail(Coming), T, i) => i \in 1 .. Len(Tail(Coming)) /\ LastIn(Coming, T, i + 1)
      /\ Free(Tail(Coming), T) => LastIn(Coming, T, 1) \/ (Head(Coming) \notin T /\ Free(Coming, T))
  BY <1>1, LastTail
<1>3. 1 \in 1 .. Len(Coming)
  BY <1>1, <1>2
<1> QED BY <1>1, <1>2, <1>3

LEMMA MissesLast ==
  ASSUME SessionTypeOK, NEW k \in 0 .. Len(Coming), Coming' = SubSeq(Coming, k + 1, Len(Coming)), NEW T
  PROVE  /\ Len(Coming') = Len(Coming) - k
         /\ \A i \in 1 .. Len(Coming') : i + k \in 1 .. Len(Coming) /\ Coming'[i] = Coming[i + k]
         /\ \A i : LastIn(Coming', T, i) => i \in 1 .. Len(Coming') /\ LastIn(Coming, T, i + k)
<1>1. Coming \in Seq(Sent) /\ Len(Coming) \in Nat
  BY WireFields
<1>2. PICK s : s = Coming
  OBVIOUS
<1> PICK r : r = SubSeq(s, k + 1, Len(s))
  OBVIOUS
<1>3. s \in Seq(Sent) /\ k \in 0 .. Len(s)
  BY <1>1, <1>2
<1>4. /\ Len(r) = Len(s) - k
      /\ \A i \in 1 .. Len(r) : i + k \in 1 .. Len(s) /\ r[i] = s[i + k]
      /\ \A i : LastIn(r, T, i) => i \in 1 .. Len(r) /\ LastIn(s, T, i + k)
  <2>1. Len(r) = Len(s) - k /\ \A i \in 1 .. Len(r) : i + k \in 1 .. Len(s) /\ r[i] = s[i + k]
    BY <1>3, LastSuffix
  <2>2. Len(s) \in Nat
    BY <1>3
  <2>3. \A i : LastIn(r, T, i) => i \in 1 .. Len(r) /\ LastIn(s, T, i + k)
    BY <1>3, <2>1, <2>2, LastShift
  <2> QED BY <2>1, <2>3
<1>5. Coming' = r
  BY <1>2
<1> QED BY <1>2, <1>4, <1>5

\* The last packet on the way that touches an entity shows where it is.
LEMMA ViewKept ==
  ASSUME SessionTypeOK, Followed, ViewInv, Sight
  PROVE  ViewInv'
<1> DEFINE V(s, id, near) == \A i \in 1 .. Len(s) : LastIn(s, Touches(id), i) => Shows(s[i], id) = near[id]
<1>1. Coming \in Seq(Sent) /\ Len(Coming) \in Nat /\ world \in Worlds
  BY WireFields DEF SessionTypeOK
<1>2. SUFFICES ASSUME NEW id \in Others
               PROVE  /\ V(Coming', id, game'.near)
                      /\ "map" \in told' /\ Free(Coming', Touches(id)) => world'.entities[id] = game'.near[id]
  BY DEF ViewInv
<1>3. /\ V(Coming, id, game.near)
      /\ "map" \in told /\ Free(Coming, Touches(id)) => world.entities[id] = game.near[id]
  BY DEF ViewInv
<1>T. PICK T : T = Touches(id)
  OBVIOUS
<1>4. CASE Still
  BY <1>3, <1>4 DEF Still
<1>5. ASSUME NEW p \in Sent, Says(p)
      PROVE  /\ V(Coming', id, game'.near)
             /\ "map" \in told' /\ Free(Coming', Touches(id)) => world'.entities[id] = game'.near[id]
  <2>1. /\ Coming' = Append(Coming, p) /\ UNCHANGED <<world, told>>
        /\ game'.near[id] = IF p \in Touches(id) THEN Shows(p, id) ELSE game.near[id]
    BY <1>5 DEF Says, Truly
  <2>2. /\ \A i \in 1 .. Len(Coming) : Coming'[i] = Coming[i]
        /\ Coming'[Len(Coming) + 1] = p
        /\ \A i : LastIn(Coming', T, i) => \/ i = Len(Coming) + 1 /\ p \in T
                                           \/ i \in 1 .. Len(Coming) /\ p \notin T /\ LastIn(Coming, T, i)
        /\ Free(Coming', T) => Free(Coming, T) /\ p \notin T
    BY <2>1, SaysLast
  <2> QED BY <1>3, <1>T, <2>1, <2>2
<1>6. ASSUME NEW r, NEW a, NEW m, NEW view, Came(r, a, m, view)
      PROVE  /\ V(Coming', id, game'.near)
             /\ "map" \in told' /\ Free(Coming', Touches(id)) => world'.entities[id] = game'.near[id]
  <2>1. /\ r \in Seq(Sent) /\ a \in Nat /\ a + 1 \in 1 .. Len(r) /\ Coming' = Coming \o r /\ game'.near = view
        /\ r[a + 1] = [op |-> "c_map", map |-> m, entering |-> TRUE] /\ Len(r) \in Nat
    BY <1>6 DEF Came
  <2>2. /\ \A i : LastIn(Coming', T, i) =>
             \/ \E j \in 1 .. Len(r) : i = Len(Coming) + j /\ LastIn(r, T, j)
             \/ i \in 1 .. Len(Coming) /\ LastIn(Coming, T, i) /\ Free(r, T)
        /\ Free(Coming', T) => Free(Coming, T) /\ Free(r, T)
    BY <2>1, ComesLast
  <2>7. \A i \in 1 .. Len(r) : Coming'[Len(Coming) + i] = r[i]
    BY <1>6 DEF Came
  <2>3. r[a + 1] \in T
    <3>1. r[a + 1] \in Sent /\ r[a + 1].op = "c_map"
      BY <2>1
    <3> QED BY <1>T, <3>1 DEF Touches
  <2>4. ~Free(r, T)
    BY <2>1, <2>3 DEF Free
  <2>5. ASSUME NEW j \in 1 .. Len(r), LastIn(r, T, j) PROVE Shows(r[j], id) = view[id]
    <3>1. r[j] \in T /\ \A k \in j + 1 .. Len(r) : r[k] \notin T
      BY <2>5 DEF LastIn
    <3>2. ~(j < a + 1)
      <4>1. j < a + 1 => a + 1 \in j + 1 .. Len(r)
        BY <2>1
      <4> QED BY <2>3, <3>1, <4>1
    <3>3. CASE j = a + 1
      <4>1. Shows(r[j], id) = None
        BY <2>1, <3>3 DEF Shows
      <4>2. ASSUME view[id] # None PROVE FALSE
        <5>1. PICK k \in a + 2 .. Len(r) : r[k] = [op |-> "in", id |-> id, cell |-> view[id]]
          BY <1>6, <4>2 DEF Came
        <5>2. k \in j + 1 .. Len(r) /\ k \in 1 .. Len(r)
          BY <2>1, <3>3
        <5>3. r[k] \in Sent /\ r[k].op = "in" /\ r[k].id = id
          BY <2>1, <5>1, <5>2
        <5>4. r[k] \in T
          BY <1>T, <5>3 DEF Touches
        <5> QED BY <3>1, <5>2, <5>4
      <4> QED BY <4>1, <4>2
    <3>4. CASE j # a + 1
      <4>1. r[j].op \in {"gp", "wp", "in"} /\ (r[j].op = "in" => r[j].cell = view[r[j].id])
        <5>1. j # a /\ ~(j < a)
          BY <2>1, <3>2
        <5> QED BY <1>6, <3>4, <5>1 DEF Came
      <4>2. r[j].op = "in" /\ r[j].id = id
        BY <1>T, <3>1, <4>1 DEF Touches
      <4> QED BY <4>1, <4>2 DEF Shows
    <3> QED BY <3>3, <3>4
  <2>6. V(Coming', id, view) /\ ~Free(Coming', T)
    BY <1>T, <2>2, <2>4, <2>5, <2>7
  <2> QED BY <1>T, <2>1, <2>6
<1>7. CASE Hears
  <2> PICK p : p = Head(Coming)
    OBVIOUS
  <2>1. /\ Coming # <<>> /\ Coming' = Tail(Coming) /\ p \in Sent /\ world' = Feed(world, p) /\ told' = ToldBy(p)
        /\ UNCHANGED game
    BY <1>7 DEF Hears
  <2>2. /\ 1 \in 1 .. Len(Coming) /\ p = Coming[1]
        /\ \A i \in 1 .. Len(Coming') : i + 1 \in 1 .. Len(Coming) /\ Coming'[i] = Coming[i + 1]
        /\ \A i : LastIn(Coming', T, i) => i \in 1 .. Len(Coming') /\ LastIn(Coming, T, i + 1)
        /\ Free(Coming', T) => LastIn(Coming, T, 1) \/ (p \notin T /\ Free(Coming, T))
    BY <2>1, HearsLast
  <2>3. V(Coming', id, game.near)
    BY <1>3, <1>T, <2>2
  <2>4. ASSUME "map" \in told', Free(Coming', T) PROVE world'.entities[id] = game.near[id]
    <3>1. CASE LastIn(Coming, T, 1)
      <4>1. 1 \in 1 .. Len(Coming) /\ p \in Touches(id)
        BY <1>T, <2>2, <3>1 DEF LastIn
      <4>2. Shows(p, id) = game.near[id]
        BY <1>3, <1>T, <2>2, <3>1, <4>1
      <4> QED BY <1>1, <2>1, <4>1, <4>2, FedEntities
    <3>2. CASE p \notin T /\ Free(Coming, T)
      <4>1. p.op # "c_map"
        BY <1>T, <2>1, <3>2 DEF Touches
      <4>2. "map" \in told
        BY <2>1, <2>4, <4>1, SentFields, ToldWhat
      <4>3. p.op # "at"
        <5> SUFFICES ASSUME p.op = "at" PROVE FALSE
          OBVIOUS
        <5>1. 1 + 1 \in 1 .. Len(Coming) /\ Coming[1 + 1] = [op |-> "c_map", map |-> Coming[1].map, entering |-> TRUE]
          BY <2>2 DEF Followed
        <5>2. 2 \in 1 .. Len(Coming) /\ Coming[2].op = "c_map"
          BY <5>1
        <5>3. Coming[2] \in Sent
          BY <1>1, <5>2
        <5>4. Coming[2] \in T
          BY <1>T, <5>2, <5>3 DEF Touches
        <5> QED BY <3>2, <5>2, <5>4 DEF Free
      <4> QED BY <1>1, <1>3, <1>T, <2>1, <3>2, <4>2, <4>3, FedEntities
    <3> QED BY <2>2, <2>4, <3>1, <3>2
  <2> QED BY <1>T, <2>1, <2>3, <2>4
<1>8. CASE Misses
  <2>1. PICK k \in 0 .. Len(Coming) : Coming' = SubSeq(Coming, k + 1, Len(Coming))
    BY <1>8 DEF Misses
  <2>2. /\ \A i \in 1 .. Len(Coming') : i + k \in 1 .. Len(Coming) /\ Coming'[i] = Coming[i + k]
        /\ \A i : LastIn(Coming', T, i) => i \in 1 .. Len(Coming') /\ LastIn(Coming, T, i + k)
    BY <2>1, MissesLast
  <2>3. V(Coming', id, game.near)
    BY <1>3, <1>T, <2>2
  <2> QED BY <1>8, <2>3 DEF Misses
<1> QED BY <1>4, <1>5, <1>6, <1>7, <1>8, ComesAs DEF Sight

\* The last packet on the way that handles an item says whether it lies there.
LEMMA DropsKept ==
  ASSUME SessionTypeOK, Followed, DropsInv, Sight
  PROVE  DropsInv'
<1> DEFINE V(s, d, drops) == \A i \in 1 .. Len(s) : LastIn(s, Handles(d), i) => (s[i].op = "drop" <=> d \in drops)
<1>1. Coming \in Seq(Sent) /\ Len(Coming) \in Nat /\ world \in Worlds
  BY WireFields DEF SessionTypeOK
<1>2. SUFFICES ASSUME NEW d \in Drops
               PROVE  /\ V(Coming', d, game'.drops)
                      /\ "map" \in told' /\ Free(Coming', Handles(d)) => (d \in world'.drops <=> d \in game'.drops)
  BY DEF DropsInv
<1>3. /\ V(Coming, d, game.drops)
      /\ "map" \in told /\ Free(Coming, Handles(d)) => (d \in world.drops <=> d \in game.drops)
  BY DEF DropsInv
<1>T. PICK T : T = Handles(d)
  OBVIOUS
<1>4. CASE Still
  BY <1>3, <1>4 DEF Still
<1>5. ASSUME NEW p \in Sent, Says(p)
      PROVE  /\ V(Coming', d, game'.drops)
             /\ "map" \in told' /\ Free(Coming', Handles(d)) => (d \in world'.drops <=> d \in game'.drops)
  <2>1. /\ Coming' = Append(Coming, p) /\ UNCHANGED <<world, told>>
        /\ d \in game'.drops <=> IF p \in Handles(d) THEN p.op = "drop" ELSE d \in game.drops
    BY <1>5 DEF Says, Truly
  <2>2. /\ \A i \in 1 .. Len(Coming) : Coming'[i] = Coming[i]
        /\ Coming'[Len(Coming) + 1] = p
        /\ \A i : LastIn(Coming', T, i) => \/ i = Len(Coming) + 1 /\ p \in T
                                           \/ i \in 1 .. Len(Coming) /\ p \notin T /\ LastIn(Coming, T, i)
        /\ Free(Coming', T) => Free(Coming, T) /\ p \notin T
    BY <2>1, SaysLast
  <2> QED BY <1>3, <1>T, <2>1, <2>2
<1>6. ASSUME NEW r, NEW a, NEW m, NEW view, Came(r, a, m, view)
      PROVE  /\ V(Coming', d, game'.drops)
             /\ "map" \in told' /\ Free(Coming', Handles(d)) => (d \in world'.drops <=> d \in game'.drops)
  <2>1. /\ r \in Seq(Sent) /\ a \in Nat /\ a + 1 \in 1 .. Len(r) /\ Coming' = Coming \o r /\ game'.drops = {}
        /\ r[a + 1] = [op |-> "c_map", map |-> m, entering |-> TRUE] /\ Len(r) \in Nat
    BY <1>6 DEF Came
  <2>2. /\ \A i : LastIn(Coming', T, i) =>
             \/ \E j \in 1 .. Len(r) : i = Len(Coming) + j /\ LastIn(r, T, j)
             \/ i \in 1 .. Len(Coming) /\ LastIn(Coming, T, i) /\ Free(r, T)
        /\ Free(Coming', T) => Free(Coming, T) /\ Free(r, T)
    BY <2>1, ComesLast
  <2>7. \A i \in 1 .. Len(r) : Coming'[Len(Coming) + i] = r[i]
    BY <1>6 DEF Came
  <2>3. r[a + 1] \in T
    <3>1. r[a + 1] \in Sent /\ r[a + 1].op = "c_map"
      BY <2>1
    <3> QED BY <1>T, <3>1 DEF Handles
  <2>4. ~Free(r, T)
    BY <2>1, <2>3 DEF Free
  <2>5. ASSUME NEW j \in 1 .. Len(r) PROVE r[j].op # "drop"
    <3>1. \/ r[j].op \in {"c_map", "mapout"}
          \/ j = a /\ r[a].op = "at"
          \/ j = a + 1
          \/ r[j].op \in {"gp", "wp", "in"}
      BY <1>6 DEF Came
    <3> QED BY <2>1, <3>1
  <2>6. V(Coming', d, {}) /\ ~Free(Coming', T)
    BY <1>T, <2>2, <2>4, <2>5, <2>7
  <2> QED BY <1>T, <2>1, <2>6
<1>7. CASE Hears
  <2> PICK p : p = Head(Coming)
    OBVIOUS
  <2>1. /\ Coming # <<>> /\ Coming' = Tail(Coming) /\ p \in Sent /\ world' = Feed(world, p) /\ told' = ToldBy(p)
        /\ UNCHANGED game
    BY <1>7 DEF Hears
  <2>2. /\ 1 \in 1 .. Len(Coming) /\ p = Coming[1]
        /\ \A i \in 1 .. Len(Coming') : i + 1 \in 1 .. Len(Coming) /\ Coming'[i] = Coming[i + 1]
        /\ \A i : LastIn(Coming', T, i) => i \in 1 .. Len(Coming') /\ LastIn(Coming, T, i + 1)
        /\ Free(Coming', T) => LastIn(Coming, T, 1) \/ (p \notin T /\ Free(Coming, T))
    BY <2>1, HearsLast
  <2>3. V(Coming', d, game.drops)
    BY <1>3, <1>T, <2>2
  <2>4. ASSUME "map" \in told', Free(Coming', T) PROVE d \in world'.drops <=> d \in game.drops
    <3>1. CASE LastIn(Coming, T, 1)
      <4>1. 1 \in 1 .. Len(Coming) /\ p \in Handles(d)
        BY <1>T, <2>2, <3>1 DEF LastIn
      <4>2. p.op = "drop" <=> d \in game.drops
        BY <1>3, <1>T, <2>2, <3>1, <4>1
      <4> QED BY <1>1, <2>1, <4>1, <4>2, FedDrops
    <3>2. CASE p \notin T /\ Free(Coming, T)
      <4>1. p.op # "c_map"
        BY <1>T, <2>1, <3>2 DEF Handles
      <4>2. "map" \in told
        BY <2>1, <2>4, <4>1, SentFields, ToldWhat
      <4>3. p.op # "at"
        <5> SUFFICES ASSUME p.op = "at" PROVE FALSE
          OBVIOUS
        <5>1. 1 + 1 \in 1 .. Len(Coming) /\ Coming[1 + 1] = [op |-> "c_map", map |-> Coming[1].map, entering |-> TRUE]
          BY <2>2 DEF Followed
        <5>2. 2 \in 1 .. Len(Coming) /\ Coming[2].op = "c_map"
          BY <5>1
        <5>3. Coming[2] \in Sent
          BY <1>1, <5>2
        <5>4. Coming[2] \in T
          BY <1>T, <5>2, <5>3 DEF Handles
        <5> QED BY <3>2, <5>2, <5>4 DEF Free
      <4> QED BY <1>1, <1>3, <1>T, <2>1, <3>2, <4>2, <4>3, FedDrops
    <3> QED BY <2>2, <2>4, <3>1, <3>2
  <2> QED BY <1>T, <2>1, <2>3, <2>4
<1>8. CASE Misses
  <2>1. PICK k \in 0 .. Len(Coming) : Coming' = SubSeq(Coming, k + 1, Len(Coming))
    BY <1>8 DEF Misses
  <2>2. /\ \A i \in 1 .. Len(Coming') : i + k \in 1 .. Len(Coming) /\ Coming'[i] = Coming[i + k]
        /\ \A i : LastIn(Coming', T, i) => i \in 1 .. Len(Coming') /\ LastIn(Coming, T, i + k)
    BY <2>1, MissesLast
  <2>3. V(Coming', d, game.drops)
    BY <1>3, <1>T, <2>2
  <2> QED BY <1>8, <2>3 DEF Misses
<1> QED BY <1>4, <1>5, <1>6, <1>7, <1>8, ComesAs DEF Sight

\* The last own rest on the way says whether the character sits; and who has been told a
\* place knows who it is, so that no rest of another changes what it knows.
LEMMA RestKept ==
  ASSUME SessionTypeOK, RestInv, Sight
  PROVE  RestInv'
<1> DEFINE P(sitting) == IF sitting THEN "sitting" ELSE "standing"
           V(s, sitting) == \A i \in 1 .. Len(s) : LastIn(s, OwnRests, i) => s[i].sitting = sitting
           Known == /\ "place" \in told' => world'.self = Me
                    /\ "rest" \in told' => "place" \in told'
                    /\ "rest" \in told' /\ Free(Coming', OwnRests) => world'.resting = P(game'.sitting)
<1>1. Coming \in Seq(Sent) /\ Len(Coming) \in Nat /\ world \in Worlds
  BY WireFields DEF SessionTypeOK
<1>2. SUFFICES V(Coming', game'.sitting) /\ Known
  BY DEF RestInv
<1>3. /\ V(Coming, game.sitting)
      /\ "place" \in told => world.self = Me
      /\ "rest" \in told => "place" \in told
      /\ "rest" \in told /\ Free(Coming, OwnRests) => world.resting = P(game.sitting)
  BY DEF RestInv
<1>4. CASE Still
  BY <1>3, <1>4 DEF Still
<1>5. ASSUME NEW p \in Sent, Says(p) PROVE V(Coming', game'.sitting) /\ Known
  <2>1. /\ Coming' = Append(Coming, p) /\ UNCHANGED <<world, told>>
        /\ game'.sitting = IF p \in OwnRests THEN p.sitting ELSE game.sitting
    BY <1>5 DEF Says, Truly
  <2>2. /\ \A i \in 1 .. Len(Coming) : Coming'[i] = Coming[i]
        /\ Coming'[Len(Coming) + 1] = p
        /\ \A i : LastIn(Coming', OwnRests, i) =>
             \/ i = Len(Coming) + 1 /\ p \in OwnRests
             \/ i \in 1 .. Len(Coming) /\ p \notin OwnRests /\ LastIn(Coming, OwnRests, i)
        /\ Free(Coming', OwnRests) => Free(Coming, OwnRests) /\ p \notin OwnRests
    BY <2>1, SaysLast
  <2>3. V(Coming', game'.sitting)
    BY <1>3, <2>1, <2>2
  <2>4. Known
    BY <1>3, <2>1, <2>2
  <2> QED BY <2>3, <2>4
<1>6. ASSUME NEW r, NEW a, NEW m, NEW view, Came(r, a, m, view) PROVE V(Coming', game'.sitting) /\ Known
  <2>1. /\ r \in Seq(Sent) /\ Coming' = Coming \o r /\ game'.sitting = game.sitting /\ UNCHANGED <<world, told>>
        /\ \A i \in 1 .. Len(Coming) : Coming'[i] = Coming[i]
    BY <1>6 DEF Came
  <2>2. /\ \A i : LastIn(Coming', OwnRests, i) =>
             \/ \E j \in 1 .. Len(r) : i = Len(Coming) + j /\ LastIn(r, OwnRests, j)
             \/ i \in 1 .. Len(Coming) /\ LastIn(Coming, OwnRests, i) /\ Free(r, OwnRests)
        /\ Free(Coming', OwnRests) => Free(Coming, OwnRests) /\ Free(r, OwnRests)
    BY <2>1, ComesLast
  <2>3. ASSUME NEW j, LastIn(r, OwnRests, j) PROVE FALSE
    <3>1. j \in 1 .. Len(r) /\ r[j] \in OwnRests
      BY <2>3 DEF LastIn
    <3>2. \/ r[j].op \in {"c_map", "mapout"}
          \/ j = a /\ r[a].op = "at"
          \/ j = a + 1 /\ r[a + 1] = [op |-> "c_map", map |-> m, entering |-> TRUE]
          \/ r[j].op \in {"gp", "wp", "in"}
      BY <1>6, <3>1 DEF Came
    <3>3. r[j].op = "rest"
      BY <3>1 DEF OwnRests
    <3> QED BY <3>2, <3>3
  <2>4. V(Coming', game'.sitting)
    BY <1>3, <2>1, <2>2, <2>3
  <2>5. Known
    BY <1>3, <2>1, <2>2
  <2> QED BY <2>4, <2>5
<1>7. CASE Hears
  <2> PICK p : p = Head(Coming)
    OBVIOUS
  <2>1. /\ Coming # <<>> /\ Coming' = Tail(Coming) /\ p \in Sent /\ world' = Feed(world, p) /\ told' = ToldBy(p)
        /\ UNCHANGED game
    BY <1>7 DEF Hears
  <2>2. /\ 1 \in 1 .. Len(Coming) /\ p = Coming[1]
        /\ \A i \in 1 .. Len(Coming') : i + 1 \in 1 .. Len(Coming) /\ Coming'[i] = Coming[i + 1]
        /\ \A i : LastIn(Coming', OwnRests, i) => i \in 1 .. Len(Coming') /\ LastIn(Coming, OwnRests, i + 1)
        /\ Free(Coming', OwnRests) => LastIn(Coming, OwnRests, 1) \/ (p \notin OwnRests /\ Free(Coming, OwnRests))
    BY <2>1, HearsLast
  <2>3. V(Coming', game'.sitting)
    BY <1>3, <2>1, <2>2
  <2>4. /\ world'.self = CASE p.op = "at" -> Me
                           [] p.op = "rest" /\ world.self = None -> p.id
                           [] p.op = "cond" /\ world.self = None -> Me
                           [] OTHER -> world.self
        /\ world'.resting = IF p.op = "rest" /\ world.self \in {None, p.id} THEN P(p.sitting) ELSE world.resting
    BY <1>1, <2>1, FedSelf
  <2>5. Me # None
    BY OthersIds
  <2>6. /\ "place" \in told' => "place" \in told \/ p.op = "at"
        /\ "rest" \in told' => "rest" \in told \/ (p.op = "rest" /\ p.id = Me /\ "place" \in told)
        /\ told \subseteq told'
    BY <2>1, SentFields, ToldWhat
  <2>7. "place" \in told' => world'.self = Me
    BY <1>3, <2>4, <2>5, <2>6
  <2>8. "rest" \in told' => "place" \in told
    BY <1>3, <2>6
  <2>9. p \in OwnRests <=> p.op = "rest" /\ p.id = Me
    BY <2>1 DEF OwnRests
  <2>10. ASSUME "rest" \in told', Free(Coming', OwnRests) PROVE world'.resting = P(game.sitting)
    <3>1. world.self = Me
      BY <1>3, <2>8, <2>10
    <3>2. CASE LastIn(Coming, OwnRests, 1)
      <4>1. p \in OwnRests /\ p.sitting = game.sitting
        BY <1>3, <2>2, <3>2 DEF LastIn
      <4> QED BY <2>4, <2>9, <3>1, <4>1
    <3>3. CASE p \notin OwnRests /\ Free(Coming, OwnRests)
      <4>1. "rest" \in told
        BY <2>6, <2>9, <2>10, <3>3
      <4>2. world.resting = P(game.sitting)
        BY <1>3, <3>3, <4>1
      <4>3. world'.resting = world.resting
        BY <2>4, <2>5, <2>9, <3>1, <3>3
      <4> QED BY <4>2, <4>3
    <3> QED BY <2>2, <2>10, <3>2, <3>3
  <2> QED BY <2>1, <2>3, <2>6, <2>7, <2>8, <2>10
<1>8. CASE Misses
  <2>1. PICK k \in 0 .. Len(Coming) : Coming' = SubSeq(Coming, k + 1, Len(Coming))
    BY <1>8 DEF Misses
  <2>2. /\ \A i \in 1 .. Len(Coming') : i + k \in 1 .. Len(Coming) /\ Coming'[i] = Coming[i + k]
        /\ \A i : LastIn(Coming', OwnRests, i) => i \in 1 .. Len(Coming') /\ LastIn(Coming, OwnRests, i + k)
    BY <2>1, MissesLast
  <2>3. V(Coming', game.sitting)
    BY <1>3, <2>2
  <2>4. told' = {} /\ UNCHANGED game
    BY <1>8 DEF Misses
  <2> QED BY <2>3, <2>4
<1> QED BY <1>4, <1>5, <1>6, <1>7, <1>8, ComesAs DEF Sight

\* A gp or wp is of the map that the packet before it names, and behind the last such packet
\* comes the whole list of the map of the game.
LEMMA ListKept ==
  ASSUME SessionTypeOK, ListInv, Sight
  PROVE  ListInv'
<1> DEFINE S(s) == \A i, j \in 1 .. Len(s) : SetterOf(s, i, j) => TrueOf(s[i].map, s[j])
           L(s, m) == \A i \in 1 .. Len(s) : LastIn(s, Setters, i) =>
                        /\ s[i] = [op |-> "c_map", map |-> m, entering |-> TRUE]
                        /\ \A p \in Listed(m) : \E j \in i + 1 .. Len(s) : s[j] = p
<1>1. Coming \in Seq(Sent) /\ Len(Coming) \in Nat /\ world \in Worlds
  BY WireFields DEF SessionTypeOK
<1>2. SUFFICES S(Coming') /\ L(Coming', game'.map)
  BY DEF ListInv
<1>3. S(Coming) /\ L(Coming, game.map)
  BY DEF ListInv
<1>4. CASE Still
  <2>1. Coming' = Coming /\ game'.map = game.map
    BY <1>4 DEF Still
  <2> HIDE DEF S, L
  <2> QED BY <1>3, <2>1
<1>5. ASSUME NEW p \in Sent, Says(p) PROVE S(Coming') /\ L(Coming', game'.map)
  <2>1. Coming' = Append(Coming, p) /\ game'.map = game.map /\ p.op \notin {"c_map", "at", "gp", "wp"}
    BY <1>5 DEF Says, Truly
  <2>2. /\ Len(Coming') = Len(Coming) + 1 /\ \A i \in 1 .. Len(Coming) : Coming'[i] = Coming[i]
        /\ Coming'[Len(Coming) + 1] = p
        /\ \A i : LastIn(Coming', Setters, i) =>
             \/ i = Len(Coming) + 1 /\ p \in Setters
             \/ i \in 1 .. Len(Coming) /\ p \notin Setters /\ LastIn(Coming, Setters, i)
    BY <2>1, SaysLast
  <2>3. p \notin Setters
    BY <2>1 DEF Setters
  <2> PICK s : s = Coming'
    OBVIOUS
  <2>4. ASSUME NEW i \in 1 .. Len(s), NEW j \in 1 .. Len(s), SetterOf(s, i, j) PROVE TrueOf(s[i].map, s[j])
    <3>1. CASE j = Len(Coming) + 1
      BY <2>1, <2>2, <3>1 DEF TrueOf
    <3>2. CASE j \in 1 .. Len(Coming)
      <4>1. i \in 1 .. j - 1 /\ s[i] \in Setters /\ \A k \in i + 1 .. j - 1 : s[k] \notin Setters
        BY <2>4 DEF SetterOf
      <4>2. i \in 1 .. Len(Coming) /\ \A k \in i + 1 .. j - 1 : k \in 1 .. Len(Coming)
        BY <1>1, <3>2, <4>1
      <4>3. Coming[i] = s[i] /\ Coming[j] = s[j] /\ \A k \in i + 1 .. j - 1 : Coming[k] = s[k]
        BY <2>2, <3>2, <4>2
      <4>4. SetterOf(Coming, i, j)
        BY <4>1, <4>3 DEF SetterOf
      <4> QED BY <1>3, <3>2, <4>2, <4>3, <4>4
    <3> QED BY <1>1, <2>2, <3>1, <3>2
  <2>5. ASSUME NEW i \in 1 .. Len(s), LastIn(s, Setters, i)
        PROVE  /\ s[i] = [op |-> "c_map", map |-> game.map, entering |-> TRUE]
               /\ \A q \in Listed(game.map) : \E j \in i + 1 .. Len(s) : s[j] = q
    <3>1. i \in 1 .. Len(Coming) /\ LastIn(Coming, Setters, i)
      BY <2>2, <2>3, <2>5
    <3>2. /\ Coming[i] = [op |-> "c_map", map |-> game.map, entering |-> TRUE]
          /\ \A q \in Listed(game.map) : \E j \in i + 1 .. Len(Coming) : Coming[j] = q
      BY <1>3, <3>1
    <3>3. \A j \in i + 1 .. Len(Coming) : j \in i + 1 .. Len(s) /\ s[j] = Coming[j]
      BY <1>1, <2>2, <3>1
    <3> QED BY <2>2, <3>1, <3>2, <3>3
  <2>8. S(s)
    BY <2>4
  <2>9. L(s, game.map)
    BY <2>5
  <2> HIDE DEF S, L
  <2> QED BY <2>1, <2>8, <2>9
<1>6. ASSUME NEW r, NEW a, NEW m, NEW view, Came(r, a, m, view) PROVE S(Coming') /\ L(Coming', game'.map)
  <2> PICK s : s = Coming'
    OBVIOUS
  <2> PICK n : n = Len(Coming)
    OBVIOUS
  <2>1. /\ r \in Seq(Sent) /\ Coming' = Coming \o r /\ game'.map = m
        /\ a \in 1 .. Len(r) /\ a + 1 \in 1 .. Len(r) /\ Len(r) \in Nat /\ a \in Nat
        /\ Len(s) = n + Len(r)
        /\ \A i \in 1 .. n : s[i] = Coming[i]
        /\ \A i \in 1 .. Len(r) : n + i \in 1 .. Len(s) /\ s[n + i] = r[i]
        /\ \A i \in 1 .. Len(s) : i \in 1 .. n \/ \E j \in 1 .. Len(r) : i = n + j
        /\ r[a + 1] = [op |-> "c_map", map |-> m, entering |-> TRUE]
        /\ \A p \in Listed(m) : \E j \in a + 2 .. Len(r) : r[j] = p
    <3>1. /\ r \in Seq(Sent) /\ Coming' = Coming \o r /\ game'.map = m
          /\ a \in 1 .. Len(r) /\ a + 1 \in 1 .. Len(r) /\ Len(r) \in Nat /\ a \in Nat
          /\ r[a + 1] = [op |-> "c_map", map |-> m, entering |-> TRUE]
      BY <1>6 DEF Came
    <3>2. /\ Len(Coming') = Len(Coming) + Len(r)
          /\ \A i \in 1 .. Len(Coming) : Coming'[i] = Coming[i]
          /\ \A i \in 1 .. Len(r) : Len(Coming) + i \in 1 .. Len(Coming') /\ Coming'[Len(Coming) + i] = r[i]
          /\ \A i \in 1 .. Len(Coming') : i \in 1 .. Len(Coming) \/ \E j \in 1 .. Len(r) : i = Len(Coming) + j
      BY <1>6 DEF Came
    <3>3. \A p \in Listed(m) : \E j \in a + 2 .. Len(r) : r[j] = p
      BY <1>6 DEF Came
    <3> QED BY <3>1, <3>2, <3>3
  <2>2. n \in Nat /\ r[a + 1] \in Setters
    <3>1. r[a + 1] \in Sent /\ r[a + 1].op = "c_map"
      BY <2>1
    <3> QED BY <1>1, <3>1 DEF Setters
  <2>3. ASSUME NEW j \in 1 .. Len(r)
        PROVE  /\ r[j].op \in {"gp", "wp"} => j \in a + 2 .. Len(r) /\ TrueOf(m, r[j])
               /\ r[j] \in Setters => j <= a + 1
    <3>1. \/ j < a /\ r[j].op \in {"c_map", "mapout"}
          \/ j = a /\ r[a].op = "at"
          \/ j = a + 1
          \/ j \in a + 2 .. Len(r) /\ r[j].op \in {"gp", "wp", "in"} /\ TrueOf(m, r[j])
      BY <1>6 DEF Came
    <3>2. r[j].op \in {"gp", "wp", "in"} => r[j] \notin Setters
      BY DEF Setters
    <3> QED BY <2>1, <3>1, <3>2
  <2>4. ASSUME NEW i \in 1 .. Len(s), NEW j \in 1 .. Len(s), SetterOf(s, i, j) PROVE TrueOf(s[i].map, s[j])
    <3>0. i \in 1 .. j - 1 /\ s[i] \in Setters /\ \A k \in i + 1 .. j - 1 : s[k] \notin Setters
      BY <2>4 DEF SetterOf
    <3>1. CASE j \in 1 .. n
      <4>2. i \in 1 .. n /\ \A k \in i + 1 .. j - 1 : k \in 1 .. n
        BY <2>2, <3>0, <3>1
      <4>3. Coming[i] = s[i] /\ Coming[j] = s[j] /\ \A k \in i + 1 .. j - 1 : Coming[k] = s[k]
        BY <2>1, <3>1, <4>2
      <4>4. SetterOf(Coming, i, j)
        BY <3>0, <4>3 DEF SetterOf
      <4> QED BY <1>3, <3>1, <4>2, <4>3, <4>4
    <3>2. ASSUME NEW jj \in 1 .. Len(r), j = n + jj, s[j].op \in {"gp", "wp"} PROVE TrueOf(s[i].map, s[j])
      <4>1. s[j] = r[jj]
        BY <2>1, <3>2
      <4>2. jj \in a + 2 .. Len(r) /\ TrueOf(m, r[jj])
        BY <2>3, <3>2, <4>1
      <4>3. n + (a + 1) \in 1 .. j - 1 /\ s[n + (a + 1)] = r[a + 1]
        BY <2>1, <2>2, <3>2, <4>2
      <4>4. ~(i < n + (a + 1))
        <5>1. i < n + (a + 1) => n + (a + 1) \in i + 1 .. j - 1
          BY <2>1, <2>2, <4>3
        <5> QED BY <2>2, <3>0, <4>3, <5>1
      <4>5. PICK ii \in 1 .. Len(r) : i = n + ii
        <5>1. i \notin 1 .. n
          BY <2>1, <2>2, <4>4
        <5> QED BY <2>1, <5>1
      <4>6. r[ii] \in Setters /\ s[i] = r[ii]
        BY <2>1, <3>0, <4>5
      <4>7. ii = a + 1
        <5>1. ii <= a + 1
          BY <2>3, <4>6
        <5>2. n \in Nat /\ a \in Nat /\ ii \in Nat
          BY <2>1, <2>2
        <5>3. ~(n + ii < n + (a + 1))
          BY <4>4, <4>5
        <5> QED BY <5>1, <5>2, <5>3
      <4>8. s[i].map = m
        <5>1. r[a + 1].map = m
          BY <2>1
        <5>2. s[i] = r[a + 1]
          BY <4>6, <4>7
        <5> QED BY <5>1, <5>2
      <4> QED BY <4>1, <4>2, <4>8
    <3>3. CASE s[j].op \notin {"gp", "wp"}
      BY <3>3 DEF TrueOf
    <3> QED BY <2>1, <3>1, <3>2, <3>3
  <2>5. ASSUME NEW i \in 1 .. Len(s), LastIn(s, Setters, i)
        PROVE  /\ s[i] = [op |-> "c_map", map |-> m, entering |-> TRUE]
               /\ \A q \in Listed(m) : \E j \in i + 1 .. Len(s) : s[j] = q
    <3>0. s[i] \in Setters /\ \A k \in i + 1 .. Len(s) : s[k] \notin Setters
      BY <2>5 DEF LastIn
    <3>1. s[n + (a + 1)] = r[a + 1] /\ n + (a + 1) \in 1 .. Len(s)
      BY <2>1
    <3>2. ~(i < n + (a + 1))
      <4>1. i < n + (a + 1) => n + (a + 1) \in i + 1 .. Len(s)
        BY <2>1, <2>2, <3>1
      <4> QED BY <2>2, <3>0, <3>1, <4>1
    <3>3. PICK ii \in 1 .. Len(r) : i = n + ii
      <4>1. i \notin 1 .. n
        BY <2>1, <2>2, <3>2
      <4> QED BY <2>1, <4>1
    <3>4. r[ii] \in Setters /\ s[i] = r[ii]
      BY <2>1, <3>0, <3>3
    <3>5. ii = a + 1
      BY <2>1, <2>2, <2>3, <3>2, <3>3, <3>4
    <3>6. ASSUME NEW q \in Listed(m) PROVE \E j \in i + 1 .. Len(s) : s[j] = q
      <4>1. PICK k \in a + 2 .. Len(r) : r[k] = q
        BY <2>1
      <4>2. k \in 1 .. Len(r) /\ n + k \in i + 1 .. Len(s)
        BY <2>1, <2>2, <3>3, <3>5
      <4> QED BY <2>1, <4>1, <4>2
    <3> QED BY <2>1, <3>4, <3>5, <3>6
  <2>8. S(s)
    BY <2>4
  <2>9. L(s, m)
    BY <2>5
  <2> HIDE DEF S, L
  <2> QED BY <2>1, <2>8, <2>9
<1>7. ASSUME NEW k \in 0 .. Len(Coming), NEW s, Len(s) = Len(Coming) - k,
             \A i \in 1 .. Len(s) : i + k \in 1 .. Len(Coming) /\ s[i] = Coming[i + k],
             \A i : LastIn(s, Setters, i) => i \in 1 .. Len(s) /\ LastIn(Coming, Setters, i + k)
      PROVE  S(s) /\ L(s, game.map)
  <2>1. k \in Nat /\ Len(s) \in Nat
    BY <1>1, <1>7
  <2>2. ASSUME NEW i \in 1 .. Len(s), NEW j \in 1 .. Len(s), SetterOf(s, i, j) PROVE TrueOf(s[i].map, s[j])
    <3>1. i \in 1 .. j - 1 /\ s[i] \in Setters /\ \A x \in i + 1 .. j - 1 : s[x] \notin Setters
      BY <2>2 DEF SetterOf
    <3>2. i + k \in 1 .. (j + k) - 1 /\ Coming[i + k] = s[i] /\ Coming[j + k] = s[j]
      BY <1>7, <2>1, <3>1
    <3>3. ASSUME NEW x \in (i + k) + 1 .. (j + k) - 1 PROVE Coming[x] \notin Setters
      <4>1. x - k \in i + 1 .. j - 1 /\ x - k \in 1 .. Len(s) /\ (x - k) + k = x
        BY <2>1
      <4> QED BY <1>7, <3>1, <4>1
    <3>4. SetterOf(Coming, i + k, j + k)
      BY <3>1, <3>2, <3>3 DEF SetterOf
    <3>5. i + k \in 1 .. Len(Coming) /\ j + k \in 1 .. Len(Coming)
      BY <1>7
    <3> QED BY <1>3, <3>2, <3>4, <3>5
  <2>3. ASSUME NEW i \in 1 .. Len(s), LastIn(s, Setters, i)
        PROVE  /\ s[i] = [op |-> "c_map", map |-> game.map, entering |-> TRUE]
               /\ \A q \in Listed(game.map) : \E j \in i + 1 .. Len(s) : s[j] = q
    <3>1. i + k \in 1 .. Len(Coming) /\ LastIn(Coming, Setters, i + k) /\ s[i] = Coming[i + k]
      BY <1>7, <2>3
    <3>2. /\ Coming[i + k] = [op |-> "c_map", map |-> game.map, entering |-> TRUE]
          /\ \A q \in Listed(game.map) : \E j \in (i + k) + 1 .. Len(Coming) : Coming[j] = q
      BY <1>3, <3>1
    <3>3. ASSUME NEW q \in Listed(game.map) PROVE \E j \in i + 1 .. Len(s) : s[j] = q
      <4>1. PICK j \in (i + k) + 1 .. Len(Coming) : Coming[j] = q
        BY <3>2
      <4>2. j - k \in i + 1 .. Len(s) /\ j - k \in 1 .. Len(s) /\ (j - k) + k = j
        BY <1>1, <1>7, <2>1
      <4> QED BY <1>7, <4>1, <4>2
    <3> QED BY <3>1, <3>2, <3>3
  <2> QED BY <2>2, <2>3
<1>8. CASE Hears
  <2>1. Coming # <<>> /\ Coming' = Tail(Coming) /\ UNCHANGED game
    BY <1>8 DEF Hears
  <2>2. /\ Len(Coming') = Len(Coming) - 1 /\ Len(Coming) >= 1
        /\ \A i \in 1 .. Len(Coming') : i + 1 \in 1 .. Len(Coming) /\ Coming'[i] = Coming[i + 1]
        /\ \A i : LastIn(Coming', Setters, i) => i \in 1 .. Len(Coming') /\ LastIn(Coming, Setters, i + 1)
    BY <2>1, HearsLast
  <2> PICK k, s : k = 1 /\ s = Coming'
    OBVIOUS
  <2>3. /\ k \in 0 .. Len(Coming) /\ Len(s) = Len(Coming) - k
        /\ \A i \in 1 .. Len(s) : i + k \in 1 .. Len(Coming) /\ s[i] = Coming[i + k]
        /\ \A i : LastIn(s, Setters, i) => i \in 1 .. Len(s) /\ LastIn(Coming, Setters, i + k)
    BY <1>1, <2>2
  <2> HIDE DEF S, L
  <2>4. S(s) /\ L(s, game.map)
    BY <1>7, <2>3
  <2> QED BY <2>1, <2>4
<1>9. CASE Misses
  <2>1. PICK k \in 0 .. Len(Coming) : Coming' = SubSeq(Coming, k + 1, Len(Coming))
    BY <1>9 DEF Misses
  <2> PICK s : s = Coming'
    OBVIOUS
  <2>2. /\ Len(s) = Len(Coming) - k
        /\ \A i \in 1 .. Len(s) : i + k \in 1 .. Len(Coming) /\ s[i] = Coming[i + k]
        /\ \A i : LastIn(s, Setters, i) => i \in 1 .. Len(s) /\ LastIn(Coming, Setters, i + k)
    BY <2>1, MissesLast
  <2> HIDE DEF S, L
  <2>3. S(s) /\ L(s, game.map)
    BY <1>7, <2>2
  <2> QED BY <1>9, <2>3 DEF Misses
<1> QED BY <1>4, <1>5, <1>6, <1>8, <1>9, ComesAs DEF Sight

\* The gp and wp before the next packet that names a map are of the map the host believes in.
LEMMA GatesKept ==
  ASSUME SessionTypeOK, ListInv, GatesInv, Sight
  PROVE  GatesInv'
<1> DEFINE Open(s, j) == \A k \in 1 .. j - 1 : s[k] \notin Setters
           A(s, map)  == \A j \in 1 .. Len(s) : Open(s, j) => map = None \/ TrueOf(map, s[j])
           B(gates, spaces) == \A p \in Places : /\ gates[p] \in {None, Exit[p[1]][p[2]]}
                                                 /\ p \in spaces => p[2] \in Stones[p[1]]
           K(p, map, gates, spaces) == IF p.op = "gp" THEN gates[<<map, p.cell>>] = p.to ELSE <<map, p.cell>> \in spaces
           C(s, map, gates, spaces) == \A p \in Listed(map) : K(p, map, gates, spaces) \/ \E j \in 1 .. Len(s) : s[j] = p
           Trusted == "gap" \notin mishaps \/ "map" \in told
<1>1. Coming \in Seq(Sent) /\ Len(Coming) \in Nat /\ world \in Worlds /\ world.gates \in [Places -> Maps \cup {None}]
      /\ world.map \in Maps \cup {None}
  BY WireFields DEF SessionTypeOK, Worlds
<1>2. SUFFICES /\ Trusted' => A(Coming', world'.map)
               /\ "gap" \notin mishaps' => B(world'.gates, world'.spaces)
               /\ "map" \in told' /\ Free(Coming', Setters) => /\ world'.map = game'.map
                                                             /\ C(Coming', game'.map, world'.gates, world'.spaces)
  BY DEF GatesInv, Knows
<1>3. /\ Trusted => A(Coming, world.map)
      /\ "gap" \notin mishaps => B(world.gates, world.spaces)
      /\ "map" \in told /\ Free(Coming, Setters) => /\ world.map = game.map
                                                   /\ C(Coming, game.map, world.gates, world.spaces)
  BY DEF GatesInv, Knows
<1>M. mishaps \subseteq mishaps'
  BY DEF Sight
<1> DEFINE Goal == /\ Trusted' => A(Coming', world'.map)
                   /\ "gap" \notin mishaps' => B(world'.gates, world'.spaces)
                   /\ "map" \in told' /\ Free(Coming', Setters) => /\ world'.map = game'.map
                                                                 /\ C(Coming', game'.map, world'.gates, world'.spaces)
<1>4. ASSUME Still PROVE Goal
  <2>1. /\ Coming' = Coming /\ told' = told /\ game'.map = game.map /\ world'.map = world.map
        /\ world'.gates = world.gates /\ world'.spaces = world.spaces
    BY <1>4 DEF Still
  <2> HIDE DEF A, B, C
  <2> QED BY <1>3, <1>M, <2>1
<1>5. ASSUME NEW p \in Sent, Says(p) PROVE Goal
  <2>1. /\ Coming' = Append(Coming, p) /\ game'.map = game.map /\ p.op \notin {"c_map", "at", "gp", "wp"}
        /\ UNCHANGED <<world, told>>
    BY <1>5 DEF Says, Truly
  <2>2. /\ Len(Coming') = Len(Coming) + 1 /\ \A i \in 1 .. Len(Coming) : Coming'[i] = Coming[i]
        /\ Coming'[Len(Coming) + 1] = p
        /\ Free(Coming', Setters) => Free(Coming, Setters)
    BY <2>1, SaysLast
  <2> PICK s : s = Coming'
    OBVIOUS
  <2>3. ASSUME A(Coming, world.map) PROVE A(s, world.map)
    <3> SUFFICES ASSUME NEW j \in 1 .. Len(s), Open(s, j) PROVE world.map = None \/ TrueOf(world.map, s[j])
      OBVIOUS
    <3>1. CASE j = Len(Coming) + 1
      BY <2>1, <2>2, <3>1 DEF TrueOf
    <3>2. CASE j \in 1 .. Len(Coming)
      <4>1. \A k \in 1 .. j - 1 : k \in 1 .. Len(Coming) /\ s[k] = Coming[k]
        BY <1>1, <2>2, <3>2
      <4>2. Open(Coming, j)
        BY <4>1
      <4>3. s[j] = Coming[j]
        BY <2>2, <3>2
      <4> QED BY <2>3, <3>2, <4>2, <4>3
    <3> QED BY <1>1, <2>2, <3>1, <3>2
  <2>4. ASSUME C(Coming, game.map, world.gates, world.spaces) PROVE C(s, game.map, world.gates, world.spaces)
    <3>1. \A j \in 1 .. Len(Coming) : j \in 1 .. Len(s) /\ s[j] = Coming[j]
      BY <1>1, <2>2
    <3> HIDE DEF K
    <3> QED BY <2>4, <3>1
  <2> HIDE DEF A, B, C
  <2> QED BY <1>3, <1>M, <2>1, <2>2, <2>3, <2>4
<1>6. ASSUME NEW r, NEW a, NEW m, NEW view, Came(r, a, m, view) PROVE Goal
  <2> PICK s : s = Coming'
    OBVIOUS
  <2> PICK n : n = Len(Coming)
    OBVIOUS
  <2>1. /\ r \in Seq(Sent) /\ Coming' = Coming \o r /\ UNCHANGED <<world, told>>
        /\ a \in 1 .. Len(r) /\ a + 1 \in 1 .. Len(r) /\ Len(r) \in Nat /\ a \in Nat
        /\ \A i \in 1 .. n : s[i] = Coming[i]
        /\ \A i \in 1 .. Len(r) : n + i \in 1 .. Len(s) /\ s[n + i] = r[i]
        /\ \A i \in 1 .. Len(s) : i \in 1 .. n \/ \E j \in 1 .. Len(r) : i = n + j
        /\ r[a + 1] = [op |-> "c_map", map |-> m, entering |-> TRUE]
    BY <1>6 DEF Came
  <2>2. n \in Nat /\ r[a + 1] \in Setters
    <3>1. r[a + 1] \in Sent /\ r[a + 1].op = "c_map"
      BY <2>1
    <3> QED BY <1>1, <3>1 DEF Setters
  <2>3. ASSUME A(Coming, world.map) PROVE A(s, world.map)
    <3> SUFFICES ASSUME NEW j \in 1 .. Len(s), Open(s, j) PROVE world.map = None \/ TrueOf(world.map, s[j])
      OBVIOUS
    <3>1. CASE j \in 1 .. n
      <4>1. \A k \in 1 .. j - 1 : k \in 1 .. n /\ s[k] = Coming[k]
        BY <2>1, <2>2, <3>1
      <4>2. Open(Coming, j)
        BY <4>1
      <4>3. s[j] = Coming[j]
        BY <2>1, <3>1
      <4> QED BY <2>3, <3>1, <4>2, <4>3
    <3>2. ASSUME NEW jj \in 1 .. Len(r), j = n + jj, s[j].op \in {"gp", "wp"} PROVE FALSE
      <4>1. s[j] = r[jj]
        BY <2>1, <3>2
      <4>2. \/ r[jj].op \in {"c_map", "mapout"}
            \/ jj = a /\ r[a].op = "at"
            \/ jj = a + 1
            \/ jj \in a + 2 .. Len(r)
        BY <1>6 DEF Came
      <4>3. jj # a + 1
        <5>1. r[a + 1].op = "c_map"
          BY <2>1
        <5>2. r[jj].op \in {"gp", "wp"}
          BY <3>2, <4>1
        <5> QED BY <5>1, <5>2
      <4>4. jj \in a + 2 .. Len(r)
        BY <3>2, <4>1, <4>2, <4>3
      <4>5. n + (a + 1) \in 1 .. j - 1 /\ s[n + (a + 1)] = r[a + 1]
        BY <2>1, <2>2, <3>2, <4>4
      <4> QED BY <2>2, <4>5
    <3>3. CASE s[j].op \notin {"gp", "wp"}
      BY <3>3 DEF TrueOf
    <3> QED BY <2>1, <3>1, <3>2, <3>3
  <2>4. ~Free(s, Setters)
    BY <2>1, <2>2 DEF Free
  <2> HIDE DEF A, B, C
  <2> QED BY <1>3, <1>M, <2>1, <2>3, <2>4
<1>7. ASSUME Hears PROVE Goal
  <2> PICK p, s : p = Head(Coming) /\ s = Coming'
    OBVIOUS
  <2>1. /\ Coming # <<>> /\ Coming' = Tail(Coming) /\ p \in Sent /\ world' = Feed(world, p) /\ told' = ToldBy(p)
        /\ UNCHANGED game
    BY <1>7 DEF Hears
  <2>2. /\ 1 \in 1 .. Len(Coming) /\ p = Coming[1] /\ Len(s) = Len(Coming) - 1
        /\ \A i \in 1 .. Len(s) : i + 1 \in 1 .. Len(Coming) /\ s[i] = Coming[i + 1]
        /\ Free(s, Setters) => LastIn(Coming, Setters, 1) \/ (p \notin Setters /\ Free(Coming, Setters))
    BY <2>1, HearsLast
  <2>3. /\ world'.map = IF p \in Setters THEN p.map ELSE world.map
        /\ world'.gates = IF p.op = "gp" /\ world.map # None THEN [world.gates EXCEPT ![<<world.map, p.cell>>] = p.to]
                          ELSE world.gates
        /\ world'.spaces = IF p.op = "wp" /\ world.map # None THEN world.spaces \cup {<<world.map, p.cell>>}
                           ELSE world.spaces
    BY <1>1, <2>1, FedMap
  <2>4. p \in Setters <=> p.op \in {"c_map", "at"}
    BY <2>1 DEF Setters
  <2>5. "map" \in told' => "map" \in told \/ p \in Setters
    BY <2>1, <2>4, SentFields, ToldWhat
  \* The head is of the map the host believes in.
  <2>6. Trusted => world.map = None \/ TrueOf(world.map, p)
    <3>1. Open(Coming, 1)
      OBVIOUS
    <3> QED BY <1>3, <2>2, <3>1
  <2>7. ASSUME Trusted' PROVE A(s, world'.map)
    <3> SUFFICES ASSUME NEW j \in 1 .. Len(s), Open(s, j) PROVE world'.map = None \/ TrueOf(world'.map, s[j])
      OBVIOUS
    <3>1. j + 1 \in 1 .. Len(Coming) /\ s[j] = Coming[j + 1]
      BY <2>2
    <3>2. ASSUME NEW k \in 2 .. (j + 1) - 1 PROVE Coming[k] \notin Setters
      <4>1. k - 1 \in 1 .. j - 1 /\ k - 1 \in 1 .. Len(s) /\ (k - 1) + 1 = k
        BY <1>1, <2>2
      <4>2. s[k - 1] \notin Setters
        BY <4>1
      <4> QED BY <2>2, <4>1, <4>2
    <3>3. CASE p \in Setters
      <4>1. SetterOf(Coming, 1, j + 1)
        <5>1. 1 \in 1 .. (j + 1) - 1 /\ 1 + 1 = 2
          BY <2>2
        <5> QED BY <2>2, <3>2, <3>3, <5>1 DEF SetterOf
      <4>2. TrueOf(Coming[1].map, Coming[j + 1])
        BY <2>2, <3>1, <4>1 DEF ListInv
      <4> QED BY <2>2, <2>3, <3>1, <3>3, <4>2
    <3>4. CASE p \notin Setters
      <4>1. Open(Coming, j + 1)
        <5> SUFFICES ASSUME NEW k \in 1 .. (j + 1) - 1 PROVE Coming[k] \notin Setters
          OBVIOUS
        <5>1. k = 1 \/ k \in 2 .. (j + 1) - 1
          OBVIOUS
        <5> QED BY <2>2, <3>2, <3>4, <5>1
      <4>2. Trusted
        BY <1>M, <2>5, <2>7, <3>4
      <4> QED BY <1>3, <2>3, <3>1, <3>4, <4>1, <4>2
    <3> QED BY <3>3, <3>4
  <2>8. ASSUME "gap" \notin mishaps' PROVE B(world'.gates, world'.spaces)
    <3>1. B(world.gates, world.spaces) /\ (world.map = None \/ TrueOf(world.map, p))
      BY <1>3, <1>M, <2>6, <2>8
    <3>2. ASSUME NEW q \in Places
          PROVE  /\ world'.gates[q] \in {None, Exit[q[1]][q[2]]}
                 /\ q \in world'.spaces => q[2] \in Stones[q[1]]
      BY <1>1, <2>3, <3>1 DEF TrueOf
    <3> QED BY <3>2
  <2>9. ASSUME "map" \in told', Free(s, Setters)
        PROVE  world'.map = game.map /\ C(s, game.map, world'.gates, world'.spaces)
    <3>1. CASE LastIn(Coming, Setters, 1)
      <4>1. /\ Coming[1] = [op |-> "c_map", map |-> game.map, entering |-> TRUE]
            /\ \A q \in Listed(game.map) : \E j \in 1 + 1 .. Len(Coming) : Coming[j] = q
        BY <2>2, <3>1 DEF ListInv
      <4>2. p \in Setters
        BY <2>2, <3>1 DEF LastIn
      <4>3. ASSUME NEW q \in Listed(game.map) PROVE \E j \in 1 .. Len(s) : s[j] = q
        <5>1. PICK j \in 1 + 1 .. Len(Coming) : Coming[j] = q
          BY <4>1
        <5>2. j - 1 \in 1 .. Len(s) /\ (j - 1) + 1 = j
          BY <1>1, <2>2
        <5> QED BY <2>2, <5>1, <5>2
      <4> QED BY <2>2, <2>3, <4>1, <4>2, <4>3
    <3>2. CASE p \notin Setters /\ Free(Coming, Setters)
      <4>1. /\ world.map = game.map /\ game.map \in Maps /\ None \notin Maps
            /\ C(Coming, game.map, world.gates, world.spaces) /\ TrueOf(game.map, p)
        BY <1>3, <2>5, <2>6, <2>9, <3>2, GameFields, OthersIds
      <4>2. ASSUME NEW q \in Listed(game.map)
            PROVE  K(q, game.map, world'.gates, world'.spaces) \/ \E j \in 1 .. Len(s) : s[j] = q
        <5>0. \/ q.op = "gp" /\ q.cell \in Cells /\ q.to = Exit[game.map][q.cell]
              \/ q.op = "wp"
          BY DEF Listed
        <5>1. CASE K(q, game.map, world.gates, world.spaces)
          <6>1. CASE q.op = "gp"
            <7>1. <<game.map, q.cell>> \in Places /\ world.gates[<<game.map, q.cell>>] = q.to
              BY <4>1, <5>0, <5>1, <6>1 DEF Places
            <7>2. CASE p.op = "gp" /\ p.cell = q.cell
              <8>1. p.to = q.to
                BY <4>1, <5>0, <6>1, <7>2 DEF TrueOf
              <8> QED BY <1>1, <2>3, <4>1, <6>1, <7>1, <7>2, <8>1
            <7>3. CASE ~(p.op = "gp" /\ p.cell = q.cell)
              <8>1. <<world.map, p.cell>> # <<game.map, q.cell>> \/ p.op # "gp"
                BY <7>3
              <8>2. world'.gates[<<game.map, q.cell>>] = world.gates[<<game.map, q.cell>>]
                BY <1>1, <2>3, <7>1, <8>1
              <8> QED BY <6>1, <7>1, <8>2
            <7> QED BY <7>2, <7>3
          <6>2. CASE q.op # "gp"
            BY <2>3, <5>1, <6>2
          <6> QED BY <6>1, <6>2
        <5>2. ASSUME NEW j \in 1 .. Len(Coming), Coming[j] = q
              PROVE  K(q, game.map, world'.gates, world'.spaces) \/ \E x \in 1 .. Len(s) : s[x] = q
          <6>1. CASE j = 1
            <7>1. q = p
              BY <2>2, <5>2, <6>1
            <7>2. CASE q.op = "gp"
              <8>1. <<game.map, q.cell>> \in Places
                BY <4>1, <5>0, <7>2 DEF Places
              <8>2. world'.gates = [world.gates EXCEPT ![<<game.map, q.cell>>] = q.to]
                BY <2>3, <4>1, <7>1, <7>2
              <8>3. world'.gates[<<game.map, q.cell>>] = q.to
                BY <1>1, <8>1, <8>2
              <8> QED BY <7>2, <8>3
            <7>3. CASE q.op = "wp"
              BY <2>3, <4>1, <7>1, <7>3
            <7> QED BY <5>0, <7>2, <7>3
          <6>2. CASE j # 1
            <7>1. j - 1 \in 1 .. Len(s) /\ (j - 1) + 1 = j
              BY <1>1, <2>2, <6>2
            <7> QED BY <2>2, <5>2, <7>1
          <6> QED BY <6>1, <6>2
        <5> HIDE DEF K
        <5> QED BY <4>1, <5>1, <5>2
      <4> HIDE DEF K
      <4> QED BY <2>3, <3>2, <4>1, <4>2
    <3> QED BY <2>2, <2>9, <3>1, <3>2
  <2> HIDE DEF A, B, C
  <2> QED BY <2>1, <2>7, <2>8, <2>9
<1>8. ASSUME Misses PROVE Goal
  <2>1. told' = {} /\ "gap" \in mishaps'
    BY <1>8 DEF Misses
  <2> HIDE DEF A, B, C
  <2> QED BY <2>1
<1> HIDE DEF A, B, C
<1> QED BY <1>4, <1>5, <1>6, <1>7, <1>8, ComesAs DEF Sight

-----------------------------------------------------------------------------
(* Requests and answers. *)

\* What the steps do to the wires.
LEMMA WiresAfter ==
  ASSUME SessionTypeOK
  PROVE  /\ \A request \in Requests :
              /\ Asking(request) => Going' = Append(Going, request) /\ Coming' = Coming
              /\ Walked(request) \/ Ignored(request) => Going' = Going /\ Coming' = Coming
              /\ Went(request) => Going' = Going /\ Comes
              /\ \A p \in Sent : Replied(request, p) => Going' = Going /\ Coming' = Append(Coming, p)
         /\ \A p \in Sent : Told(p) => Going' = Going /\ Coming' = Append(Coming, p)
         /\ Aging \/ UNCHANGED vars => Going' = Going /\ Coming' = Coming
         /\ Warped => Going' = Going /\ Comes
         /\ Read("RECV") => Going' = Going /\ Hears
         /\ Read("SEND") => Going # <<>> /\ Going' = Tail(Going) /\ Coming' = Coming /\ world' = Feed(world, Head(Going))
                            /\ told' = told /\ Head(Going) \in Requests
<1>1. /\ Going \in Seq(Requests) /\ Coming \in Seq(Sent)
  BY WireFields
<1>2. \A request : Asking(request) => Going' = Append(Going, request) /\ Coming' = Coming
  BY DEF Asking, Going, Coming
<1>3. /\ \A request : Walked(request) \/ Ignored(request) => Going' = Going /\ Coming' = Coming
      /\ Aging \/ UNCHANGED vars => Going' = Going /\ Coming' = Coming
  BY DEF Walked, Ignored, Aging, vars, Going, Coming
<1>4. \A p : Saying(p) => Going' = Going /\ Coming' = Append(Coming, p)
  BY DEF Saying, Going, Coming
<1>5. \A p : (Told(p) => Saying(p)) /\ \A request : Replied(request, p) => Saying(p)
  BY DEF Replied, Told
<1>6. /\ \A request : Went(request) => Going' = Going /\ Comes
      /\ Warped => Going' = Going /\ Comes
  <2>1. \A m, c : Moving(m, c) => Going' = Going /\ Comes
    <3> SUFFICES ASSUME NEW m, NEW c, Moving(m, c) PROVE Going' = Going /\ Comes
      OBVIOUS
    <3>1. Comes
      BY MovingComes
    <3>2. \E s : wire' = [SEND |-> Going, RECV |-> Coming \o s]
      BY DEF Moving
    <3> QED BY <3>1, <3>2 DEF Going
  <2> QED BY <2>1 DEF Went, Warped
<1>7. Read("RECV") => Going' = Going /\ Hears
  <2> SUFFICES ASSUME Read("RECV") PROVE Going' = Going /\ Hears
    OBVIOUS
  <2>1. /\ Coming # <<>> /\ world' = Feed(world, Head(Coming)) /\ told' = ToldBy(Head(Coming)) /\ UNCHANGED game
        /\ wire' = [SEND |-> Going, RECV |-> Tail(Coming)]
    BY DEF Read, Coming
  <2>2. Coming' = Tail(Coming) /\ Going' = Going
    BY <2>1 DEF Going, Coming
  <2>3. Head(Coming) \in Sent
    BY <1>1, <2>1
  <2> QED BY <2>1, <2>2, <2>3 DEF Hears
<1>8. Read("SEND") => Going # <<>> /\ Going' = Tail(Going) /\ Coming' = Coming /\ world' = Feed(world, Head(Going))
                      /\ told' = told /\ Head(Going) \in Requests
  <2> SUFFICES ASSUME Read("SEND")
               PROVE  Going # <<>> /\ Going' = Tail(Going) /\ Coming' = Coming /\ world' = Feed(world, Head(Going))
                      /\ told' = told /\ Head(Going) \in Requests
    OBVIOUS
  <2>1. /\ Going # <<>> /\ world' = Feed(world, Head(Going)) /\ told' = ToldBy(Head(Going))
        /\ wire' = [SEND |-> Tail(Going), RECV |-> Coming]
    BY DEF Read, Going
  <2>2. Coming' = Coming /\ Going' = Tail(Going)
    BY <2>1 DEF Going, Coming
  <2>3. Head(Going) \in Requests
    BY <1>1, <2>1
  <2>4. told' = told
    BY <2>1, <2>3, RequestFields, OthersIds DEF ToldBy
  <2> QED BY <2>1, <2>2, <2>3, <2>4
<1> QED BY <1>2, <1>3, <1>4, <1>5, <1>6, <1>7, <1>8

\* What has been given up stays given up.
LEMMA MishapsGrow ==
  ASSUME SessionTypeOK, Step
  PROVE  /\ mishaps \subseteq mishaps'
         /\ Losing => "gap" \in mishaps'
         /\ Warped => "warped" \in mishaps'
         /\ Read("RECV") /\ "overtaken" \notin mishaps' => Going = <<>>
         /\ Read("SEND") /\ "overtaken" \notin mishaps' => Coming = <<>>
         /\ \A request \in Requests : /\ Asking(request) /\ "overlapped" \notin mishaps' => asked = <<>>
                                      /\ Ignored(request) => "ignored" \in mishaps'
<1>1. mishaps \subseteq mishaps'
  BY Sights DEF Sight
<1>2. /\ Read("RECV") => Coming # <<>>
      /\ Read("SEND") => Going # <<>>
  BY DEF Read, Coming, Going
<1> QED BY <1>1, <1>2 DEF Losing, Warped, Read, Asking, Ignored

\* Who asked one thing at a time is answered and has nothing left to ask.
LEMMA ServingLast ==
  ASSUME SessionTypeOK, AskInv, "overlapped" \notin mishaps, NEW request, Serving(request)
  PROVE  asked' = <<>> /\ request = asked[1] /\ asked # <<>> /\ request \in Requests
<1>1. asked \in Seq(Requests) /\ asked # <<>> /\ asked' = Tail(asked) /\ request = Head(asked) /\ Len(asked) <= 1
      /\ request \in Requests
  BY DEF Serving, SessionTypeOK, AskInv
<1>2. Len(asked) = 1 /\ Head(asked) = asked[1]
  <2>1. Len(asked) \in Nat \ {0}
    BY <1>1, EmptySeq
  <2>2. Len(asked) = 1
    <3>1. \A n \in Nat \ {0} : n <= 1 => n = 1
      OBVIOUS
    <3> QED BY <1>1, <2>1, <3>1
  <2> QED BY <1>1, <2>2
<1>3. Len(Tail(asked)) = 0 /\ Tail(asked) \in Seq(Requests)
  BY <1>1, <1>2
<1>4. Tail(asked) = <<>>
  BY <1>3, EmptySeq
<1> QED BY <1>1, <1>2, <1>4

\* The last packet of a sequence that loses its first.
LEMMA TailEnd ==
  ASSUME NEW S, NEW s \in Seq(S), s # <<>>
  PROVE  /\ Len(s) \in Nat /\ Len(s) >= 1 /\ Head(s) = s[1]
         /\ Tail(s) # <<>> => Tail(s)[Len(Tail(s))] = s[Len(s)]
         /\ Tail(s) = <<>> => s[Len(s)] = Head(s)
<1>1. Len(s) \in Nat /\ Len(s) >= 1 /\ Head(s) = s[1] /\ Tail(s) \in Seq(S) /\ Len(Tail(s)) = Len(s) - 1
  OBVIOUS
<1>2. \A i \in 1 .. Len(Tail(s)) : Tail(s)[i] = s[i + 1]
  OBVIOUS
<1>3. ASSUME Tail(s) # <<>> PROVE Tail(s)[Len(Tail(s))] = s[Len(s)]
  <2>1. Len(Tail(s)) # 0
    BY <1>1, <1>3
  <2>2. Len(Tail(s)) \in 1 .. Len(Tail(s)) /\ Len(Tail(s)) + 1 = Len(s)
    BY <1>1, <2>1
  <2> QED BY <1>2, <2>2
<1>4. ASSUME Tail(s) = <<>> PROVE s[Len(s)] = Head(s)
  <2>1. Len(s) = 1
    <3>1. Len(Tail(s)) = Len(<<>>) /\ Len(<<>>) = 0
      BY <1>4
    <3>2. \A n \in Nat : n - 1 = 0 => n = 1
      OBVIOUS
    <3>3. Len(s) - 1 = 0
      BY <1>1, <3>1
    <3> QED BY <1>1, <3>2, <3>3
  <2> QED BY <1>1, <2>1
<1> QED BY <1>1, <1>3, <1>4

LEMMA AskKept ==
  ASSUME SessionTypeOK, AskInv, Step
  PROVE  AskInv'
<1> DEFINE A1 == "overlapped" \notin mishaps => Len(asked) <= 1
           A2 == mishaps \cap {"gap", "overtaken", "overlapped"} = {} /\ asked # <<>> /\ Going # <<>> =>
                   Going[Len(Going)] = asked[1]
           A3 == "mistaken" \notin mishaps => world.self \in {None, Me}
<1>1. /\ asked \in Seq(Requests) /\ Going \in Seq(Requests) /\ Len(asked) \in Nat /\ world \in Worlds
  BY WireFields DEF SessionTypeOK
<1>2. A1 /\ A2 /\ A3 /\ mishaps \subseteq mishaps'
  BY MishapsGrow DEF AskInv
<1>3. SUFFICES A1' /\ A2' /\ A3'
  BY DEF AskInv
<1>4. ASSUME NEW request \in Requests, Asking(request) PROVE A1' /\ A2' /\ A3'
  <2>1. /\ asked' = Append(asked, request) /\ Going' = Append(Going, request) /\ world' = world
        /\ "overlapped" \notin mishaps' => asked = <<>>
    BY <1>4, WiresAfter, MishapsGrow DEF Asking, Silent
  <2>2. asked = <<>> => Len(Append(asked, request)) = 1 /\ Append(asked, request)[1] = request
    BY <1>1
  <2>3. Append(Going, request)[Len(Append(Going, request))] = request
    BY <1>1
  <2> QED BY <1>2, <2>1, <2>2, <2>3
<1>5. ASSUME NEW request, Serving(request), Going' = Going, world' = world PROVE A1' /\ A2' /\ A3'
  <2>1. asked' = Tail(asked) /\ asked # <<>>
    BY <1>5 DEF Serving
  <2>2. Len(Tail(asked)) = Len(asked) - 1
    BY <1>1, <2>1
  <2>3. A1' /\ A3'
    BY <1>1, <1>2, <1>5, <2>1, <2>2
  <2>4. "overlapped" \notin mishaps => asked' = <<>>
    BY <1>5, ServingLast
  <2> QED BY <1>2, <2>3, <2>4
<1>6. ASSUME NEW request \in Requests, Walked(request) \/ Went(request) \/ Ignored(request) PROVE A1' /\ A2' /\ A3'
  <2>1. Serving(request)
    BY <1>6 DEF Walked, Went, Ignored
  <2>2. world' = world
    <3>1. Comes => world' = world
      BY DEF Comes
    <3>2. CASE Went(request)
      <4>1. \E m, c : Moving(m, c)
        BY <3>2 DEF Went
      <4> QED BY <3>1, <4>1, MovingComes
    <3> QED BY <1>6, <3>2 DEF Walked, Ignored, Silent
  <2>3. Going' = Going
    BY <1>6, WiresAfter
  <2> QED BY <1>5, <2>1, <2>2, <2>3
<1>7. ASSUME NEW request \in Requests, NEW p \in Sent, Replied(request, p) PROVE A1' /\ A2' /\ A3'
  <2>1. Serving(request) /\ world' = world
    BY <1>7 DEF Replied, Saying
  <2>2. Going' = Going
    BY <1>7, WiresAfter
  <2> QED BY <1>5, <2>1, <2>2
<1>8. ASSUME Going' = Going, asked' = asked, world'.self = world.self \/ world'.self \in {None, Me} \/ "mistaken" \in mishaps'
      PROVE  A1' /\ A2' /\ A3'
  BY <1>2, <1>8
<1>9. ASSUME NEW p \in Sent, Told(p) PROVE A1' /\ A2' /\ A3'
  <2>1. asked' = asked /\ world' = world
    BY <1>9 DEF Told, Saying
  <2>2. Going' = Going
    BY <1>9, WiresAfter
  <2> QED BY <1>8, <2>1, <2>2
<1>10. ASSUME Warped PROVE A1' /\ A2' /\ A3'
  <2>1. asked' = asked
    BY <1>10 DEF Warped
  <2>2. Going' = Going /\ Comes
    BY <1>10, WiresAfter
  <2> QED BY <1>8, <2>1, <2>2 DEF Comes
<1>11. ASSUME Read("RECV") PROVE A1' /\ A2' /\ A3'
  <2>1. asked' = asked /\ (world'.self \in {None, Me} \/ "mistaken" \in mishaps')
    BY <1>11 DEF Read
  <2>2. Going' = Going
    BY <1>11, WiresAfter
  <2> QED BY <1>8, <2>1, <2>2
<1>12. ASSUME Read("SEND") PROVE A1' /\ A2' /\ A3'
  <2>1. asked' = asked /\ (world'.self \in {None, Me} \/ "mistaken" \in mishaps')
    BY <1>12 DEF Read
  <2>2. Going # <<>> /\ Going' = Tail(Going)
    BY <1>12, WiresAfter
  <2>3. Tail(Going) # <<>> => Tail(Going)[Len(Tail(Going))] = Going[Len(Going)]
    BY <1>1, <2>2, TailEnd
  <2>4. A2'
    BY <1>2, <2>1, <2>2, <2>3
  <2> QED BY <1>2, <2>1, <2>4
<1>13. ASSUME Losing PROVE A1' /\ A2' /\ A3'
  <2>1. asked' = asked /\ world' = world /\ "gap" \in mishaps'
    BY <1>13 DEF Losing
  <2> QED BY <1>2, <2>1
<1>14. ASSUME Aging \/ UNCHANGED vars PROVE A1' /\ A2' /\ A3'
  <2>1. asked' = asked /\ world'.self = world.self
    BY <1>1, <1>14 DEF Aging, Aged, Worlds, vars
  <2>2. Going' = Going
    BY <1>14, WiresAfter
  <2> QED BY <1>8, <2>1, <2>2
<1> HIDE DEF A1, A2, A3
<1> QED BY <1>4, <1>6, <1>7, <1>9, <1>10, <1>11, <1>12, <1>13, <1>14 DEF Step

-----------------------------------------------------------------------------
(* The own cell. *)

LEMMA MoverOps ==
  ASSUME NEW p \in Sent
  PROVE  p \in Movers <=> p.op \in {"at", "tp"}
  BY DEF Movers

\* Only an at or a tp moves a character whose id the host does not take for another's.
LEMMA PosKept ==
  ASSUME SessionTypeOK, Hears, Head(Coming) \notin Movers, world.self \in {None, Me}
  PROVE  /\ world'.pos = world.pos
         /\ "place" \in told' => "place" \in told
<1> PICK p : p = Head(Coming)
  OBVIOUS
<1>1. p \in Sent /\ world' = Feed(world, p) /\ told' = ToldBy(p) /\ p.op \notin {"at", "tp"} /\ world \in Worlds
  BY MoverOps DEF Hears, SessionTypeOK
<1>2. p.op = "mv" => p.id # world.self
  BY <1>1, SentFields, OthersIds
<1>3. world'.pos = CASE p.op = "at" -> p.cell
                     [] p.op \in {"mv", "tp"} /\ p.id = world.self -> p.cell
                     [] OTHER -> world.pos
  BY <1>1, FedPlace
<1>4. world'.pos = world.pos
  BY <1>1, <1>2, <1>3
<1>5. "place" \in told' => "place" \in told
  BY <1>1, SentFields, ToldWhat
<1> QED BY <1>4, <1>5

\* An at, or a tp once the own id is known, puts the character where it says.
LEMMA PosMoved ==
  ASSUME SessionTypeOK, Hears, Head(Coming) \in Movers, Head(Coming).op = "at" \/ world.self = Me
  PROVE  world'.pos = Head(Coming).cell
<1> PICK p : p = Head(Coming)
  OBVIOUS
<1>1. p \in Sent /\ world' = Feed(world, p) /\ p.op \in {"at", "tp"} /\ world \in Worlds /\ (p.op = "at" \/ world.self = Me)
  BY MoverOps DEF Hears, SessionTypeOK
<1>2. p.op = "tp" => p.id = Me
  BY <1>1, SentFields
<1>3. world'.pos = CASE p.op = "at" -> p.cell
                     [] p.op \in {"mv", "tp"} /\ p.id = world.self -> p.cell
                     [] OTHER -> world.pos
  BY <1>1, FedPlace
<1> QED BY <1>1, <1>2, <1>3

LEMMA HeardRead ==
  ASSUME SessionTypeOK, NEW c, Heard(c), Going # <<>>, Going' = Tail(Going), world' = Feed(world, Head(Going)),
         Head(Going) \in Requests
  PROVE  Heard(c)'
<1> PICK p : p = Head(Going)
  OBVIOUS
<1>1. Going \in Seq(Requests) /\ world \in Worlds
  BY WireFields DEF SessionTypeOK
<1>2. /\ p = Going[1] /\ Len(Going) \in Nat /\ Len(Going) >= 1
      /\ \A i \in 1 .. Len(Tail(Going)) : i + 1 \in 1 .. Len(Going) /\ Tail(Going)[i] = Going[i + 1]
      /\ \A i : LastIn(Tail(Going), Walks, i) => i \in 1 .. Len(Tail(Going)) /\ LastIn(Going, Walks, i + 1)
      /\ Free(Tail(Going), Walks) => LastIn(Going, Walks, 1) \/ (p \notin Walks /\ Free(Going, Walks))
  BY <1>1, LastTail
<1>3. /\ \A i \in 1 .. Len(Going) : LastIn(Going, Walks, i) => Going[i].cell = c
      /\ Free(Going, Walks) => world.pos = c
  BY DEF Heard
<1>4. world'.pos = IF p \in Walks THEN p.cell ELSE world.pos
  BY <1>1, FedSends
<1>5. \A i \in 1 .. Len(Tail(Going)) : LastIn(Tail(Going), Walks, i) => Tail(Going)[i].cell = c
  BY <1>2, <1>3
<1>6. ASSUME Free(Tail(Going), Walks) PROVE world'.pos = c
  <2>1. CASE LastIn(Going, Walks, 1)
    <3>1. 1 \in 1 .. Len(Going) /\ p \in Walks
      BY <1>2, <2>1 DEF LastIn
    <3> QED BY <1>2, <1>3, <1>4, <2>1, <3>1
  <2>2. CASE p \notin Walks /\ Free(Going, Walks)
    BY <1>3, <1>4, <2>2
  <2> QED BY <1>2, <1>6, <2>1, <2>2
<1> QED BY <1>5, <1>6 DEF Heard

LEMMA HeardAsk ==
  ASSUME SessionTypeOK, NEW c, NEW request \in Requests, Going' = Append(Going, request), world' = world,
         IF request \in Walks THEN c = request.cell ELSE Heard(c)
  PROVE  Heard(c)'
<1>1. Going \in Seq(Requests)
  BY WireFields
<1>2. /\ \A i \in 1 .. Len(Going) : Append(Going, request)[i] = Going[i]
      /\ Append(Going, request)[Len(Going) + 1] = request
      /\ \A i : LastIn(Append(Going, request), Walks, i) =>
           \/ i = Len(Going) + 1 /\ request \in Walks
           \/ i \in 1 .. Len(Going) /\ request \notin Walks /\ LastIn(Going, Walks, i)
      /\ Free(Append(Going, request), Walks) => Free(Going, Walks) /\ request \notin Walks
  BY <1>1, LastAppend
<1>3. \A i : LastIn(Append(Going, request), Walks, i) => Append(Going, request)[i].cell = c
  BY <1>2 DEF Heard
<1>4. Free(Append(Going, request), Walks) => world.pos = c
  BY <1>2 DEF Heard
<1> QED BY <1>3, <1>4 DEF Heard

\* With nothing on the way to the server, what the host heard is where it thinks it is.
LEMMA HeardAll ==
  ASSUME Going = <<>>, NEW c
  PROVE  Heard(c) <=> world.pos = c
<1>1. Len(Going) = 0 /\ Free(Going, Walks) /\ \A i : ~(i \in 1 .. Len(Going))
  BY DEF Free
<1> QED BY <1>1 DEF Heard

\* A change of map ends with an at; nothing behind it moves the character.
LEMMA ComesMovers ==
  ASSUME SessionTypeOK, NEW r, NEW a, NEW m, NEW view, Came(r, a, m, view)
  PROVE  /\ \A j \in 1 .. Len(r) : r[j] \in Movers => j = a
         /\ r[a] \in Movers /\ ~Free(r, Movers)
         /\ \A i : LastIn(Coming', Movers, i) => Coming'[i] = r[a]
         /\ ~Free(Coming', Movers)
<1>1. /\ r \in Seq(Sent) /\ Coming' = Coming \o r /\ a \in 1 .. Len(r) /\ r[a].op = "at" /\ a + 1 \in 1 .. Len(r)
      /\ r[a + 1] = [op |-> "c_map", map |-> m, entering |-> TRUE]
      /\ \A i \in 1 .. Len(r) : Coming'[Len(Coming) + i] = r[i]
  BY DEF Came
<1>2. r[a + 1].op = "c_map" /\ \A j \in 1 .. Len(r) : r[j] \in Sent
  BY <1>1
<1>3. ASSUME NEW j \in 1 .. Len(r), r[j] \in Movers PROVE j = a
  <2>1. r[j].op \in {"at", "tp"}
    BY <1>2, <1>3, MoverOps
  <2>2. \/ r[j].op \in {"c_map", "mapout"}
        \/ j = a
        \/ j = a + 1
        \/ r[j].op \in {"gp", "wp", "in"}
    BY DEF Came
  <2> QED BY <1>2, <2>1, <2>2
<1>4. r[a] \in Movers /\ ~Free(r, Movers)
  <2>1. r[a] \in Movers
    BY <1>1, <1>2, MoverOps
  <2> QED BY <1>1, <2>1 DEF Free
<1>5. /\ \A i : LastIn(Coming', Movers, i) =>
           \/ \E j \in 1 .. Len(r) : i = Len(Coming) + j /\ LastIn(r, Movers, j)
           \/ i \in 1 .. Len(Coming) /\ LastIn(Coming, Movers, i) /\ Free(r, Movers)
      /\ Free(Coming', Movers) => Free(Coming, Movers) /\ Free(r, Movers)
  BY <1>1, ComesLast
<1>6. ASSUME NEW i, LastIn(Coming', Movers, i) PROVE Coming'[i] = r[a]
  <2>1. PICK j \in 1 .. Len(r) : i = Len(Coming) + j /\ LastIn(r, Movers, j)
    BY <1>4, <1>5, <1>6
  <2>2. r[j] \in Movers
    BY <2>1 DEF LastIn
  <2>3. j = a
    BY <1>3, <2>2
  <2> QED BY <1>1, <2>1, <2>3
<1> QED BY <1>3, <1>4, <1>5, <1>6

\* After a change of what was asked, the wires and the world: what PlaceInv says then.
LEMMA PlaceKept ==
  ASSUME SessionTypeOK, RestInv, AskInv, PlaceInv, Step
  PROVE  PlaceInv'
<1> DEFINE HN(c) == /\ \A i \in 1 .. Len(Going') : LastIn(Going', Walks, i) => Going'[i].cell = c
                    /\ Free(Going', Walks) => world'.pos = c
           AliveN == Going' = <<>> \/ Coming' = <<>>
           WalkingN == asked' # <<>> /\ asked'[1] \in Walks
           Q1 == mishaps' \subseteq {"mistaken", "ignored"} /\ AliveN /\ Going' = <<>> /\ ~Free(Coming', Movers) =>
                   asked' = <<>>
           Q2 == mishaps' \subseteq {"mistaken"} /\ AliveN /\ Going' = <<>> =>
                   \A i \in 1 .. Len(Coming') : LastIn(Coming', Movers, i) => Coming'[i].cell = game'.cell
           Q3 == AliveN /\ (mishaps' \subseteq {"ignored"} \/ (mishaps' \subseteq {"mistaken"} /\ "place" \in told')) /\ WalkingN =>
                   HN(asked'[1].cell)
           Q4 == mishaps' \subseteq {"mistaken"} /\ AliveN /\ "place" \in told' /\ Free(Coming', Movers) /\ ~WalkingN =>
                   HN(game'.cell)
           Q  == Q1 /\ Q2 /\ Q3 /\ Q4
<1>1. /\ asked \in Seq(Requests) /\ Going \in Seq(Requests) /\ Coming \in Seq(Sent) /\ world \in Worlds
      /\ Len(Going) \in Nat /\ Len(Coming) \in Nat
  BY WireFields DEF SessionTypeOK
<1>2. SUFFICES Q
  BY DEF PlaceInv, Settled, Alive, Walking, Heard
<1>H. \A c : HN(c) <=> Heard(c)'
  BY DEF Heard
<1>3. /\ mishaps \subseteq {"mistaken", "ignored"} /\ Going = <<>> /\ ~Free(Coming, Movers) => asked = <<>>
      /\ mishaps \subseteq {"mistaken"} /\ Going = <<>> =>
           \A i \in 1 .. Len(Coming) : LastIn(Coming, Movers, i) => Coming[i].cell = game.cell
      /\ Alive /\ (mishaps \subseteq {"ignored"} \/ (mishaps \subseteq {"mistaken"} /\ "place" \in told)) /\ Walking =>
           Heard(asked[1].cell)
      /\ mishaps \subseteq {"mistaken"} /\ Alive /\ "place" \in told /\ Free(Coming, Movers) /\ ~Walking => Heard(game.cell)
  BY DEF PlaceInv, Settled, Alive
<1>4. mishaps \subseteq mishaps'
  BY MishapsGrow
<1>5. /\ \A request \in Requests : Append(Going, request) # <<>>
      /\ \A p \in Sent : Append(Coming, p) # <<>>
  BY <1>1
<1>6. \A s : ~Free(s, Movers) => s # <<>>
  BY DEF Free
<1>7. \A s : (\E i : LastIn(s, Movers, i)) => ~Free(s, Movers)
  BY DEF LastIn, Free
<1>8. /\ "place" \in told => world.self = Me
      /\ "mistaken" \notin mishaps => world.self \in {None, Me}
  BY DEF RestInv, AskInv
<1> HIDE DEF HN
\* A request.
<1>10. ASSUME NEW request \in Requests, Asking(request) PROVE Q
  <2>1. /\ asked' = Append(asked, request) /\ Going' = Append(Going, request) /\ Coming' = Coming /\ world' = world
        /\ told' = told /\ game' = game /\ Going' # <<>>
        /\ "overlapped" \notin mishaps' => asked = <<>>
    BY <1>5, <1>10, WiresAfter, MishapsGrow DEF Asking, Silent
  <2>2. asked = <<>> => asked' # <<>> /\ asked'[1] = request /\ ~Walking
    BY <1>1, <2>1 DEF Walking
  <2>3. Q1 /\ Q2
    BY <2>1
  <2>4. Q3
    <3> SUFFICES ASSUME AliveN, mishaps' \subseteq {"ignored"} \/ mishaps' \subseteq {"mistaken"}, WalkingN
                 PROVE  HN(asked'[1].cell)
      OBVIOUS
    <3>1. asked'[1] = request /\ request \in Walks
      BY <2>1, <2>2
    <3>2. Heard(request.cell)'
      BY <2>1, <3>1, HeardAsk
    <3> QED BY <1>H, <3>1, <3>2
  <2>5. Q4
    <3> SUFFICES ASSUME mishaps' \subseteq {"mistaken"}, AliveN, "place" \in told', Free(Coming', Movers), ~WalkingN
                 PROVE  HN(game'.cell)
      OBVIOUS
    <3>1. request \notin Walks /\ ~Walking /\ Coming = <<>>
      BY <2>1, <2>2
    <3>2. mishaps \subseteq {"mistaken"} /\ Alive /\ "place" \in told /\ Free(Coming, Movers)
      BY <1>4, <2>1, <3>1 DEF Alive
    <3>3. Heard(game.cell)
      BY <1>3, <3>1, <3>2
    <3>4. PICK c : c = game.cell
      OBVIOUS
    <3>5. Heard(c)'
      BY <2>1, <3>1, <3>3, <3>4, HeardAsk
    <3> QED BY <1>H, <2>1, <3>4, <3>5
  <2> HIDE DEF Q1, Q2, Q3, Q4
  <2> QED BY <2>3, <2>4, <2>5
\* The server answers what was asked: nothing is left to ask.
<1>11. ASSUME NEW request, Serving(request), mishaps' \subseteq {"mistaken", "ignored"}
       PROVE  /\ asked' = <<>> /\ request = asked[1] /\ asked # <<>>
              /\ Going = <<>> => Free(Coming, Movers)
  <2>1. asked' = <<>> /\ request = asked[1] /\ asked # <<>>
    BY <1>4, <1>11, ServingLast
  <2>2. Going = <<>> => Free(Coming, Movers)
    BY <1>3, <1>4, <1>11, <2>1
  <2> QED BY <2>1, <2>2
<1>12. ASSUME Going' = Going, world'.pos = world.pos PROVE \A c : HN(c) <=> Heard(c)
  BY <1>12 DEF HN, Heard
<1>13. ASSUME NEW request \in Requests, Walked(request) PROVE Q
  <2>1. /\ Serving(request) /\ request \in Walks /\ game'.cell = request.cell /\ world' = world /\ told' = told
        /\ Going' = Going /\ Coming' = Coming
    BY <1>13, WiresAfter DEF Walked, Walks, Silent
  <2>2. mishaps' \subseteq {"mistaken", "ignored"} => Q1 /\ Q2 /\ Q3
    BY <1>7, <1>11, <2>1
  <2>3. Q4
    <3> SUFFICES ASSUME mishaps' \subseteq {"mistaken"}, AliveN, "place" \in told', Free(Coming', Movers), ~WalkingN
                 PROVE  HN(game'.cell)
      OBVIOUS
    <3>1. request = asked[1] /\ asked # <<>>
      BY <1>11, <2>1
    <3>2. mishaps \subseteq {"mistaken"} /\ Alive /\ "place" \in told /\ Walking
      BY <1>4, <2>1, <3>1 DEF Alive, Walking
    <3>3. Heard(asked[1].cell)
      BY <1>3, <3>2
    <3> QED BY <1>12, <2>1, <3>1, <3>3
  <2>4. mishaps' \subseteq {"mistaken", "ignored"} \/ (Q1 /\ Q2 /\ Q3)
    OBVIOUS
  <2> HIDE DEF Q1, Q2, Q3, Q4
  <2> QED BY <2>2, <2>3, <2>4
<1>14. ASSUME NEW request \in Requests, Went(request) PROVE Q
  <2>1. Serving(request) /\ world' = world /\ told' = told /\ Going' = Going /\ Comes
    <3>1. Serving(request) /\ Going' = Going /\ Comes
      BY <1>14, WiresAfter DEF Went
    <3> QED BY <3>1 DEF Comes
  <2>2. PICK r, a, m, view : Came(r, a, m, view)
    BY <2>1, ComesAs
  <2>3. /\ \A i : LastIn(Coming', Movers, i) => Coming'[i] = r[a]
        /\ ~Free(Coming', Movers)
    BY <2>2, ComesMovers
  <2>4. r[a].cell = game'.cell
    BY <2>2 DEF Came
  <2>5. mishaps' \subseteq {"mistaken", "ignored"} => Q1 /\ Q3
    BY <1>11, <2>1
  <2>6. Q2 /\ Q4
    BY <2>3, <2>4
  <2>7. mishaps' \subseteq {"mistaken", "ignored"} \/ (Q1 /\ Q3)
    OBVIOUS
  <2> HIDE DEF Q1, Q2, Q3, Q4
  <2> QED BY <2>5, <2>6, <2>7
<1>15. ASSUME NEW request \in Requests, Ignored(request) PROVE Q
  <2>1. /\ Serving(request) /\ world' = world /\ told' = told /\ Going' = Going /\ Coming' = Coming
        /\ "ignored" \in mishaps'
    BY <1>15, WiresAfter, MishapsGrow DEF Ignored, Silent
  <2>2. mishaps' \subseteq {"mistaken", "ignored"} => Q1 /\ Q3
    BY <1>11, <2>1
  <2>3. Q2 /\ Q4
    BY <2>1
  <2>7. mishaps' \subseteq {"mistaken", "ignored"} \/ (Q1 /\ Q3)
    OBVIOUS
  <2> HIDE DEF Q1, Q2, Q3, Q4
  <2> QED BY <2>2, <2>3, <2>7
<1>16. ASSUME NEW p \in Sent, Truly(p), Coming' = Append(Coming, p), Going' = Going, world' = world, told' = told
       PROVE  /\ game'.cell = game.cell /\ (p.op = "tp" => p.cell = game.cell)
              /\ \A i \in 1 .. Len(Coming) : Coming'[i] = Coming[i]
              /\ Coming'[Len(Coming) + 1] = p
              /\ \A i : LastIn(Coming', Movers, i) =>
                   \/ i = Len(Coming) + 1 /\ p.op = "tp"
                   \/ i \in 1 .. Len(Coming) /\ LastIn(Coming, Movers, i)
              /\ Free(Coming', Movers) => Free(Coming, Movers) /\ p.op # "tp"
              /\ ~Free(Coming', Movers) => ~Free(Coming, Movers) \/ p.op = "tp"
              /\ AliveN <=> Going = <<>>
  <2>1. game'.cell = game.cell /\ p.op # "at" /\ (p.op = "tp" => p.cell = game.cell)
    BY <1>16 DEF Truly
  <2>2. p \in Movers <=> p.op = "tp"
    BY <2>1, MoverOps
  <2>3. /\ \A i \in 1 .. Len(Coming) : Coming'[i] = Coming[i]
        /\ Len(Coming') = Len(Coming) + 1
        /\ Coming'[Len(Coming) + 1] = p
        /\ \A i : LastIn(Coming', Movers, i) => \/ i = Len(Coming) + 1 /\ p \in Movers
                                                \/ i \in 1 .. Len(Coming) /\ p \notin Movers /\ LastIn(Coming, Movers, i)
        /\ Free(Coming', Movers) => Free(Coming, Movers) /\ p \notin Movers
    BY <1>16, SaysLast
  <2>4. ASSUME Free(Coming, Movers), p \notin Movers PROVE Free(Coming', Movers)
    <3> SUFFICES ASSUME NEW i \in 1 .. Len(Coming') PROVE Coming'[i] \notin Movers
      BY DEF Free
    <3>1. i \in 1 .. Len(Coming) \/ i = Len(Coming) + 1
      BY <1>1, <2>3
    <3> QED BY <2>3, <2>4, <3>1 DEF Free
  <2>5. AliveN <=> Going = <<>>
    BY <1>5, <1>16
  <2> QED BY <2>1, <2>2, <2>3, <2>4, <2>5
<1>17. ASSUME NEW request \in Requests, NEW p \in Sent, Replied(request, p) PROVE Q
  <2>0. /\ Serving(request) /\ Truly(p) /\ Coming' = Append(Coming, p) /\ Going' = Going /\ world' = world /\ told' = told
        /\ p.op = "tp" <=> request.op = "walk"
    BY <1>17, WiresAfter DEF Replied, Saying
  <2>1. /\ game'.cell = game.cell /\ (p.op = "tp" => p.cell = game.cell)
        /\ \A i \in 1 .. Len(Coming) : Coming'[i] = Coming[i]
        /\ Coming'[Len(Coming) + 1] = p
        /\ \A i : LastIn(Coming', Movers, i) =>
             \/ i = Len(Coming) + 1 /\ p.op = "tp"
             \/ i \in 1 .. Len(Coming) /\ LastIn(Coming, Movers, i)
        /\ Free(Coming', Movers) => Free(Coming, Movers) /\ p.op # "tp"
        /\ AliveN <=> Going = <<>>
    BY <1>16, <2>0
  <2>2. mishaps' \subseteq {"mistaken", "ignored"} => Q1 /\ Q3
    BY <1>11, <2>0
  <2>3. Q2
    BY <1>3, <1>4, <2>0, <2>1
  <2>4. Q4
    <3> SUFFICES ASSUME mishaps' \subseteq {"mistaken"}, AliveN, "place" \in told', Free(Coming', Movers), ~WalkingN
                 PROVE  HN(game'.cell)
      OBVIOUS
    <3>1. request = asked[1] /\ request.op # "walk"
      BY <1>11, <2>0, <2>1
    <3>2. mishaps \subseteq {"mistaken"} /\ Alive /\ "place" \in told /\ Free(Coming, Movers) /\ ~Walking
      BY <1>4, <2>0, <2>1, <3>1 DEF Alive, Walking, Walks
    <3>3. Heard(game.cell)
      BY <1>3, <3>2
    <3> QED BY <1>12, <2>0, <2>1, <3>3
  <2>7. mishaps' \subseteq {"mistaken", "ignored"} \/ (Q1 /\ Q3)
    OBVIOUS
  <2> HIDE DEF Q1, Q2, Q3, Q4
  <2> QED BY <2>2, <2>3, <2>4, <2>7
<1>18. ASSUME NEW p \in Sent, Told(p) PROVE Q
  <2>0. /\ Truly(p) /\ Coming' = Append(Coming, p) /\ Going' = Going /\ world' = world /\ told' = told
        /\ asked' = asked /\ p.op # "tp"
    BY <1>18, WiresAfter DEF Told, Saying
  <2>1. /\ game'.cell = game.cell
        /\ \A i \in 1 .. Len(Coming) : Coming'[i] = Coming[i]
        /\ \A i : LastIn(Coming', Movers, i) => i \in 1 .. Len(Coming) /\ LastIn(Coming, Movers, i)
        /\ Free(Coming', Movers) => Free(Coming, Movers)
        /\ ~Free(Coming', Movers) => ~Free(Coming, Movers)
        /\ AliveN <=> Going = <<>>
    BY <1>16, <2>0
  <2>2. Q1 /\ Q2
    BY <1>3, <1>4, <2>0, <2>1
  <2>3. Q3 /\ Q4
    BY <1>3, <1>4, <1>12, <2>0, <2>1 DEF Alive, Walking
  <2> HIDE DEF Q1, Q2, Q3, Q4
  <2> QED BY <2>2, <2>3
\* What the host reads of the server: the client has sent nothing meanwhile.
<1>19. ASSUME Read("RECV") PROVE Q
  <2>1. Going' = Going /\ Hears /\ asked' = asked /\ game' = game
    BY <1>19, WiresAfter DEF Read
  <2> SUFFICES ASSUME mishaps' \subseteq {"mistaken", "ignored"} PROVE Q
    OBVIOUS
  <2>2. Going = <<>> /\ Alive
    BY <1>19, MishapsGrow DEF Alive
  <2> PICK p : p = Head(Coming)
    OBVIOUS
  <2>3. /\ p = Coming[1] /\ p \in Sent /\ 1 \in 1 .. Len(Coming)
        /\ \A i \in 1 .. Len(Coming') : i + 1 \in 1 .. Len(Coming) /\ Coming'[i] = Coming[i + 1]
        /\ \A i : LastIn(Coming', Movers, i) => i \in 1 .. Len(Coming') /\ LastIn(Coming, Movers, i + 1)
        /\ Free(Coming', Movers) => LastIn(Coming, Movers, 1) \/ (p \notin Movers /\ Free(Coming, Movers))
    BY <2>1, HearsLast DEF Hears
  <2>4. ~Free(Coming', Movers) => ~Free(Coming, Movers)
    BY <2>3 DEF Free
  <2>5. Q1
    BY <1>3, <1>4, <2>1, <2>2, <2>4
  <2>6. Q2
    BY <1>3, <1>4, <2>1, <2>2, <2>3
  <2>7. \A c : HN(c) <=> world'.pos = c
    <3>1. Going' = <<>>
      BY <2>1, <2>2
    <3>2. Len(Going') = 0 /\ \A i : ~(i \in 1 .. Len(Going'))
      BY <3>1
    <3> QED BY <3>2 DEF HN, Free
  <2>8. \A c : Heard(c) <=> world.pos = c
    BY <2>2, HeardAll
  <2>9. Q3
    <3> SUFFICES ASSUME mishaps' \subseteq {"ignored"} \/ (mishaps' \subseteq {"mistaken"} /\ "place" \in told'), WalkingN
                 PROVE  HN(asked'[1].cell)
      OBVIOUS
    <3>1. Walking /\ asked # <<>>
      BY <2>1 DEF Walking
    <3>2. Free(Coming, Movers)
      BY <1>3, <1>4, <2>2, <3>1
    <3>3. p \notin Movers
      BY <2>3, <3>2 DEF Free
    <3>4. "place" \in told' => "place" \in told
      BY <2>1, <2>3, <3>3, SentFields, ToldWhat, MoverOps DEF Hears
    <3>5. world.self \in {None, Me}
      BY <1>4, <1>8, <3>4
    <3>6. world'.pos = world.pos
      BY <2>1, <3>3, <3>5, PosKept
    <3>7. Heard(asked[1].cell)
      BY <1>3, <1>4, <2>2, <3>1, <3>4
    <3> QED BY <2>1, <2>7, <2>8, <3>6, <3>7
  <2>10. Q4
    <3> SUFFICES ASSUME mishaps' \subseteq {"mistaken"}, "place" \in told', Free(Coming', Movers), ~WalkingN
                 PROVE  HN(game'.cell)
      OBVIOUS
    <3>1. "place" \in told \/ p.op = "at"
      BY <2>1, <2>3, SentFields, ToldWhat DEF Hears
    <3>2. CASE LastIn(Coming, Movers, 1)
      <4>1. p \in Movers
        BY <2>3, <3>2 DEF LastIn
      <4>2. p.cell = game.cell
        BY <1>3, <1>4, <2>2, <2>3, <3>2
      <4>3. world'.pos = p.cell
        BY <1>8, <2>1, <3>1, <4>1, PosMoved
      <4> QED BY <2>1, <2>7, <4>2, <4>3
    <3>3. CASE p \notin Movers /\ Free(Coming, Movers)
      <4>1. "place" \in told /\ world.self = Me
        BY <1>8, <2>3, <3>1, <3>3, MoverOps
      <4>2. world'.pos = world.pos
        BY <2>1, <3>3, <4>1, PosKept
      <4>3. ~Walking
        BY <2>1 DEF Walking
      <4>4. Heard(game.cell)
        BY <1>3, <1>4, <2>2, <3>3, <4>1, <4>3
      <4> QED BY <2>1, <2>7, <2>8, <4>2, <4>4
    <3> QED BY <2>3, <3>2, <3>3
  <2> HIDE DEF Q1, Q2, Q3, Q4
  <2> QED BY <2>5, <2>6, <2>9, <2>10
\* What the host reads of the client: the server has sent nothing meanwhile.
<1>20. ASSUME Read("SEND") PROVE Q
  <2>1. /\ Going # <<>> /\ Going' = Tail(Going) /\ Coming' = Coming /\ world' = Feed(world, Head(Going))
        /\ told' = told /\ Head(Going) \in Requests /\ asked' = asked /\ game' = game
    BY <1>20, WiresAfter DEF Read
  <2> SUFFICES ASSUME mishaps' \subseteq {"mistaken", "ignored"} PROVE Q
    OBVIOUS
  <2>2. Coming = <<>> /\ Alive
    BY <1>20, MishapsGrow DEF Alive
  <2>3. Q1 /\ Q2
    BY <1>6, <1>7, <2>1, <2>2
  <2>4. \A c : Heard(c) => HN(c)
    BY <1>H, <2>1, HeardRead
  <2>5. Q3 /\ Q4
    BY <1>3, <1>4, <2>1, <2>2, <2>4 DEF Walking
  <2> HIDE DEF Q1, Q2, Q3, Q4
  <2> QED BY <2>3, <2>5
<1>21. ASSUME Losing \/ Warped PROVE Q
  <2>1. "gap" \in mishaps' \/ "warped" \in mishaps'
    BY <1>21, MishapsGrow
  <2> QED BY <2>1
<1>22. ASSUME Aging \/ UNCHANGED vars PROVE Q
  <2>1. Going' = Going /\ Coming' = Coming
    BY <1>22, WiresAfter
  <2>2. world'.pos = world.pos /\ asked' = asked /\ told' = told /\ game' = game
    BY <1>1, <1>22 DEF Aging, Aged, Worlds, vars
  <2>3. Q1 /\ Q2
    BY <1>3, <1>4, <2>1, <2>2
  <2>4. Q3 /\ Q4
    BY <1>3, <1>4, <1>12, <2>1, <2>2 DEF Alive, Walking
  <2> HIDE DEF Q1, Q2, Q3, Q4
  <2> QED BY <2>3, <2>4
<1> HIDE DEF Q
<1> QED BY <1>10, <1>13, <1>14, <1>15, <1>17, <1>18, <1>19, <1>20, <1>21, <1>22 DEF Step

-----------------------------------------------------------------------------
(* Crossings. *)

\* Every at on the way ends a crossing that the host saw begin where the portal is.
LEMMA PortalsKept ==
  ASSUME SessionTypeOK, AskInv, PlaceInv, PortalsInv, Step
  PROVE  PortalsInv'
<1> DEFINE PO(portals) == \A p \in Places : portals[p] \in {None, Exit[p[1]][p[2]]}
           Way(s, i, m, gm) ==
             \A j \in 1 .. Len(s) :
               /\ j # i => s[j] \notin Movers
               /\ j < i /\ s[j].op = "c_map" => s[j].map = m
               /\ j > i => s[j].op # "mapout" /\ (s[j].op = "c_map" => s[j].entering /\ s[j].map = gm)
           X(s, i, m, c, gm, w) ==
             /\ Exit[m][c] = s[i].map /\ Exit[s[i].map][s[i].cell] = m /\ s[i].map = gm
             /\ Way(s, i, m, gm)
             /\ w.map \in {None, m} /\ w.pos = c /\ w.departure \in {None, <<m, c>>}
           R1(s, gm, w) == \A i \in 1 .. Len(s) : s[i].op = "at" => \E m \in Maps, c \in Cells : X(s, i, m, c, gm, w)
           Rest(s, gm) == \A i \in 1 .. Len(s) :
                            s[i].op # "mapout" /\ (s[i].op = "c_map" => s[i].entering /\ s[i].map = gm)
           R2(s, gm, w) == (\A i \in 1 .. Len(s) : s[i].op # "at") =>
                             w.departure = None /\ w.map \in {None, gm} /\ Rest(s, gm)
           R(s, gm, w) == R1(s, gm, w) /\ R2(s, gm, w)
           AliveN == Going' = <<>> \/ Coming' = <<>>
           Goal == PO(world'.portals) /\ (AliveN => R(Coming', game'.map, world'))
<1>1. /\ asked \in Seq(Requests) /\ Going \in Seq(Requests) /\ Coming \in Seq(Sent) /\ world \in Worlds
      /\ Len(Going) \in Nat /\ Len(Coming) \in Nat /\ game.map \in Maps
      /\ \A i \in 1 .. Len(Coming) : Coming[i] \in Sent
  BY WireFields, GameFields DEF SessionTypeOK
<1>2. SUFFICES ASSUME mishaps' \subseteq {"ignored"} PROVE Goal
  BY DEF PortalsInv, Crossing, Alive
<1>3. mishaps \subseteq mishaps' /\ mishaps \subseteq {"ignored"}
  BY <1>2, MishapsGrow
<1>4. PO(world.portals) /\ (Alive => R(Coming, game.map, world))
  BY <1>3 DEF PortalsInv, Crossing, Alive
<1>5. world.self \in {None, Me}
  BY <1>3 DEF AskInv
<1> HIDE DEF Goal
<1>6. ASSUME Coming' = Coming, game'.map = game.map, world'.map = world.map, world'.pos = world.pos,
             world'.departure = world.departure, world'.portals = world.portals, AliveN => Alive
      PROVE  Goal
  BY <1>4, <1>6 DEF Goal
<1>7. ASSUME NEW request \in Requests, Asking(request) PROVE Goal
  <2>1. /\ Going' = Append(Going, request) /\ Coming' = Coming /\ world' = world /\ game' = game
    BY <1>7, WiresAfter DEF Asking, Silent
  <2>2. Append(Going, request) # <<>>
    BY <1>1
  <2> QED BY <1>6, <2>1, <2>2 DEF Alive
<1>8. ASSUME NEW request \in Requests, Walked(request) \/ Ignored(request) PROVE Goal
  <2>1. Going' = Going /\ Coming' = Coming /\ world' = world /\ game'.map = game.map
    BY <1>8, WiresAfter DEF Walked, Ignored, Silent
  <2> QED BY <1>6, <2>1 DEF Alive
<1>9. ASSUME Aging \/ UNCHANGED vars PROVE Goal
  <2>1. Going' = Going /\ Coming' = Coming
    BY <1>9, WiresAfter
  <2>2. /\ world'.pos = world.pos /\ world'.map = world.map /\ world'.departure = world.departure
        /\ world'.portals = world.portals /\ game' = game
    BY <1>1, <1>9 DEF Aging, Aged, Worlds, vars
  <2> QED BY <1>6, <2>1, <2>2 DEF Alive
<1>10. ASSUME NEW request, Serving(request), Going = <<>> PROVE Free(Coming, Movers) /\ request = asked[1] /\ asked # <<>>
  <2>1. asked # <<>> /\ request = asked[1]
    BY <1>3, <1>10, ServingLast
  <2> QED BY <1>3, <1>10, <2>1 DEF PlaceInv, Settled, Alive
<1>11. Free(Coming, Movers) => \A i \in 1 .. Len(Coming) : Coming[i].op # "at"
  BY <1>1, MoverOps DEF Free
\* The walk to a portal that the host has heard of.
<1>12. ASSUME NEW request \in Requests, Went(request) PROVE Goal
  <2>1. /\ Serving(request) /\ Going' = Going /\ Comes /\ request \in Walks /\ request.cell \in Cells
        /\ game'.map = Exit[game.map][request.cell] /\ Exit[game'.map][game'.cell] = game.map
    <3>1. /\ Serving(request) /\ Going' = Going /\ Comes /\ request \in Walks /\ request.cell \in Cells
      BY <1>12, WiresAfter, RequestFields DEF Went, Walks
    <3>2. PICK m \in Maps, c \in Cells : m = Exit[game.map][request.cell] /\ Exit[m][c] = game.map /\ Moving(m, c)
      BY <1>12 DEF Went
    <3>3. game'.map = m /\ game'.cell = c
      BY <3>2 DEF Moving
    <3> QED BY <3>1, <3>2, <3>3
  <2>2. PICK r, a, m, view : Came(r, a, m, view)
    BY <2>1, ComesAs
  <2> PICK s, n : s = Coming' /\ n = Len(Coming)
    OBVIOUS
  <2>3. /\ r \in Seq(Sent) /\ a \in 1 .. Len(r) /\ a + 1 \in 1 .. Len(r) /\ Len(r) \in Nat /\ a \in Nat /\ m \in Maps
        /\ game'.map = m /\ UNCHANGED <<world, told>>
        /\ r[a].op = "at" /\ r[a].map = m /\ r[a].cell = game'.cell
        /\ r[a + 1] = [op |-> "c_map", map |-> m, entering |-> TRUE]
    BY <2>2 DEF Came
  <2>4. /\ Len(s) = n + Len(r) /\ n \in Nat
        /\ \A i \in 1 .. n : s[i] = Coming[i]
        /\ \A i \in 1 .. Len(r) : n + i \in 1 .. Len(s) /\ s[n + i] = r[i]
        /\ \A i \in 1 .. Len(s) : i \in 1 .. n \/ \E j \in 1 .. Len(r) : i = n + j
    BY <1>1, <2>2 DEF Came
  <2>5. PO(world'.portals)
    BY <1>4, <2>3
  <2>6. ASSUME AliveN PROVE R(s, m, world)
    <3>1. Going = <<>> /\ Alive
      <4>1. Len(s) # 0
        BY <2>3, <2>4
      <4> QED BY <2>1, <2>6, <4>1 DEF Alive
    <3>2. Free(Coming, Movers) /\ request = asked[1] /\ asked # <<>>
      BY <1>10, <2>1, <3>1
    <3>3. world.pos = request.cell
      <4>1. Settled({"ignored"}) /\ Walking
        BY <1>3, <2>1, <3>1, <3>2 DEF Settled, Walking
      <4>2. Heard(asked[1].cell)
        BY <4>1 DEF PlaceInv
      <4> QED BY <3>1, <3>2, <4>2, HeardAll
    <3>4. world.departure = None /\ world.map \in {None, game.map} /\ Rest(Coming, game.map)
      BY <1>4, <1>11, <3>1, <3>2
    <3>5. Way(s, n + a, game.map, m)
      <4> SUFFICES ASSUME NEW j \in 1 .. Len(s)
                   PROVE  /\ j # n + a => s[j] \notin Movers
                          /\ j < n + a /\ s[j].op = "c_map" => s[j].map = game.map
                          /\ j > n + a => s[j].op # "mapout" /\ (s[j].op = "c_map" => s[j].entering /\ s[j].map = m)
        OBVIOUS
      <4>1. CASE j \in 1 .. n
        <5>1. s[j] = Coming[j] /\ j < n + a
          BY <2>3, <2>4, <4>1
        <5>2. Coming[j] \notin Movers
          BY <3>2, <4>1 DEF Free
        <5>3. Coming[j].op = "c_map" => Coming[j].map = game.map
          BY <3>4, <4>1
        <5>4. ~(j > n + a)
          BY <2>3, <2>4, <4>1
        <5> QED BY <5>1, <5>2, <5>3, <5>4
      <4>2. ASSUME NEW k \in 1 .. Len(r), j = n + k
            PROVE  /\ j # n + a => s[j] \notin Movers
                   /\ j < n + a /\ s[j].op = "c_map" => s[j].map = game.map
                   /\ j > n + a => s[j].op # "mapout" /\ (s[j].op = "c_map" => s[j].entering /\ s[j].map = m)
        <5>1. s[j] = r[k]
          <6>1. s[n + k] = r[k]
            BY <2>4
          <6> QED BY <4>2, <6>1
        <5>2. r[k] \in Movers => k = a
          BY <2>2, ComesMovers
        <5>3. \/ k < a /\ r[k].op \in {"c_map", "mapout"} /\ (r[k].op = "c_map" => r[k].map = game.map)
              \/ k = a
              \/ k = a + 1
              \/ k \in a + 2 .. Len(r) /\ r[k].op \in {"gp", "wp", "in"}
          BY <2>2 DEF Came
        <5>4. (j # n + a => k # a) /\ (j < n + a => k < a) /\ (j > n + a => k > a)
          <6>1. n \in Nat /\ a \in Nat /\ k \in Nat
            BY <2>3, <2>4
          <6>2. \A x, y \in Nat : (n + x < n + y => x < y) /\ (n + x > n + y => x > y)
            BY <6>1
          <6> QED BY <4>2, <6>1, <6>2
        <5>5. k < a /\ r[k].op = "c_map" => r[k].map = game.map
          BY <2>3, <5>3
        <5>6. r[a + 1].op = "c_map" /\ r[a + 1].entering /\ r[a + 1].map = m
          BY <2>3
        <5>7. ASSUME k > a PROVE k = a + 1 \/ r[k].op \in {"gp", "wp", "in"}
          BY <2>3, <5>3, <5>7
        <5>8. k > a => r[k].op # "mapout" /\ (r[k].op = "c_map" => r[k].entering /\ r[k].map = m)
          BY <5>6, <5>7
        <5> QED BY <5>1, <5>2, <5>4, <5>5, <5>8
      <4> QED BY <2>4, <4>1, <4>2
    <3>6. s[n + a] = r[a]
      BY <2>3, <2>4
    <3>7. X(s, n + a, game.map, request.cell, m, world)
      BY <2>1, <2>3, <3>3, <3>4, <3>5, <3>6
    <3>8. ASSUME NEW i \in 1 .. Len(s), s[i].op = "at" PROVE i = n + a
      <4>1. s[i] \in Movers
        <5>1. s[i] \in Sent
          <6>1. CASE i \in 1 .. n
            BY <1>1, <2>4, <6>1
          <6>2. ASSUME NEW j \in 1 .. Len(r), i = n + j PROVE s[i] \in Sent
            <7>1. s[n + j] = r[j] /\ r[j] \in Sent
              BY <2>3, <2>4
            <7> QED BY <6>2, <7>1
          <6> QED BY <2>4, <6>1, <6>2
        <5> QED BY <3>8, <5>1, MoverOps
      <4> QED BY <3>5, <4>1
    <3>9. R1(s, m, world)
      <4> SUFFICES ASSUME NEW i \in 1 .. Len(s), s[i].op = "at"
                   PROVE  \E o \in Maps, c \in Cells : X(s, i, o, c, m, world)
        OBVIOUS
      <4>1. X(s, i, game.map, request.cell, m, world)
        <5>1. i = n + a
          BY <3>8
        <5> HIDE DEF X
        <5> QED BY <3>7, <5>1
      <4> HIDE DEF X
      <4> QED BY <1>1, <2>1, <4>1
    <3>10. n + a \in 1 .. Len(s) /\ s[n + a].op = "at"
      BY <2>3, <2>4, <3>6
    <3>11. R2(s, m, world)
      BY <3>10
    <3> QED BY <3>9, <3>11
  <2> HIDE DEF R, PO
  <2> QED BY <2>3, <2>5, <2>6 DEF Goal
\* What the server sends in one packet.
<1>13. ASSUME NEW p \in Sent, Truly(p), Coming' = Append(Coming, p), Going' = Going, world' = world,
              p \notin Movers \/ (Going = <<>> => Free(Coming, Movers))
       PROVE  Goal
  <2>1. p.op \notin {"c_map", "mapout", "at"} /\ game'.map = game.map
    BY <1>13 DEF Truly
  <2> PICK s, n : s = Coming' /\ n = Len(Coming)
    OBVIOUS
  <2>2. /\ Len(s) = n + 1 /\ n \in Nat /\ s[n + 1] = p /\ s # <<>>
        /\ \A i \in 1 .. n : s[i] = Coming[i] /\ i \in 1 .. Len(s)
        /\ \A i \in 1 .. Len(s) : i \in 1 .. n \/ i = n + 1
    BY <1>1, <1>13
  <2>3. ASSUME AliveN PROVE R(s, game.map, world)
    <3>1. Going = <<>> /\ Alive
      BY <1>13, <2>2, <2>3 DEF Alive
    <3>2. R1(Coming, game.map, world) /\ R2(Coming, game.map, world)
      BY <1>4, <3>1
    <3>3. R2(s, game.map, world)
      <4> SUFFICES ASSUME \A i \in 1 .. Len(s) : s[i].op # "at"
                   PROVE  world.departure = None /\ world.map \in {None, game.map} /\ Rest(s, game.map)
        OBVIOUS
      <4>1. \A i \in 1 .. n : Coming[i].op # "at"
        BY <2>2
      <4>2. world.departure = None /\ world.map \in {None, game.map} /\ Rest(Coming, game.map)
        BY <3>2, <4>1
      <4>3. Rest(s, game.map)
        BY <2>1, <2>2, <4>2
      <4> QED BY <4>2, <4>3
    <3>4. ASSUME NEW i \in 1 .. Len(s), s[i].op = "at"
          PROVE  \E m \in Maps, c \in Cells : X(s, i, m, c, game.map, world)
      <4>1. i \in 1 .. n /\ Coming[i].op = "at" /\ s[i] = Coming[i]
        BY <2>1, <2>2, <3>4
      <4>2. p \notin Movers
        <5>1. Coming[i] \in Movers
          BY <1>1, <4>1, MoverOps
        <5> QED BY <1>13, <3>1, <4>1, <5>1 DEF Free
      <4>3. PICK m \in Maps, c \in Cells : X(Coming, i, m, c, game.map, world)
        BY <3>2, <4>1
      <4>4. n + 1 > i /\ ~(n + 1 < i)
        BY <2>2, <4>1
      <4>5. Way(s, i, m, game.map)
        <5> SUFFICES ASSUME NEW j \in 1 .. Len(s)
                     PROVE  /\ j # i => s[j] \notin Movers
                            /\ j < i /\ s[j].op = "c_map" => s[j].map = m
                            /\ j > i => s[j].op # "mapout" /\ (s[j].op = "c_map" => s[j].entering /\ s[j].map = game.map)
          OBVIOUS
        <5>1. CASE j \in 1 .. n
          BY <2>2, <4>3, <5>1
        <5>2. CASE j = n + 1
          BY <2>1, <2>2, <4>2, <4>4, <5>2
        <5> QED BY <2>2, <5>1, <5>2
      <4>6. X(s, i, m, c, game.map, world)
        BY <4>1, <4>3, <4>5
      <4> QED BY <4>6
    <3> QED BY <3>3, <3>4
  <2> HIDE DEF R, PO
  <2> QED BY <1>4, <1>13, <2>1, <2>3 DEF Goal
<1>14. ASSUME NEW request \in Requests, NEW p \in Sent, Replied(request, p) PROVE Goal
  <2>1. /\ Serving(request) /\ Truly(p) /\ Coming' = Append(Coming, p) /\ Going' = Going /\ world' = world
    BY <1>14, WiresAfter DEF Replied, Saying
  <2>2. Going = <<>> => Free(Coming, Movers)
    BY <1>10, <2>1
  <2> QED BY <1>13, <2>1, <2>2
<1>15. ASSUME NEW p \in Sent, Told(p) PROVE Goal
  <2>1. Truly(p) /\ Coming' = Append(Coming, p) /\ Going' = Going /\ world' = world /\ p.op # "tp"
    BY <1>15, WiresAfter DEF Told, Saying
  <2>2. p \notin Movers
    BY <2>1, MoverOps DEF Truly
  <2> QED BY <1>13, <2>1, <2>2
<1>16. ASSUME Warped \/ Losing PROVE Goal
  BY <1>2, <1>16, MishapsGrow
\* What the host reads of the server.
<1>17. ASSUME Read("RECV") PROVE Goal
  <2>1. Going' = Going /\ Hears /\ game' = game /\ Going = <<>> /\ Alive
    <3>1. Going' = Going /\ Hears /\ game' = game
      BY <1>17, WiresAfter DEF Read
    <3>2. Going = <<>>
      BY <1>2, <1>17, MishapsGrow
    <3> QED BY <3>1, <3>2 DEF Alive
  <2> PICK p, s, n : p = Head(Coming) /\ s = Coming' /\ n = Len(Coming)
    OBVIOUS
  <2>2. /\ p = Coming[1] /\ p \in Sent /\ Len(s) = n - 1 /\ n \in Nat /\ 1 \in 1 .. n
        /\ \A i \in 1 .. Len(s) : i + 1 \in 1 .. n /\ s[i] = Coming[i + 1]
    <3> PICK T : T = {}
      OBVIOUS
    <3> QED BY <2>1, HearsLast DEF Hears
  <2>3. world' = Feed(world, p)
    BY <2>1 DEF Hears
  <2>4. R1(Coming, game.map, world) /\ R2(Coming, game.map, world)
    BY <1>4, <2>1
  <2>5. \A i \in 1 .. Len(s) : i + 1 # 1 /\ i + 1 > 1
    BY <2>2
  <2>6. /\ world'.map = (IF p.op \in {"c_map", "at"} THEN p.map ELSE world.map)
        /\ world'.departure =
             CASE p.op = "at" -> None
               [] /\ p.op = "mapout" \/ (p.op = "c_map" /\ ~p.entering)
                  /\ world.map # None /\ world.pos # None -> <<world.map, world.pos>>
               [] OTHER -> world.departure
        /\ world'.portals = (IF p.op = "at" THEN Crossed(world, p) ELSE world.portals)
    <3>1. p \in Setters <=> p.op \in {"c_map", "at"}
      BY <2>2 DEF Setters
    <3>2. world'.map = IF p \in Setters THEN p.map ELSE world.map
      BY <1>1, <2>2, <2>3, FedMap
    <3>3. /\ world'.departure =
             CASE p.op = "at" -> None
               [] /\ p.op = "mapout" \/ (p.op = "c_map" /\ ~p.entering)
                  /\ world.map # None /\ world.pos # None -> <<world.map, world.pos>>
               [] OTHER -> world.departure
          /\ world'.portals = (IF p.op = "at" THEN Crossed(world, p) ELSE world.portals)
      BY <1>1, <2>2, <2>3, FedPlace
    <3> QED BY <3>1, <3>2, <3>3
  <2>7. CASE p.op = "at"
    <3>1. PICK m \in Maps, c \in Cells : X(Coming, 1, m, c, game.map, world)
      BY <2>2, <2>4, <2>7
    <3>2. PO(world'.portals)
      <4>1. /\ world.portals \in [Places -> Maps \cup {None}] /\ m \in Maps /\ c \in Cells
            /\ p.map \in Maps /\ p.cell \in Cells /\ world.departure \in {None, <<m, c>>}
            /\ Exit[m][c] = p.map /\ Exit[p.map][p.cell] = m
        BY <1>1, <2>2, <2>7, <3>1, SentFields DEF Worlds
      <4>2. world'.portals = IF world.departure = None \/ world.departure[1] = p.map THEN world.portals
                             ELSE [world.portals EXCEPT ![world.departure] = p.map,
                                                        ![<<p.map, p.cell>>] = world.departure[1]]
        BY <2>6, <2>7 DEF Crossed
      <4>3. CASE world.departure = None \/ world.departure[1] = p.map
        BY <1>4, <4>2, <4>3
      <4>4. CASE world.departure = <<m, c>> /\ ~(world.departure = None \/ world.departure[1] = p.map)
        <5>1. world'.portals = [world.portals EXCEPT ![<<m, c>>] = p.map, ![<<p.map, p.cell>>] = m]
          BY <4>2, <4>4
        <5>2. ASSUME NEW q \in Places PROVE world'.portals[q] \in {None, Exit[q[1]][q[2]]}
          <6>1. CASE q = <<p.map, p.cell>>
            <7>1. world'.portals[q] = m /\ q[1] = p.map /\ q[2] = p.cell
              BY <4>1, <5>1, <6>1
            <7> QED BY <4>1, <7>1
          <6>2. CASE q # <<p.map, p.cell>> /\ q = <<m, c>>
            <7>1. world'.portals[q] = p.map /\ q[1] = m /\ q[2] = c
              BY <4>1, <5>1, <6>2
            <7> QED BY <4>1, <7>1
          <6>3. CASE q # <<p.map, p.cell>> /\ q # <<m, c>>
            <7>1. world'.portals[q] = world.portals[q]
              BY <4>1, <5>1, <6>3
            <7> QED BY <1>4, <7>1
          <6> QED BY <6>1, <6>2, <6>3
        <5> QED BY <5>2
      <4> QED BY <4>1, <4>3, <4>4
    <3>3. \A i \in 1 .. Len(s) : s[i] \notin Movers /\ s[i].op # "mapout"
                                /\ (s[i].op = "c_map" => s[i].entering /\ s[i].map = game.map)
      BY <2>2, <2>5, <3>1
    <3>4. \A i \in 1 .. Len(s) : s[i].op # "at"
      BY <1>1, <2>2, <3>3, MoverOps
    <3>5. world'.map = game.map /\ world'.departure = None
      BY <2>2, <2>6, <2>7, <3>1
    <3>6. R(s, game.map, world')
      BY <3>3, <3>4, <3>5
    <3> HIDE DEF R, PO
    <3> QED BY <2>1, <3>2, <3>6 DEF Goal
  <2>8. CASE p.op # "at"
    <3>1. PO(world'.portals)
      BY <1>4, <2>6, <2>8
    <3>2. R2(s, game.map, world')
      <4> SUFFICES ASSUME \A i \in 1 .. Len(s) : s[i].op # "at"
                   PROVE  world'.departure = None /\ world'.map \in {None, game.map} /\ Rest(s, game.map)
        OBVIOUS
      <4>1. ASSUME NEW i \in 1 .. n PROVE Coming[i].op # "at"
        <5>1. CASE i = 1
          BY <2>2, <2>8, <5>1
        <5>2. CASE i # 1
          <6>1. i - 1 \in 1 .. Len(s) /\ (i - 1) + 1 = i
            BY <2>2, <5>2
          <6> QED BY <2>2, <6>1
        <5> QED BY <5>1, <5>2
      <4>2. world.departure = None /\ world.map \in {None, game.map} /\ Rest(Coming, game.map)
        BY <2>4, <4>1
      <4>3. p.op # "mapout" /\ (p.op = "c_map" => p.entering /\ p.map = game.map)
        BY <2>2, <4>2
      <4>4. world'.departure = None /\ world'.map \in {None, game.map}
        BY <2>6, <2>8, <4>2, <4>3
      <4>5. Rest(s, game.map)
        BY <2>2, <4>2
      <4> QED BY <4>4, <4>5
    <3>3. ASSUME NEW i \in 1 .. Len(s), s[i].op = "at"
          PROVE  \E m \in Maps, c \in Cells : X(s, i, m, c, game.map, world')
      <4>1. i + 1 \in 1 .. n /\ s[i] = Coming[i + 1] /\ i + 1 # 1 /\ 1 < i + 1 /\ i \in Nat
        BY <2>2, <2>5
      <4>2. PICK m \in Maps, c \in Cells : X(Coming, i + 1, m, c, game.map, world)
        BY <2>4, <3>3, <4>1
      <4>3. p \notin Movers /\ (p.op = "c_map" => p.map = m)
        BY <2>2, <4>1, <4>2
      <4>4. world'.pos = world.pos
        BY <1>5, <2>1, <4>3, PosKept
      <4>5. world'.map \in {None, m} /\ world'.pos = c /\ world'.departure \in {None, <<m, c>>}
        <5>1. world.map \in {None, m} /\ world.pos = c /\ world.departure \in {None, <<m, c>>}
          BY <4>2
        <5>2. world'.map \in {None, m}
          BY <2>6, <2>8, <4>3, <5>1
        <5>3. world'.departure \in {None, <<m, c>>}
          BY <2>6, <2>8, <5>1
        <5> QED BY <4>4, <5>1, <5>2, <5>3
      <4>6. Way(s, i, m, game.map)
        <5> SUFFICES ASSUME NEW j \in 1 .. Len(s)
                     PROVE  /\ j # i => s[j] \notin Movers
                            /\ j < i /\ s[j].op = "c_map" => s[j].map = m
                            /\ j > i => s[j].op # "mapout" /\ (s[j].op = "c_map" => s[j].entering /\ s[j].map = game.map)
          OBVIOUS
        <5>1. j + 1 \in 1 .. n /\ s[j] = Coming[j + 1]
          BY <2>2
        <5>2. (j # i => j + 1 # i + 1) /\ (j < i => j + 1 < i + 1) /\ (j > i => j + 1 > i + 1)
          BY <4>1
        <5> QED BY <4>2, <5>1, <5>2
      <4>7. X(s, i, m, c, game.map, world')
        BY <4>1, <4>2, <4>5, <4>6
      <4> QED BY <4>7
    <3>4. R(s, game.map, world')
      BY <3>2, <3>3
    <3> HIDE DEF R, PO
    <3> QED BY <2>1, <3>1, <3>4 DEF Goal
  <2> QED BY <2>7, <2>8
\* What the host reads of the client.
<1>18. ASSUME Read("SEND") PROVE Goal
  <2>1. /\ Coming' = Coming /\ world' = Feed(world, Head(Going)) /\ Head(Going) \in Requests /\ game' = game
    BY <1>18, WiresAfter DEF Read
  <2>2. Coming = <<>> /\ Alive
    <3>1. Coming = <<>>
      BY <1>2, <1>18, MishapsGrow
    <3> QED BY <3>1 DEF Alive
  <2>3. world'.map = world.map /\ world'.portals = world.portals /\ world'.departure = world.departure
    BY <1>1, <2>1, FedSends
  <2>4. Len(Coming) = 0 /\ \A i : ~(i \in 1 .. Len(Coming))
    BY <2>2
  <2>5. R2(Coming, game.map, world)
    BY <1>4, <2>2
  <2>6. R(Coming, game.map, world')
    BY <2>3, <2>4, <2>5
  <2> HIDE DEF R
  <2> QED BY <1>4, <2>1, <2>3, <2>6 DEF Goal
<1> QED BY <1>7, <1>8, <1>9, <1>12, <1>14, <1>15, <1>16, <1>17, <1>18 DEF Step

-----------------------------------------------------------------------------
(* Skills. *)

\* No hit and no list of skills comes with a change of map.
LEMMA ComesSkills ==
  ASSUME SessionTypeOK, NEW r, NEW a, NEW m, NEW view, Came(r, a, m, view)
  PROVE  \A i \in 1 .. Len(Coming') : Coming'[i].op \in {"su", "ski"} => i \in 1 .. Len(Coming) /\ Coming'[i] = Coming[i]
<1> PICK s, n : s = Coming' /\ n = Len(Coming)
  OBVIOUS
<1>1. /\ \A i \in 1 .. n : s[i] = Coming[i]
      /\ \A i \in 1 .. Len(r) : s[n + i] = r[i]
      /\ \A i \in 1 .. Len(s) : i \in 1 .. n \/ \E j \in 1 .. Len(r) : i = n + j
      /\ r[a].op = "at" /\ r[a + 1] = [op |-> "c_map", map |-> m, entering |-> TRUE]
  BY DEF Came
<1>2. ASSUME NEW j \in 1 .. Len(r) PROVE r[j].op \notin {"su", "ski"}
  <2>1. \/ r[j].op \in {"c_map", "mapout"}
        \/ j = a
        \/ j = a + 1
        \/ r[j].op \in {"gp", "wp", "in"}
    BY DEF Came
  <2>2. r[a + 1].op = "c_map"
    BY <1>1
  <2> QED BY <1>1, <2>1, <2>2
<1>3. ASSUME NEW i \in 1 .. Len(s), s[i].op \in {"su", "ski"} PROVE i \in 1 .. n /\ s[i] = Coming[i]
  <2>1. CASE i \in 1 .. n
    BY <1>1, <2>1
  <2>2. ASSUME NEW j \in 1 .. Len(r), i = n + j PROVE FALSE
    <3>1. s[n + j] = r[j]
      BY <1>1
    <3> QED BY <1>2, <1>3, <2>2, <3>1
  <2> QED BY <1>1, <2>1, <2>2
<1> QED BY <1>3

\* A hit of the own character answers the one request that was on the way.
LEMMA SkillsKept ==
  ASSUME SessionTypeOK, AskInv, SkillsInv, Step
  PROVE  SkillsInv'
<1> DEFINE Learnt(w) == (\A s \in Slots : w.learned[s] \in {None, Skill[s]}) /\ w.basic \in {None, Skill[0]}
           Lists(c)  == \A i \in 1 .. Len(c) : c[i].op = "ski" => c[i].first = Skill[0]
           Hits(c, a, w) == \A i \in 1 .. Len(c) : c[i].op = "su" /\ c[i].by = Me =>
                              a = <<>> /\ (w.pending # None => c[i].vnum = Skill[w.pending])
           Slot(a, w) == a # <<>> /\ a[1].op = "u_s" => w.pending \in {None, a[1].slot}
           Goal == /\ Learnt(world') /\ Lists(Coming')
                   /\ Going' = <<>> => Hits(Coming', asked', world') /\ Slot(asked', world')
<1>1. /\ asked \in Seq(Requests) /\ Going \in Seq(Requests) /\ Coming \in Seq(Sent) /\ world \in Worlds
      /\ Len(Coming) \in Nat /\ \A i \in 1 .. Len(Coming) : Coming[i] \in Sent
  BY WireFields DEF SessionTypeOK
<1>2. SUFFICES ASSUME mishaps' \cap {"gap", "overtaken", "overlapped", "mistaken"} = {} PROVE Goal
  BY DEF SkillsInv, Paired
<1>3. mishaps \subseteq mishaps' /\ mishaps \cap {"gap", "overtaken", "overlapped", "mistaken"} = {}
  BY <1>2, MishapsGrow
<1>4. /\ Learnt(world) /\ Lists(Coming)
      /\ Going = <<>> => Hits(Coming, asked, world) /\ Slot(asked, world)
  BY <1>3 DEF SkillsInv, Paired
<1>5. world.self \in {None, Me}
  BY <1>3 DEF AskInv
<1>6. Skill \in [Slots -> Vnums] /\ 0 \in Slots /\ None \notin Slots
  BY SessionAssumption, OthersIds
<1> HIDE DEF Goal
<1>7. ASSUME NEW request \in Requests, Asking(request) PROVE Goal
  <2>1. Going' = Append(Going, request) /\ Coming' = Coming /\ world' = world
    BY <1>7, WiresAfter DEF Asking, Silent
  <2>2. Append(Going, request) # <<>>
    BY <1>1
  <2> QED BY <1>4, <2>1, <2>2 DEF Goal
<1>8. ASSUME NEW request, Serving(request) PROVE asked' = <<>> /\ request = asked[1] /\ asked # <<>>
  BY <1>3, <1>8, ServingLast
<1>9. ASSUME NEW request \in Requests, Walked(request) \/ Ignored(request) PROVE Goal
  <2>1. Going' = Going /\ Coming' = Coming /\ world' = world /\ asked' = <<>>
    BY <1>8, <1>9, WiresAfter DEF Walked, Ignored, Silent
  <2> QED BY <1>4, <2>1 DEF Goal
<1>10. ASSUME Comes, Going' = Going, asked' = asked \/ asked' = <<>> PROVE Goal
  <2>1. PICK r, a, m, view : Came(r, a, m, view)
    BY <1>10, ComesAs
  <2>2. \A i \in 1 .. Len(Coming') : Coming'[i].op \in {"su", "ski"} => i \in 1 .. Len(Coming) /\ Coming'[i] = Coming[i]
    BY <2>1, ComesSkills
  <2>3. world' = world
    BY <1>10 DEF Comes
  <2> QED BY <1>4, <1>10, <2>2, <2>3 DEF Goal
<1>11. ASSUME NEW request \in Requests, Went(request) PROVE Goal
  <2>1. Comes /\ Going' = Going /\ Serving(request)
    BY <1>11, WiresAfter DEF Went
  <2> QED BY <1>8, <1>10, <2>1
<1>12. ASSUME Warped PROVE Goal
  <2>1. Comes /\ Going' = Going /\ asked' = asked
    BY <1>12, WiresAfter DEF Warped
  <2> QED BY <1>10, <2>1
<1>13. ASSUME NEW p \in Sent, Coming' = Append(Coming, p)
       PROVE  /\ Len(Coming') = Len(Coming) + 1 /\ Coming'[Len(Coming) + 1] = p
              /\ \A i \in 1 .. Len(Coming') : i = Len(Coming) + 1 \/ (i \in 1 .. Len(Coming) /\ Coming'[i] = Coming[i])
  <2>1. /\ Len(Append(Coming, p)) = Len(Coming) + 1 /\ Append(Coming, p)[Len(Coming) + 1] = p
        /\ \A i \in 1 .. Len(Coming) : Append(Coming, p)[i] = Coming[i]
    BY <1>1
  <2>2. \A i \in 1 .. Len(Coming) + 1 : i = Len(Coming) + 1 \/ i \in 1 .. Len(Coming)
    BY <1>1
  <2> QED BY <1>13, <2>1, <2>2
<1>14. ASSUME NEW p \in Sent, Truly(p), Coming' = Append(Coming, p), world' = world PROVE Learnt(world') /\ Lists(Coming')
  <2>1. p.op = "ski" => p.first = Skill[0]
    BY <1>14 DEF Truly
  <2> QED BY <1>4, <1>13, <1>14, <2>1
<1>15. ASSUME NEW request \in Requests, NEW p \in Sent, Replied(request, p) PROVE Goal
  <2>1. /\ Serving(request) /\ Truly(p) /\ Coming' = Append(Coming, p) /\ Going' = Going /\ world' = world
        /\ p.op = "su" => request.op = "u_s" /\ p.vnum = Skill[request.slot]
    BY <1>15, WiresAfter DEF Replied, Saying
  <2>2. asked' = <<>> /\ request = asked[1] /\ asked # <<>>
    BY <1>8, <2>1
  <2>3. ASSUME Going = <<>>, NEW i \in 1 .. Len(Coming'), Coming'[i].op = "su", Coming'[i].by = Me, world.pending # None
        PROVE  Coming'[i].vnum = Skill[world.pending]
    <3>1. Hits(Coming, asked, world) /\ Slot(asked, world)
      BY <1>4, <2>3
    <3>2. i = Len(Coming) + 1
      BY <1>13, <2>1, <2>2, <2>3, <3>1
    <3>3. Coming'[i] = p
      BY <1>13, <2>1, <3>2
    <3>4. world.pending = request.slot
      BY <2>1, <2>2, <2>3, <3>1, <3>3
    <3> QED BY <2>1, <2>3, <3>3, <3>4
  <2> QED BY <1>14, <2>1, <2>2, <2>3 DEF Goal
<1>16. ASSUME NEW p \in Sent, Told(p) PROVE Goal
  <2>1. /\ Truly(p) /\ Coming' = Append(Coming, p) /\ Going' = Going /\ world' = world /\ asked' = asked
        /\ ~(p.op = "su" /\ p.by = Me)
    BY <1>16, WiresAfter DEF Told, Saying
  <2>2. \A i \in 1 .. Len(Coming') : Coming'[i].op = "su" /\ Coming'[i].by = Me =>
          i \in 1 .. Len(Coming) /\ Coming'[i] = Coming[i]
    BY <1>13, <2>1
  <2> QED BY <1>4, <1>14, <2>1, <2>2 DEF Goal
<1>17. ASSUME Losing PROVE Goal
  BY <1>2, <1>17, MishapsGrow
<1>18. ASSUME Aging \/ UNCHANGED vars PROVE Goal
  <2>1. Going' = Going /\ Coming' = Coming
    BY <1>18, WiresAfter
  <2>2. world'.learned = world.learned /\ world'.basic = world.basic /\ world'.pending \in {None, world.pending} /\ asked' = asked
    BY <1>1, <1>18 DEF Aging, Aged, Worlds, vars
  <2> QED BY <1>4, <2>1, <2>2 DEF Goal
\* What the host reads of the server.
<1>19. ASSUME Read("RECV") PROVE Goal
  <2>1. Going' = Going /\ Hears /\ asked' = asked /\ Going = <<>>
    <3>1. Going' = Going /\ Hears /\ asked' = asked
      BY <1>19, WiresAfter DEF Read
    <3>2. Going = <<>>
      BY <1>2, <1>19, MishapsGrow
    <3> QED BY <3>1, <3>2
  <2> PICK p, s, n : p = Head(Coming) /\ s = Coming' /\ n = Len(Coming)
    OBVIOUS
  <2>2. /\ p = Coming[1] /\ p \in Sent /\ 1 \in 1 .. n
        /\ \A i \in 1 .. Len(s) : i + 1 \in 1 .. n /\ s[i] = Coming[i + 1]
    <3> PICK T : T = {}
      OBVIOUS
    <3> QED BY <2>1, HearsLast DEF Hears
  <2>3. Hits(Coming, asked, world) /\ Slot(asked, world)
    BY <1>4, <2>1
  <2> DEFINE paired == p.op = "su" /\ world.self # None /\ p.by = world.self /\ world.pending # None
  <2>4. /\ world'.pending = (IF paired THEN None ELSE world.pending)
        /\ world'.learned = (IF paired THEN [world.learned EXCEPT ![world.pending] = p.vnum] ELSE world.learned)
        /\ world'.basic = CASE paired /\ world.pending = 0 -> p.vnum
                            [] p.op = "ski" /\ world.basic = None -> p.first
                            [] OTHER -> world.basic
    <3>1. world' = Feed(world, p)
      BY <2>1 DEF Hears
    <3> QED BY <1>1, <2>2, <3>1, FedSkills
  <2>5. paired => p.vnum = Skill[world.pending]
    BY <1>5, <2>2, <2>3
  <2>6. p.op = "ski" => p.first = Skill[0]
    BY <1>4, <2>2
  <2>7. world.learned \in [Slots -> Vnums \cup {None}] /\ world.pending \in Slots \cup {None}
    BY <1>1 DEF Worlds
  <2> HIDE DEF paired
  <2>8. \A t \in Slots : world'.learned[t] \in {None, Skill[t]}
    BY <1>4, <2>4, <2>5, <2>7
  <2>9. world'.basic \in {None, Skill[0]}
    BY <1>4, <2>4, <2>5, <2>6
  <2>10. Lists(s)
    BY <1>4, <2>2
  <2>11. Hits(s, asked, world')
    BY <2>2, <2>3, <2>4
  <2>12. Slot(asked, world')
    BY <2>3, <2>4
  <2> QED BY <2>1, <2>8, <2>9, <2>10, <2>11, <2>12 DEF Goal
\* What the host reads of the client: the last it reads is what is asked.
<1>20. ASSUME Read("SEND") PROVE Goal
  <2>1. /\ Going # <<>> /\ Going' = Tail(Going) /\ Coming' = Coming /\ world' = Feed(world, Head(Going))
        /\ Head(Going) \in Requests /\ asked' = asked
    BY <1>20, WiresAfter DEF Read
  <2>2. Coming = <<>> /\ \A i : ~(i \in 1 .. Len(Coming))
    <3>1. Coming = <<>>
      BY <1>2, <1>20, MishapsGrow
    <3>2. Len(Coming) = 0
      BY <3>1
    <3> QED BY <3>1, <3>2
  <2>3. /\ world'.learned = world.learned /\ world'.basic = world.basic
        /\ world'.pending = IF Head(Going).op = "u_s" THEN Head(Going).slot ELSE world.pending
    BY <1>1, <2>1, FedSends
  <2>4. ASSUME Going' = <<>>, asked # <<>>, asked[1].op = "u_s" PROVE world'.pending = asked[1].slot
    <3>1. Going[Len(Going)] = Head(Going)
      BY <1>1, <2>1, <2>4, TailEnd
    <3>2. Going[Len(Going)] = asked[1]
      <4>1. mishaps \cap {"gap", "overtaken", "overlapped"} = {}
        BY <1>3
      <4> QED BY <2>1, <2>4, <4>1 DEF AskInv
    <3> QED BY <2>3, <2>4, <3>1, <3>2
  <2> QED BY <1>4, <2>1, <2>2, <2>3, <2>4 DEF Goal
<1> QED BY <1>7, <1>9, <1>11, <1>12, <1>15, <1>16, <1>17, <1>18, <1>19, <1>20 DEF Step

-----------------------------------------------------------------------------
(* The theorems. *)

LEMMA SessionInit ==
  ASSUME Init
  PROVE  SessionInv
<1>1. /\ game \in Games /\ asked = <<>> /\ Going = <<>> /\ Coming = <<>> /\ mishaps = {} /\ count = 0
      /\ wire = [SEND |-> <<>>, RECV |-> <<>>]
      /\ world \in {NewWorld, Following(game)}
      /\ (world = NewWorld /\ told = {}) \/ (world = Following(game) /\ told = {"place", "map"})
  <2>1. /\ game \in Starts /\ asked = <<>> /\ mishaps = {} /\ count = 0 /\ wire = [SEND |-> <<>>, RECV |-> <<>>]
        /\ (world = NewWorld /\ told = {}) \/ (world = Following(game) /\ told = {"place", "map"})
    BY DEF Init
  <2>2. game \in Games
    BY <2>1, SessionAssumption
  <2>3. wire.SEND = <<>> /\ wire.RECV = <<>>
    BY <2>1
  <2>4. Going = <<>> /\ Coming = <<>>
    BY <2>3 DEF Going, Coming
  <2> QED BY <2>1, <2>2, <2>4
<1>2. /\ game.map \in Maps /\ game.cell \in Cells /\ game.near \in Views /\ game.drops \subseteq Drops
      /\ \A id \in Others : game.near[id] \in Cells \cup {None}
  BY <1>1 DEF Games, Views
<1>3. NewWorld \in Worlds
  BY NoneAssumption DEF NewWorld, Worlds, Unseen, Postures
<1>4. /\ Following(game) \in Worlds /\ Following(game).map = game.map /\ Following(game).pos = game.cell
      /\ Following(game).self = Me /\ Following(game).drops = game.drops
      /\ Following(game).entities = [id \in Ids |-> IF id = Me THEN None ELSE game.near[id]]
      /\ Following(game).gates = [p \in Places |-> IF p[1] = game.map THEN Exit[game.map][p[2]] ELSE None]
      /\ Following(game).spaces = {game.map} \X Stones[game.map]
      /\ Following(game).portals = [p \in Places |-> None] /\ Following(game).departure = None
      /\ Following(game).learned = [s \in Slots |-> None] /\ Following(game).basic = None
  <2> DEFINE ents == [id \in Ids |-> IF id = Me THEN None ELSE game.near[id]]
             gates == [p \in Places |-> IF p[1] = game.map THEN Exit[game.map][p[2]] ELSE None]
  <2>1. ents \in [Ids -> Cells \cup {None}]
    BY <1>2 DEF Others
  <2>2. gates \in [Places -> Maps \cup {None}]
    BY <1>2, SessionAssumption DEF Places
  <2>3. {game.map} \X Stones[game.map] \subseteq Places
    BY <1>2, SessionAssumption DEF Places
  <2> HIDE DEF ents, gates
  <2>4. Following(game) = [NewWorld EXCEPT !.map = game.map, !.pos = game.cell, !.self = Me, !.drops = game.drops,
                             !.entities = ents, !.gates = gates, !.spaces = {game.map} \X Stones[game.map]]
    BY DEF Following, ents, gates
  <2>5. Following(game) \in Worlds
    BY <1>2, <1>3, <2>1, <2>2, <2>3, <2>4, OthersIds DEF Worlds
  <2> QED BY <2>4, <2>5 DEF ents, gates, NewWorld
<1>5. /\ Len(Coming) = 0 /\ Len(Going) = 0 /\ Len(asked) = 0
      /\ (\A i : ~(i \in 1 .. Len(Coming))) /\ (\A i : ~(i \in 1 .. Len(Going)))
      /\ \A T : Free(Coming, T) /\ Free(Going, T)
  BY <1>1 DEF Free
<1>6. SessionTypeOK
  BY <1>1, <1>3, <1>4 DEF SessionTypeOK, Mishaps
<1>7. Followed /\ ViewInv /\ DropsInv
  <2>1. ASSUME "map" \in told PROVE world = Following(game)
    BY <1>1, <2>1
  <2>2. "map" \in told => \A id \in Others : world.entities[id] = game.near[id]
    BY <1>4, <2>1 DEF Others
  <2> QED BY <1>4, <1>5, <2>1, <2>2 DEF Followed, ViewInv, DropsInv
<1>8. ListInv
  BY <1>5 DEF ListInv
<1>9. GatesInv
  <2>1. ASSUME NEW p \in Places
        PROVE  /\ world.gates[p] \in {None, Exit[p[1]][p[2]]}
               /\ p \in world.spaces => p[2] \in Stones[p[1]]
    <3>1. CASE world = NewWorld
      BY <2>1, <3>1 DEF NewWorld
    <3>2. CASE world = Following(game)
      <4>1. world.gates[p] = (IF p[1] = game.map THEN Exit[game.map][p[2]] ELSE None)
        BY <1>4, <3>2
      <4>2. p \in {game.map} \X Stones[game.map] => p[1] = game.map /\ p[2] \in Stones[game.map]
        OBVIOUS
      <4> QED BY <1>4, <3>2, <4>1, <4>2
    <3> QED BY <1>1, <3>1, <3>2
  <2>2. ASSUME "map" \in told, NEW p \in Listed(game.map) PROVE Knows(p)
    <3>1. world = Following(game)
      BY <1>1, <2>2
    <3>2. CASE \E e \in Cells : Exit[game.map][e] # None /\ p = [op |-> "gp", cell |-> e, to |-> Exit[game.map][e]]
      <4>1. PICK e \in Cells : p = [op |-> "gp", cell |-> e, to |-> Exit[game.map][e]]
        BY <3>2
      <4>2. <<game.map, e>> \in Places
        BY <1>2 DEF Places
      <4>3. world.gates[<<game.map, e>>] = Exit[game.map][e]
        BY <1>4, <3>1, <4>2
      <4> QED BY <1>4, <3>1, <4>1, <4>3 DEF Knows
    <3>3. CASE \E e \in Stones[game.map] : p = [op |-> "wp", cell |-> e]
      BY <1>4, <3>1, <3>3 DEF Knows
    <3> QED BY <2>2, <3>2, <3>3 DEF Listed
  <2>3. "map" \in told => world.map = game.map
    BY <1>1, <1>4
  <2> QED BY <1>5, <2>1, <2>2, <2>3 DEF GatesInv
<1>10. RestInv
  BY <1>1, <1>4, <1>5 DEF RestInv
<1>11. world.self \in {None, Me}
  BY <1>1, <1>4 DEF NewWorld
<1>12. AskInv
  BY <1>1, <1>5, <1>11 DEF AskInv
<1>13. PlaceInv
  <2>1. "place" \in told => world.pos = game.cell
    BY <1>1, <1>4
  <2> QED BY <1>1, <1>5, <2>1 DEF PlaceInv, Walking, Heard
<1>14. PortalsInv
  <2>1. (\A p \in Places : world.portals[p] = None) /\ world.departure = None /\ world.map \in {None, game.map}
    BY <1>1, <1>4 DEF NewWorld
  <2> QED BY <1>5, <2>1 DEF PortalsInv
<1>15. SkillsInv
  <2>1. (\A s \in Slots : world.learned[s] = None) /\ world.basic = None
    BY <1>1, <1>4 DEF NewWorld
  <2> QED BY <1>1, <1>5, <2>1 DEF SkillsInv
<1> QED BY <1>6, <1>7, <1>8, <1>9, <1>10, <1>12, <1>13, <1>14, <1>15 DEF SessionInv

LEMMA SessionKept ==
  ASSUME SessionInv, [Next]_vars
  PROVE  SessionInv'
<1>1. /\ SessionTypeOK /\ Followed /\ ViewInv /\ DropsInv /\ ListInv /\ GatesInv /\ RestInv
      /\ AskInv /\ PlaceInv /\ PortalsInv /\ SkillsInv
  BY DEF SessionInv
<1>2. Step /\ Sight
  BY <1>1, Steps, Sights
<1>3. SessionTypeOK' /\ Followed' /\ ViewInv' /\ DropsInv'
  BY <1>1, <1>2, TypeKept, FollowedKept, ViewKept, DropsKept
<1>4. ListInv' /\ GatesInv' /\ RestInv'
  BY <1>1, <1>2, ListKept, GatesKept, RestKept
<1>5. AskInv' /\ PlaceInv' /\ PortalsInv' /\ SkillsInv'
  BY <1>1, <1>2, AskKept, PlaceKept, PortalsKept, SkillsKept
<1> QED BY <1>3, <1>4, <1>5 DEF SessionInv

\* What the packets on the way will tell is the truth of the game, in every state of every game.
THEOREM SessionInvariant == Spec => []SessionInv
<1>1. Init => SessionInv
  BY SessionInit
<1>2. SessionInv /\ [Next]_vars => SessionInv'
  BY SessionKept
<1> QED BY <1>1, <1>2, PTL DEF Spec

\* With nothing left to read, no packet of a kind is on the way.
LEMMA AllRead ==
  ASSUME wire.RECV = <<>>
  PROVE  Coming = <<>> /\ \A T : Free(Coming, T)
<1>1. Coming = <<>> /\ Len(Coming) = 0
  BY DEF Coming
<1> QED BY <1>1 DEF Free

LEMMA ViewFollows == SessionInv => ViewIsCurrent
<1> SUFFICES ASSUME SessionInv, "map" \in told, wire.RECV = <<>> PROVE Entities = game.near /\ world.drops = game.drops
  BY DEF ViewIsCurrent
<1>1. SessionTypeOK /\ ViewInv /\ DropsInv
  BY DEF SessionInv
<1>2. \A id \in Others : world.entities[id] = game.near[id]
  BY <1>1, AllRead DEF ViewInv
<1>3. \A d \in Drops : d \in world.drops <=> d \in game.drops
  BY <1>1, AllRead DEF DropsInv
<1>4. game.near \in Views /\ world.drops \subseteq Drops /\ game.drops \subseteq Drops
  BY <1>1, GameFields DEF SessionTypeOK, Worlds
<1>5. Entities = game.near
  BY <1>2, <1>4 DEF Entities, Views
<1> QED BY <1>3, <1>4, <1>5

\* A host that has read everything since it saw the character enter a map has the entities and
\* the drops of the game, whatever it lost before (_on_map, _on_mapout, _on_spawn, _on_move,
\* _on_despawn, _on_status, _on_drop, _on_get).
THEOREM ViewHolds == Spec => []ViewIsCurrent
  BY ViewFollows, SessionInvariant, PTL

LEMMA GatesFollow == SessionInv => GatesExact
<1> SUFFICES ASSUME SessionInv PROVE GatesExact
  OBVIOUS
<1>1. SessionTypeOK /\ GatesInv
  BY DEF SessionInv
<1>2. ASSUME "map" \in told, wire.RECV = <<>>, NEW c \in Cells
      PROVE  /\ Exit[game.map][c] # None => world.gates[<<game.map, c>>] = Exit[game.map][c]
             /\ c \in Stones[game.map] => <<game.map, c>> \in world.spaces
  <2>1. Coming = <<>> /\ Len(Coming) = 0 /\ Free(Coming, Setters)
    BY <1>2, AllRead
  <2>2. world.map = game.map /\ \A p \in Listed(game.map) : Knows(p)
    BY <1>1, <1>2, <2>1 DEF GatesInv
  <2>3. ASSUME Exit[game.map][c] # None PROVE world.gates[<<game.map, c>>] = Exit[game.map][c]
    <3>1. PICK p : p = [op |-> "gp", cell |-> c, to |-> Exit[game.map][c]]
      OBVIOUS
    <3>2. p \in Listed(game.map)
      BY <2>3, <3>1 DEF Listed
    <3> QED BY <2>2, <3>1, <3>2 DEF Knows
  <2>4. ASSUME c \in Stones[game.map] PROVE <<game.map, c>> \in world.spaces
    <3>1. PICK p : p = [op |-> "wp", cell |-> c]
      OBVIOUS
    <3>2. p \in Listed(game.map)
      BY <2>4, <3>1 DEF Listed
    <3> QED BY <2>2, <3>1, <3>2 DEF Knows
  <2> QED BY <2>3, <2>4
<1> QED BY <1>1, <1>2 DEF GatesExact, GatesInv

\* The gates and Time-Spaces a host stored are of the map it stored them for unless it lost
\* packets, and after the list of a map it has them all (_on_gate, _on_waypoint).
THEOREM GatesHold == Spec => []GatesExact
  BY GatesFollow, SessionInvariant, PTL

LEMMA PortalsFollow == SessionInv => PortalsTrue
  BY DEF SessionInv, PortalsInv, PortalsTrue

\* The portals learned from crossings are portals, both ways, if nothing but answers went wrong
\* (_remember_departure, _on_position).
THEOREM PortalsHold == Spec => []PortalsTrue
  BY PortalsFollow, SessionInvariant, PTL

LEMMA PositionFollows == SessionInv => PositionTrue
<1> SUFFICES ASSUME SessionInv, mishaps \subseteq {"mistaken"}, "place" \in told,
                    asked = <<>>, wire.SEND = <<>>, wire.RECV = <<>>
             PROVE  world.pos = game.cell
  BY DEF PositionTrue
<1>1. Going = <<>> /\ Alive /\ ~Walking /\ Free(Coming, Movers)
  BY AllRead DEF Going, Alive, Walking
<1>2. Heard(game.cell)
  BY <1>1 DEF SessionInv, PlaceInv, Settled
<1> QED BY <1>1, <1>2, HeardAll

\* A host that has read everything and lost, overtook or overlapped nothing has the cell of the
\* character (_on_walk, _on_teleport, _on_position).
THEOREM PositionHolds == Spec => []PositionTrue
  BY PositionFollows, SessionInvariant, PTL

LEMMA RestFollows == SessionInv => RestTrue
  BY AllRead DEF SessionInv, RestInv, RestTrue

\* Once an own rest came after an at, a host that has read everything knows whether the
\* character sits (_on_rest).
THEOREM RestHolds == Spec => []RestTrue
  BY RestFollows, SessionInvariant, PTL

LEMMA SkillsFollow == SessionInv => SkillsTrue
  BY DEF SessionInv, SkillsInv, Paired, SkillsTrue

\* A slot is paired with its own skill and with no other, if the answers come in the order of
\* the questions (_on_skill_used).
THEOREM SkillsHold == Spec => []SkillsTrue
  BY SkillsFollow, SessionInvariant, PTL

=============================================================================
