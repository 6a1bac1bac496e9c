------------------------------ MODULE LogProofs ------------------------------
(***************************************************************************)
(* What a host that attaches late reads in the log is true, for every      *)
(* game, any number of requests and whatever hosts before it lost.         *)
(*                                                                         *)
(* The log says nothing yet of the packets on the way.  The invariants     *)
(* speak of what it will say behind each of them (Behind): a packet that   *)
(* is sent adds one more such log, at the end, and one that is drained     *)
(* takes the first away and changes no other.                              *)
(*                                                                         *)
(* A host that takes its map, place and id from it, at whatever moment,    *)
(* then keeps true all that SessionProofs shows of a host that was there   *)
(* from the beginning.                                                     *)
(***************************************************************************)
EXTENDS LogReplay, SessionProofs, WellFoundedInduction

-----------------------------------------------------------------------------
(* What the loaders return behind each packet of a sequence. *)

\* A set of numbers that holds 0 and the next of each of its own holds them all: of the intervals
\* that end in a number it lacks, one would contain no other.
LEMMA Induct ==
  ASSUME NEW S \in SUBSET Nat, 0 \in S, \A n \in S : n + 1 \in S
  PROVE  S = Nat
<1> SUFFICES ASSUME NEW m \in Nat, m \notin S PROVE FALSE
  OBVIOUS
<1> DEFINE U == 0 .. m
           T == {0 .. i : i \in U \ S}
<1>1. IsFiniteSet(U)
  BY FS_Interval
<1>2. IsWellFoundedOn(StrictSubsetOrdering(U), SUBSET U)
  BY <1>1, FS_StrictSubsetOrderingWellFounded, FS_FiniteSubsetsOfFinite
<1>3. T \subseteq SUBSET U /\ T # {}
  <2>1. ASSUME NEW j \in U PROVE 0 .. j \in SUBSET U
    OBVIOUS
  <2>2. m \in U \ S
    OBVIOUS
  <2> HIDE DEF U
  <2> QED BY <2>1, <2>2
<1>4. m \in U
  OBVIOUS
<1> HIDE DEF T
<1>5. \E x \in T : \A y \in T : ~ (<<y, x>> \in StrictSubsetOrdering(U))
  <2> HIDE DEF U
  <2> QED BY <1>2, <1>3, WFMin
<1>6. PICK i \in U \ S : \A y \in U \ S : ~ (<<0 .. y, 0 .. i>> \in StrictSubsetOrdering(U))
  BY <1>5 DEF T
<1>7. i \in 0 .. m /\ i # 0
  BY <1>6
<1>8. i - 1 \in U /\ i - 1 \in Nat /\ (i - 1) + 1 = i
  BY <1>7
<1>9. i - 1 \notin S
  BY <1>6, <1>8
<1>10. (0 .. i - 1) \subseteq (0 .. i) /\ (0 .. i - 1) # (0 .. i)
  BY <1>7
<1>11. (0 .. i - 1) \in SUBSET U /\ (0 .. i) \in SUBSET U
  BY <1>7
<1>12. <<0 .. i - 1, 0 .. i>> \in StrictSubsetOrdering(U)
  BY <1>10, <1>11 DEF StrictSubsetOrdering
<1> QED BY <1>6, <1>8, <1>9, <1>12

Captured == Sent \cup Requests

Logs ==
  [map : Maps \cup {None}, pos : Cells \cup {None}, self : Players \cup {None}, here : Maps \cup {None},
   gates : [Places -> Maps \cup {None}], spaces : SUBSET Places, last : Cells \cup {None},
   left : Places \cup {None}, portals : [Places -> Maps \cup {None}], used : Slots \cup {None},
   me : Players \cup {None}, slots : [Slots -> Vnums \cup {None}], first : Vnums \cup {None},
   known : SUBSET Ids, own : BOOLEAN, sure : BOOLEAN]

\* Each loader, by the fields it changes.
LEMMA PositionLogged ==
  ASSUME NEW l \in Logs, NEW p \in Captured, NEW x, x = LastPosition(l, p)
  PROVE  /\ x \in Logs
         /\ x.self = IF p.op = "at" THEN p.id ELSE l.self
         /\ x.map = IF Enters(p) THEN p.map ELSE l.map
         /\ x.pos = IF p.op = "at" \/ MovesPlayer(p) THEN p.cell ELSE l.pos
         /\ \A f \in DOMAIN l \ {"self", "map", "pos"} : x[f] = l[f]
<1>1. /\ p.op = "at" => p.id \in Players /\ p.map \in Maps /\ p.cell \in Cells
      /\ Enters(p) => p.map \in Maps
      /\ MovesPlayer(p) => p.cell \in Cells
  BY SentFields, RequestFields, OthersIds DEF Captured, Enters, MovesPlayer
<1>2. p.op = "at" => Enters(p) /\ ~MovesPlayer(p)
  BY DEF Enters, MovesPlayer
<1>3. ~(MovesPlayer(p) /\ Enters(p))
  BY DEF Enters, MovesPlayer
<1>4. CASE p.op = "at"
  <2>1. x = [l EXCEPT !.self = p.id, !.map = p.map, !.pos = p.cell]
    BY <1>2, <1>3, <1>4 DEF LastPosition
  <2> QED BY <1>1, <1>2, <1>4, <2>1 DEF Logs
<1>5. CASE p.op # "at" /\ MovesPlayer(p)
  <2>1. x = [l EXCEPT !.pos = p.cell]
    BY <1>3, <1>5 DEF LastPosition, Enters
  <2> QED BY <1>1, <1>3, <1>5, <2>1 DEF Logs
<1>6. CASE p.op # "at" /\ Enters(p)
  <2>1. x = [l EXCEPT !.map = p.map]
    BY <1>3, <1>6 DEF LastPosition, Enters
  <2> QED BY <1>1, <1>3, <1>6, <2>1 DEF Logs
<1>7. CASE ~Enters(p) /\ ~MovesPlayer(p)
  <2>1. x = l /\ p.op # "at"
    BY <1>2, <1>7 DEF LastPosition, Enters
  <2> QED BY <1>7, <2>1
<1> QED BY <1>2, <1>4, <1>5, <1>6, <1>7

LEMMA GatesLogged ==
  ASSUME NEW l \in Logs, NEW p \in Captured, NEW x, x = Gates(l, p)
  PROVE  /\ x \in Logs
         /\ x.here = IF Enters(p) THEN p.map ELSE l.here
         /\ x.gates = IF p.op = "gp" /\ l.here # None THEN [l.gates EXCEPT ![<<l.here, p.cell>>] = p.to] ELSE l.gates
         /\ x.spaces = IF p.op = "wp" /\ l.here # None THEN l.spaces \cup {<<l.here, p.cell>>} ELSE l.spaces
         /\ \A f \in DOMAIN l \ {"here", "gates", "spaces"} : x[f] = l[f]
<1>1. /\ Enters(p) => p.map \in Maps /\ p.op \notin {"gp", "wp"}
      /\ p.op = "gp" => p.cell \in Cells /\ p.to \in Maps
      /\ p.op = "wp" => p.cell \in Cells
  BY SentFields, RequestFields DEF Captured, Enters
<1>2. l.here \in Maps \cup {None} /\ l.gates \in [Places -> Maps \cup {None}] /\ l.spaces \in SUBSET Places
  BY DEF Logs
<1>3. CASE Enters(p)
  <2>1. x = [l EXCEPT !.here = p.map]
    BY <1>1, <1>3 DEF Gates
  <2> QED BY <1>1, <1>3, <2>1 DEF Logs
<1>4. CASE p.op = "gp" /\ l.here # None
  <2> PICK g : g = [l.gates EXCEPT ![<<l.here, p.cell>>] = p.to]
    OBVIOUS
  <2>1. x = [l EXCEPT !.gates = g]
    BY <1>1, <1>4 DEF Gates
  <2>2. g \in [Places -> Maps \cup {None}]
    BY <1>1, <1>2, <1>4
  <2> QED BY <1>1, <1>4, <2>1, <2>2 DEF Logs
<1>5. CASE p.op = "wp" /\ l.here # None
  <2> PICK g : g = l.spaces \cup {<<l.here, p.cell>>}
    OBVIOUS
  <2>1. x = [l EXCEPT !.spaces = g]
    BY <1>1, <1>5 DEF Gates
  <2>2. g \in SUBSET Places
    BY <1>1, <1>2, <1>5 DEF Places
  <2> QED BY <1>1, <1>5, <2>1, <2>2 DEF Logs
<1>6. CASE ~Enters(p) /\ ~(p.op = "gp" /\ l.here # None) /\ ~(p.op = "wp" /\ l.here # None)
  <2>1. x = l
    BY <1>6 DEF Gates
  <2> QED BY <1>6, <2>1
<1> QED BY <1>1, <1>3, <1>4, <1>5, <1>6

LEMMA SkillSlotsLogged ==
  ASSUME NEW l \in Logs, NEW p \in Captured, NEW x, x = SkillSlots(l, p)
  PROVE  LET hit == p.op = "su" /\ l.used # None /\ l.me # None /\ p.by = l.me
         IN /\ x \in Logs
            /\ x.me = IF p.op = "at" /\ l.me = None THEN p.id ELSE l.me
            /\ x.used = IF p.op = "u_s" THEN p.slot ELSE IF hit THEN None ELSE l.used
            /\ x.slots = IF hit THEN [l.slots EXCEPT ![l.used] = p.vnum] ELSE l.slots
            /\ \A f \in DOMAIN l \ {"me", "used", "slots"} : x[f] = l[f]
<1> DEFINE hit == p.op = "su" /\ l.used # None /\ l.me # None /\ p.by = l.me
<1>1. /\ p.op = "at" => p.id \in Players
      /\ p.op = "u_s" => p.slot \in Slots
      /\ p.op = "su" => p.vnum \in Vnums
  BY SentFields, RequestFields, OthersIds DEF Captured
<1>2. l.used \in Slots \cup {None} /\ l.slots \in [Slots -> Vnums \cup {None}] /\ l.me \in Players \cup {None}
  BY DEF Logs
<1>3. CASE p.op = "at"
  <2>1. x = [l EXCEPT !.me = IF l.me = None THEN p.id ELSE l.me]
    BY <1>3 DEF SkillSlots
  <2> QED BY <1>1, <1>2, <1>3, <2>1 DEF Logs
<1>4. CASE p.op = "u_s"
  <2>1. x = [l EXCEPT !.used = p.slot]
    BY <1>4 DEF SkillSlots
  <2> QED BY <1>1, <1>4, <2>1 DEF Logs
<1>5. CASE hit
  <2> PICK s : s = [l.slots EXCEPT ![l.used] = p.vnum]
    OBVIOUS
  <2>1. x = [l EXCEPT !.slots = s, !.used = None]
    BY <1>5 DEF SkillSlots
  <2>2. s \in [Slots -> Vnums \cup {None}]
    BY <1>1, <1>2, <1>5
  <2> QED BY <1>5, <2>1, <2>2 DEF Logs
<1>6. CASE p.op \notin {"at", "u_s"} /\ ~hit
  <2>1. x = l
    BY <1>6 DEF SkillSlots
  <2> QED BY <1>6, <2>1
<1> QED BY <1>3, <1>4, <1>5, <1>6

LEMMA TablesLogged ==
  ASSUME NEW l \in Logs, NEW p \in Captured, NEW x, x = Tables(l, p)
  PROVE  /\ x \in Logs
         /\ x.known = IF p.op = "in" THEN l.known \cup {p.id} ELSE l.known
         /\ \A f \in DOMAIN l \ {"known", "first"} : x[f] = l[f]
<1>1. /\ p.op = "in" => p.id \in Ids
      /\ p.op = "ski" => p.first \in Vnums
  BY SentFields, RequestFields, OthersIds DEF Captured
<1>2. CASE p.op = "in"
  <2>1. x = [l EXCEPT !.known = l.known \cup {p.id}]
    BY <1>2 DEF Tables
  <2> QED BY <1>1, <1>2, <2>1 DEF Logs
<1>3. CASE p.op = "ski"
  <2>1. x = [l EXCEPT !.first = p.first]
    BY <1>3 DEF Tables
  <2> QED BY <1>1, <1>3, <2>1 DEF Logs
<1>4. CASE p.op \notin {"in", "ski"}
  <2>1. x = l
    BY <1>4 DEF Tables
  <2> QED BY <1>4, <2>1
<1> QED BY <1>2, <1>3, <1>4

OwnAfter(l, p) == IF p.op = "at" THEN TRUE ELSE IF MovesPlayer(p) THEN p.op = "walk" \/ p.id = Me ELSE l.own
SureAfter(l, p) == IF p.op = "c_map" /\ ~p.entering THEN l.sure /\ l.own ELSE l.sure

LEMMA MineLogged ==
  ASSUME NEW l \in Logs, NEW p \in Captured, NEW x, x = Mine(l, p)
  PROVE  /\ x \in Logs
         /\ x.own = OwnAfter(l, p)
         /\ x.sure = SureAfter(l, p)
         /\ \A f \in DOMAIN l \ {"own", "sure"} : x[f] = l[f]
<1>1. l.own \in BOOLEAN /\ l.sure \in BOOLEAN
  BY DEF Logs
<1>2. CASE p.op \in {"mv", "tp"} /\ p.id \in Players
  <2> PICK b \in BOOLEAN : b <=> p.id = Me
    OBVIOUS
  <2>1. x = [l EXCEPT !.own = p.id = Me]
    BY <1>2 DEF Mine
  <2>2. b = (p.id = Me)
    OBVIOUS
  <2>3. x = [l EXCEPT !.own = b] /\ MovesPlayer(p)
    BY <1>2, <2>1, <2>2 DEF MovesPlayer
  <2>4. x \in Logs /\ x.own = b /\ x.sure = l.sure /\ \A f \in DOMAIN l \ {"own", "sure"} : x[f] = l[f]
    BY <2>3 DEF Logs
  <2>5. p.op # "at" /\ p.op # "walk" /\ p.op # "c_map"
    BY <1>2
  <2> QED BY <2>2, <2>3, <2>4, <2>5 DEF OwnAfter, SureAfter
<1>3. CASE p.op = "at" \/ (p.op = "walk" /\ p.cell # None)
  <2>1. x = [l EXCEPT !.own = TRUE]
    BY <1>3 DEF Mine
  <2>2. x \in Logs /\ x.own = TRUE /\ x.sure = l.sure /\ \A f \in DOMAIN l \ {"own", "sure"} : x[f] = l[f]
    BY <2>1 DEF Logs
  <2>3. p.op # "c_map" /\ (p.op = "at" \/ (MovesPlayer(p) /\ p.op = "walk"))
    BY <1>3 DEF MovesPlayer
  <2> QED BY <2>2, <2>3 DEF OwnAfter, SureAfter
<1>4. CASE p.op = "c_map" /\ ~p.entering
  <2> PICK b \in BOOLEAN : b = (l.sure /\ l.own)
    BY <1>1
  <2>1. x = [l EXCEPT !.sure = b]
    BY <1>4 DEF Mine
  <2> QED BY <1>4, <2>1 DEF Logs, MovesPlayer, OwnAfter, SureAfter
<1>5. CASE /\ ~(p.op \in {"mv", "tp"} /\ p.id \in Players) /\ ~(p.op = "c_map" /\ ~p.entering)
           /\ ~(p.op = "at" \/ (p.op = "walk" /\ p.cell # None))
  <2>1. x = l
    BY <1>5 DEF Mine
  <2> QED BY <1>5, <2>1 DEF MovesPlayer, OwnAfter, SureAfter
<1> QED BY <1>2, <1>3, <1>4, <1>5

Crosses(l, p) == Enters(p) /\ l.left # None /\ l.left[1] # p.map

LEMMA PortalsLogged ==
  ASSUME NEW l \in Logs, NEW p \in Captured, NEW x, x = Portals(l, p)
  PROVE  /\ x \in Logs
         /\ x.last = IF p.op = "at" \/ MovesPlayer(p) THEN p.cell ELSE l.last
         /\ x.left = IF p.op = "c_map" /\ ~p.entering /\ l.last # None THEN <<p.map, l.last>>
                     ELSE IF Crosses(l, p) THEN None ELSE l.left
         /\ x.portals = IF ~Crosses(l, p) THEN l.portals
                        ELSE IF p.op = "at"
                          THEN [l.portals EXCEPT ![l.left] = p.map, ![<<p.map, p.cell>>] = l.left[1]]
                          ELSE [l.portals EXCEPT ![l.left] = p.map]
         /\ \A f \in DOMAIN l \ {"last", "left", "portals"} : x[f] = l[f]
<1>1. /\ p.op = "at" => p.map \in Maps /\ p.cell \in Cells
      /\ p.op = "c_map" => p.map \in Maps /\ p.entering \in BOOLEAN
      /\ MovesPlayer(p) => p.cell \in Cells
  BY SentFields, RequestFields, OthersIds DEF Captured, MovesPlayer
<1>2. /\ l.last \in Cells \cup {None} /\ l.left \in Places \cup {None} /\ l.portals \in [Places -> Maps \cup {None}]
      /\ l.left # None => l.left \in Places /\ l.left[1] \in Maps
  BY DEF Logs, Places
<1>3. /\ p.op = "at" => Enters(p) /\ ~MovesPlayer(p)
      /\ p.op = "c_map" => ~MovesPlayer(p) /\ (Enters(p) <=> p.entering)
      /\ Enters(p) => p.op \in {"at", "c_map"}
  BY DEF Enters, MovesPlayer
<1>4. CASE MovesPlayer(p)
  <2>1. x = [l EXCEPT !.last = p.cell]
    BY <1>3, <1>4 DEF Portals
  <2>2. ~Crosses(l, p) /\ p.op \notin {"at", "c_map"}
    BY <1>3, <1>4 DEF Crosses
  <2> QED BY <1>1, <1>4, <2>1, <2>2 DEF Logs
<1>5. CASE p.op = "c_map" /\ ~p.entering
  <2>1. x = IF l.last = None THEN l ELSE [l EXCEPT !.left = <<p.map, l.last>>]
    BY <1>3, <1>5 DEF Portals
  <2>2. ~Crosses(l, p) /\ ~MovesPlayer(p) /\ p.op # "at"
    BY <1>3, <1>5 DEF Crosses
  <2>3. l.last # None => <<p.map, l.last>> \in Places
    BY <1>1, <1>2, <1>5 DEF Places
  <2> QED BY <1>5, <2>1, <2>2, <2>3 DEF Logs
<1>6. CASE p.op = "c_map" /\ p.entering
  <2> PICK q : q = [l.portals EXCEPT ![l.left] = p.map]
    OBVIOUS
  <2>1. x = IF Crosses(l, p) THEN [l EXCEPT !.portals = q, !.left = None] ELSE l
    BY <1>3, <1>6 DEF Portals, Crosses
  <2>2. Crosses(l, p) => q \in [Places -> Maps \cup {None}]
    BY <1>1, <1>2, <1>6 DEF Crosses
  <2>3. ~MovesPlayer(p) /\ p.op # "at" /\ ~(p.op = "c_map" /\ ~p.entering)
    BY <1>3, <1>6
  <2>4. CASE Crosses(l, p)
    <3>1. x = [l EXCEPT !.portals = q, !.left = None]
      BY <2>1, <2>4
    <3>2. x \in Logs /\ x.portals = q /\ x.left = None /\ \A f \in DOMAIN l \ {"left", "portals"} : x[f] = l[f]
      BY <2>2, <2>4, <3>1 DEF Logs
    <3>3. x.last = l.last
      BY <3>2 DEF Logs
    <3> QED BY <2>3, <2>4, <3>2, <3>3
  <2>5. CASE ~Crosses(l, p)
    BY <2>1, <2>3, <2>5
  <2> QED BY <2>4, <2>5
<1>7. CASE p.op = "at"
  <2> PICK q : q = [l.portals EXCEPT ![l.left] = p.map, ![<<p.map, p.cell>>] = l.left[1]]
    OBVIOUS
  <2>1. x = [l EXCEPT !.last = p.cell, !.left = IF Crosses(l, p) THEN None ELSE l.left,
                      !.portals = IF Crosses(l, p) THEN q ELSE l.portals]
    BY <1>3, <1>7 DEF Portals, Crosses
  <2>2. Crosses(l, p) => q \in [Places -> Maps \cup {None}]
    BY <1>1, <1>2, <1>7 DEF Crosses
  <2> QED BY <1>1, <1>2, <1>7, <2>1, <2>2 DEF Logs
<1>8. CASE ~MovesPlayer(p) /\ p.op # "c_map" /\ p.op # "at"
  <2>1. x = l /\ ~Crosses(l, p)
    BY <1>3, <1>8 DEF Portals, Crosses
  <2> QED BY <1>8, <2>1
<1> QED BY <1>1, <1>4, <1>5, <1>6, <1>7, <1>8

\* All of them: no loader changes what another reads.
After(l, p, x) ==
  LET hit == p.op = "su" /\ l.used # None /\ l.me # None /\ p.by = l.me
  IN /\ x \in Logs
     /\ x.self = IF p.op = "at" THEN p.id ELSE l.self
     /\ x.map = IF Enters(p) THEN p.map ELSE l.map
     /\ x.pos = IF p.op = "at" \/ MovesPlayer(p) THEN p.cell ELSE l.pos
     /\ x.here = IF Enters(p) THEN p.map ELSE l.here
     /\ x.gates = IF p.op = "gp" /\ l.here # None THEN [l.gates EXCEPT ![<<l.here, p.cell>>] = p.to] ELSE l.gates
     /\ x.spaces = IF p.op = "wp" /\ l.here # None THEN l.spaces \cup {<<l.here, p.cell>>} ELSE l.spaces
     /\ x.last = IF p.op = "at" \/ MovesPlayer(p) THEN p.cell ELSE l.last
     /\ x.left = IF p.op = "c_map" /\ ~p.entering /\ l.last # None THEN <<p.map, l.last>>
                 ELSE IF Crosses(l, p) THEN None ELSE l.left
     /\ x.portals = IF ~Crosses(l, p) THEN l.portals
                    ELSE IF p.op = "at"
                      THEN [l.portals EXCEPT ![l.left] = p.map, ![<<p.map, p.cell>>] = l.left[1]]
                      ELSE [l.portals EXCEPT ![l.left] = p.map]
     /\ x.me = IF p.op = "at" /\ l.me = None THEN p.id ELSE l.me
     /\ x.used = IF p.op = "u_s" THEN p.slot ELSE IF hit THEN None ELSE l.used
     /\ x.slots = IF hit THEN [l.slots EXCEPT ![l.used] = p.vnum] ELSE l.slots
     /\ x.known = IF p.op = "in" THEN l.known \cup {p.id} ELSE l.known
     /\ x.own = OwnAfter(l, p)
     /\ x.sure = SureAfter(l, p)

LEMMA LoggedIs ==
  ASSUME NEW l \in Logs, NEW p \in Captured, NEW x, x = Logged(l, p)
  PROVE  After(l, p, x)
<1> DEFINE D == {"map", "pos", "self", "here", "gates", "spaces", "last", "left", "portals", "used", "me", "slots",
                 "first", "known", "own", "sure"}
<1>0. \A y \in Logs : DOMAIN y = D
  BY DEF Logs
<1>1. PICK a : a = LastPosition(l, p)
  OBVIOUS
<1>2. /\ a \in Logs /\ a.self = (IF p.op = "at" THEN p.id ELSE l.self)
      /\ a.map = (IF Enters(p) THEN p.map ELSE l.map)
      /\ a.pos = (IF p.op = "at" \/ MovesPlayer(p) THEN p.cell ELSE l.pos)
      /\ \A f \in D \ {"self", "map", "pos"} : a[f] = l[f]
  BY <1>0, <1>1, PositionLogged
<1>3. PICK b : b = Gates(a, p)
  OBVIOUS
<1>4. /\ b \in Logs /\ b.here = (IF Enters(p) THEN p.map ELSE a.here)
      /\ b.gates = (IF p.op = "gp" /\ a.here # None THEN [a.gates EXCEPT ![<<a.here, p.cell>>] = p.to] ELSE a.gates)
      /\ b.spaces = (IF p.op = "wp" /\ a.here # None THEN a.spaces \cup {<<a.here, p.cell>>} ELSE a.spaces)
      /\ \A f \in D \ {"here", "gates", "spaces"} : b[f] = a[f]
  BY <1>0, <1>2, <1>3, GatesLogged
<1>5. PICK c : c = Portals(b, p)
  OBVIOUS
<1>6. /\ c \in Logs
      /\ c.last = (IF p.op = "at" \/ MovesPlayer(p) THEN p.cell ELSE b.last)
      /\ c.left = (IF p.op = "c_map" /\ ~p.entering /\ b.last # None THEN <<p.map, b.last>>
                   ELSE IF Crosses(b, p) THEN None ELSE b.left)
      /\ c.portals = (IF ~Crosses(b, p) THEN b.portals
                      ELSE IF p.op = "at"
                        THEN [b.portals EXCEPT ![b.left] = p.map, ![<<p.map, p.cell>>] = b.left[1]]
                        ELSE [b.portals EXCEPT ![b.left] = p.map])
      /\ \A f \in D \ {"last", "left", "portals"} : c[f] = b[f]
  BY <1>0, <1>4, <1>5, PortalsLogged
<1>7. PICK d : d = SkillSlots(c, p)
  OBVIOUS
<1> DEFINE hits(y) == p.op = "su" /\ y.used # None /\ y.me # None /\ p.by = y.me
<1>8. /\ d \in Logs
      /\ d.me = (IF p.op = "at" /\ c.me = None THEN p.id ELSE c.me)
      /\ d.used = (IF p.op = "u_s" THEN p.slot ELSE IF hits(c) THEN None ELSE c.used)
      /\ d.slots = (IF hits(c) THEN [c.slots EXCEPT ![c.used] = p.vnum] ELSE c.slots)
      /\ \A f \in D \ {"me", "used", "slots"} : d[f] = c[f]
  BY <1>0, <1>6, <1>7, SkillSlotsLogged
<1>9. PICK e : e = Tables(d, p)
  OBVIOUS
<1>10. /\ e \in Logs /\ e.known = (IF p.op = "in" THEN d.known \cup {p.id} ELSE d.known)
       /\ \A f \in D \ {"known", "first"} : e[f] = d[f]
  <2>1. DOMAIN d = D
    BY <1>0, <1>8
  <2>2. /\ e \in Logs /\ e.known = (IF p.op = "in" THEN d.known \cup {p.id} ELSE d.known)
        /\ \A f \in DOMAIN d \ {"known", "first"} : e[f] = d[f]
    BY <1>8, <1>9, TablesLogged
  <2> HIDE DEF D
  <2> QED BY <2>1, <2>2
<1>11. x = Mine(e, p)
  BY <1>1, <1>3, <1>5, <1>7, <1>9 DEF Logged
<1>12. /\ x \in Logs
       /\ x.own = OwnAfter(e, p)
       /\ x.sure = SureAfter(e, p)
       /\ \A f \in D \ {"own", "sure"} : x[f] = e[f]
  <2>1. DOMAIN e = D
    BY <1>0, <1>10
  <2>2. /\ x \in Logs
        /\ x.own = OwnAfter(e, p)
        /\ x.sure = SureAfter(e, p)
        /\ \A f \in DOMAIN e \ {"own", "sure"} : x[f] = e[f]
    BY <1>10, <1>11, MineLogged
  <2> HIDE DEF D
  <2> QED BY <2>1, <2>2
<1>13. /\ x.self = a.self /\ x.map = a.map /\ x.pos = a.pos /\ a.here = l.here /\ a.gates = l.gates /\ a.spaces = l.spaces
       /\ x.here = b.here /\ x.gates = b.gates /\ x.spaces = b.spaces
  BY <1>2, <1>4, <1>6, <1>8, <1>10, <1>12
<1>14. /\ b.last = l.last /\ b.left = l.left /\ b.portals = l.portals
       /\ x.last = c.last /\ x.left = c.left /\ x.portals = c.portals
  BY <1>2, <1>4, <1>6, <1>8, <1>10, <1>12
<1>15. /\ c.me = l.me /\ c.used = l.used /\ c.slots = l.slots /\ x.me = d.me /\ x.used = d.used /\ x.slots = d.slots
  BY <1>2, <1>4, <1>6, <1>8, <1>10, <1>12
<1>16. d.known = l.known /\ x.known = e.known /\ e.own = l.own /\ e.sure = l.sure
  BY <1>2, <1>4, <1>6, <1>8, <1>10, <1>12
<1>17. Crosses(b, p) <=> Crosses(l, p)
  BY <1>14 DEF Crosses
<1> HIDE DEF D
<1>18. /\ x.self = (IF p.op = "at" THEN p.id ELSE l.self)
       /\ x.map = (IF Enters(p) THEN p.map ELSE l.map)
       /\ x.pos = (IF p.op = "at" \/ MovesPlayer(p) THEN p.cell ELSE l.pos)
       /\ x.here = (IF Enters(p) THEN p.map ELSE l.here)
       /\ x.gates = (IF p.op = "gp" /\ l.here # None THEN [l.gates EXCEPT ![<<l.here, p.cell>>] = p.to] ELSE l.gates)
       /\ x.spaces = (IF p.op = "wp" /\ l.here # None THEN l.spaces \cup {<<l.here, p.cell>>} ELSE l.spaces)
  BY <1>2, <1>4, <1>13
<1>19. /\ x.last = (IF p.op = "at" \/ MovesPlayer(p) THEN p.cell ELSE l.last)
       /\ x.left = (IF p.op = "c_map" /\ ~p.entering /\ l.last # None THEN <<p.map, l.last>>
                    ELSE IF Crosses(l, p) THEN None ELSE l.left)
       /\ x.portals = (IF ~Crosses(l, p) THEN l.portals
                       ELSE IF p.op = "at"
                         THEN [l.portals EXCEPT ![l.left] = p.map, ![<<p.map, p.cell>>] = l.left[1]]
                         ELSE [l.portals EXCEPT ![l.left] = p.map])
  BY <1>6, <1>14, <1>17
<1>20. /\ x.me = (IF p.op = "at" /\ l.me = None THEN p.id ELSE l.me)
       /\ x.used = (IF p.op = "u_s" THEN p.slot ELSE IF hits(l) THEN None ELSE l.used)
       /\ x.slots = (IF hits(l) THEN [l.slots EXCEPT ![l.used] = p.vnum] ELSE l.slots)
  BY <1>8, <1>15
<1>21. /\ x.known = (IF p.op = "in" THEN l.known \cup {p.id} ELSE l.known)
       /\ x.own = OwnAfter(l, p)
       /\ x.sure = SureAfter(l, p)
  BY <1>10, <1>12, <1>16 DEF OwnAfter, SureAfter
<1> QED BY <1>12, <1>18, <1>19, <1>20, <1>21 DEF After

LEMMA LoggedTyped == \A l \in Logs, p \in Captured : Logged(l, p) \in Logs
<1> SUFFICES ASSUME NEW l \in Logs, NEW p \in Captured PROVE Logged(l, p) \in Logs
  OBVIOUS
<1> PICK x : x = Logged(l, p)
  OBVIOUS
<1>1. After(l, p, x)
  BY LoggedIs
<1> QED BY <1>1 DEF After

-----------------------------------------------------------------------------
(* The logs behind each packet of a sequence. *)

\* f has the log behind each of the first n packets of s.
Follows(f, l, s, n) ==
  f \in [0 .. n -> Logs] /\ f[0] = l /\ \A i \in 1 .. n : f[i] = Logged(f[i - 1], s[i])

LEMMA Followable ==
  ASSUME NEW l \in Logs, NEW s \in Seq(Captured), NEW n \in 0 .. Len(s)
  PROVE  \E f : Follows(f, l, s, n)
<1> DEFINE B == {k \in Nat : k <= Len(s) => \E f : Follows(f, l, s, k)}
<1>1. Len(s) \in Nat /\ n \in Nat /\ n <= Len(s)
  OBVIOUS
<1>2. 0 \in B
  <2>1. Follows([i \in 0 .. 0 |-> l], l, s, 0)
    BY DEF Follows
  <2> QED BY <2>1
<1>3. ASSUME NEW k \in B PROVE k + 1 \in B
  <2> SUFFICES ASSUME k + 1 <= Len(s) PROVE \E f : Follows(f, l, s, k + 1)
    BY DEF B
  <2>1. k \in Nat /\ k <= Len(s) /\ k + 1 \in 1 .. Len(s)
    BY <1>1
  <2>2. PICK f : Follows(f, l, s, k)
    BY <2>1
  <2> PICK x : x = Logged(f[k], s[k + 1])
    OBVIOUS
  <2>3. f \in [0 .. k -> Logs] /\ f[0] = l /\ \A i \in 1 .. k : f[i] = Logged(f[i - 1], s[i])
    BY <2>2 DEF Follows
  <2>4. f[k] \in Logs /\ s[k + 1] \in Captured
    BY <2>1, <2>3
  <2>5. x \in Logs
    BY <2>4, LoggedTyped
  <2> PICK g : g = [i \in 0 .. k + 1 |-> IF i = k + 1 THEN x ELSE f[i]]
    OBVIOUS
  <2>6. ASSUME NEW i \in 0 .. k + 1 PROVE g[i] \in Logs
    <3>1. CASE i = k + 1
      BY <2>5, <3>1
    <3>2. CASE i # k + 1
      <4>1. i \in 0 .. k
        BY <2>1, <3>2
      <4> QED BY <2>3, <3>2, <4>1
    <3> QED BY <3>1, <3>2
  <2>7. g[0] = l
    BY <2>1, <2>3
  <2>8. ASSUME NEW i \in 1 .. k + 1 PROVE g[i] = Logged(g[i - 1], s[i])
    <3>1. i - 1 \in 0 .. k /\ i \in 0 .. k + 1 /\ i - 1 \in 0 .. k + 1 /\ i - 1 # k + 1
      BY <2>1
    <3>2. g[i - 1] = f[i - 1]
      BY <3>1
    <3>3. CASE i = k + 1
      <4>1. i - 1 = k
        BY <2>1, <3>3
      <4> QED BY <3>1, <3>2, <3>3, <4>1
    <3>4. CASE i # k + 1
      <4>1. i \in 1 .. k
        BY <2>1, <3>4
      <4> QED BY <2>3, <3>1, <3>2, <3>4, <4>1
    <3> QED BY <3>3, <3>4
  <2>9. Follows(g, l, s, k + 1)
    BY <2>6, <2>7, <2>8 DEF Follows
  <2> QED BY <2>9
<1>4. B \in SUBSET Nat
  OBVIOUS
<1>5. B = Nat
  <2> HIDE DEF B
  <2> QED BY <1>2, <1>3, <1>4, Induct
<1> QED BY <1>1, <1>5

\* There is only one.
LEMMA FollowsOne ==
  ASSUME NEW l, NEW s, NEW t, NEW n \in Nat, NEW f, NEW g, Follows(f, l, s, n), Follows(g, l, t, n),
         \A i \in 1 .. n : s[i] = t[i]
  PROVE  f = g
<1> DEFINE B == {k \in Nat : k <= n => f[k] = g[k]}
<1>1. /\ f \in [0 .. n -> Logs] /\ f[0] = l /\ \A i \in 1 .. n : f[i] = Logged(f[i - 1], s[i])
      /\ g \in [0 .. n -> Logs] /\ g[0] = l /\ \A i \in 1 .. n : g[i] = Logged(g[i - 1], t[i])
  BY DEF Follows
<1>2. 0 \in B
  BY <1>1
<1>3. ASSUME NEW k \in B PROVE k + 1 \in B
  <2> SUFFICES ASSUME k + 1 <= n PROVE f[k + 1] = g[k + 1]
    BY DEF B
  <2>1. k + 1 \in 1 .. n /\ (k + 1) - 1 = k /\ f[k] = g[k]
    OBVIOUS
  <2>2. f[k + 1] = Logged(f[k], s[k + 1]) /\ g[k + 1] = Logged(g[k], t[k + 1])
    BY <1>1, <2>1
  <2> QED BY <2>1, <2>2
<1>4. B = Nat
  <2>1. B \in SUBSET Nat
    OBVIOUS
  <2> HIDE DEF B
  <2> QED BY <1>2, <1>3, <2>1, Induct
<1>5. \A k \in 0 .. n : f[k] = g[k]
  BY <1>4
<1> QED BY <1>1, <1>5

LEMMA BehindFollows ==
  ASSUME NEW l \in Logs, NEW s \in Seq(Captured)
  PROVE  Follows(Behind(l, s), l, s, Len(s))
<1> DEFINE n == Len(s)
           Is(f) == f = [i \in 0 .. n |-> IF i = 0 THEN l ELSE Logged(f[i - 1], s[i])]
<1>1. n \in Nat /\ n \in 0 .. Len(s)
  OBVIOUS
<1>2. PICK f : Follows(f, l, s, n)
  BY <1>1, Followable
<1>3. f \in [0 .. n -> Logs] /\ f[0] = l /\ \A i \in 1 .. n : f[i] = Logged(f[i - 1], s[i])
  BY <1>2 DEF Follows
<1>4. Behind(l, s) = CHOOSE h : Is(h)
  BY DEF Behind
<1> HIDE DEF n
<1>5. Is(f)
  <2>1. ASSUME NEW i \in 0 .. n PROVE f[i] = IF i = 0 THEN l ELSE Logged(f[i - 1], s[i])
    BY <1>1, <1>3
  <2>2. f = [i \in 0 .. n |-> f[i]]
    BY <1>3
  <2> QED BY <2>1, <2>2
<1> PICK h : h = Behind(l, s)
  OBVIOUS
<1>6. Is(h)
  <2> HIDE DEF Is
  <2> QED BY <1>4, <1>5
<1>7. h = [i \in 0 .. n |-> IF i = 0 THEN l ELSE Logged(h[i - 1], s[i])]
  BY <1>6
<1>8. h[0] = l /\ \A i \in 1 .. n : h[i] = Logged(h[i - 1], s[i])
  <2>1. h[0] = l
    BY <1>1, <1>7
  <2>2. ASSUME NEW i \in 1 .. n PROVE h[i] = Logged(h[i - 1], s[i])
    <3>1. i \in 0 .. n /\ i # 0
      BY <1>1
    <3> QED BY <1>7, <3>1
  <2> QED BY <2>1, <2>2
<1>9. \A i \in 0 .. n : h[i] \in Logs
  <2> DEFINE B == {k \in Nat : k <= n => h[k] \in Logs}
  <2>1. 0 \in B
    BY <1>8
  <2>2. ASSUME NEW k \in B PROVE k + 1 \in B
    <3> SUFFICES ASSUME k + 1 <= n PROVE h[k + 1] \in Logs
      BY DEF B
    <3>1. k + 1 \in 1 .. n /\ k <= n /\ (k + 1) - 1 = k
      BY <1>1
    <3>2. h[k + 1] = Logged(h[k], s[k + 1]) /\ h[k] \in Logs /\ s[k + 1] \in Captured
      BY <1>8, <3>1 DEF n
    <3> QED BY <3>2, LoggedTyped
  <2>3. B = Nat
    <3>1. B \in SUBSET Nat
      OBVIOUS
    <3> HIDE DEF B
    <3> QED BY <2>1, <2>2, <3>1, Induct
  <2> QED BY <1>1, <2>3
<1>10. h \in [0 .. n -> Logs]
  BY <1>7, <1>9
<1>11. Follows(h, l, s, n)
  BY <1>8, <1>10 DEF Follows
<1> QED BY <1>11 DEF n

LEMMA BehindIs ==
  ASSUME NEW l \in Logs, NEW s \in Seq(Captured)
  PROVE  /\ Len(s) \in Nat /\ Behind(l, s)[0] = l
         /\ \A i \in 0 .. Len(s) : Behind(l, s)[i] \in Logs
         /\ \A i \in 1 .. Len(s) : Behind(l, s)[i] = Logged(Behind(l, s)[i - 1], s[i])
<1>1. Len(s) \in Nat
  OBVIOUS
<1>2. Follows(Behind(l, s), l, s, Len(s))
  BY BehindFollows
<1> QED BY <1>1, <1>2 DEF Follows

\* Behind a part of the packets are the logs that are behind them in the whole.
LEMMA BehindPart ==
  ASSUME NEW l \in Logs, NEW s \in Seq(Captured), NEW k \in 0 .. Len(s), NEW t \in Seq(Captured),
         k + Len(t) <= Len(s), \A i \in 1 .. Len(t) : t[i] = s[k + i]
  PROVE  \A i \in 0 .. Len(t) : Behind(Behind(l, s)[k], t)[i] = Behind(l, s)[k + i]
<1> PICK f : f = Behind(l, s)
  OBVIOUS
<1> PICK n : n = Len(t)
  OBVIOUS
<1> PICK g : g = [i \in 0 .. n |-> f[k + i]]
  OBVIOUS
<1>1. n \in Nat /\ k \in Nat /\ Len(s) \in Nat /\ k + n <= Len(s)
  OBVIOUS
<1>2. /\ \A i \in 0 .. Len(s) : f[i] \in Logs
      /\ \A i \in 1 .. Len(s) : f[i] = Logged(f[i - 1], s[i])
  BY BehindIs
<1>3. \A i \in 0 .. n : k + i \in 0 .. Len(s) /\ f[k + i] \in Logs
  BY <1>1, <1>2
<1>4. g \in [0 .. n -> Logs] /\ g[0] = f[k]
  BY <1>1, <1>3
<1>5. ASSUME NEW i \in 1 .. n PROVE g[i] = Logged(g[i - 1], t[i])
  <2>1. k + i \in 1 .. Len(s) /\ i - 1 \in 0 .. n /\ i \in 0 .. n /\ k + (i - 1) = (k + i) - 1
    BY <1>1
  <2>2. g[i] = f[k + i] /\ g[i - 1] = f[k + (i - 1)] /\ t[i] = s[k + i]
    BY <2>1
  <2>3. f[k + i] = Logged(f[(k + i) - 1], s[k + i])
    BY <1>2, <2>1
  <2> QED BY <2>1, <2>2, <2>3
<1>6. Follows(g, f[k], t, n)
  BY <1>4, <1>5 DEF Follows
<1>7. f[k] \in Logs
  BY <1>2
<1>8. Follows(Behind(f[k], t), f[k], t, n)
  BY <1>7, BehindFollows
<1>9. Behind(f[k], t) = g
  BY <1>1, <1>6, <1>8, FollowsOne
<1> QED BY <1>9

\* More packets change nothing behind those before them.
LEMMA BehindConcat ==
  ASSUME NEW l \in Logs, NEW s \in Seq(Captured), NEW t \in Seq(Captured)
  PROVE  /\ \A i \in 0 .. Len(s) : Behind(l, s \o t)[i] = Behind(l, s)[i]
         /\ \A i \in 0 .. Len(t) : Behind(l, s \o t)[Len(s) + i] = Behind(Behind(l, s)[Len(s)], t)[i]
<1> PICK u : u = s \o t
  OBVIOUS
<1>1. /\ u \in Seq(Captured) /\ Len(u) = Len(s) + Len(t) /\ Len(s) \in Nat /\ Len(t) \in Nat
      /\ \A i \in 1 .. Len(s) : u[i] = s[i]
      /\ \A i \in 1 .. Len(t) : u[Len(s) + i] = t[i]
  BY ConcatFields
<1>2. Behind(l, u)[0] = l
  BY <1>1, BehindIs
<1>3. \A i \in 0 .. Len(s) : Behind(l, s)[i] = Behind(l, u)[i]
  <2>1. 0 \in 0 .. Len(u) /\ 0 + Len(s) <= Len(u) /\ \A i \in 1 .. Len(s) : s[i] = u[0 + i]
    BY <1>1
  <2>2. \A i \in 0 .. Len(s) : Behind(Behind(l, u)[0], s)[i] = Behind(l, u)[0 + i]
    BY <1>1, <2>1, BehindPart
  <2>3. \A i \in 0 .. Len(s) : 0 + i = i
    OBVIOUS
  <2> QED BY <1>2, <2>2, <2>3
<1>4. \A i \in 0 .. Len(t) : Behind(Behind(l, u)[Len(s)], t)[i] = Behind(l, u)[Len(s) + i]
  <2>1. Len(s) \in 0 .. Len(u) /\ Len(s) + Len(t) <= Len(u) /\ \A i \in 1 .. Len(t) : t[i] = u[Len(s) + i]
    BY <1>1
  <2> QED BY <1>1, <2>1, BehindPart
<1>5. Behind(l, s)[Len(s)] = Behind(l, u)[Len(s)]
  BY <1>1, <1>3
<1> QED BY <1>3, <1>4, <1>5

LEMMA BehindAppend ==
  ASSUME NEW l \in Logs, NEW s \in Seq(Captured), NEW p \in Captured
  PROVE  /\ Len(Append(s, p)) = Len(s) + 1 /\ Len(s) \in Nat
         /\ \A i \in 0 .. Len(s) : Behind(l, Append(s, p))[i] = Behind(l, s)[i]
         /\ Behind(l, Append(s, p))[Len(s) + 1] = Logged(Behind(l, s)[Len(s)], p)
<1> PICK u : u = Append(s, p)
  OBVIOUS
<1>1. u \in Seq(Captured) /\ Len(u) = Len(s) + 1 /\ Len(s) \in Nat /\ u[Len(s) + 1] = p /\ \A i \in 1 .. Len(s) : u[i] = s[i]
  OBVIOUS
<1>2. Behind(l, u)[0] = l /\ \A i \in 1 .. Len(u) : Behind(l, u)[i] = Logged(Behind(l, u)[i - 1], u[i])
  BY <1>1, BehindIs
<1>3. \A i \in 0 .. Len(s) : Behind(l, s)[i] = Behind(l, u)[i]
  <2>1. 0 \in 0 .. Len(u) /\ 0 + Len(s) <= Len(u) /\ \A i \in 1 .. Len(s) : s[i] = u[0 + i]
    BY <1>1
  <2>2. \A i \in 0 .. Len(s) : Behind(Behind(l, u)[0], s)[i] = Behind(l, u)[0 + i]
    BY <1>1, <2>1, BehindPart
  <2>3. \A i \in 0 .. Len(s) : 0 + i = i
    OBVIOUS
  <2> QED BY <1>2, <2>2, <2>3
<1>4. Behind(l, u)[Len(s) + 1] = Logged(Behind(l, s)[Len(s)], p)
  <2>1. Len(s) + 1 \in 1 .. Len(u) /\ (Len(s) + 1) - 1 = Len(s) /\ Len(s) \in 0 .. Len(s)
    BY <1>1
  <2>2. Behind(l, u)[Len(s) + 1] = Logged(Behind(l, u)[Len(s)], p)
    BY <1>1, <1>2, <2>1
  <2> QED BY <1>3, <2>1, <2>2
<1> QED BY <1>1, <1>3, <1>4

\* The packets that are drained change nothing behind those that stay.
LEMMA BehindSplit ==
  ASSUME NEW l \in Logs, NEW s \in Seq(Captured), NEW k \in 0 .. Len(s)
  PROVE  LET first == SubSeq(s, 1, k)
             rest  == SubSeq(s, k + 1, Len(s))
         IN /\ first \in Seq(Captured) /\ Len(first) = k /\ rest \in Seq(Captured) /\ Len(rest) = Len(s) - k
            /\ Behind(l, first)[k] = Behind(l, s)[k]
            /\ \A i \in 0 .. Len(rest) : Behind(Behind(l, s)[k], rest)[i] = Behind(l, s)[k + i]
<1> PICK u : u = SubSeq(s, 1, k)
  OBVIOUS
<1> PICK v : v = SubSeq(s, k + 1, Len(s))
  OBVIOUS
<1>1. k \in Nat /\ Len(s) \in Nat /\ k <= Len(s)
  OBVIOUS
<1>2. u \in Seq(Captured) /\ Len(u) = k /\ \A i \in 1 .. k : u[i] = s[i]
  <2>1. \A i \in 1 .. k : s[i] \in Captured
    BY <1>1
  <2> QED BY <1>1, <2>1, SubSeqProperties
<1>3. v \in Seq(Captured) /\ Len(v) = Len(s) - k /\ \A i \in 1 .. Len(s) - k : v[i] = s[k + i]
  <2>1. \A i \in k + 1 .. Len(s) : s[i] \in Captured
    BY <1>1
  <2>2. k + 1 \in Nat /\ k + 1 <= Len(s) + 1 /\ \A i \in 1 .. Len(s) - k : (k + 1) + i - 1 = k + i
    BY <1>1
  <2> QED BY <1>1, <2>1, <2>2, SubSeqProperties
<1>4. Behind(l, s)[0] = l
  BY BehindIs
<1>5. Behind(l, u)[k] = Behind(l, s)[k]
  <2>1. 0 \in 0 .. Len(s) /\ 0 + Len(u) <= Len(s) /\ \A i \in 1 .. Len(u) : u[i] = s[0 + i]
    BY <1>1, <1>2
  <2>2. \A i \in 0 .. Len(u) : Behind(Behind(l, s)[0], u)[i] = Behind(l, s)[0 + i]
    BY <1>2, <2>1, BehindPart
  <2>3. k \in 0 .. Len(u) /\ 0 + k = k
    BY <1>1, <1>2
  <2> QED BY <1>4, <2>2, <2>3
<1>6. \A i \in 0 .. Len(v) : Behind(Behind(l, s)[k], v)[i] = Behind(l, s)[k + i]
  <2>1. k + Len(v) <= Len(s) /\ \A i \in 1 .. Len(v) : v[i] = s[k + i]
    BY <1>1, <1>3
  <2> QED BY <1>3, <2>1, BehindPart
<1> QED BY <1>2, <1>3, <1>5, <1>6

-----------------------------------------------------------------------------
(* What one packet changes. *)

SameCharts(a, b) ==
  a.self = b.self /\ a.map = b.map /\ a.here = b.here /\ a.gates = b.gates /\ a.spaces = b.spaces /\ a.known = b.known

\* A packet that is neither of a change of map nor of a map's list moves a player, or tells of a skill.
Said(l, p, x) ==
  LET hit == p.op = "su" /\ l.used # None /\ l.me # None /\ p.by = l.me
  IN /\ x \in Logs /\ x.self = l.self /\ x.map = l.map /\ x.here = l.here /\ x.gates = l.gates /\ x.spaces = l.spaces
     /\ x.left = l.left /\ x.portals = l.portals /\ x.sure = l.sure /\ x.me = l.me
     /\ x.pos = IF MovesPlayer(p) THEN p.cell ELSE l.pos
     /\ x.last = IF MovesPlayer(p) THEN p.cell ELSE l.last
     /\ x.own = OwnAfter(l, p)
     /\ x.used = IF p.op = "u_s" THEN p.slot ELSE IF hit THEN None ELSE l.used
     /\ x.slots = IF hit THEN [l.slots EXCEPT ![l.used] = p.vnum] ELSE l.slots
     /\ x.known = IF p.op = "in" THEN l.known \cup {p.id} ELSE l.known

LEMMA SaidIs ==
  ASSUME NEW l \in Logs, NEW p \in Captured, p.op \notin {"at", "c_map", "gp", "wp"}, NEW x, x = Logged(l, p)
  PROVE  Said(l, p, x)
<1>1. ~Enters(p) /\ ~Crosses(l, p) /\ p.op # "at" /\ p.op # "c_map" /\ p.op # "gp" /\ p.op # "wp"
  BY DEF Enters, Crosses
<1>2. SureAfter(l, p) = l.sure
  BY <1>1 DEF SureAfter
<1>3. After(l, p, x)
  BY LoggedIs
<1> QED BY <1>1, <1>2, <1>3 DEF After, Said

LEMMA ChartsFollow ==
  ASSUME NEW a \in Logs, NEW b \in Logs, NEW p \in Captured, SameCharts(a, b)
  PROVE  SameCharts(Logged(a, p), Logged(b, p))
<1> PICK x : x = Logged(a, p)
  OBVIOUS
<1> PICK y : y = Logged(b, p)
  OBVIOUS
<1>1. /\ x.self = (IF p.op = "at" THEN p.id ELSE a.self)
      /\ x.map = (IF Enters(p) THEN p.map ELSE a.map)
      /\ x.here = (IF Enters(p) THEN p.map ELSE a.here)
      /\ x.gates = (IF p.op = "gp" /\ a.here # None THEN [a.gates EXCEPT ![<<a.here, p.cell>>] = p.to] ELSE a.gates)
      /\ x.spaces = (IF p.op = "wp" /\ a.here # None THEN a.spaces \cup {<<a.here, p.cell>>} ELSE a.spaces)
      /\ x.known = (IF p.op = "in" THEN a.known \cup {p.id} ELSE a.known)
  <2>1. After(a, p, x)
    BY LoggedIs
  <2> QED BY <2>1 DEF After
<1>2. /\ y.self = (IF p.op = "at" THEN p.id ELSE b.self)
      /\ y.map = (IF Enters(p) THEN p.map ELSE b.map)
      /\ y.here = (IF Enters(p) THEN p.map ELSE b.here)
      /\ y.gates = (IF p.op = "gp" /\ b.here # None THEN [b.gates EXCEPT ![<<b.here, p.cell>>] = p.to] ELSE b.gates)
      /\ y.spaces = (IF p.op = "wp" /\ b.here # None THEN b.spaces \cup {<<b.here, p.cell>>} ELSE b.spaces)
      /\ y.known = (IF p.op = "in" THEN b.known \cup {p.id} ELSE b.known)
  <2>1. After(b, p, y)
    BY LoggedIs
  <2> QED BY <2>1 DEF After
<1>3. a.self = b.self /\ a.map = b.map /\ a.here = b.here /\ a.gates = b.gates /\ a.spaces = b.spaces /\ a.known = b.known
  BY DEF SameCharts
<1>4. x.self = y.self /\ x.map = y.map /\ x.here = y.here
  BY <1>1, <1>2, <1>3
<1>5. x.gates = y.gates /\ x.spaces = y.spaces /\ x.known = y.known
  BY <1>1, <1>2, <1>3
<1> QED BY <1>4, <1>5 DEF SameCharts

\* Requests are no news of a map.
LEMMA RequestsChart ==
  ASSUME NEW l \in Logs, NEW p \in Requests
  PROVE  SameCharts(Logged(l, p), l)
<1>1. p \in Captured /\ p.op \notin {"at", "c_map", "gp", "wp", "in"}
  BY RequestFields DEF Captured
<1> PICK x : x = Logged(l, p)
  OBVIOUS
<1>2. /\ x.self = l.self /\ x.map = l.map /\ x.here = l.here /\ x.gates = l.gates /\ x.spaces = l.spaces
      /\ x.known = IF p.op = "in" THEN l.known \cup {p.id} ELSE l.known
  <2>1. Said(l, p, x)
    BY <1>1, SaidIs
  <2> QED BY <2>1 DEF Said
<1> QED BY <1>1, <1>2 DEF SameCharts

LEMMA SameBehind ==
  ASSUME NEW a \in Logs, NEW b \in Logs, NEW s \in Seq(Captured), SameCharts(a, b)
  PROVE  \A i \in 0 .. Len(s) : SameCharts(Behind(a, s)[i], Behind(b, s)[i])
<1> PICK f : f = Behind(a, s)
  OBVIOUS
<1> PICK g : g = Behind(b, s)
  OBVIOUS
<1>1. /\ Len(s) \in Nat /\ f[0] = a /\ \A i \in 0 .. Len(s) : f[i] \in Logs
      /\ \A i \in 1 .. Len(s) : f[i] = Logged(f[i - 1], s[i])
  BY BehindIs
<1>2. /\ g[0] = b /\ \A i \in 0 .. Len(s) : g[i] \in Logs
      /\ \A i \in 1 .. Len(s) : g[i] = Logged(g[i - 1], s[i])
  BY BehindIs
<1> DEFINE B == {k \in Nat : k <= Len(s) => SameCharts(f[k], g[k])}
<1>3. 0 \in B
  BY <1>1, <1>2
<1>4. ASSUME NEW k \in B PROVE k + 1 \in B
  <2> SUFFICES ASSUME k + 1 <= Len(s) PROVE SameCharts(f[k + 1], g[k + 1])
    BY DEF B
  <2>1. k + 1 \in 1 .. Len(s) /\ k \in 0 .. Len(s) /\ (k + 1) - 1 = k /\ SameCharts(f[k], g[k])
    BY <1>1
  <2>2. s[k + 1] \in Captured /\ f[k] \in Logs /\ g[k] \in Logs
    BY <1>1, <1>2, <2>1
  <2>3. f[k + 1] = Logged(f[k], s[k + 1]) /\ g[k + 1] = Logged(g[k], s[k + 1])
    BY <1>1, <1>2, <2>1
  <2> QED BY <2>1, <2>2, <2>3, ChartsFollow
<1>5. B = Nat
  <2>1. B \in SUBSET Nat
    OBVIOUS
  <2> HIDE DEF B
  <2> QED BY <1>3, <1>4, <2>1, Induct
<1> QED BY <1>1, <1>5

LEMMA RequestsBehind ==
  ASSUME NEW l \in Logs, NEW s \in Seq(Requests)
  PROVE  \A i \in 0 .. Len(s) : SameCharts(Behind(l, s)[i], l)
<1> PICK f : f = Behind(l, s)
  OBVIOUS
<1>1. s \in Seq(Captured)
  BY DEF Captured
<1>2. /\ Len(s) \in Nat /\ f[0] = l /\ \A i \in 0 .. Len(s) : f[i] \in Logs
      /\ \A i \in 1 .. Len(s) : f[i] = Logged(f[i - 1], s[i])
  BY <1>1, BehindIs
<1> DEFINE B == {k \in Nat : k <= Len(s) => SameCharts(f[k], l)}
<1>3. 0 \in B
  BY <1>2 DEF SameCharts
<1>4. ASSUME NEW k \in B PROVE k + 1 \in B
  <2> SUFFICES ASSUME k + 1 <= Len(s) PROVE SameCharts(f[k + 1], l)
    BY DEF B
  <2>1. k + 1 \in 1 .. Len(s) /\ k \in 0 .. Len(s) /\ (k + 1) - 1 = k /\ SameCharts(f[k], l)
    BY <1>2
  <2>2. s[k + 1] \in Requests /\ f[k] \in Logs /\ f[k + 1] = Logged(f[k], s[k + 1])
    BY <1>2, <2>1
  <2>3. SameCharts(f[k + 1], f[k])
    BY <2>2, RequestsChart
  <2> QED BY <2>1, <2>3 DEF SameCharts
<1>5. B = Nat
  <2>1. B \in SUBSET Nat
    OBVIOUS
  <2> HIDE DEF B
  <2> QED BY <1>3, <1>4, <2>1, Induct
<1> QED BY <1>2, <1>5

-----------------------------------------------------------------------------
(* A change of map. *)

\* What is behind the packets that leave map `from`, when l was before them.
Leaving(l, x, from) ==
  /\ x \in Logs /\ SameCharts(x, l) /\ x.me = l.me /\ x.used = l.used /\ x.slots = l.slots
  /\ x.portals = l.portals /\ x.last = l.last /\ x.pos = l.pos /\ x.own = l.own
  /\ \/ x.left = l.left /\ (x.sure => l.sure)
     \/ x.left = <<from, l.last>> /\ l.last # None /\ (x.sure => l.sure /\ l.own)

\* The crossing that led to cell c of map m.
Joined(l, from, m, c) == [l.portals EXCEPT ![<<from, l.last>>] = m, ![<<m, c>>] = from]

\* What is behind the at and the packets after it.
Entered(l, x, from, m, c) ==
  /\ x \in Logs /\ x.self = Me /\ x.map = m /\ x.here = m /\ x.pos = c /\ x.last = c /\ x.own
  /\ x.me = (IF l.me = None THEN Me ELSE l.me) /\ x.used = l.used /\ x.slots = l.slots
  /\ \A p \in Places : x.gates[p] = l.gates[p] \/ (p[1] = m /\ x.gates[p] = Exit[m][p[2]])
  /\ \A p \in x.spaces : p \in l.spaces \/ (p[1] = m /\ p[2] \in Stones[m])
  /\ l.left = None /\ (from = m => l.last = None) =>
       /\ x.left = None /\ (x.sure => l.sure)
       /\ \/ x.portals = l.portals
          \/ l.last # None /\ (x.sure => l.own) /\ x.portals = Joined(l, from, m, c)

LEMMA Leaves ==
  ASSUME NEW l \in Logs, NEW x, NEW from \in Maps, Leaving(l, x, from),
         NEW p \in {[op |-> "c_map", map |-> from, entering |-> FALSE], [op |-> "mapout"]}
  PROVE  Leaving(l, Logged(x, p), from)
<1> PICK y : y = Logged(x, p)
  OBVIOUS
<1>1. x \in Logs /\ p \in Sent /\ p \in Captured
  <2>1. [op |-> "c_map", map |-> from, entering |-> FALSE] \in Sent /\ [op |-> "mapout"] \in Sent
    BY DEF Sent
  <2> QED BY <2>1 DEF Leaving, Captured
<1>2. After(x, p, y)
  BY <1>1, LoggedIs
<1>3. ~Enters(p) /\ ~MovesPlayer(p) /\ ~Crosses(x, p) /\ p.op \in {"c_map", "mapout"}
  BY DEF Enters, MovesPlayer, Crosses
<1>4. OwnAfter(x, p) = x.own
  BY <1>3 DEF OwnAfter
<1>5. /\ y \in Logs /\ SameCharts(y, x) /\ y.me = x.me /\ y.used = x.used /\ y.slots = x.slots
      /\ y.portals = x.portals /\ y.last = x.last /\ y.pos = x.pos /\ y.own = x.own
  BY <1>2, <1>3, <1>4 DEF After, SameCharts
<1>6. SameCharts(y, l)
  BY <1>5 DEF Leaving, SameCharts
<1>7. CASE p = [op |-> "mapout"]
  <2>1. y.left = x.left /\ y.sure = x.sure
    BY <1>2, <1>3, <1>7 DEF After, SureAfter
  <2> QED BY <1>5, <1>6, <2>1 DEF Leaving
<1>8. CASE p = [op |-> "c_map", map |-> from, entering |-> FALSE]
  <2>1. p.op = "c_map" /\ ~p.entering /\ p.map = from
    BY <1>8
  <2>2. y.left = (IF x.last # None THEN <<from, x.last>> ELSE x.left)
    BY <1>2, <1>3, <2>1 DEF After
  <2>3. y.sure = (x.sure /\ x.own)
    BY <1>2, <2>1 DEF After, SureAfter
  <2>4. x.own = l.own /\ x.last = l.last /\ (x.sure => l.sure)
    BY DEF Leaving
  <2>5. CASE x.last # None
    BY <1>5, <1>6, <2>2, <2>3, <2>4, <2>5 DEF Leaving
  <2>6. CASE x.last = None
    <3>1. x.left = l.left
      BY <2>4, <2>6 DEF Leaving
    <3> QED BY <1>5, <1>6, <2>2, <2>3, <2>4, <2>6, <3>1 DEF Leaving
  <2> QED BY <2>5, <2>6
<1> QED BY <1>7, <1>8

LEMMA Arrives ==
  ASSUME NEW l \in Logs, NEW x, NEW from \in Maps, NEW m \in Maps, NEW c \in Cells, Leaving(l, x, from)
  PROVE  Entered(l, Logged(x, [op |-> "at", id |-> Me, map |-> m, cell |-> c]), from, m, c)
<1> PICK p : p = [op |-> "at", id |-> Me, map |-> m, cell |-> c]
  OBVIOUS
<1> PICK y : y = Logged(x, p)
  OBVIOUS
<1>1. x \in Logs /\ p \in Sent /\ p \in Captured
  BY SessionAssumption DEF Leaving, Sent, Captured
<1>2. After(x, p, y)
  BY <1>1, LoggedIs
<1>3. Enters(p) /\ p.op = "at" /\ p.id = Me /\ p.map = m /\ p.cell = c
  BY DEF Enters
<1>4. /\ x.me = l.me /\ x.used = l.used /\ x.slots = l.slots /\ x.gates = l.gates /\ x.spaces = l.spaces
      /\ x.portals = l.portals
  BY DEF Leaving, SameCharts
<1>5. /\ y \in Logs /\ y.self = Me /\ y.map = m /\ y.here = m /\ y.pos = c /\ y.last = c
      /\ y.me = (IF l.me = None THEN Me ELSE l.me) /\ y.used = l.used /\ y.slots = l.slots
      /\ y.gates = l.gates /\ y.spaces = l.spaces
  BY <1>2, <1>3, <1>4 DEF After
<1>6. y.own /\ y.sure = x.sure
  BY <1>2, <1>3 DEF After, OwnAfter, SureAfter
<1>7. ASSUME l.left = None, from = m => l.last = None
      PROVE  /\ y.left = None /\ (y.sure => l.sure)
             /\ \/ y.portals = l.portals
                \/ l.last # None /\ (y.sure => l.own) /\ y.portals = Joined(l, from, m, c)
  <2>1. CASE x.left = None
    <3>1. ~Crosses(x, p)
      BY <2>1 DEF Crosses
    <3>2. y.left = None /\ y.portals = l.portals
      BY <1>2, <1>3, <1>4, <2>1, <3>1 DEF After
    <3>3. x.sure => l.sure
      BY DEF Leaving
    <3> QED BY <1>6, <3>2, <3>3
  <2>2. CASE x.left # None
    <3>1. x.left = <<from, l.last>> /\ l.last # None /\ (x.sure => l.sure /\ l.own)
      BY <1>7, <2>2 DEF Leaving
    <3>2. x.left[1] = from /\ from # m
      BY <1>7, <3>1
    <3>3. Crosses(x, p)
      BY <1>3, <2>2, <3>2 DEF Crosses
    <3>4. y.left = None /\ y.portals = [x.portals EXCEPT ![x.left] = m, ![<<m, c>>] = x.left[1]]
      BY <1>2, <1>3, <3>3 DEF After
    <3>5. y.portals = Joined(l, from, m, c)
      BY <1>4, <3>1, <3>2, <3>4 DEF Joined
    <3> QED BY <1>6, <3>1, <3>4, <3>5
  <2> QED BY <2>1, <2>2
<1>8. Entered(l, y, from, m, c)
  BY <1>5, <1>6, <1>7 DEF Entered
<1> QED BY <1>8

\* A packet of the list of a map, in what is read.
Has(x, m, p) ==
  /\ p.op = "gp" => x.gates[<<m, p.cell>>] = p.to
  /\ p.op = "in" => p.id \in x.known

Made(m, view) == Gps(m) \cup Wps(m) \cup Ins(view)

LEMMA MadeFields ==
  ASSUME NEW m \in Maps, NEW view \in Views, NEW p \in Made(m, view)
  PROVE  /\ p \in Sent /\ p \in Captured /\ p.op \in {"gp", "wp", "in"}
         /\ p.op = "gp" => p.cell \in Cells /\ p.to = Exit[m][p.cell]
         /\ p.op = "wp" => p.cell \in Stones[m] /\ p.cell \in Cells
<1>1. p \in Sent
  BY ListsSent DEF Made
<1>2. Stones[m] \subseteq Cells
  BY SessionAssumption
<1>3. CASE p \in Gps(m)
  BY <1>1, <1>3 DEF Gps, Captured
<1>4. CASE p \in Wps(m)
  BY <1>1, <1>2, <1>4 DEF Wps, Captured
<1>5. CASE p \in Ins(view)
  BY <1>1, <1>5 DEF Ins, InPacket, Captured
<1> QED BY <1>3, <1>4, <1>5 DEF Made

LEMMA Enrols ==
  ASSUME NEW l \in Logs, NEW from \in Maps, NEW m \in Maps, NEW c \in Cells, NEW x, Entered(l, x, from, m, c),
         NEW p \in Sent, p = [op |-> "c_map", map |-> m, entering |-> TRUE] \/ \E view \in Views : p \in Made(m, view)
  PROVE  /\ Entered(l, Logged(x, p), from, m, c)
         /\ Has(Logged(x, p), m, p)
         /\ \A view \in Views : \A q \in Made(m, view) : Has(x, m, q) => Has(Logged(x, p), m, q)
<1> PICK y : y = Logged(x, p)
  OBVIOUS
<1>1. /\ x \in Logs /\ p \in Captured /\ m # None /\ x.here = m /\ x.left \in Places \cup {None}
      /\ x.gates \in [Places -> Maps \cup {None}] /\ x.known \in SUBSET Ids
  BY OthersIds DEF Entered, Captured, Logs
<1>2. After(x, p, y)
  BY <1>1, LoggedIs
<1>3. /\ p.op \in {"c_map", "gp", "wp", "in"}
      /\ p.op = "c_map" => p.entering /\ p.map = m
      /\ p.op = "gp" => p.cell \in Cells /\ p.to = Exit[m][p.cell]
      /\ p.op = "wp" => p.cell \in Stones[m] /\ p.cell \in Cells
  BY MadeFields
<1>4. /\ ~MovesPlayer(p) /\ p.op # "at" /\ p.op # "u_s" /\ p.op # "su" /\ ~(p.op = "c_map" /\ ~p.entering)
      /\ Enters(p) <=> p.op = "c_map"
  BY <1>3 DEF MovesPlayer, Enters
<1>5. OwnAfter(x, p) = x.own /\ SureAfter(x, p) = x.sure
  BY <1>4 DEF OwnAfter, SureAfter
<1>6. /\ y \in Logs /\ y.self = x.self /\ y.map = x.map /\ y.here = m /\ y.pos = x.pos /\ y.last = x.last /\ y.own = x.own
      /\ y.me = x.me /\ y.used = x.used /\ y.slots = x.slots /\ y.sure = x.sure
  BY <1>1, <1>2, <1>3, <1>4, <1>5 DEF After, Entered
<1>7. /\ y.gates = (IF p.op = "gp" THEN [x.gates EXCEPT ![<<m, p.cell>>] = p.to] ELSE x.gates)
      /\ y.spaces = (IF p.op = "wp" THEN x.spaces \cup {<<m, p.cell>>} ELSE x.spaces)
      /\ y.known = (IF p.op = "in" THEN x.known \cup {p.id} ELSE x.known)
  BY <1>1, <1>2 DEF After
<1>8. ASSUME NEW q \in Places
      PROVE  y.gates[q] = IF p.op = "gp" /\ q = <<m, p.cell>> THEN p.to ELSE x.gates[q]
  BY <1>1, <1>7
<1>9. ASSUME NEW q \in Places PROVE y.gates[q] = l.gates[q] \/ (q[1] = m /\ y.gates[q] = Exit[m][q[2]])
  <2>1. CASE p.op = "gp" /\ q = <<m, p.cell>>
    <3>1. y.gates[q] = p.to /\ q[1] = m /\ q[2] = p.cell
      BY <1>8, <2>1
    <3> QED BY <1>3, <2>1, <3>1
  <2>2. CASE ~(p.op = "gp" /\ q = <<m, p.cell>>)
    <3>1. y.gates[q] = x.gates[q]
      BY <1>8, <2>2
    <3> QED BY <3>1 DEF Entered
  <2> QED BY <2>1, <2>2
<1>10. ASSUME NEW q \in y.spaces PROVE q \in l.spaces \/ (q[1] = m /\ q[2] \in Stones[m])
  <2>1. CASE q \in x.spaces
    BY <2>1 DEF Entered
  <2>2. CASE q \notin x.spaces
    <3>1. p.op = "wp" /\ q = <<m, p.cell>>
      BY <1>7, <2>2
    <3>2. q[1] = m /\ q[2] = p.cell
      BY <3>1
    <3> QED BY <1>3, <3>1, <3>2
  <2> QED BY <2>1, <2>2
<1>11. x.left = None => y.left = None /\ y.portals = x.portals
  <2> SUFFICES ASSUME x.left = None PROVE y.left = None /\ y.portals = x.portals
    OBVIOUS
  <2>1. ~Crosses(x, p)
    BY DEF Crosses
  <2> QED BY <1>2, <1>4, <2>1 DEF After
<1>12. Entered(l, y, from, m, c)
  <2>1. /\ y \in Logs /\ y.self = Me /\ y.map = m /\ y.here = m /\ y.pos = c /\ y.last = c /\ y.own
        /\ y.me = (IF l.me = None THEN Me ELSE l.me) /\ y.used = l.used /\ y.slots = l.slots
    BY <1>6 DEF Entered
  <2>2. l.left = None /\ (from = m => l.last = None) =>
          /\ y.left = None /\ (y.sure => l.sure)
          /\ \/ y.portals = l.portals
             \/ l.last # None /\ (y.sure => l.own) /\ y.portals = Joined(l, from, m, c)
    BY <1>6, <1>11 DEF Entered
  <2> QED BY <1>9, <1>10, <2>1, <2>2 DEF Entered
<1>13. Has(y, m, p)
  <2>1. p.op = "gp" => y.gates[<<m, p.cell>>] = p.to
    <3> SUFFICES ASSUME p.op = "gp" PROVE y.gates[<<m, p.cell>>] = p.to
      OBVIOUS
    <3>1. <<m, p.cell>> \in Places
      BY <1>3 DEF Places
    <3> QED BY <1>8, <3>1
  <2> QED BY <1>7, <2>1 DEF Has
<1>14. ASSUME NEW view \in Views, NEW q \in Made(m, view), Has(x, m, q) PROVE Has(y, m, q)
  <2>1. ASSUME q.op = "gp" PROVE y.gates[<<m, q.cell>>] = q.to
    <3>1. q.cell \in Cells /\ q.to = Exit[m][q.cell] /\ x.gates[<<m, q.cell>>] = q.to
      BY <1>14, <2>1, MadeFields DEF Has
    <3>2. <<m, q.cell>> \in Places
      BY <3>1 DEF Places
    <3>3. p.op = "gp" /\ <<m, q.cell>> = <<m, p.cell>> => q.cell = p.cell /\ p.to = q.to
      BY <1>3, <3>1
    <3> QED BY <1>8, <3>1, <3>2, <3>3
  <2>2. q.op = "in" => q.id \in y.known
    BY <1>7, <1>14 DEF Has
  <2> QED BY <2>1, <2>2 DEF Has
<1> QED BY <1>12, <1>13, <1>14

\* The logs behind the packets of a change of map: the at is at place a.
Journey(l, s, from, m, c, view) ==
  /\ \E a \in 1 .. Len(s) : /\ \A i \in 0 .. a - 1 : Leaving(l, Behind(l, s)[i], from)
                            /\ \A i \in a .. Len(s) : Entered(l, Behind(l, s)[i], from, m, c)
                            /\ \A i \in 1 .. Len(s) : s[i].op = "c_map" => s[i].map = IF i <= a THEN from ELSE m
  /\ \A q \in Made(m, view) : Has(Behind(l, s)[Len(s)], m, q)

LEMMA ArrivalBehind ==
  ASSUME NEW from \in Maps, NEW m \in Maps, NEW c \in Cells, NEW view \in Views,
         NEW s \in Seq(Sent), NEW a \in Nat, ArrivalAt(s, a, from, m, c, view), NEW l \in Logs
  PROVE  Journey(l, s, from, m, c, view)
<1> DEFINE leave == [op |-> "c_map", map |-> from, entering |-> FALSE]
           at    == [op |-> "at", id |-> Me, map |-> m, cell |-> c]
           enter == [op |-> "c_map", map |-> m, entering |-> TRUE]
<1>1. /\ a >= 2 /\ a + 1 <= Len(s)
      /\ \A j \in 1 .. a - 1 : s[j] \in {leave, [op |-> "mapout"]}
      /\ s[a] = at /\ s[a + 1] = enter
      /\ \A j \in a + 2 .. Len(s) : s[j] \in Made(m, view)
      /\ \A p \in Made(m, view) : \E j \in a + 2 .. Len(s) : s[j] = p
  BY DEF ArrivalAt, Made
<1> PICK f : f = Behind(l, s)
  OBVIOUS
<1>2. s \in Seq(Captured) /\ Len(s) \in Nat /\ \A j \in 1 .. Len(s) : s[j] \in Sent
  BY DEF Captured
<1>3. f[0] = l /\ \A i \in 1 .. Len(s) : f[i] = Logged(f[i - 1], s[i])
  BY <1>2, BehindIs
<1> HIDE DEF leave, at, enter
<1> DEFINE B == {k \in Nat : k <= Len(s) =>
                   /\ k < a => Leaving(l, f[k], from)
                   /\ k >= a => /\ Entered(l, f[k], from, m, c)
                                /\ \A j \in a + 2 .. k : Has(f[k], m, s[j])}
<1>4. 0 \in B
  <2>1. Leaving(l, l, from)
    BY DEF Leaving, SameCharts
  <2> QED BY <1>1, <1>3, <2>1
<1>5. ASSUME NEW k \in B PROVE k + 1 \in B
  <2> SUFFICES ASSUME k + 1 <= Len(s)
               PROVE  /\ k + 1 < a => Leaving(l, f[k + 1], from)
                      /\ k + 1 >= a => /\ Entered(l, f[k + 1], from, m, c)
                                       /\ \A j \in a + 2 .. k + 1 : Has(f[k + 1], m, s[j])
    BY DEF B
  <2>1. k \in Nat /\ k + 1 \in 1 .. Len(s) /\ k <= Len(s) /\ (k + 1) - 1 = k
    BY <1>2
  <2>2. f[k + 1] = Logged(f[k], s[k + 1])
    BY <1>3, <2>1
  <2>3. /\ k < a => Leaving(l, f[k], from)
        /\ k >= a => /\ Entered(l, f[k], from, m, c)
                     /\ \A j \in a + 2 .. k : Has(f[k], m, s[j])
    BY <2>1
  <2> HIDE DEF B
  <2>4. CASE k + 1 < a
    <3>1. k + 1 \in 1 .. a - 1 /\ k < a
      BY <2>1, <2>4
    <3>2. s[k + 1] \in {leave, [op |-> "mapout"]}
      BY <1>1, <3>1
    <3>3. Leaving(l, f[k + 1], from)
      BY <2>2, <2>3, <3>1, <3>2, Leaves DEF leave
    <3> QED BY <2>1, <2>4, <3>3
  <2>5. CASE k + 1 = a
    <3>1. Leaving(l, f[k], from) /\ s[k + 1] = at
      BY <1>1, <2>1, <2>3, <2>5
    <3>2. Entered(l, f[k + 1], from, m, c)
      BY <2>2, <3>1, Arrives DEF at
    <3>3. \A j \in a + 2 .. k + 1 : FALSE
      BY <2>1, <2>5
    <3> QED BY <2>5, <3>2, <3>3
  <2>6. CASE k >= a
    <3>1. Entered(l, f[k], from, m, c) /\ \A j \in a + 2 .. k : Has(f[k], m, s[j])
      BY <2>3, <2>6
    <3>2. s[k + 1] \in Sent
      BY <1>2, <2>1
    <3>3. s[k + 1] = enter \/ s[k + 1] \in Made(m, view)
      <4>1. k = a \/ k + 1 \in a + 2 .. Len(s)
        BY <2>1, <2>6
      <4> QED BY <1>1, <4>1
    <3>4. s[k + 1] = [op |-> "c_map", map |-> m, entering |-> TRUE] \/ \E v \in Views : s[k + 1] \in Made(m, v)
      BY <3>3 DEF enter
    <3> PICK p : p = s[k + 1]
      OBVIOUS
    <3>5. /\ Entered(l, Logged(f[k], p), from, m, c)
          /\ Has(Logged(f[k], p), m, p)
          /\ \A v \in Views : \A q \in Made(m, v) : Has(f[k], m, q) => Has(Logged(f[k], p), m, q)
      BY <3>1, <3>2, <3>4, Enrols
    <3>6. ASSUME NEW j \in a + 2 .. k + 1 PROVE Has(f[k + 1], m, s[j])
      <4>1. CASE j = k + 1
        BY <2>2, <3>5, <4>1
      <4>2. CASE j # k + 1
        <5>1. j \in a + 2 .. k /\ j \in a + 2 .. Len(s)
          BY <2>1, <2>6, <4>2
        <5>2. s[j] \in Made(m, view) /\ Has(f[k], m, s[j])
          BY <1>1, <3>1, <5>1
        <5> QED BY <2>2, <3>5, <5>2
      <4> QED BY <4>1, <4>2
    <3> QED BY <2>1, <2>2, <2>6, <3>5, <3>6
  <2> QED BY <2>1, <2>4, <2>5, <2>6
<1>6. B = Nat
  <2>1. B \in SUBSET Nat
    OBVIOUS
  <2> HIDE DEF B
  <2> QED BY <1>4, <1>5, <2>1, Induct
<1>7. \A i \in 0 .. a - 1 : Leaving(l, f[i], from)
  <2> SUFFICES ASSUME NEW i \in 0 .. a - 1 PROVE Leaving(l, f[i], from)
    OBVIOUS
  <2>1. i \in Nat /\ i <= Len(s) /\ i < a
    BY <1>1, <1>2
  <2>2. i \in B
    BY <1>6, <2>1
  <2> QED BY <2>1, <2>2
<1>8. \A i \in a .. Len(s) : Entered(l, f[i], from, m, c)
  <2> SUFFICES ASSUME NEW i \in a .. Len(s) PROVE Entered(l, f[i], from, m, c)
    OBVIOUS
  <2>1. i \in Nat /\ i <= Len(s) /\ i >= a
    BY <1>1, <1>2
  <2>2. i \in B
    BY <1>6, <2>1
  <2> QED BY <2>1, <2>2
<1>9. \A q \in Made(m, view) : Has(f[Len(s)], m, q)
  <2> SUFFICES ASSUME NEW q \in Made(m, view) PROVE Has(f[Len(s)], m, q)
    OBVIOUS
  <2>1. PICK j \in a + 2 .. Len(s) : s[j] = q
    BY <1>1
  <2>2. Len(s) \in B /\ Len(s) >= a
    BY <1>1, <1>2, <1>6
  <2>3. \A i \in a + 2 .. Len(s) : Has(f[Len(s)], m, s[i])
    BY <2>2
  <2> HIDE DEF B
  <2> QED BY <2>1, <2>3
<1>10. a \in 1 .. Len(s)
  BY <1>1, <1>2
<1>11. ASSUME NEW i \in 1 .. Len(s), s[i].op = "c_map" PROVE s[i].map = IF i <= a THEN from ELSE m
  <2>1. i \in 1 .. a - 1 \/ i = a \/ i = a + 1 \/ i \in a + 2 .. Len(s)
    BY <1>1, <1>2
  <2>2. CASE i \in 1 .. a - 1
    <3>1. s[i] = leave /\ i <= a
      BY <1>1, <1>11, <2>2
    <3> QED BY <3>1 DEF leave
  <2>3. CASE i = a
    BY <1>1, <1>11, <2>3 DEF at
  <2>4. CASE i = a + 1
    <3>1. s[i] = enter /\ ~(i <= a)
      BY <1>1, <2>4
    <3> QED BY <3>1 DEF enter
  <2>5. CASE i \in a + 2 .. Len(s)
    BY <1>1, <1>11, <2>5, MadeFields
  <2> QED BY <2>1, <2>2, <2>3, <2>4, <2>5
<1> HIDE DEF B
<1> QED BY <1>7, <1>8, <1>9, <1>10, <1>11 DEF Journey

-----------------------------------------------------------------------------
(* The own id, the map, its gates, and who is near. *)

Sound(l) ==
  /\ l.self \in {None, Me} /\ (l.map # None => l.self # None)
  /\ \A p \in Places : l.gates[p] \in {None, Exit[p[1]][p[2]]} /\ (p \in l.spaces => p[2] \in Stones[p[1]])

\* On map m with the others where view has them.
Current(l, m, view) ==
  l.self # None =>
    /\ l.map = m /\ l.here = m
    /\ \A c \in Cells : Exit[m][c] # None => l.gates[<<m, c>>] = Exit[m][c]
    /\ \A id \in Others : view[id] # None => id \in l.known

\* A c_map names the map the log has when it comes: that of the at before, or the one that is left.
Named(l, s) ==
  \A k \in 1 .. Len(s) : s[k].op = "c_map" /\ Behind(l, s)[k - 1].self # None => s[k].map = Behind(l, s)[k - 1].map

\* What the log says is true behind each packet, and says where the character is behind the last.
Charted(l, s, m, view) ==
  (\A k \in 0 .. Len(s) : Sound(Behind(l, s)[k])) /\ Named(l, s) /\ Current(Behind(l, s)[Len(s)], m, view)

LEMMA SameSound ==
  ASSUME NEW a, NEW b, SameCharts(a, b), NEW m, NEW view
  PROVE  (Sound(b) => Sound(a)) /\ (Current(b, m, view) => Current(a, m, view))
BY DEF SameCharts, Sound, Current

LEMMA ChartSaid ==
  ASSUME NEW l \in Logs, NEW s \in Seq(Captured), NEW m, NEW view, Charted(l, s, m, view),
         NEW p \in Captured, p.op \notin {"at", "c_map", "gp", "wp"}, NEW near,
         \A id \in Others : near[id] # None => view[id] # None \/ (p.op = "in" /\ p.id = id)
  PROVE  Charted(l, Append(s, p), m, near)
<1> PICK u : u = Append(s, p)
  OBVIOUS
<1> PICK x : x = Behind(l, s)[Len(s)]
  OBVIOUS
<1> PICK y : y = Logged(x, p)
  OBVIOUS
<1>1. /\ Len(u) = Len(s) + 1 /\ Len(s) \in Nat
      /\ \A i \in 0 .. Len(s) : Behind(l, u)[i] = Behind(l, s)[i]
      /\ Behind(l, u)[Len(s) + 1] = y
  BY BehindAppend
<1>2. x \in Logs /\ Sound(x) /\ Current(x, m, view)
  BY <1>1, BehindIs DEF Charted
<1>3. Said(x, p, y)
  BY <1>2, SaidIs
<1>4. /\ y.self = x.self /\ y.map = x.map /\ y.here = x.here /\ y.gates = x.gates /\ y.spaces = x.spaces
      /\ y.known = IF p.op = "in" THEN x.known \cup {p.id} ELSE x.known
  BY <1>3 DEF Said
<1>5. Sound(y)
  BY <1>2, <1>4 DEF Sound
<1>6. Current(y, m, near)
  <2>1. \A id \in Others : near[id] # None /\ x.self # None => id \in y.known
    BY <1>2, <1>4 DEF Current
  <2> QED BY <1>2, <1>4, <2>1 DEF Current
<1>7. ASSUME NEW k \in 0 .. Len(u) PROVE Sound(Behind(l, u)[k])
  <2>1. k \in 0 .. Len(s) \/ k = Len(s) + 1
    BY <1>1
  <2> QED BY <1>1, <1>5, <2>1 DEF Charted
<1>8. Named(l, u)
  <2> SUFFICES ASSUME NEW k \in 1 .. Len(u), u[k].op = "c_map", Behind(l, u)[k - 1].self # None
               PROVE  u[k].map = Behind(l, u)[k - 1].map
    BY DEF Named
  <2>1. k \in 1 .. Len(s) /\ u[k] = s[k]
    BY <1>1
  <2>2. k - 1 \in 0 .. Len(s)
    BY <1>1, <2>1
  <2>3. Behind(l, u)[k - 1] = Behind(l, s)[k - 1]
    BY <1>1, <2>2
  <2> QED BY <2>1, <2>3 DEF Charted, Named
<1> QED BY <1>1, <1>6, <1>7, <1>8 DEF Charted

LEMMA JourneySound ==
  ASSUME NEW l, Sound(l), NEW from, NEW m, NEW c, NEW x, Leaving(l, x, from) \/ Entered(l, x, from, m, c)
  PROVE  Sound(x)
<1>1. CASE Leaving(l, x, from)
  BY <1>1, SameSound DEF Leaving
<1>2. CASE Entered(l, x, from, m, c)
  <2>1. x.self \in {None, Me} /\ x.self # None
    BY <1>2, SessionAssumption, NoneAssumption DEF Entered
  <2>2. ASSUME NEW p \in Places PROVE x.gates[p] \in {None, Exit[p[1]][p[2]]}
    BY <1>2 DEF Entered, Sound
  <2>3. ASSUME NEW p \in Places, p \in x.spaces PROVE p[2] \in Stones[p[1]]
    BY <1>2, <2>3 DEF Entered, Sound
  <2> QED BY <2>1, <2>2, <2>3 DEF Sound
<1> QED BY <1>1, <1>2

LEMMA JourneyCurrent ==
  ASSUME NEW l, NEW from, NEW m \in Maps, NEW c, NEW x, Entered(l, x, from, m, c),
         NEW view \in Views, \A q \in Made(m, view) : Has(x, m, q)
  PROVE  Current(x, m, view)
<1>1. x.map = m /\ x.here = m
  BY DEF Entered
<1>2. ASSUME NEW e \in Cells, Exit[m][e] # None PROVE x.gates[<<m, e>>] = Exit[m][e]
  <2> PICK q : q = [op |-> "gp", cell |-> e, to |-> Exit[m][e]]
    OBVIOUS
  <2>1. q \in Gps(m) /\ q.op = "gp" /\ q.cell = e /\ q.to = Exit[m][e]
    BY <1>2 DEF Gps
  <2> QED BY <2>1 DEF Made, Has
<1>3. ASSUME NEW id \in Others, view[id] # None PROVE id \in x.known
  <2> PICK q : q = InPacket(view, id)
    OBVIOUS
  <2>1. q \in Ins(view) /\ q.op = "in" /\ q.id = id
    BY <1>3 DEF Ins, InPacket
  <2> QED BY <2>1 DEF Made, Has
<1> QED BY <1>1, <1>2, <1>3 DEF Current

LEMMA ChartComes ==
  ASSUME NEW l \in Logs, NEW s \in Seq(Captured), \A k \in 0 .. Len(s) : Sound(Behind(l, s)[k]), Named(l, s),
         NEW from, NEW m \in Maps, NEW c, NEW view \in Views, NEW t \in Seq(Captured),
         Journey(Behind(l, s)[Len(s)], t, from, m, c, view),
         Behind(l, s)[Len(s)].self # None => Behind(l, s)[Len(s)].map = from
  PROVE  Charted(l, s \o t, m, view)
<1> PICK u : u = s \o t
  OBVIOUS
<1> PICK x : x = Behind(l, s)[Len(s)]
  OBVIOUS
<1>1. /\ Len(u) = Len(s) + Len(t) /\ Len(s) \in Nat /\ Len(t) \in Nat
      /\ (\A i \in 1 .. Len(s) : u[i] = s[i]) /\ (\A i \in 1 .. Len(t) : u[Len(s) + i] = t[i])
  BY ConcatFields
<1>2. /\ \A i \in 0 .. Len(s) : Behind(l, u)[i] = Behind(l, s)[i]
      /\ \A i \in 0 .. Len(t) : Behind(l, u)[Len(s) + i] = Behind(x, t)[i]
  BY BehindConcat
<1>3. Sound(x)
  BY <1>1
<1>4. PICK a \in 1 .. Len(t) : /\ \A i \in 0 .. a - 1 : Leaving(x, Behind(x, t)[i], from)
                               /\ \A i \in a .. Len(t) : Entered(x, Behind(x, t)[i], from, m, c)
                               /\ \A i \in 1 .. Len(t) : t[i].op = "c_map" => t[i].map = IF i <= a THEN from ELSE m
  BY DEF Journey
<1>5. ASSUME NEW i \in 0 .. Len(t) PROVE Sound(Behind(x, t)[i])
  <2>1. i \in 0 .. a - 1 \/ i \in a .. Len(t)
    BY <1>1
  <2>2. Leaving(x, Behind(x, t)[i], from) \/ Entered(x, Behind(x, t)[i], from, m, c)
    BY <1>4, <2>1
  <2> QED BY <1>3, <2>2, JourneySound
<1>6. ASSUME NEW k \in 0 .. Len(u) PROVE Sound(Behind(l, u)[k])
  <2>1. CASE k \in 0 .. Len(s)
    BY <1>2, <2>1
  <2>2. CASE k \notin 0 .. Len(s)
    <3>1. k - Len(s) \in 0 .. Len(t) /\ Len(s) + (k - Len(s)) = k
      BY <1>1, <2>2
    <3> QED BY <1>2, <1>5, <3>1
  <2> QED BY <2>1, <2>2
<1>7. Len(t) \in a .. Len(t) /\ Len(t) \in 0 .. Len(t)
  BY <1>1
<1>8. Entered(x, Behind(x, t)[Len(t)], from, m, c) /\ \A q \in Made(m, view) : Has(Behind(x, t)[Len(t)], m, q)
  BY <1>4, <1>7 DEF Journey
<1>9. Current(Behind(x, t)[Len(t)], m, view)
  BY <1>8, JourneyCurrent
<1>10. Behind(l, u)[Len(u)] = Behind(x, t)[Len(t)]
  BY <1>1, <1>2, <1>7
<1>11. ASSUME NEW i \in 1 .. Len(t), t[i].op = "c_map", Behind(x, t)[i - 1].self # None
       PROVE  t[i].map = Behind(x, t)[i - 1].map
  <2>1. CASE i <= a
    <3>1. i - 1 \in 0 .. a - 1
      BY <1>1, <2>1
    <3>2. Behind(x, t)[i - 1].self = x.self /\ Behind(x, t)[i - 1].map = x.map
      BY <1>4, <3>1 DEF Leaving, SameCharts
    <3> QED BY <1>4, <1>11, <2>1, <3>2
  <2>2. CASE ~(i <= a)
    <3>1. i - 1 \in a .. Len(t)
      BY <1>1, <2>2
    <3>2. Behind(x, t)[i - 1].map = m
      BY <1>4, <3>1 DEF Entered
    <3> QED BY <1>4, <1>11, <2>2, <3>2
  <2> QED BY <2>1, <2>2
<1>12. Named(l, u)
  <2> SUFFICES ASSUME NEW k \in 1 .. Len(u), u[k].op = "c_map", Behind(l, u)[k - 1].self # None
               PROVE  u[k].map = Behind(l, u)[k - 1].map
    BY DEF Named
  <2>1. CASE k \in 1 .. Len(s)
    <3>1. u[k] = s[k] /\ k - 1 \in 0 .. Len(s)
      BY <1>1, <2>1
    <3>2. Behind(l, u)[k - 1] = Behind(l, s)[k - 1]
      BY <1>2, <3>1
    <3> QED BY <2>1, <3>1, <3>2 DEF Named
  <2>2. CASE k \notin 1 .. Len(s)
    <3> PICK i : i = k - Len(s)
      OBVIOUS
    <3>1. i \in 1 .. Len(t) /\ k = Len(s) + i /\ i - 1 \in 0 .. Len(t) /\ k - 1 = Len(s) + (i - 1)
      <4>1. k \in Nat /\ k > Len(s) /\ k <= Len(s) + Len(t)
        BY <1>1, <2>2
      <4>2. i \in Nat /\ i >= 1 /\ i <= Len(t) /\ k = Len(s) + i
        BY <1>1, <4>1
      <4> QED BY <1>1, <4>1, <4>2
    <3>2. u[k] = t[i] /\ Behind(l, u)[k - 1] = Behind(x, t)[i - 1]
      BY <1>1, <1>2, <3>1
    <3> QED BY <1>11, <3>1, <3>2
  <2> QED BY <2>1, <2>2
<1> QED BY <1>6, <1>9, <1>10, <1>12 DEF Charted

LEMMA DrainedTyped ==
  ASSUME NEW l \in Logs, NEW s \in Seq(Captured), NEW r \in Seq(Captured)
  PROVE  Drained(l, s, r) \in Logs /\ Drained(l, s, r) = Behind(Behind(l, s)[Len(s)], r)[Len(r)]
<1> PICK u : u = s \o r
  OBVIOUS
<1>1. u \in Seq(Captured) /\ Len(u) = Len(s) + Len(r) /\ Len(s) \in Nat /\ Len(r) \in Nat
  BY ConcatFields
<1>2. \A i \in 0 .. Len(u) : Behind(l, u)[i] \in Logs
  BY <1>1, BehindIs
<1>3. \A i \in 0 .. Len(r) : Behind(l, u)[Len(s) + i] = Behind(Behind(l, s)[Len(s)], r)[i]
  BY BehindConcat
<1>4. Len(r) \in 0 .. Len(r) /\ Len(u) \in 0 .. Len(u)
  BY <1>1
<1>5. Drained(l, s, r) = Behind(l, u)[Len(u)]
  BY DEF Drained
<1> QED BY <1>1, <1>2, <1>3, <1>4, <1>5

\* Whichever packets of both wires are drained.
LEMMA ChartTaken ==
  ASSUME NEW l \in Logs, NEW s \in Seq(Captured), NEW m, NEW view, Charted(l, s, m, view),
         NEW k \in 0 .. Len(s), NEW r \in Seq(Requests)
  PROVE  Charted(Drained(l, SubSeq(s, 1, k), r), SubSeq(s, k + 1, Len(s)), m, view)
<1> PICK first : first = SubSeq(s, 1, k)
  OBVIOUS
<1> PICK rest : rest = SubSeq(s, k + 1, Len(s))
  OBVIOUS
<1> PICK x : x = Drained(l, first, r)
  OBVIOUS
<1> PICK y : y = Behind(l, s)[k]
  OBVIOUS
<1>1. /\ first \in Seq(Captured) /\ Len(first) = k /\ rest \in Seq(Captured) /\ Len(rest) = Len(s) - k
      /\ Behind(l, first)[k] = y
      /\ \A i \in 0 .. Len(rest) : Behind(y, rest)[i] = Behind(l, s)[k + i]
  BY BehindSplit
<1>2. r \in Seq(Captured) /\ Len(r) \in Nat /\ Len(s) \in Nat /\ k \in Nat /\ k <= Len(s) /\ Len(r) \in 0 .. Len(r)
  BY DEF Captured
<1>3. x \in Logs /\ x = Behind(y, r)[Len(r)]
  <2>1. x \in Logs /\ x = Behind(Behind(l, first)[Len(first)], r)[Len(r)]
    BY <1>1, <1>2, DrainedTyped
  <2> QED BY <1>1, <2>1
<1>4. y \in Logs
  BY BehindIs
<1>5. SameCharts(x, y)
  BY <1>2, <1>3, <1>4, RequestsBehind
<1>6. \A i \in 0 .. Len(rest) : SameCharts(Behind(x, rest)[i], Behind(y, rest)[i])
  BY <1>1, <1>3, <1>4, <1>5, SameBehind
<1>7. ASSUME NEW i \in 0 .. Len(rest)
      PROVE  k + i \in 0 .. Len(s) /\ SameCharts(Behind(x, rest)[i], Behind(l, s)[k + i])
  <2>1. k + i \in 0 .. Len(s)
    BY <1>1, <1>2
  <2> QED BY <1>1, <1>6, <2>1
<1>8. \A i \in 0 .. Len(rest) : Sound(Behind(x, rest)[i])
  <2> SUFFICES ASSUME NEW i \in 0 .. Len(rest) PROVE Sound(Behind(x, rest)[i])
    OBVIOUS
  <2>1. Sound(Behind(l, s)[k + i]) /\ SameCharts(Behind(x, rest)[i], Behind(l, s)[k + i])
    BY <1>7 DEF Charted
  <2> QED BY <2>1, SameSound
<1>9. Current(Behind(x, rest)[Len(rest)], m, view)
  <2>1. Len(rest) \in 0 .. Len(rest) /\ k + Len(rest) = Len(s)
    BY <1>1, <1>2
  <2>2. SameCharts(Behind(x, rest)[Len(rest)], Behind(l, s)[Len(s)])
    BY <1>7, <2>1
  <2>3. Current(Behind(l, s)[Len(s)], m, view)
    BY DEF Charted
  <2> QED BY <2>2, <2>3, SameSound
<1>10. Named(x, rest)
  <2> SUFFICES ASSUME NEW i \in 1 .. Len(rest), rest[i].op = "c_map", Behind(x, rest)[i - 1].self # None
               PROVE  rest[i].map = Behind(x, rest)[i - 1].map
    BY DEF Named
  <2>1. i - 1 \in 0 .. Len(rest) /\ k + i \in 1 .. Len(s) /\ k + (i - 1) = (k + i) - 1
    BY <1>1, <1>2
  <2>2. SameCharts(Behind(x, rest)[i - 1], Behind(l, s)[(k + i) - 1])
    BY <1>7, <2>1
  <2>3. rest[i] = s[k + i]
    BY <1>1, <1>2, SubSeqProperties
  <2> QED BY <2>1, <2>2, <2>3 DEF Charted, Named, SameCharts
<1> QED BY <1>8, <1>9, <1>10 DEF Charted

-----------------------------------------------------------------------------
(* The skills, the portals and the place. *)

Learned(l) == \A s \in Slots : l.slots[s] \in {None, Skill[s]}

Linked(l, past) ==
  "warped" \notin past /\ l.sure => \A p \in Places : l.portals[p] \in {None, Exit[p[1]][p[2]]}

\* The client asked `queue` and the character is at cell c.
Abreast(l, queue, c, past) ==
  /\ l.me \in {None, Me}
  /\ queue # <<>> /\ queue[1].op = "u_s" => l.used = queue[1].slot
  /\ "warped" \notin past =>
       /\ l.left = None /\ l.last = l.pos
       /\ l.own /\ queue # <<>> /\ queue[1] \in Walks => l.pos = queue[1].cell
       /\ l.own /\ ~(queue # <<>> /\ queue[1] \in Walks) /\ "ignored" \notin past /\ l.self # None => l.pos = c

\* The skills and portals of the log are true behind each packet, and it is abreast behind the last.
Taught(l, s, queue, c, past) ==
  /\ \A k \in 0 .. Len(s) : Learned(Behind(l, s)[k]) /\ Linked(Behind(l, s)[k], past)
  /\ Abreast(Behind(l, s)[Len(s)], queue, c, past)

LEMMA TaughtOne ==
  ASSUME NEW l \in Logs, NEW s \in Seq(Captured), NEW past, NEW p \in Captured, NEW queue, NEW c,
         \A k \in 0 .. Len(s) : Learned(Behind(l, s)[k]) /\ Linked(Behind(l, s)[k], past),
         NEW x, x = Logged(Behind(l, s)[Len(s)], p), Learned(x), Linked(x, past), Abreast(x, queue, c, past)
  PROVE  Taught(l, Append(s, p), queue, c, past)
<1> PICK u : u = Append(s, p)
  OBVIOUS
<1>1. /\ Len(u) = Len(s) + 1 /\ Len(s) \in Nat
      /\ \A i \in 0 .. Len(s) : Behind(l, u)[i] = Behind(l, s)[i]
      /\ Behind(l, u)[Len(s) + 1] = x
  BY BehindAppend
<1>2. ASSUME NEW k \in 0 .. Len(u) PROVE Learned(Behind(l, u)[k]) /\ Linked(Behind(l, u)[k], past)
  <2>1. k \in 0 .. Len(s) \/ k = Len(s) + 1
    BY <1>1
  <2> QED BY <1>1, <2>1
<1> QED BY <1>1, <1>2 DEF Taught

\* The first packets are drained.
LEMMA TaughtTaken ==
  ASSUME NEW l \in Logs, NEW s \in Seq(Captured), NEW queue, NEW c, NEW past, Taught(l, s, queue, c, past),
         NEW k \in 0 .. Len(s)
  PROVE  /\ Learned(Behind(l, s)[k]) /\ Linked(Behind(l, s)[k], past)
         /\ Taught(Behind(l, s)[k], SubSeq(s, k + 1, Len(s)), queue, c, past)
<1> PICK rest : rest = SubSeq(s, k + 1, Len(s))
  OBVIOUS
<1> PICK y : y = Behind(l, s)[k]
  OBVIOUS
<1>1. /\ Len(rest) = Len(s) - k
      /\ \A i \in 0 .. Len(rest) : Behind(y, rest)[i] = Behind(l, s)[k + i]
  BY BehindSplit
<1>2. Len(s) \in Nat /\ k \in Nat /\ k <= Len(s)
  OBVIOUS
<1>3. ASSUME NEW i \in 0 .. Len(rest) PROVE Learned(Behind(y, rest)[i]) /\ Linked(Behind(y, rest)[i], past)
  <2>1. k + i \in 0 .. Len(s)
    BY <1>1, <1>2
  <2> QED BY <1>1, <2>1 DEF Taught
<1>4. Behind(y, rest)[Len(rest)] = Behind(l, s)[Len(s)]
  <2>1. Len(rest) \in 0 .. Len(rest) /\ k + Len(rest) = Len(s)
    BY <1>1, <1>2
  <2> QED BY <1>1, <2>1
<1> QED BY <1>3, <1>4 DEF Taught

\* If the log knows the own place, it is where map `from` leads to cell c of map m.
Straight(l, from, m, c, past) ==
  "warped" \notin past =>
    /\ l.left = None /\ (from = m => l.last = None)
    /\ l.own /\ l.last # None => Exit[from][l.last] = m /\ Exit[m][c] = from

LEMMA JourneyTaught ==
  ASSUME NEW l \in Logs, NEW past, Learned(l), Linked(l, past), NEW from \in Maps, NEW m \in Maps, NEW c \in Cells,
         Straight(l, from, m, c, past), NEW x, Leaving(l, x, from) \/ Entered(l, x, from, m, c)
  PROVE  Learned(x) /\ Linked(x, past)
<1>1. x.slots = l.slots
  BY DEF Leaving, Entered
<1>2. Learned(x)
  BY <1>1 DEF Learned
<1>3. ASSUME "warped" \notin past, x.sure PROVE \A p \in Places : x.portals[p] \in {None, Exit[p[1]][p[2]]}
  <2>1. CASE Leaving(l, x, from)
    <3>1. x.portals = l.portals /\ l.sure
      BY <1>3, <2>1 DEF Leaving
    <3> QED BY <1>3, <3>1 DEF Linked
  <2>2. CASE Entered(l, x, from, m, c)
    <3>1. /\ l.left = None /\ (from = m => l.last = None)
          /\ l.own /\ l.last # None => Exit[from][l.last] = m /\ Exit[m][c] = from
      BY <1>3 DEF Straight
    <3>2. /\ l.sure
          /\ x.portals = l.portals \/ (l.last # None /\ l.own /\ x.portals = Joined(l, from, m, c))
      BY <1>3, <2>2, <3>1 DEF Entered
    <3>3. \A p \in Places : l.portals[p] \in {None, Exit[p[1]][p[2]]}
      BY <1>3, <3>2 DEF Linked
    <3>4. CASE l.last # None /\ l.own /\ x.portals = Joined(l, from, m, c)
      <4>1. l.portals \in [Places -> Maps \cup {None}] /\ l.last \in Cells
        BY <3>4 DEF Logs
      <4>2. <<from, l.last>> \in Places /\ <<m, c>> \in Places
        BY <4>1 DEF Places
      <4> SUFFICES ASSUME NEW p \in Places PROVE x.portals[p] \in {None, Exit[p[1]][p[2]]}
        OBVIOUS
      <4>3. x.portals = [l.portals EXCEPT ![<<from, l.last>>] = m, ![<<m, c>>] = from]
        BY <3>4 DEF Joined
      <4>4. CASE p = <<m, c>>
        <5>1. x.portals[p] = from /\ p[1] = m /\ p[2] = c
          BY <4>1, <4>2, <4>3, <4>4
        <5> QED BY <3>1, <3>4, <5>1
      <4>5. CASE p = <<from, l.last>> /\ p # <<m, c>>
        <5>1. x.portals[p] = m /\ p[1] = from /\ p[2] = l.last
          BY <4>1, <4>2, <4>3, <4>5
        <5> QED BY <3>1, <3>4, <5>1
      <4>6. CASE p # <<from, l.last>> /\ p # <<m, c>>
        <5>1. x.portals[p] = l.portals[p]
          BY <4>1, <4>2, <4>3, <4>6
        <5> QED BY <3>3, <5>1
      <4> QED BY <4>4, <4>5, <4>6
    <3> QED BY <3>2, <3>3, <3>4
  <2> QED BY <2>1, <2>2
<1> QED BY <1>2, <1>3 DEF Linked

LEMMA TaughtComes ==
  ASSUME NEW l \in Logs, NEW s \in Seq(Captured), NEW past,
         \A k \in 0 .. Len(s) : Learned(Behind(l, s)[k]) /\ Linked(Behind(l, s)[k], past),
         NEW from \in Maps, NEW m \in Maps, NEW c \in Cells, NEW view, NEW t \in Seq(Captured), NEW x, x = Behind(l, s)[Len(s)],
         Journey(x, t, from, m, c, view), Straight(x, from, m, c, past), x.me \in {None, Me},
         NEW queue, queue # <<>> => "warped" \in past /\ (queue[1].op = "u_s" => x.used = queue[1].slot)
  PROVE  Taught(l, s \o t, queue, c, past)
<1> PICK u : u = s \o t
  OBVIOUS
<1>1. Len(u) = Len(s) + Len(t) /\ Len(s) \in Nat /\ Len(t) \in Nat
  BY ConcatFields
<1>2. /\ \A i \in 0 .. Len(s) : Behind(l, u)[i] = Behind(l, s)[i]
      /\ \A i \in 0 .. Len(t) : Behind(l, u)[Len(s) + i] = Behind(x, t)[i]
  BY BehindConcat
<1>3. x \in Logs /\ Learned(x) /\ Linked(x, past)
  BY <1>1, BehindIs
<1>4. PICK a \in 1 .. Len(t) : /\ \A i \in 0 .. a - 1 : Leaving(x, Behind(x, t)[i], from)
                               /\ \A i \in a .. Len(t) : Entered(x, Behind(x, t)[i], from, m, c)
  BY DEF Journey
<1>5. ASSUME NEW i \in 0 .. Len(t) PROVE Learned(Behind(x, t)[i]) /\ Linked(Behind(x, t)[i], past)
  <2>1. i \in 0 .. a - 1 \/ i \in a .. Len(t)
    BY <1>1
  <2>2. Leaving(x, Behind(x, t)[i], from) \/ Entered(x, Behind(x, t)[i], from, m, c)
    BY <1>4, <2>1
  <2> PICK y : y = Behind(x, t)[i]
    OBVIOUS
  <2>3. Learned(y) /\ Linked(y, past)
    BY <1>3, <2>2, JourneyTaught
  <2> QED BY <2>3
<1>6. ASSUME NEW k \in 0 .. Len(u) PROVE Learned(Behind(l, u)[k]) /\ Linked(Behind(l, u)[k], past)
  <2>1. CASE k \in 0 .. Len(s)
    BY <1>2, <2>1
  <2>2. CASE k \notin 0 .. Len(s)
    <3>1. k - Len(s) \in 0 .. Len(t) /\ Len(s) + (k - Len(s)) = k
      BY <1>1, <2>2
    <3> QED BY <1>2, <1>5, <3>1
  <2> QED BY <2>1, <2>2
<1>7. Len(t) \in a .. Len(t) /\ Len(t) \in 0 .. Len(t)
  BY <1>1
<1> PICK y : y = Behind(x, t)[Len(t)]
  OBVIOUS
<1>8. Entered(x, y, from, m, c)
  BY <1>4, <1>7
<1>9. Behind(l, u)[Len(u)] = y
  BY <1>1, <1>2, <1>7
<1>10. Abreast(y, queue, c, past)
  <2>1. y.me \in {None, Me} /\ y.used = x.used /\ y.pos = c /\ y.last = c
    BY <1>8 DEF Entered
  <2>2. "warped" \notin past => y.left = None /\ queue = <<>>
    BY <1>8 DEF Entered, Straight
  <2> QED BY <2>1, <2>2 DEF Abreast
<1> QED BY <1>6, <1>9, <1>10 DEF Taught

\* While one wire is empty no packet can be overtaken: what is on the way is read in the order it was sent.
InOrder(l, coming, going, queue, c, past) ==
  past \cap {"overtaken", "overlapped"} = {} =>
    /\ Len(queue) <= 1 /\ Learned(l) /\ Linked(l, past)
    /\ coming = <<>> \/ going = <<>> => Taught(l, coming \o going, queue, c, past)

LEMMA MorePast ==
  ASSUME NEW past, NEW more, past \subseteq more, NEW l, NEW queue, NEW c
  PROVE  /\ Linked(l, past) => Linked(l, more)
         /\ Abreast(l, queue, c, past) => Abreast(l, queue, c, more)
BY DEF Linked, Abreast

LEMMA TaughtMore ==
  ASSUME NEW l, NEW s, NEW queue, NEW c, NEW past, Taught(l, s, queue, c, past), NEW more, past \subseteq more
  PROVE  Taught(l, s, queue, c, more)
<1>1. \A k \in 0 .. Len(s) : Learned(Behind(l, s)[k]) /\ Linked(Behind(l, s)[k], more)
  BY MorePast DEF Taught
<1>2. Abreast(Behind(l, s)[Len(s)], queue, c, more)
  BY MorePast DEF Taught
<1> QED BY <1>1, <1>2 DEF Taught

LEMMA DrainedNothing ==
  ASSUME NEW l \in Logs, NEW s \in Seq(Captured)
  PROVE  /\ Drained(l, s, <<>>) = Behind(l, s)[Len(s)] /\ Drained(l, <<>>, s) = Behind(l, s)[Len(s)]
         /\ Drained(l, <<>>, <<>>) = l
<1>1. s \o <<>> = s /\ <<>> \o s = s /\ <<>> \o <<>> = <<>> /\ Len(<<>>) = 0 /\ <<>> \in Seq(Captured)
  OBVIOUS
<1>2. Behind(l, <<>>)[0] = l
  BY <1>1, BehindIs
<1> QED BY <1>1, <1>2 DEF Drained

LEMMA OrderTaken ==
  ASSUME NEW l \in Logs, NEW coming \in Seq(Sent), NEW going \in Seq(Requests), NEW queue, NEW c, NEW past,
         InOrder(l, coming, going, queue, c, past), NEW more, past \subseteq more,
         NEW k \in 0 .. Len(coming), NEW j \in 0 .. Len(going),
         "overtaken" \notin more => (k = 0 \/ going = <<>>) /\ (j = 0 \/ k = Len(coming))
  PROVE  InOrder(Drained(l, SubSeq(coming, 1, k), SubSeq(going, 1, j)),
                 SubSeq(coming, k + 1, Len(coming)), SubSeq(going, j + 1, Len(going)), queue, c, more)
<1> SUFFICES ASSUME more \cap {"overtaken", "overlapped"} = {}
             PROVE  LET x == Drained(l, SubSeq(coming, 1, k), SubSeq(going, 1, j))
                        u == SubSeq(coming, k + 1, Len(coming))
                        v == SubSeq(going, j + 1, Len(going))
                    IN /\ Len(queue) <= 1 /\ Learned(x) /\ Linked(x, more)
                       /\ u = <<>> \/ v = <<>> => Taught(x, u \o v, queue, c, more)
  BY DEF InOrder
<1>1. (k = 0 \/ going = <<>>) /\ (j = 0 \/ k = Len(coming))
  OBVIOUS
<1>2. /\ Len(queue) <= 1 /\ Learned(l) /\ Linked(l, past)
      /\ coming = <<>> \/ going = <<>> => Taught(l, coming \o going, queue, c, past)
  <2>1. past \cap {"overtaken", "overlapped"} = {}
    OBVIOUS
  <2> QED BY <2>1 DEF InOrder
<1>3. coming \in Seq(Captured) /\ going \in Seq(Captured)
  BY DEF Captured
<1>4. CASE going = <<>>
  <2>1. j = 0 /\ SubSeq(going, 1, j) = <<>> /\ SubSeq(going, j + 1, Len(going)) = <<>> /\ coming \o going = coming
    BY <1>4
  <2> PICK u : u = SubSeq(coming, k + 1, Len(coming))
    OBVIOUS
  <2> PICK f : f = SubSeq(coming, 1, k)
    OBVIOUS
  <2> PICK y : y = Behind(l, coming)[k]
    OBVIOUS
  <2>2. f \in Seq(Captured) /\ Len(f) = k /\ u \in Seq(Captured) /\ Behind(l, f)[k] = y
    BY <1>3, BehindSplit
  <2>3. Drained(l, f, <<>>) = y
    <3>1. Drained(l, f, <<>>) = Behind(l, f)[Len(f)]
      BY <2>2, DrainedNothing
    <3> QED BY <2>2, <3>1
  <2>4. Taught(l, coming, queue, c, past)
    BY <1>2, <1>4, <2>1
  <2>5. Learned(y) /\ Linked(y, past) /\ Taught(y, u, queue, c, past)
    BY <1>3, <2>4, TaughtTaken
  <2>6. Linked(y, more) /\ Taught(y, u, queue, c, more)
    BY <2>5, MorePast, TaughtMore
  <2>7. u \o <<>> = u
    BY <2>2
  <2> QED BY <1>2, <2>1, <2>3, <2>5, <2>6, <2>7
<1>5. CASE coming = <<>>
  <2>1. k = 0 /\ SubSeq(coming, 1, k) = <<>> /\ SubSeq(coming, k + 1, Len(coming)) = <<>> /\ coming \o going = going
    BY <1>5
  <2> PICK u : u = SubSeq(going, j + 1, Len(going))
    OBVIOUS
  <2> PICK f : f = SubSeq(going, 1, j)
    OBVIOUS
  <2> PICK y : y = Behind(l, going)[j]
    OBVIOUS
  <2>2. f \in Seq(Captured) /\ Len(f) = j /\ u \in Seq(Captured) /\ Behind(l, f)[j] = y
    BY <1>3, BehindSplit
  <2>3. Drained(l, <<>>, f) = y
    <3>1. Drained(l, <<>>, f) = Behind(l, f)[Len(f)]
      BY <2>2, DrainedNothing
    <3> QED BY <2>2, <3>1
  <2>4. Taught(l, going, queue, c, past)
    BY <1>2, <1>5, <2>1
  <2>5. Learned(y) /\ Linked(y, past) /\ Taught(y, u, queue, c, past)
    BY <1>3, <2>4, TaughtTaken
  <2>6. Linked(y, more) /\ Taught(y, u, queue, c, more)
    BY <2>5, MorePast, TaughtMore
  <2>7. <<>> \o u = u
    BY <2>2
  <2> QED BY <1>2, <2>1, <2>3, <2>5, <2>6, <2>7
<1>6. CASE going # <<>> /\ coming # <<>>
  <2>1. k = 0 /\ j = 0
    BY <1>1, <1>6
  <2>2. SubSeq(coming, 1, 0) = <<>> /\ SubSeq(going, 1, 0) = <<>>
    OBVIOUS
  <2>3. SubSeq(coming, 0 + 1, Len(coming)) = coming /\ SubSeq(going, 0 + 1, Len(going)) = going
    OBVIOUS
  <2>4. Drained(l, <<>>, <<>>) = l
    BY <1>3, DrainedNothing
  <2>5. Linked(l, more)
    BY <1>2, MorePast
  <2> QED BY <1>2, <1>6, <2>1, <2>2, <2>3, <2>4, <2>5
<1> QED BY <1>4, <1>5, <1>6

-----------------------------------------------------------------------------
(* The steps. *)

\* Until the host reads it.
LogInv ==
  /\ log \in Logs
  /\ Charted(log, Coming, game.map, game.near)
  /\ InOrder(log, Coming, Going, asked, game.cell, mishaps)

LateInv == seeded = "no" => SessionTypeOK /\ LogInv

LEMMA MovingIs ==
  ASSUME SessionTypeOK, NEW m, NEW c, Moving(m, c), NEW l \in Logs
  PROVE  \E s \in Seq(Sent), view \in Views :
           /\ m \in Maps /\ c \in Cells /\ game.map \in Maps
           /\ Journey(l, s, game.map, m, c, view) /\ s # <<>>
           /\ game'.map = m /\ game'.cell = c /\ game'.near = view
           /\ Going' = Going /\ Coming' = Coming \o s
<1>1. PICK s \in Seq(Sent), view \in Views, a \in Nat :
        /\ ArrivalAt(s, a, game.map, m, c, view) /\ m \in Maps /\ c \in Cells
        /\ game' = [map |-> m, cell |-> c, sitting |-> game.sitting, near |-> view, drops |-> {}]
        /\ wire' = [SEND |-> Going, RECV |-> Coming \o s]
  BY DEF Moving
<1>2. game.map \in Maps
  BY GameFields
<1>3. Journey(l, s, game.map, m, c, view)
  BY <1>1, <1>2, ArrivalBehind
<1>4. s # <<>>
  BY <1>1 DEF ArrivalAt
<1>5. game'.map = m /\ game'.cell = c /\ game'.near = view /\ Going' = Going /\ Coming' = Coming \o s
  BY <1>1 DEF Going, Coming
<1> QED BY <1>1, <1>2, <1>3, <1>4, <1>5

LEMMA SayingIs ==
  ASSUME SessionTypeOK, NEW p, Saying(p)
  PROVE  /\ p \in Sent /\ p \in Captured /\ p.op \notin {"c_map", "mapout", "at", "gp", "wp"}
         /\ game'.map = game.map /\ game'.cell = game.cell /\ (p.op = "tp" => p.cell = game.cell)
         /\ \A id \in Others : game'.near[id] = IF p \in Touches(id) THEN Shows(p, id) ELSE game.near[id]
         /\ Going' = Going /\ Coming' = Append(Coming, p) /\ mishaps' = mishaps
BY DEF Saying, Truly, Captured, Going, Coming

LEMMA PlayedChart ==
  ASSUME SessionTypeOK, Played, NEW l \in Logs, Charted(l, Coming, game.map, game.near)
  PROVE  Charted(l, Coming', game'.map, game'.near)
<1>1. Coming \in Seq(Captured) /\ Coming \in Seq(Sent)
  BY WireFields DEF Captured
<1>2. ASSUME NEW request \in Requests, Asking(request) \/ Walked(request) \/ Ignored(request)
      PROVE  Charted(l, Coming', game'.map, game'.near)
  <2>1. Coming' = Coming
    BY <1>2, WiresAfter
  <2>2. game'.map = game.map /\ game'.near = game.near
    BY <1>2 DEF Asking, Walked, Ignored, Silent
  <2> QED BY <2>1, <2>2
<1>3. ASSUME NEW m, NEW c, Moving(m, c) PROVE Charted(l, Coming', game'.map, game'.near)
  <2> PICK x : x = Behind(l, Coming)[Len(Coming)]
    OBVIOUS
  <2>1. x \in Logs
    BY <1>1, BehindIs
  <2>2. PICK s \in Seq(Sent), view \in Views :
          /\ m \in Maps /\ Journey(x, s, game.map, m, c, view)
          /\ game'.map = m /\ game'.near = view /\ Coming' = Coming \o s
    BY <1>3, <2>1, MovingIs
  <2>3. s \in Seq(Captured)
    BY DEF Captured
  <2>4. /\ \A k \in 0 .. Len(Coming) : Sound(Behind(l, Coming)[k])
        /\ Named(l, Coming) /\ (x.self # None => x.map = game.map)
    BY DEF Charted, Current
  <2>5. Charted(l, Coming \o s, m, view)
    BY <1>1, <2>2, <2>3, <2>4, ChartComes
  <2> QED BY <2>2, <2>5
<1>4. ASSUME NEW p, Saying(p), p.op = "mv" => game.near[p.id] # None PROVE Charted(l, Coming', game'.map, game'.near)
  <2>1. /\ p \in Captured /\ p.op \notin {"c_map", "mapout", "at", "gp", "wp"} /\ game'.map = game.map
        /\ \A id \in Others : game'.near[id] = IF p \in Touches(id) THEN Shows(p, id) ELSE game.near[id]
        /\ Coming' = Append(Coming, p)
    BY <1>4, SayingIs
  <2>2. ASSUME NEW id \in Others, game'.near[id] # None
        PROVE  game.near[id] # None \/ (p.op = "in" /\ p.id = id)
    <3>1. CASE p \notin Touches(id)
      BY <2>1, <2>2, <3>1
    <3>2. CASE p \in Touches(id)
      <4>1. p.op \in {"mv", "in"}
        BY <2>1, <2>2, <3>2 DEF Shows
      <4>2. p.id = id
        BY <3>2, <4>1 DEF Touches
      <4> QED BY <1>4, <4>1, <4>2
    <3> QED BY <3>1, <3>2
  <2> PICK near : near = game'.near
    OBVIOUS
  <2>3. Charted(l, Append(Coming, p), game.map, near)
    BY <1>1, <2>1, <2>2, ChartSaid
  <2> QED BY <2>1, <2>3
<1>5. /\ \A request, p : Replied(request, p) => Saying(p) /\ p.op # "mv"
      /\ \A p : Told(p) => Saying(p) /\ (p.op = "mv" => game.near[p.id] # None)
      /\ \A request : Went(request) => \E m, c : Moving(m, c)
      /\ Warped => \E m, c : Moving(m, c)
  BY DEF Replied, Told, Went, Warped
<1> QED BY <1>2, <1>3, <1>4, <1>5 DEF Played

LEMMA AskedInOrder ==
  ASSUME NEW l \in Logs, NEW coming \in Seq(Sent), NEW going \in Seq(Requests), NEW c, NEW past,
         InOrder(l, coming, going, <<>>, c, past), NEW request \in Requests
  PROVE  InOrder(l, coming, Append(going, request), <<request>>, c, past)
<1> SUFFICES ASSUME past \cap {"overtaken", "overlapped"} = {}
             PROVE  /\ Len(<<request>>) <= 1 /\ Learned(l) /\ Linked(l, past)
                    /\ coming = <<>> \/ Append(going, request) = <<>> =>
                         Taught(l, coming \o Append(going, request), <<request>>, c, past)
  BY DEF InOrder
<1>1. /\ Learned(l) /\ Linked(l, past)
      /\ coming = <<>> \/ going = <<>> => Taught(l, coming \o going, <<>>, c, past)
  BY DEF InOrder
<1>2. ASSUME coming = <<>> PROVE Taught(l, coming \o Append(going, request), <<request>>, c, past)
  <2>1. coming \o going = going /\ coming \o Append(going, request) = Append(going, request)
    BY <1>2
  <2>2. Taught(l, going, <<>>, c, past)
    BY <1>1, <1>2, <2>1
  <2> PICK x : x = Behind(l, going)[Len(going)]
    OBVIOUS
  <2> PICK y : y = Logged(x, request)
    OBVIOUS
  <2>3. going \in Seq(Captured) /\ request \in Captured
    BY DEF Captured
  <2>4. x \in Logs /\ Learned(x) /\ Linked(x, past) /\ Abreast(x, <<>>, c, past)
    <3>1. Len(going) \in 0 .. Len(going)
      OBVIOUS
    <3> QED BY <2>2, <2>3, <3>1, BehindIs DEF Taught
  <2>5. /\ request.op \in {"walk", "u_s", "rest"}
        /\ MovesPlayer(request) <=> request \in Walks
    BY RequestFields DEF MovesPlayer, Walks
  <2>6. Said(x, request, y)
    BY <2>3, <2>4, <2>5, SaidIs
  <2>7. /\ y.slots = x.slots /\ y.portals = x.portals /\ y.sure = x.sure /\ y.me = x.me /\ y.left = x.left /\ y.self = x.self
        /\ y.used = (IF request.op = "u_s" THEN request.slot ELSE x.used)
        /\ y.pos = (IF request \in Walks THEN request.cell ELSE x.pos)
        /\ y.last = (IF request \in Walks THEN request.cell ELSE x.last)
    BY <2>5, <2>6 DEF Said
  <2>8. request \notin Walks => y.own = x.own
    <3> SUFFICES ASSUME request \notin Walks PROVE y.own = x.own
      OBVIOUS
    <3>1. OwnAfter(x, request) = x.own
      BY <2>5 DEF OwnAfter
    <3> QED BY <2>6, <3>1 DEF Said
  <2>9. Learned(y) /\ Linked(y, past)
    BY <2>4, <2>7 DEF Learned, Linked
  <2>10. Abreast(y, <<request>>, c, past)
    <3>1. <<request>> # <<>> /\ <<request>>[1] = request
      OBVIOUS
    <3>2. y.me \in {None, Me} /\ (request.op = "u_s" => y.used = request.slot)
      BY <2>4, <2>7 DEF Abreast
    <3>3. "warped" \notin past => y.left = None /\ y.last = y.pos
      BY <2>4, <2>7 DEF Abreast
    <3>4. request \in Walks => y.pos = request.cell
      BY <2>7
    <3>5. "warped" \notin past /\ "ignored" \notin past /\ y.own /\ request \notin Walks /\ y.self # None => y.pos = c
      BY <2>4, <2>7, <2>8 DEF Abreast
    <3> QED BY <3>1, <3>2, <3>3, <3>4, <3>5 DEF Abreast
  <2>11. Taught(l, Append(going, request), <<request>>, c, past)
    <3>1. \A k \in 0 .. Len(going) : Learned(Behind(l, going)[k]) /\ Linked(Behind(l, going)[k], past)
      BY <2>2 DEF Taught
    <3> QED BY <2>3, <2>9, <2>10, <3>1, TaughtOne
  <2> QED BY <2>1, <2>11
<1>3. Append(going, request) # <<>> /\ Len(<<request>>) <= 1
  OBVIOUS
<1> QED BY <1>1, <1>2, <1>3

\* What the server says in one packet: the answer, or news that is no answer.
LEMMA SaidInOrder ==
  ASSUME NEW l \in Logs, NEW coming \in Seq(Sent), NEW going \in Seq(Requests), NEW c, NEW past,
         NEW queue, InOrder(l, coming, going, queue, c, past),
         NEW p \in Sent, p.op \notin {"c_map", "mapout", "at", "gp", "wp"}, NEW rest,
         \/ /\ rest = <<>> /\ queue # <<>> /\ p.op \in {"tp", "su", "cancel", "rest"}
            /\ (p.op = "tp" <=> queue[1].op = "walk") /\ (p.op = "tp" => p.cell = c)
            /\ p.op = "su" => queue[1].op = "u_s" /\ p.vnum = Skill[queue[1].slot]
         \/ rest = queue /\ p.op # "tp" /\ ~(p.op = "su" /\ p.by = Me)
  PROVE  InOrder(l, Append(coming, p), going, rest, c, past)
<1> SUFFICES ASSUME past \cap {"overtaken", "overlapped"} = {}
             PROVE  /\ Len(rest) <= 1 /\ Learned(l) /\ Linked(l, past)
                    /\ Append(coming, p) = <<>> \/ going = <<>> => Taught(l, Append(coming, p) \o going, rest, c, past)
  BY DEF InOrder
<1>1. /\ Len(queue) <= 1 /\ Learned(l) /\ Linked(l, past)
      /\ coming = <<>> \/ going = <<>> => Taught(l, coming \o going, queue, c, past)
  BY DEF InOrder
<1>2. Append(coming, p) # <<>> /\ Len(rest) <= 1
  BY <1>1
<1>3. ASSUME going = <<>> PROVE Taught(l, Append(coming, p) \o going, rest, c, past)
  <2>1. coming \o going = coming /\ Append(coming, p) \o going = Append(coming, p)
    BY <1>3
  <2>2. Taught(l, coming, queue, c, past)
    BY <1>1, <1>3, <2>1
  <2> PICK x : x = Behind(l, coming)[Len(coming)]
    OBVIOUS
  <2> PICK y : y = Logged(x, p)
    OBVIOUS
  <2>3. coming \in Seq(Captured) /\ p \in Captured
    BY DEF Captured
  <2>4. x \in Logs /\ Learned(x) /\ Linked(x, past) /\ Abreast(x, queue, c, past)
    <3>1. Len(coming) \in 0 .. Len(coming)
      OBVIOUS
    <3> QED BY <2>2, <2>3, <3>1, BehindIs DEF Taught
  <2>5. Said(x, p, y)
    BY <2>3, <2>4, SaidIs
  <2> DEFINE hit == p.op = "su" /\ x.used # None /\ x.me # None /\ p.by = x.me
  <2>6. /\ y.portals = x.portals /\ y.sure = x.sure /\ y.me = x.me /\ y.left = x.left /\ y.self = x.self
        /\ y.slots = (IF hit THEN [x.slots EXCEPT ![x.used] = p.vnum] ELSE x.slots)
        /\ y.pos = (IF MovesPlayer(p) THEN p.cell ELSE x.pos)
        /\ y.last = (IF MovesPlayer(p) THEN p.cell ELSE x.last)
        /\ y.own = OwnAfter(x, p)
    BY <2>5 DEF Said
  <2>7. ~hit /\ p.op # "u_s" => y.used = x.used
    BY <2>5 DEF Said
  <2>8. hit => p.by = Me /\ p.op = "su"
    BY <2>4 DEF Abreast
  <2>9. hit => x.used \in Slots /\ p.vnum = Skill[x.used]
    <3> SUFFICES ASSUME hit PROVE x.used \in Slots /\ p.vnum = Skill[x.used]
      OBVIOUS
    <3>1. queue # <<>> /\ queue[1].op = "u_s" /\ p.vnum = Skill[queue[1].slot]
      BY <2>8
    <3>2. x.used = queue[1].slot
      BY <2>4, <3>1 DEF Abreast
    <3>3. x.used \in Slots
      BY <2>4 DEF Logs
    <3> QED BY <3>1, <3>2, <3>3
  <2>10. Learned(y)
    <3>1. CASE hit
      <4>1. x.slots \in [Slots -> Vnums \cup {None}] /\ y.slots = [x.slots EXCEPT ![x.used] = p.vnum]
        BY <2>4, <2>6, <3>1 DEF Logs
      <4>2. \A s \in Slots : y.slots[s] = IF s = x.used THEN Skill[s] ELSE x.slots[s]
        BY <2>9, <3>1, <4>1
      <4> QED BY <2>4, <4>2 DEF Learned
    <3>2. CASE ~hit
      BY <2>4, <2>6, <3>2 DEF Learned
    <3> QED BY <3>1, <3>2
  <2>11. Linked(y, past)
    BY <2>4, <2>6 DEF Linked
  <2>12. /\ MovesPlayer(p) => p.op \in {"mv", "tp"}
         /\ p.op = "tp" => MovesPlayer(p)
         /\ MovesPlayer(p) /\ p.op = "mv" => ~y.own
         /\ ~MovesPlayer(p) => y.own = x.own
    <3>1. p.op # "walk" /\ p.op # "at" /\ (p.op = "tp" => p.id = Me) /\ (p.op = "mv" => p.id # Me)
      BY SentFields, OthersIds
    <3>2. /\ MovesPlayer(p) => p.op \in {"mv", "tp"}
          /\ p.op = "tp" => MovesPlayer(p)
      BY <3>1, OthersIds DEF MovesPlayer
    <3>3. MovesPlayer(p) /\ p.op = "mv" => ~y.own
      <4> SUFFICES ASSUME MovesPlayer(p), p.op = "mv" PROVE ~y.own
        OBVIOUS
      <4>1. ~OwnAfter(x, p)
        BY <3>1 DEF OwnAfter
      <4> QED BY <2>6, <4>1
    <3>4. ~MovesPlayer(p) => y.own = x.own
      BY <2>6, <3>1 DEF OwnAfter
    <3> QED BY <3>2, <3>3, <3>4
  <2> HIDE DEF hit
  <2>13. y.me \in {None, Me} /\ ("warped" \notin past => y.left = None /\ y.last = y.pos)
    BY <2>4, <2>6 DEF Abreast
  <2>14. Abreast(y, rest, c, past)
    <3>1. CASE rest = <<>> /\ queue # <<>> /\ p.op = "tp" /\ p.cell = c
      <4>1. y.pos = c
        BY <2>6, <2>12, <3>1
      <4> QED BY <2>13, <3>1, <4>1 DEF Abreast
    <3>2. CASE rest = <<>> /\ queue # <<>> /\ p.op \in {"su", "cancel", "rest"} /\ queue[1].op # "walk"
      <4>1. ~MovesPlayer(p) /\ queue[1] \notin Walks
        BY <2>12, <3>2 DEF Walks
      <4>2. y.pos = x.pos /\ y.own = x.own /\ y.self = x.self
        BY <2>6, <2>12, <4>1
      <4> QED BY <2>4, <2>13, <3>2, <4>1, <4>2 DEF Abreast
    <3>3. CASE rest = queue /\ p.op # "tp" /\ ~(p.op = "su" /\ p.by = Me)
      <4>1. y.used = x.used
        <5>1. ~hit /\ p.op # "u_s"
          BY <2>8, <3>3, SentFields
        <5> QED BY <2>7, <5>1
      <4>2. y.own => y.pos = x.pos /\ x.own /\ y.self = x.self
        <5>1. y.own => ~MovesPlayer(p)
          BY <2>12, <3>3
        <5> QED BY <2>6, <2>12, <5>1
      <4> QED BY <2>4, <2>13, <3>3, <4>1, <4>2 DEF Abreast
    <3> QED BY <3>1, <3>2, <3>3
  <2>15. Taught(l, Append(coming, p), rest, c, past)
    <3>1. \A k \in 0 .. Len(coming) : Learned(Behind(l, coming)[k]) /\ Linked(Behind(l, coming)[k], past)
      BY <2>2 DEF Taught
    <3> QED BY <2>3, <2>10, <2>11, <2>14, <3>1, TaughtOne
  <2> QED BY <2>1, <2>15
<1> QED BY <1>1, <1>2, <1>3

LEMMA ComesInOrder ==
  ASSUME NEW l \in Logs, NEW coming \in Seq(Sent), NEW going \in Seq(Requests), NEW queue, NEW past, NEW e,
         InOrder(l, coming, going, queue, e, past), NEW from \in Maps, NEW m \in Maps, NEW c \in Cells, NEW view,
         NEW s \in Seq(Sent), s # <<>>, Journey(Behind(l, coming)[Len(coming)], s, from, m, c, view),
         NEW rest, NEW more,
         \/ /\ rest = <<>> /\ more = past /\ queue # <<>> /\ queue[1] \in Walks
            /\ Exit[from][queue[1].cell] = m /\ Exit[m][c] = from
         \/ rest = queue /\ more = past \cup {"warped"}
  PROVE  InOrder(l, coming \o s, going, rest, c, more)
<1> SUFFICES ASSUME more \cap {"overtaken", "overlapped"} = {}
             PROVE  /\ Len(rest) <= 1 /\ Learned(l) /\ Linked(l, more)
                    /\ coming \o s = <<>> \/ going = <<>> => Taught(l, (coming \o s) \o going, rest, c, more)
  BY DEF InOrder
<1>1. /\ Len(queue) <= 1 /\ Learned(l) /\ Linked(l, past)
      /\ coming = <<>> \/ going = <<>> => Taught(l, coming \o going, queue, e, past)
  <2>1. past \cap {"overtaken", "overlapped"} = {}
    OBVIOUS
  <2> QED BY <2>1 DEF InOrder
<1>2. past \subseteq more /\ Len(rest) <= 1
  BY <1>1
<1>3. Linked(l, more)
  BY <1>1, <1>2, MorePast
<1>4. coming \o s # <<>>
  <2>1. Len(coming \o s) = Len(coming) + Len(s) /\ Len(s) > 0 /\ Len(coming) >= 0
    BY ConcatFields
  <2> QED BY <2>1
<1>5. ASSUME going = <<>> PROVE Taught(l, (coming \o s) \o going, rest, c, more)
  <2>1. coming \o going = coming /\ (coming \o s) \o going = coming \o s
    BY <1>5
  <2>2. Taught(l, coming, queue, e, more)
    BY <1>1, <1>2, <1>5, <2>1, TaughtMore
  <2> PICK x : x = Behind(l, coming)[Len(coming)]
    OBVIOUS
  <2>3. coming \in Seq(Captured) /\ s \in Seq(Captured)
    BY DEF Captured
  <2>4. x \in Logs /\ Abreast(x, queue, e, more)
    <3>1. Len(coming) \in 0 .. Len(coming)
      OBVIOUS
    <3> QED BY <2>2, <2>3, <3>1, BehindIs DEF Taught
  <2>5. Straight(x, from, m, c, more)
    <3> SUFFICES ASSUME "warped" \notin more
                 PROVE  /\ x.left = None /\ (from = m => x.last = None)
                        /\ x.own /\ x.last # None => Exit[from][x.last] = m /\ Exit[m][c] = from
      BY DEF Straight
    <3>1. queue # <<>> /\ queue[1] \in Walks /\ Exit[from][queue[1].cell] = m /\ Exit[m][c] = from
      OBVIOUS
    <3>2. x.left = None /\ x.last = x.pos /\ (x.own => x.pos = queue[1].cell)
      BY <2>4, <3>1 DEF Abreast
    <3>3. from # m
      BY <3>1, SessionAssumption
    <3> QED BY <3>1, <3>2, <3>3
  <2>6. x.me \in {None, Me}
    BY <2>4 DEF Abreast
  <2>7. rest # <<>> => "warped" \in more /\ (rest[1].op = "u_s" => x.used = rest[1].slot)
    BY <2>4 DEF Abreast
  <2>8. \A k \in 0 .. Len(coming) : Learned(Behind(l, coming)[k]) /\ Linked(Behind(l, coming)[k], more)
    BY <2>2 DEF Taught
  <2>9. Journey(x, s, from, m, c, view)
    OBVIOUS
  <2>10. Taught(l, coming \o s, rest, c, more)
    BY <2>3, <2>5, <2>6, <2>7, <2>8, <2>9, TaughtComes
  <2> QED BY <2>1, <2>10
<1> QED BY <1>1, <1>2, <1>3, <1>4, <1>5

LEMMA PlayedInOrder ==
  ASSUME SessionTypeOK, Played, NEW l \in Logs, InOrder(l, Coming, Going, asked, game.cell, mishaps)
  PROVE  InOrder(l, Coming', Going', asked', game'.cell, mishaps')
<1>1. Coming \in Seq(Sent) /\ Going \in Seq(Requests) /\ Coming \in Seq(Captured) /\ asked \in Seq(Requests)
  BY WireFields DEF Captured, SessionTypeOK
<1>2. ASSUME NEW request \in Requests, Serving(request), mishaps' \cap {"overtaken", "overlapped"} = {},
             mishaps \subseteq mishaps'
      PROVE  asked # <<>> /\ asked[1] = request /\ asked' = <<>> /\ Len(asked) <= 1
  <2>1. Len(asked) <= 1
    <3>1. mishaps \cap {"overtaken", "overlapped"} = {}
      BY <1>2
    <3> QED BY <3>1 DEF InOrder
  <2>2. asked # <<>> /\ request = Head(asked) /\ asked' = Tail(asked)
    BY <1>2 DEF Serving
  <2> QED BY <1>1, <2>1, <2>2
<1>3. ASSUME NEW request \in Requests, Asking(request)
      PROVE  InOrder(l, Coming', Going', asked', game'.cell, mishaps')
  <2>1. /\ Going' = Append(Going, request) /\ Coming' = Coming /\ asked' = Append(asked, request) /\ game' = game
        /\ mishaps' = (IF asked = <<>> THEN mishaps ELSE mishaps \cup {"overlapped"})
    BY <1>3, WiresAfter DEF Asking
  <2>2. CASE asked = <<>>
    <3>1. asked' = <<request>> /\ mishaps' = mishaps
      BY <2>1, <2>2
    <3>2. InOrder(l, Coming, Going, <<>>, game.cell, mishaps)
      BY <2>2
    <3>3. InOrder(l, Coming, Append(Going, request), <<request>>, game.cell, mishaps)
      BY <1>1, <3>2, AskedInOrder
    <3> QED BY <2>1, <3>1, <3>3
  <2>3. CASE asked # <<>>
    BY <2>1, <2>3 DEF InOrder
  <2> QED BY <2>2, <2>3
<1>4. ASSUME NEW request \in Requests, Walked(request) \/ Ignored(request)
      PROVE  InOrder(l, Coming', Going', asked', game'.cell, mishaps')
  <2>1. Going' = Going /\ Coming' = Coming /\ Serving(request) /\ mishaps \subseteq mishaps'
    BY <1>4, WiresAfter DEF Walked, Ignored
  <2>2. \/ mishaps' = mishaps /\ request \in Walks /\ game'.cell = request.cell
        \/ mishaps' = mishaps \cup {"ignored"}
    BY <1>4 DEF Walked, Ignored, Walks
  <2> PICK more : more = mishaps'
    OBVIOUS
  <2> PICK c : c = game'.cell
    OBVIOUS
  <2> SUFFICES ASSUME more \cap {"overtaken", "overlapped"} = {}
               PROVE  /\ Len(asked') <= 1 /\ Learned(l) /\ Linked(l, more)
                      /\ Coming = <<>> \/ Going = <<>> => Taught(l, Coming \o Going, asked', c, more)
    BY <2>1 DEF InOrder
  <2>3. asked # <<>> /\ asked[1] = request /\ asked' = <<>> /\ Len(asked) <= 1
    BY <1>2, <2>1
  <2>4. /\ Learned(l) /\ Linked(l, mishaps)
        /\ Coming = <<>> \/ Going = <<>> => Taught(l, Coming \o Going, asked, game.cell, mishaps)
    <3>1. mishaps \cap {"overtaken", "overlapped"} = {}
      BY <2>1
    <3> QED BY <3>1 DEF InOrder
  <2>5. Linked(l, more)
    BY <2>1, <2>4, MorePast
  <2>6. ASSUME Coming = <<>> \/ Going = <<>> PROVE Taught(l, Coming \o Going, <<>>, c, more)
    <3> PICK s : s = Coming \o Going
      OBVIOUS
    <3> PICK x : x = Behind(l, s)[Len(s)]
      OBVIOUS
    <3>1. Taught(l, s, asked, game.cell, more)
      BY <2>1, <2>4, <2>6, TaughtMore
    <3>2. Abreast(x, asked, game.cell, mishaps) /\ Abreast(x, asked, game.cell, more)
      BY <2>4, <2>6, <3>1 DEF Taught
    <3>3. Abreast(x, <<>>, c, more)
      <4>1. CASE mishaps' = mishaps /\ request \in Walks /\ game'.cell = request.cell
        BY <2>3, <3>2, <4>1 DEF Abreast
      <4>2. CASE mishaps' = mishaps \cup {"ignored"}
        <5>1. "ignored" \in more
          BY <4>2
        <5> QED BY <3>2, <5>1 DEF Abreast
      <4> QED BY <2>2, <4>1, <4>2
    <3> QED BY <3>1, <3>3 DEF Taught
  <2> QED BY <2>3, <2>4, <2>5, <2>6
<1>5. ASSUME NEW request \in Requests, Went(request)
      PROVE  InOrder(l, Coming', Going', asked', game'.cell, mishaps')
  <2>1. Serving(request) /\ request \in Walks /\ mishaps' = mishaps
    BY <1>5 DEF Went, Walks
  <2>2. PICK m \in Maps, c \in Cells : m = Exit[game.map][request.cell] /\ Exit[m][c] = game.map /\ Moving(m, c)
    BY <1>5 DEF Went
  <2> PICK x : x = Behind(l, Coming)[Len(Coming)]
    OBVIOUS
  <2>3. x \in Logs
    BY <1>1, BehindIs
  <2>4. PICK s \in Seq(Sent), view \in Views :
          /\ game.map \in Maps /\ Journey(x, s, game.map, m, c, view) /\ s # <<>>
          /\ game'.cell = c /\ Going' = Going /\ Coming' = Coming \o s
    BY <2>2, <2>3, MovingIs
  <2>5. CASE mishaps \cap {"overtaken", "overlapped"} = {}
    <3>1. asked # <<>> /\ asked[1] = request /\ asked' = <<>>
      BY <1>2, <2>1, <2>5
    <3>2. InOrder(l, Coming \o s, Going, <<>>, c, mishaps)
      <4>1. asked[1] \in Walks /\ Exit[game.map][asked[1].cell] = m
        BY <2>1, <2>2, <3>1
      <4> QED BY <1>1, <2>2, <2>4, <3>1, <4>1, ComesInOrder
    <3> QED BY <2>1, <2>4, <3>1, <3>2
  <2>6. CASE mishaps \cap {"overtaken", "overlapped"} # {}
    BY <2>1, <2>6 DEF InOrder
  <2> QED BY <2>5, <2>6
<1>6. CASE Warped
  <2>1. asked' = asked /\ mishaps' = mishaps \cup {"warped"}
    BY <1>6 DEF Warped
  <2>2. PICK m \in Maps, c \in Cells : Moving(m, c)
    BY <1>6 DEF Warped
  <2> PICK x : x = Behind(l, Coming)[Len(Coming)]
    OBVIOUS
  <2>3. x \in Logs
    BY <1>1, BehindIs
  <2>4. PICK s \in Seq(Sent), view \in Views :
          /\ game.map \in Maps /\ Journey(x, s, game.map, m, c, view) /\ s # <<>>
          /\ game'.cell = c /\ Going' = Going /\ Coming' = Coming \o s
    BY <2>2, <2>3, MovingIs
  <2>5. InOrder(l, Coming \o s, Going, asked, c, mishaps \cup {"warped"})
    BY <1>1, <2>2, <2>4, ComesInOrder
  <2> QED BY <2>1, <2>4, <2>5
<1>7. ASSUME NEW request \in Requests, NEW p \in Sent, Replied(request, p)
      PROVE  InOrder(l, Coming', Going', asked', game'.cell, mishaps')
  <2>1. /\ Serving(request) /\ Saying(p) /\ p.op \in {"tp", "su", "cancel", "rest"}
        /\ p.op = "tp" <=> request.op = "walk"
        /\ p.op = "su" => request.op = "u_s" /\ p.vnum = Skill[request.slot]
    BY <1>7 DEF Replied
  <2>2. /\ p.op \notin {"c_map", "mapout", "at", "gp", "wp"}
        /\ game'.cell = game.cell /\ (p.op = "tp" => p.cell = game.cell)
        /\ Going' = Going /\ Coming' = Append(Coming, p) /\ mishaps' = mishaps
    BY <2>1, SayingIs
  <2>3. CASE mishaps \cap {"overtaken", "overlapped"} = {}
    <3>1. asked # <<>> /\ asked[1] = request /\ asked' = <<>>
      BY <1>2, <2>1, <2>2, <2>3
    <3>2. InOrder(l, Append(Coming, p), Going, <<>>, game.cell, mishaps)
      <4> PICK queue : queue = asked
        OBVIOUS
      <4>1. /\ queue # <<>> /\ (p.op = "tp" <=> queue[1].op = "walk")
            /\ p.op = "su" => queue[1].op = "u_s" /\ p.vnum = Skill[queue[1].slot]
        BY <2>1, <3>1
      <4>2. InOrder(l, Coming, Going, queue, game.cell, mishaps)
        OBVIOUS
      <4> QED BY <1>1, <2>1, <2>2, <4>1, <4>2, SaidInOrder
    <3> QED BY <2>2, <3>1, <3>2
  <2>4. CASE mishaps \cap {"overtaken", "overlapped"} # {}
    BY <2>2, <2>4 DEF InOrder
  <2> QED BY <2>3, <2>4
<1>8. ASSUME NEW p \in Sent, Told(p)
      PROVE  InOrder(l, Coming', Going', asked', game'.cell, mishaps')
  <2>1. Saying(p) /\ asked' = asked /\ p.op # "tp" /\ ~(p.op = "su" /\ p.by = Me)
    BY <1>8 DEF Told
  <2>2. /\ p.op \notin {"c_map", "mapout", "at", "gp", "wp"} /\ game'.cell = game.cell
        /\ Going' = Going /\ Coming' = Append(Coming, p) /\ mishaps' = mishaps
    BY <2>1, SayingIs
  <2>3. InOrder(l, Append(Coming, p), Going, asked, game.cell, mishaps)
    BY <1>1, <2>1, <2>2, SaidInOrder
  <2> QED BY <2>1, <2>2, <2>3
<1> QED BY <1>3, <1>4, <1>5, <1>6, <1>7, <1>8 DEF Played

\* What the worker drains, for the host or for nobody, is the first packets of each wire.
Drains(j, k) ==
  /\ j \in 0 .. Len(Going) /\ k \in 0 .. Len(Coming)
  /\ Going' = SubSeq(Going, j + 1, Len(Going)) /\ Coming' = SubSeq(Coming, k + 1, Len(Coming))
  /\ Lost("SEND") = SubSeq(Going, 1, j) /\ Lost("RECV") = SubSeq(Coming, 1, k)
  /\ UNCHANGED <<game, asked>> /\ mishaps \subseteq mishaps'
  /\ "overtaken" \notin mishaps' => (k = 0 \/ Going = <<>>) /\ (j = 0 \/ k = Len(Coming))

LEMMA SuffixLength ==
  ASSUME NEW S, NEW s \in Seq(S), NEW k \in 0 .. Len(s)
  PROVE  /\ Len(s) - Len(SubSeq(s, k + 1, Len(s))) = k
         /\ SubSeq(s, 0 + 1, Len(s)) = s
         /\ s # <<>> => 1 \in 0 .. Len(s) /\ Tail(s) = SubSeq(s, 1 + 1, Len(s))
<1>1. Len(s) \in Nat /\ k \in Nat /\ k <= Len(s)
  OBVIOUS
<1>2. Len(SubSeq(s, k + 1, Len(s))) = Len(s) - k
  BY <1>1
<1>3. s # <<>> => 1 \in 0 .. Len(s)
  BY <1>1
<1>4. s # <<>> => Tail(s) = SubSeq(s, 1 + 1, Len(s))
  <2>1. 1 + 1 = 2
    OBVIOUS
  <2> QED BY <2>1, TailIsSubSeq
<1>5. SubSeq(s, 1, Len(s)) = s /\ 0 + 1 = 1
  OBVIOUS
<1>6. Len(s) - Len(SubSeq(s, k + 1, Len(s))) = k
  BY <1>1, <1>2
<1>7. SubSeq(s, 0 + 1, Len(s)) = s
  BY <1>5
<1> QED BY <1>3, <1>4, <1>6, <1>7

LEMMA LostIs ==
  ASSUME SessionTypeOK, NEW j \in 0 .. Len(Going), NEW k \in 0 .. Len(Coming),
         wire' = [SEND |-> SubSeq(Going, j + 1, Len(Going)), RECV |-> SubSeq(Coming, k + 1, Len(Coming))]
  PROVE  /\ Going' = SubSeq(Going, j + 1, Len(Going)) /\ Coming' = SubSeq(Coming, k + 1, Len(Coming))
         /\ Lost("SEND") = SubSeq(Going, 1, j) /\ Lost("RECV") = SubSeq(Coming, 1, k)
<1>1. Going \in Seq(Requests) /\ Coming \in Seq(Sent) /\ wire["SEND"] = Going /\ wire["RECV"] = Coming
  BY WireFields
<1>2. /\ Going' = SubSeq(Going, j + 1, Len(Going)) /\ Coming' = SubSeq(Coming, k + 1, Len(Coming))
      /\ wire'["SEND"] = SubSeq(Going, j + 1, Len(Going)) /\ wire'["RECV"] = SubSeq(Coming, k + 1, Len(Coming))
  BY DEF Going, Coming
<1>3. Lost("SEND") = SubSeq(Going, 1, Len(Going) - Len(SubSeq(Going, j + 1, Len(Going))))
  BY <1>1, <1>2 DEF Lost
<1>4. Lost("RECV") = SubSeq(Coming, 1, Len(Coming) - Len(SubSeq(Coming, k + 1, Len(Coming))))
  BY <1>1, <1>2 DEF Lost
<1>5. Len(Going) - Len(SubSeq(Going, j + 1, Len(Going))) = j
  BY <1>1, SuffixLength
<1>6. Len(Coming) - Len(SubSeq(Coming, k + 1, Len(Coming))) = k
  BY <1>1, SuffixLength
<1> QED BY <1>2, <1>3, <1>4, <1>5, <1>6

LEMMA Draining ==
  ASSUME SessionTypeOK, Gap \/ \E way \in {"SEND", "RECV"} : Deliver(way)
  PROVE  \E j, k : Drains(j, k)
<1>1. /\ Going \in Seq(Requests) /\ Coming \in Seq(Sent) /\ wire["SEND"] = Going /\ wire["RECV"] = Coming
      /\ 0 \in 0 .. Len(Going) /\ 0 \in 0 .. Len(Coming)
  <2>1. Going \in Seq(Requests) /\ Coming \in Seq(Sent) /\ wire["SEND"] = Going /\ wire["RECV"] = Coming
    BY WireFields
  <2> QED BY <2>1
<1>2. CASE Gap
  <2>1. PICK j \in 0 .. Len(Going), k \in 0 .. Len(Coming) :
          /\ wire' = [SEND |-> SubSeq(Going, j + 1, Len(Going)), RECV |-> SubSeq(Coming, k + 1, Len(Coming))]
          /\ mishaps' = mishaps \cup {"gap"}
               \cup (IF (k > 0 /\ Going # <<>>) \/ (j > 0 /\ wire'.RECV # <<>>) THEN {"overtaken"} ELSE {})
    BY <1>2 DEF Gap, Going, Coming
  <2>2. UNCHANGED <<game, asked>>
    BY <1>2 DEF Gap
  <2>3. /\ Going' = SubSeq(Going, j + 1, Len(Going)) /\ Coming' = SubSeq(Coming, k + 1, Len(Coming))
        /\ Lost("SEND") = SubSeq(Going, 1, j) /\ Lost("RECV") = SubSeq(Coming, 1, k)
    BY <2>1, LostIs
  <2>4. "overtaken" \notin mishaps' => (k = 0 \/ Going = <<>>) /\ (j = 0 \/ k = Len(Coming))
    <3> SUFFICES ASSUME "overtaken" \notin mishaps' PROVE (k = 0 \/ Going = <<>>) /\ (j = 0 \/ k = Len(Coming))
      OBVIOUS
    <3>1. ~((k > 0 /\ Going # <<>>) \/ (j > 0 /\ wire'.RECV # <<>>))
      BY <2>1
    <3>2. k = 0 \/ Going = <<>>
      BY <3>1
    <3>3. j = 0 \/ SubSeq(Coming, k + 1, Len(Coming)) = <<>>
      BY <2>1, <3>1
    <3>4. Len(Coming) - Len(SubSeq(Coming, k + 1, Len(Coming))) = k
      BY <1>1, SuffixLength
    <3>5. SubSeq(Coming, k + 1, Len(Coming)) = <<>> => k = Len(Coming)
      <4> SUFFICES ASSUME SubSeq(Coming, k + 1, Len(Coming)) = <<>> PROVE k = Len(Coming)
        OBVIOUS
      <4> PICK u : u = SubSeq(Coming, k + 1, Len(Coming))
        OBVIOUS
      <4>1. u = <<>> /\ Len(Coming) - Len(u) = k /\ Len(Coming) \in Nat
        BY <1>1, <3>4
      <4>2. Len(<<>>) = 0
        OBVIOUS
      <4> QED BY <4>1, <4>2
    <3> QED BY <3>2, <3>3, <3>5
  <2>5. mishaps \subseteq mishaps'
    BY <2>1
  <2>6. Drains(j, k)
    BY <2>2, <2>3, <2>4, <2>5 DEF Drains
  <2> QED BY <2>6
<1>3. ASSUME NEW way \in {"SEND", "RECV"}, Deliver(way) PROVE \E j, k : Drains(j, k)
  <2>1. Read(way)
    BY <1>3, DeliverSteps
  <2>2. /\ wire[way] # <<>> /\ mishaps \subseteq mishaps' /\ UNCHANGED <<game, asked>>
        /\ wire' = IF way = "RECV" THEN [SEND |-> Going, RECV |-> Tail(Coming)] ELSE [SEND |-> Tail(Going), RECV |-> Coming]
        /\ (Going # <<>> /\ Coming # <<>>) => "overtaken" \in mishaps'
    BY <2>1 DEF Read
  <2>3. CASE way = "RECV"
    <3>1. Coming # <<>>
      BY <1>1, <2>2, <2>3
    <3>2. 1 \in 0 .. Len(Coming) /\ Tail(Coming) = SubSeq(Coming, 1 + 1, Len(Coming))
      BY <1>1, <3>1, SuffixLength
    <3>3. Going = SubSeq(Going, 0 + 1, Len(Going))
      BY <1>1, SuffixLength
    <3>4. wire' = [SEND |-> SubSeq(Going, 0 + 1, Len(Going)), RECV |-> SubSeq(Coming, 1 + 1, Len(Coming))]
      BY <2>2, <2>3, <3>2, <3>3
    <3>5. /\ Going' = SubSeq(Going, 0 + 1, Len(Going)) /\ Coming' = SubSeq(Coming, 1 + 1, Len(Coming))
          /\ Lost("SEND") = SubSeq(Going, 1, 0) /\ Lost("RECV") = SubSeq(Coming, 1, 1)
      BY <1>1, <3>2, <3>4, LostIs
    <3>6. Drains(0, 1)
      BY <1>1, <2>2, <3>1, <3>2, <3>5 DEF Drains
    <3> QED BY <3>6
  <2>4. CASE way = "SEND"
    <3>1. Going # <<>>
      BY <1>1, <2>2, <2>4
    <3>2. 1 \in 0 .. Len(Going) /\ Tail(Going) = SubSeq(Going, 1 + 1, Len(Going))
      BY <1>1, <3>1, SuffixLength
    <3>3. Coming = SubSeq(Coming, 0 + 1, Len(Coming))
      BY <1>1, SuffixLength
    <3>4. wire' = [SEND |-> SubSeq(Going, 1 + 1, Len(Going)), RECV |-> SubSeq(Coming, 0 + 1, Len(Coming))]
      BY <2>2, <2>4, <3>2, <3>3
    <3>5. /\ Going' = SubSeq(Going, 1 + 1, Len(Going)) /\ Coming' = SubSeq(Coming, 0 + 1, Len(Coming))
          /\ Lost("SEND") = SubSeq(Going, 1, 1) /\ Lost("RECV") = SubSeq(Coming, 1, 0)
      BY <1>1, <3>2, <3>4, LostIs
    <3>6. "overtaken" \notin mishaps' => 0 = Len(Coming)
      BY <2>2, <3>1
    <3>7. Drains(1, 0)
      BY <1>1, <2>2, <3>2, <3>5, <3>6 DEF Drains
    <3> QED BY <3>7
  <2> QED BY <2>3, <2>4
<1> QED BY <1>2, <1>3

LEMMA DrainsLog ==
  ASSUME SessionTypeOK, LogInv, NEW j, NEW k, Drains(j, k), log' = Drained(log, Lost("RECV"), Lost("SEND"))
  PROVE  LogInv'
<1>1. Going \in Seq(Requests) /\ Coming \in Seq(Sent) /\ Coming \in Seq(Captured) /\ Going \in Seq(Captured)
  BY WireFields DEF Captured
<1> PICK f : f = SubSeq(Coming, 1, k)
  OBVIOUS
<1> PICK g : g = SubSeq(Going, 1, j)
  OBVIOUS
<1> PICK x : x = Drained(log, f, g)
  OBVIOUS
<1>2. /\ j \in 0 .. Len(Going) /\ k \in 0 .. Len(Coming)
      /\ Going' = SubSeq(Going, j + 1, Len(Going)) /\ Coming' = SubSeq(Coming, k + 1, Len(Coming))
      /\ game' = game /\ asked' = asked /\ mishaps \subseteq mishaps' /\ log' = x
      /\ "overtaken" \notin mishaps' => (k = 0 \/ Going = <<>>) /\ (j = 0 \/ k = Len(Coming))
  BY DEF Drains
<1>3. g \in Seq(Requests)
  <2>1. \A i \in 1 .. j : Going[i] \in Requests
    BY <1>1, <1>2
  <2> QED BY <1>2, <2>1, SubSeqProperties
<1>4. f \in Seq(Captured) /\ g \in Seq(Captured)
  <2>1. \A i \in 1 .. k : Coming[i] \in Captured
    BY <1>1, <1>2
  <2>2. f \in Seq(Captured)
    BY <1>2, <2>1, SubSeqProperties
  <2> QED BY <1>3, <2>2 DEF Captured
<1>5. log \in Logs
  BY DEF LogInv
<1>6. x \in Logs
  BY <1>4, <1>5, DrainedTyped
<1>7. Charted(x, SubSeq(Coming, k + 1, Len(Coming)), game.map, game.near)
  <2>1. Charted(log, Coming, game.map, game.near)
    BY DEF LogInv
  <2> QED BY <1>1, <1>2, <1>3, <1>5, <2>1, ChartTaken
<1>8. InOrder(x, SubSeq(Coming, k + 1, Len(Coming)), SubSeq(Going, j + 1, Len(Going)), asked, game.cell, mishaps')
  <2>1. InOrder(log, Coming, Going, asked, game.cell, mishaps)
    BY DEF LogInv
  <2> PICK more : more = mishaps'
    OBVIOUS
  <2>2. InOrder(x, SubSeq(Coming, k + 1, Len(Coming)), SubSeq(Going, j + 1, Len(Going)), asked, game.cell, more)
    BY <1>1, <1>2, <1>5, <2>1, OrderTaken
  <2> QED BY <2>2
<1> QED BY <1>2, <1>6, <1>7, <1>8 DEF LogInv

LEMMA LateKept ==
  ASSUME LateInv, [LateNext]_allVars
  PROVE  LateInv'
<1> SUFFICES ASSUME seeded' = "no" PROVE SessionTypeOK' /\ LogInv'
  BY DEF LateInv
<1>1. CASE UNCHANGED allVars
  BY <1>1 DEF allVars, vars, LateInv, SessionTypeOK, LogInv, Coming, Going
<1>2. CASE LateNext
  <2>1. seeded = "no"
    BY <1>2 DEF LateNext, Seed
  <2>2. SessionTypeOK /\ LogInv
    BY <2>1 DEF LateInv
  <2>3. ~Seed
    BY DEF Seed
  <2>4. Next
    BY <1>2, <2>3 DEF LateNext, Next
  <2>5. SessionTypeOK'
    BY <2>2, <2>4, TypeKept
  <2>6. CASE Game /\ log' = log
    <3>1. Played
      BY <2>2, <2>6, GameSteps
    <3>2. log \in Logs /\ Charted(log, Coming, game.map, game.near) /\ InOrder(log, Coming, Going, asked, game.cell, mishaps)
      BY <2>2 DEF LogInv
    <3>3. Charted(log, Coming', game'.map, game'.near)
      BY <2>2, <3>1, <3>2, PlayedChart
    <3>4. InOrder(log, Coming', Going', asked', game'.cell, mishaps')
      BY <2>2, <3>1, <3>2, PlayedInOrder
    <3> QED BY <2>5, <2>6, <3>2, <3>3, <3>4 DEF LogInv
  <2>7. CASE Age /\ log' = log
    BY <2>2, <2>5, <2>7 DEF Age, LogInv, Coming, Going
  <2>8. CASE /\ Gap \/ \E way \in {"SEND", "RECV"} : Deliver(way)
             /\ log' = Drained(log, Lost("RECV"), Lost("SEND"))
    <3>1. PICK j, k : Drains(j, k)
      BY <2>2, <2>8, Draining
    <3> QED BY <2>2, <2>5, <2>8, <3>1, DrainsLog
  <2> QED BY <1>2, <2>1, <2>3, <2>6, <2>7, <2>8 DEF LateNext
<1> QED BY <1>1, <1>2

\* A log that says nothing says nothing false.
LEMMA NoLogSays ==
  ASSUME NEW c, NEW past
  PROVE  /\ NoLog \in Logs /\ Sound(NoLog) /\ Learned(NoLog) /\ Linked(NoLog, past) /\ Abreast(NoLog, <<>>, c, past)
         /\ NoLog.self = None /\ NoLog.left = None /\ NoLog.last = None /\ NoLog.me = None
<1>1. /\ NoLog.self = None /\ NoLog.left = None /\ NoLog.last = None /\ NoLog.me = None /\ NoLog.spaces = {}
      /\ NoLog.map = None /\ NoLog.gates = [p \in Places |-> None] /\ NoLog.portals = [p \in Places |-> None]
      /\ NoLog.slots = [s \in Slots |-> None] /\ NoLog.pos = None
  BY DEF NoLog, NewWorld
<1>2. NoLog \in Logs
  <2>1. /\ NewWorld.gates \in [Places -> Maps \cup {None}] /\ NewWorld.portals \in [Places -> Maps \cup {None}]
        /\ NewWorld.learned \in [Slots -> Vnums \cup {None}]
    BY DEF NewWorld
  <2>2. TRUE \in BOOLEAN /\ {} \in SUBSET Places /\ {} \in SUBSET Ids
    OBVIOUS
  <2> QED BY <2>1, <2>2 DEF NoLog, Logs
<1>3. Sound(NoLog) /\ Learned(NoLog) /\ Linked(NoLog, past)
  BY <1>1 DEF Sound, Learned, Linked
<1>4. Abreast(NoLog, <<>>, c, past)
  BY <1>1 DEF Abreast
<1> QED BY <1>1, <1>2, <1>3, <1>4

LEMMA EndOf ==
  ASSUME NEW l \in Logs, NEW s \in Seq(Captured), NEW x, x = Behind(l, s)[Len(s)], NEW m, NEW view,
         Charted(l, s, m, view), NEW queue, NEW c, NEW past, Taught(l, s, queue, c, past)
  PROVE  /\ x \in Logs /\ Learned(x) /\ Linked(x, past)
         /\ Charted(x, <<>>, m, view) /\ Taught(x, <<>>, queue, c, past)
<1>1. Len(s) \in Nat /\ Len(s) \in 0 .. Len(s)
  OBVIOUS
<1>2. x \in Logs
  BY <1>1, BehindIs
<1>3. <<>> \in Seq(Captured) /\ Len(<<>>) = 0 /\ \A k \in 0 .. 0 : k = 0
  OBVIOUS
<1>4. Behind(x, <<>>)[0] = x
  BY <1>2, <1>3, BehindIs
<1>5. Sound(x) /\ Current(x, m, view)
  BY <1>1 DEF Charted
<1>6. Learned(x) /\ Linked(x, past) /\ Abreast(x, queue, c, past)
  BY <1>1 DEF Taught
<1>7. Charted(x, <<>>, m, view)
  BY <1>3, <1>4, <1>5 DEF Charted, Named
<1>8. Taught(x, <<>>, queue, c, past)
  BY <1>3, <1>4, <1>6 DEF Taught
<1> QED BY <1>2, <1>6, <1>7, <1>8

LEMMA LateBegins ==
  ASSUME LateInit
  PROVE  LateInv
<1> SUFFICES ASSUME seeded = "no" PROVE SessionTypeOK /\ LogInv
  BY DEF LateInv
<1>1. SessionTypeOK
  BY SessionInit DEF LateInit, SessionInv
<1>2. Coming = <<>> /\ Going = <<>> /\ asked = <<>> /\ mishaps = {}
  BY DEF LateInit, Init, Coming, Going
<1>3. game.map \in Maps /\ game.cell \in Cells /\ game.near \in Views
  BY <1>1, GameFields
<1>4. <<>> \in Seq(Captured) /\ <<>> \in Seq(Sent) /\ Len(<<>>) = 0 /\ \A k \in 0 .. 0 : k = 0
  OBVIOUS
<1>5. /\ NoLog \in Logs /\ Sound(NoLog) /\ Learned(NoLog) /\ Linked(NoLog, {}) /\ Abreast(NoLog, <<>>, game.cell, {})
      /\ NoLog.self = None /\ NoLog.left = None /\ NoLog.last = None /\ NoLog.me = None
  BY NoLogSays
<1>6. Behind(NoLog, <<>>)[0] = NoLog
  BY <1>4, <1>5, BehindIs
<1>7. /\ log \in Logs /\ Learned(log) /\ Linked(log, {})
      /\ Charted(log, <<>>, game.map, game.near) /\ Taught(log, <<>>, <<>>, game.cell, {})
  <2>1. CASE log = NoLog
    <3>1. Charted(NoLog, <<>>, game.map, game.near)
      BY <1>4, <1>5, <1>6 DEF Charted, Named, Current
    <3>2. Taught(NoLog, <<>>, <<>>, game.cell, {})
      BY <1>4, <1>5, <1>6 DEF Taught
    <3> QED BY <1>5, <2>1, <3>1, <3>2
  <2>2. CASE log = Drained(NoLog, Arrival(game.map, game.map, game.cell, game.near, <<>>), <<>>)
    <3> PICK s : s = Arrival(game.map, game.map, game.cell, game.near, <<>>)
      OBVIOUS
    <3>1. s \in Seq(Sent) /\ \E a : ArrivalAt(s, a, game.map, game.map, game.cell, game.near)
      BY <1>3, ArrivalShape
    <3>2. PICK a \in Nat : ArrivalAt(s, a, game.map, game.map, game.cell, game.near)
      BY <3>1 DEF ArrivalAt
    <3>3. Journey(NoLog, s, game.map, game.map, game.cell, game.near)
      BY <1>3, <1>5, <3>1, <3>2, ArrivalBehind
    <3>4. s \in Seq(Captured) /\ <<>> \o s = s
      BY <3>1 DEF Captured
    <3>5. Charted(NoLog, s, game.map, game.near)
      <4>1. (\A k \in 0 .. Len(<<>>) : Sound(Behind(NoLog, <<>>)[k])) /\ Named(NoLog, <<>>)
        BY <1>4, <1>5, <1>6 DEF Named
      <4>2. Journey(Behind(NoLog, <<>>)[Len(<<>>)], s, game.map, game.map, game.cell, game.near)
        BY <1>4, <1>6, <3>3
      <4>3. Charted(NoLog, <<>> \o s, game.map, game.near)
        BY <1>3, <1>4, <1>5, <1>6, <3>4, <4>1, <4>2, ChartComes
      <4> QED BY <3>4, <4>3
    <3>6. Taught(NoLog, s, <<>>, game.cell, {})
      <4>1. \A k \in 0 .. Len(<<>>) : Learned(Behind(NoLog, <<>>)[k]) /\ Linked(Behind(NoLog, <<>>)[k], {})
        BY <1>4, <1>5, <1>6
      <4>2. Straight(NoLog, game.map, game.map, game.cell, {})
        BY <1>5 DEF Straight
      <4>3. NoLog = Behind(NoLog, <<>>)[Len(<<>>)]
        BY <1>4, <1>6
      <4>4. Taught(NoLog, <<>> \o s, <<>>, game.cell, {})
        BY <1>3, <1>4, <1>5, <3>3, <3>4, <4>1, <4>2, <4>3, TaughtComes
      <4> QED BY <3>4, <4>4
    <3>7. log = Behind(NoLog, s)[Len(s)]
      BY <1>5, <2>2, <3>4, DrainedNothing
    <3> QED BY <1>5, <3>4, <3>5, <3>6, <3>7, EndOf
  <2> QED BY <2>1, <2>2 DEF LateInit
<1>8. InOrder(log, <<>>, <<>>, <<>>, game.cell, {})
  <2>1. <<>> \o <<>> = <<>>
    OBVIOUS
  <2> QED BY <1>4, <1>7, <2>1 DEF InOrder
<1> QED BY <1>1, <1>2, <1>7, <1>8 DEF LogInv

LEMMA LateTrue == LateInv => LogTrue
<1> SUFFICES ASSUME LateInv, seeded = "no"
             PROVE  /\ log.self \in {None, Me}
                    /\ \A p \in Places : log.gates[p] \in {None, Exit[p[1]][p[2]]} /\ (p \in log.spaces => p[2] \in Stones[p[1]])
                    /\ wire.RECV = <<>> /\ log.self # None =>
                         /\ log.map = game.map
                         /\ \A c \in Cells : Exit[game.map][c] # None => log.gates[<<game.map, c>>] = Exit[game.map][c]
                         /\ {id \in Others : game.near[id] # None} \subseteq log.known
                    /\ mishaps \subseteq {"gap", "ahead", "misplaced", "mistaken"} /\ log.own /\ log.self # None
                       /\ asked = <<>> /\ wire.SEND = <<>> /\ wire.RECV = <<>> => log.pos = game.cell
                    /\ mishaps \cap {"overtaken", "overlapped"} = {} => \A s \in Slots : log.slots[s] \in {None, Skill[s]}
                    /\ mishaps \cap {"overtaken", "overlapped", "warped"} = {} /\ log.sure =>
                         \A p \in Places : log.portals[p] \in {None, Exit[p[1]][p[2]]}
  BY DEF LogTrue
<1>1. /\ SessionTypeOK /\ log \in Logs /\ Charted(log, Coming, game.map, game.near)
      /\ InOrder(log, Coming, Going, asked, game.cell, mishaps)
  BY DEF LateInv, LogInv
<1>2. Coming \in Seq(Captured) /\ Len(Coming) \in Nat /\ 0 \in 0 .. Len(Coming)
  <2>1. Coming \in Seq(Captured)
    BY <1>1, WireFields DEF Captured
  <2> QED BY <2>1
<1>3. Behind(log, Coming)[0] = log
  BY <1>1, <1>2, BehindIs
<1>4. Sound(log)
  BY <1>1, <1>2, <1>3 DEF Charted
<1>5. wire.RECV = <<>> => Current(log, game.map, game.near)
  BY <1>1, <1>3 DEF Charted, Coming
<1>6. mishaps \cap {"overtaken", "overlapped"} = {} => Learned(log) /\ Linked(log, mishaps)
  BY <1>1 DEF InOrder
<1>7. ASSUME mishaps \cap {"overtaken", "overlapped"} = {}, asked = <<>>, wire.SEND = <<>>, wire.RECV = <<>>
      PROVE  Abreast(log, <<>>, game.cell, mishaps)
  <2>1. Coming = <<>> /\ Going = <<>> /\ <<>> \o <<>> = <<>> /\ Len(<<>>) = 0
    BY <1>7 DEF Coming, Going
  <2>2. Taught(log, <<>>, <<>>, game.cell, mishaps)
    BY <1>1, <1>7, <2>1 DEF InOrder
  <2> QED BY <1>3, <2>1, <2>2 DEF Taught
<1>8. ASSUME mishaps \subseteq {"gap", "ahead", "misplaced", "mistaken"}, log.own, log.self # None,
             asked = <<>>, wire.SEND = <<>>, wire.RECV = <<>>
      PROVE  log.pos = game.cell
  <2>1. mishaps \cap {"overtaken", "overlapped"} = {} /\ "warped" \notin mishaps /\ "ignored" \notin mishaps
    BY <1>8
  <2> QED BY <1>7, <1>8, <2>1 DEF Abreast
<1>9. mishaps \cap {"overtaken", "overlapped", "warped"} = {} /\ log.sure =>
        \A p \in Places : log.portals[p] \in {None, Exit[p[1]][p[2]]}
  <2> SUFFICES ASSUME mishaps \cap {"overtaken", "overlapped", "warped"} = {}, log.sure
               PROVE  \A p \in Places : log.portals[p] \in {None, Exit[p[1]][p[2]]}
    OBVIOUS
  <2>1. mishaps \cap {"overtaken", "overlapped"} = {} /\ "warped" \notin mishaps
    OBVIOUS
  <2> QED BY <1>6, <2>1 DEF Linked
<1>10. mishaps \cap {"overtaken", "overlapped"} = {} => \A s \in Slots : log.slots[s] \in {None, Skill[s]}
  BY <1>6 DEF Learned
<1>11. wire.RECV = <<>> /\ log.self # None =>
         /\ log.map = game.map
         /\ \A c \in Cells : Exit[game.map][c] # None => log.gates[<<game.map, c>>] = Exit[game.map][c]
         /\ {id \in Others : game.near[id] # None} \subseteq log.known
  BY <1>5 DEF Current
<1>12. /\ log.self \in {None, Me}
       /\ \A p \in Places : log.gates[p] \in {None, Exit[p[1]][p[2]]} /\ (p \in log.spaces => p[2] \in Stones[p[1]])
  BY <1>4 DEF Sound
<1> QED BY <1>8, <1>9, <1>10, <1>11, <1>12

\* What a host that attaches late reads in the log is true: the own id, the map, the gates and
\* Time-Spaces and who is near, whatever any host lost; the place, the portals and the skills
\* under the conditions of LogTrue.
THEOREM LogHolds == LateSpec => []LogTrue
<1>1. LateInit => LateInv
  BY LateBegins
<1>2. LateInv /\ [LateNext]_allVars => LateInv'
  BY LateKept
<1>3. LateInv => LogTrue
  BY LateTrue
<1> QED BY <1>1, <1>2, <1>3, PTL DEF LateSpec

-----------------------------------------------------------------------------
(* The host that reads it. *)

\* While no at comes, what the log says of the map stays as it is.
LEMMA MapStays ==
  ASSUME NEW l \in Logs, NEW s \in Seq(Captured), Named(l, s), l.self # None,
         NEW n \in 0 .. Len(s), \A i \in 1 .. n : s[i].op # "at"
  PROVE  \A k \in 0 .. n : Behind(l, s)[k].self = l.self /\ Behind(l, s)[k].map = l.map
<1> PICK f : f = Behind(l, s)
  OBVIOUS
<1>1. /\ Len(s) \in Nat /\ n \in Nat /\ n <= Len(s) /\ f[0] = l
      /\ \A i \in 0 .. Len(s) : f[i] \in Logs
      /\ \A i \in 1 .. Len(s) : f[i] = Logged(f[i - 1], s[i])
  BY BehindIs
<1> DEFINE B == {k \in Nat : k <= n => f[k].self = l.self /\ f[k].map = l.map}
<1>2. 0 \in B
  BY <1>1
<1>3. ASSUME NEW k \in B PROVE k + 1 \in B
  <2> SUFFICES ASSUME k + 1 <= n PROVE f[k + 1].self = l.self /\ f[k + 1].map = l.map
    BY DEF B
  <2>1. k \in Nat /\ k <= n /\ k + 1 \in 1 .. Len(s) /\ k + 1 \in 1 .. n /\ k \in 0 .. Len(s) /\ (k + 1) - 1 = k
    BY <1>1
  <2>2. f[k].self = l.self /\ f[k].map = l.map /\ f[k] \in Logs
    BY <1>1, <2>1
  <2> HIDE DEF B
  <2> PICK p : p = s[k + 1]
    OBVIOUS
  <2>3. p \in Captured /\ p.op # "at" /\ f[k + 1] = Logged(f[k], p)
    BY <1>1, <2>1
  <2>4. After(f[k], p, f[k + 1])
    BY <2>2, <2>3, LoggedIs
  <2>5. f[k + 1].self = f[k].self /\ f[k + 1].map = (IF Enters(p) THEN p.map ELSE f[k].map)
    BY <2>3, <2>4 DEF After
  <2>6. Enters(p) => p.map = f[k].map
    BY <2>1, <2>2, <2>3 DEF Enters, Named
  <2> QED BY <2>2, <2>5, <2>6
<1>4. B = Nat
  <2>1. B \in SUBSET Nat
    OBVIOUS
  <2> HIDE DEF B
  <2> QED BY <1>2, <1>3, <2>1, Induct
<1> SUFFICES ASSUME NEW k \in 0 .. n PROVE f[k].self = l.self /\ f[k].map = l.map
  OBVIOUS
<1>5. k \in Nat /\ k <= n
  BY <1>1
<1>6. k \in B
  <2> HIDE DEF B
  <2> QED BY <1>4, <1>5
<1> QED BY <1>5, <1>6

LEMMA MapLogged ==
  ASSUME SessionTypeOK, LogInv, log.self # None
  PROVE  /\ (\A i \in 1 .. Len(Coming) : Coming[i].op # "at") => log.map = game.map
         /\ \A j \in 1 .. Len(Coming) :
              Coming[j].op = "c_map" /\ (\A i \in 1 .. j - 1 : Coming[i].op # "at") => Coming[j].map = log.map
<1>1. Coming \in Seq(Captured) /\ Len(Coming) \in Nat
  <2>1. Coming \in Seq(Captured)
    BY WireFields DEF Captured
  <2> QED BY <2>1
<1>2. /\ log \in Logs /\ Named(log, Coming)
      /\ Current(Behind(log, Coming)[Len(Coming)], game.map, game.near)
  BY DEF LogInv, Charted
<1>3. ASSUME \A i \in 1 .. Len(Coming) : Coming[i].op # "at" PROVE log.map = game.map
  <2> PICK x : x = Behind(log, Coming)[Len(Coming)]
    OBVIOUS
  <2>1. Len(Coming) \in 0 .. Len(Coming)
    BY <1>1
  <2>2. x.self = log.self /\ x.map = log.map
    BY <1>1, <1>2, <1>3, <2>1, MapStays
  <2> QED BY <1>2, <2>2 DEF Current
<1>4. ASSUME NEW j \in 1 .. Len(Coming), Coming[j].op = "c_map", \A i \in 1 .. j - 1 : Coming[i].op # "at"
      PROVE  Coming[j].map = log.map
  <2> PICK n : n = j - 1
    OBVIOUS
  <2>1. n \in 0 .. Len(Coming) /\ n \in 0 .. n
    BY <1>1
  <2>2. Behind(log, Coming)[n].self = log.self /\ Behind(log, Coming)[n].map = log.map
    BY <1>1, <1>2, <1>4, <2>1, MapStays
  <2> QED BY <1>2, <1>4, <2>2 DEF Named
<1> QED BY <1>3, <1>4

LEMMA FirstOne ==
  ASSUME NEW S, NEW s \in Seq(S), s # <<>>
  PROVE  SubSeq(s, 1, 1) = <<Head(s)>> /\ Head(s) \in S
<1> PICK u : u = SubSeq(s, 1, 1)
  OBVIOUS
<1>1. s[1] \in S /\ Head(s) = s[1]
  OBVIOUS
<1>2. u \in Seq(S) /\ Len(u) = 1 /\ u[1] = s[1]
  <2>1. \A i \in 1 .. 1 : s[i] \in S
    BY <1>1
  <2>2. u \in Seq(S) /\ Len(u) = 1 - 1 + 1 /\ \A i \in 1 .. 1 - 1 + 1 : u[i] = s[1 + i - 1]
    BY <2>1, SubSeqProperties
  <2> QED BY <2>2
<1> PICK t : t = <<s[1]>>
  OBVIOUS
<1>3. t \in Seq(S) /\ Len(t) = 1 /\ t[1] = s[1]
  BY <1>1
<1>4. \A i \in 1 .. Len(u) : u[i] = t[i]
  BY <1>2, <1>3
<1>5. u = t
  BY <1>2, <1>3, <1>4, SeqEqual
<1> QED BY <1>1, <1>5

\* A packet that is read is the one that is logged.
LEMMA ReadIsLogged ==
  ASSUME SessionTypeOK, NEW way \in {"SEND", "RECV"}, Deliver(way), log \in Logs,
         log' = Drained(log, Lost("RECV"), Lost("SEND"))
  PROVE  Read(way) /\ wire[way] # <<>> /\ Head(wire[way]) \in Captured /\ After(log, Head(wire[way]), log')
<1>1. /\ Going \in Seq(Requests) /\ Coming \in Seq(Sent) /\ wire["SEND"] = Going /\ wire["RECV"] = Coming
      /\ 0 \in 0 .. Len(Going) /\ 0 \in 0 .. Len(Coming)
  <2>1. Going \in Seq(Requests) /\ Coming \in Seq(Sent) /\ wire["SEND"] = Going /\ wire["RECV"] = Coming
    BY WireFields
  <2> QED BY <2>1
<1>2. Read(way)
  BY DeliverSteps
<1>3. /\ wire[way] # <<>>
      /\ wire' = IF way = "RECV" THEN [SEND |-> Going, RECV |-> Tail(Coming)] ELSE [SEND |-> Tail(Going), RECV |-> Coming]
  BY <1>2 DEF Read
<1> PICK p : p = Head(wire[way])
  OBVIOUS
<1>4. p \in Captured
  <2>1. wire[way] \in Seq(Captured)
    BY <1>1 DEF Captured
  <2> QED BY <1>3, <2>1
<1>5. /\ Going # <<>> => SubSeq(Going, 1, 1) = <<Head(Going)>>
      /\ Coming # <<>> => SubSeq(Coming, 1, 1) = <<Head(Coming)>>
  BY <1>1, FirstOne
<1>6. SubSeq(Going, 1, 0) = <<>> /\ SubSeq(Coming, 1, 0) = <<>>
  BY <1>1
<1>7. log' = Drained(log, <<p>>, <<>>) \/ log' = Drained(log, <<>>, <<p>>)
  <2>1. CASE way = "RECV"
    <3>1. 1 \in 0 .. Len(Coming) /\ Tail(Coming) = SubSeq(Coming, 1 + 1, Len(Coming))
      BY <1>1, <1>3, <2>1, SuffixLength
    <3>2. Going = SubSeq(Going, 0 + 1, Len(Going))
      BY <1>1, SuffixLength
    <3>3. wire' = [SEND |-> SubSeq(Going, 0 + 1, Len(Going)), RECV |-> SubSeq(Coming, 1 + 1, Len(Coming))]
      BY <1>3, <2>1, <3>1, <3>2
    <3>4. Lost("SEND") = SubSeq(Going, 1, 0) /\ Lost("RECV") = SubSeq(Coming, 1, 1)
      BY <1>1, <3>1, <3>3, LostIs
    <3> QED BY <1>1, <1>3, <1>5, <1>6, <2>1, <3>4
  <2>2. CASE way = "SEND"
    <3>1. 1 \in 0 .. Len(Going) /\ Tail(Going) = SubSeq(Going, 1 + 1, Len(Going))
      BY <1>1, <1>3, <2>2, SuffixLength
    <3>2. Coming = SubSeq(Coming, 0 + 1, Len(Coming))
      BY <1>1, SuffixLength
    <3>3. wire' = [SEND |-> SubSeq(Going, 1 + 1, Len(Going)), RECV |-> SubSeq(Coming, 0 + 1, Len(Coming))]
      BY <1>3, <2>2, <3>1, <3>2
    <3>4. Lost("SEND") = SubSeq(Going, 1, 1) /\ Lost("RECV") = SubSeq(Coming, 1, 0)
      BY <1>1, <3>1, <3>3, LostIs
    <3> QED BY <1>1, <1>3, <1>5, <1>6, <2>2, <3>4
  <2> QED BY <2>1, <2>2
<1>8. <<p>> \in Seq(Captured) /\ Len(<<p>>) = 1 /\ <<p>>[1] = p
  BY <1>4
<1>9. log' = Behind(log, <<p>>)[1]
  BY <1>7, <1>8, DrainedNothing
<1>10. log' = Logged(log, p)
  <2> PICK s : s = <<p>>
    OBVIOUS
  <2>1. 1 \in 1 .. Len(s) /\ 1 - 1 = 0 /\ s \in Seq(Captured) /\ s[1] = p
    BY <1>8
  <2>2. Behind(log, s)[0] = log /\ \A i \in 1 .. Len(s) : Behind(log, s)[i] = Logged(Behind(log, s)[i - 1], s[i])
    BY <2>1, BehindIs
  <2>3. Behind(log, s)[1] = Logged(Behind(log, s)[1 - 1], s[1])
    BY <2>1, <2>2
  <2> QED BY <1>9, <2>1, <2>2, <2>3
<1>11. After(log, p, log')
  <2> PICK x : x = log'
    OBVIOUS
  <2>1. After(log, p, x)
    BY <1>4, <1>10, LoggedIs
  <2> QED BY <2>1
<1> QED BY <1>2, <1>3, <1>4, <1>11

\* A host that knows no map has not heard of one since it is there, and what comes of gates and
\* Time-Spaces comes behind the name of their map.
Mapless ==
  world.map = None =>
    /\ "place" \notin told /\ "map" \notin told /\ world.departure = None
    /\ "gap" \notin mishaps =>
         \A j \in 1 .. Len(Coming) : Coming[j].op \in {"gp", "wp"} => \E k \in 1 .. j - 1 : Coming[k] \in Setters

LEMMA MaplessFed ==
  ASSUME NEW w \in Worlds, NEW p \in Packets, Feed(w, p).map = None
  PROVE  w.map = None /\ Feed(w, p).departure = w.departure /\ p.op \notin {"at", "c_map"}
<1>1. (p.op \in {"at", "c_map"} => p.map \in Maps) /\ None \notin Maps
  BY NoneAssumption DEF Packets
<1>2. CASE p.op = "c_map"
  <2>1. RememberDeparture(w) \in Worlds /\ ForgetMap(w) \in Worlds /\ ForgetMap(RememberDeparture(w)) \in Worlds
    BY DepartureTyped, ForgetTyped
  <2>2. Feed(w, p).map = p.map
    BY <1>2, <2>1 DEF Feed, OnMap, Worlds
  <2> QED BY <1>1, <1>2, <2>2
<1>3. CASE p.op = "at"
  <2>1. Feed(w, p) = OnPosition(w, p)
    BY <1>3 DEF Feed
  <2>2. ForgetMap(w) \in Worlds
    BY ForgetTyped
  <2>3. OnPosition(w, p).map = p.map
    BY <2>2 DEF OnPosition, Worlds
  <2> QED BY <1>1, <1>3, <2>1, <2>3
<1>4. CASE p.op = "mapout"
  <2>1. Feed(w, p) = ForgetMap(RememberDeparture(w))
    BY <1>4 DEF Feed, OnMapout
  <2>2. RememberDeparture(w) \in Worlds /\ RememberDeparture(w).map = w.map
    <3>1. RememberDeparture(w) \in Worlds
      BY DepartureTyped
    <3>2. CASE w.map = None \/ w.pos = None
      BY <3>1, <3>2 DEF RememberDeparture
    <3>3. CASE ~(w.map = None \/ w.pos = None)
      <4>1. RememberDeparture(w) = [w EXCEPT !.departure = <<w.map, w.pos>>]
        BY <3>3 DEF RememberDeparture
      <4> QED BY <3>1, <4>1 DEF Worlds
    <3> QED BY <3>2, <3>3
  <2>3. /\ ForgetMap(RememberDeparture(w)).map = RememberDeparture(w).map
        /\ ForgetMap(RememberDeparture(w)).departure = RememberDeparture(w).departure
    BY <2>2 DEF ForgetMap, Worlds
  <2>4. RememberDeparture(w) = w
    BY <2>1, <2>2, <2>3 DEF RememberDeparture
  <2> QED BY <1>4, <2>1, <2>2, <2>3, <2>4
<1>5. CASE p.op \in {"mv", "tp", "in", "out", "st"}
  BY <1>5 DEF Feed, OnMove, OnTeleport, OnSpawn, OnDespawn, OnStatus, Worlds
<1>6. CASE p.op \in {"walk", "drop", "get", "rest", "cond", "gp", "wp"}
  BY <1>6 DEF Feed, OnWalk, OnDrop, OnGet, OnRest, OnCondition, OnGate, OnWaypoint, Worlds
<1>7. CASE p.op \in {"ski", "u_s", "su"}
  BY <1>7 DEF Feed, OnSkillList, OnSkillSend, OnSkillUsed, Worlds
<1>8. CASE p.op \notin {"c_map", "at", "mapout", "mv", "tp", "in", "out", "st", "walk", "drop", "get", "rest", "cond",
                        "gp", "wp", "ski", "u_s", "su"}
  BY <1>8 DEF Feed
<1> QED BY <1>2, <1>3, <1>4, <1>5, <1>6, <1>7, <1>8

\* Of the packets of a change of map.
LEMMA ListComesNamed ==
  ASSUME NEW s \in Seq(Sent), NEW a, NEW from, NEW m \in Maps, NEW c, NEW view \in Views, ArrivalAt(s, a, from, m, c, view)
  PROVE  /\ a \in 1 .. Len(s) /\ s[a] = [op |-> "at", id |-> Me, map |-> m, cell |-> c] /\ s[a] \in Setters
         /\ \A j \in 1 .. Len(s) : (s[j].op = "at" => j = a) /\ (s[j].op \in {"gp", "wp"} => j > a)
<1>1. /\ a \in Nat /\ a >= 2 /\ a + 1 <= Len(s) /\ Len(s) \in Nat
      /\ \A j \in 1 .. a - 1 : s[j] \in {[op |-> "c_map", map |-> from, entering |-> FALSE], [op |-> "mapout"]}
      /\ s[a] = [op |-> "at", id |-> Me, map |-> m, cell |-> c]
      /\ s[a + 1] = [op |-> "c_map", map |-> m, entering |-> TRUE]
      /\ \A j \in a + 2 .. Len(s) : s[j] \in Made(m, view)
  BY DEF ArrivalAt, Made
<1>2. a \in 1 .. Len(s)
  BY <1>1
<1>3. s[a] \in Sent /\ s[a] \in Setters
  BY <1>1, <1>2 DEF Setters
<1>4. ASSUME NEW j \in 1 .. Len(s) PROVE (s[j].op = "at" => j = a) /\ (s[j].op \in {"gp", "wp"} => j > a)
  <2>1. j \in 1 .. a - 1 \/ j = a \/ j = a + 1 \/ j \in a + 2 .. Len(s)
    BY <1>1
  <2>2. CASE j \in 1 .. a - 1
    BY <1>1, <2>2
  <2>3. CASE j = a
    BY <1>1, <2>3
  <2>4. CASE j = a + 1
    BY <1>1, <2>4
  <2>5. CASE j \in a + 2 .. Len(s)
    <3>1. s[j].op \in {"gp", "wp", "in"} /\ j > a
      BY <1>1, <2>5, MadeFields
    <3> QED BY <3>1
  <2> QED BY <2>1, <2>2, <2>3, <2>4, <2>5
<1> QED BY <1>1, <1>2, <1>3, <1>4

LEMMA MaplessKept ==
  ASSUME SessionTypeOK, Sight, Mapless
  PROVE  Mapless'
<1> SUFFICES ASSUME world'.map = None
             PROVE  /\ "place" \notin told' /\ "map" \notin told' /\ world'.departure = None
                    /\ "gap" \notin mishaps' =>
                         \A j \in 1 .. Len(Coming') : Coming'[j].op \in {"gp", "wp"} =>
                           \E k \in 1 .. j - 1 : Coming'[k] \in Setters
  BY DEF Mapless
<1>1. Coming \in Seq(Sent) /\ Len(Coming) \in Nat /\ world \in Worlds
  <2>1. Coming \in Seq(Sent) /\ world \in Worlds
    BY WireFields DEF SessionTypeOK
  <2> QED BY <2>1
<1>2. mishaps \subseteq mishaps'
  BY DEF Sight
<1>3. ASSUME world.map = None
      PROVE  /\ "place" \notin told /\ "map" \notin told /\ world.departure = None
             /\ "gap" \notin mishaps' =>
                  \A j \in 1 .. Len(Coming) : Coming[j].op \in {"gp", "wp"} => \E k \in 1 .. j - 1 : Coming[k] \in Setters
  BY <1>2, <1>3 DEF Mapless
<1>4. CASE Still
  <2>1. Coming' = Coming /\ told' = told /\ world'.map = world.map /\ world'.departure = world.departure
    BY <1>4 DEF Still
  <2> QED BY <1>3, <2>1
<1>5. ASSUME NEW s \in Seq(Sent), Coming' = Coming \o s, UNCHANGED <<world, told>>,
             \A j \in 1 .. Len(s) : s[j].op \in {"gp", "wp"} => \E k \in 1 .. j - 1 : s[k] \in Setters
      PROVE  /\ "place" \notin told' /\ "map" \notin told' /\ world'.departure = None
             /\ "gap" \notin mishaps' =>
                  \A j \in 1 .. Len(Coming') : Coming'[j].op \in {"gp", "wp"} =>
                    \E k \in 1 .. j - 1 : Coming'[k] \in Setters
  <2>1. world' = world /\ told' = told
    BY <1>5
  <2>2. /\ Len(Coming') = Len(Coming) + Len(s) /\ Len(s) \in Nat
        /\ \A i \in 1 .. Len(Coming) : Coming'[i] = Coming[i]
        /\ \A i \in 1 .. Len(s) : Coming'[Len(Coming) + i] = s[i]
    BY <1>1, <1>5, ConcatFields
  <2>3. ASSUME "gap" \notin mishaps', NEW j \in 1 .. Len(Coming'), Coming'[j].op \in {"gp", "wp"}
        PROVE  \E k \in 1 .. j - 1 : Coming'[k] \in Setters
    <3>1. CASE j \in 1 .. Len(Coming)
      <4>1. PICK k \in 1 .. j - 1 : Coming[k] \in Setters
        BY <1>3, <2>1, <2>2, <2>3, <3>1
      <4>2. k \in 1 .. Len(Coming)
        BY <1>1, <3>1
      <4> QED BY <2>2, <4>1, <4>2
    <3>2. CASE j \notin 1 .. Len(Coming)
      <4> PICK i : i = j - Len(Coming)
        OBVIOUS
      <4>1. i \in 1 .. Len(s) /\ j = Len(Coming) + i
        BY <1>1, <2>2, <3>2
      <4>2. PICK k \in 1 .. i - 1 : s[k] \in Setters
        BY <1>5, <2>2, <2>3, <4>1
      <4>3. k \in 1 .. Len(s) /\ Len(Coming) + k \in 1 .. j - 1
        BY <1>1, <2>2, <4>1
      <4> QED BY <2>2, <4>2, <4>3
    <3> QED BY <3>1, <3>2
  <2> QED BY <1>3, <2>1, <2>3
<1>6. CASE \E p \in Sent : Says(p)
  <2>1. PICK p \in Sent : Says(p)
    BY <1>6
  <2>2. /\ p.op \notin {"gp", "wp"} /\ Coming' = Append(Coming, p) /\ UNCHANGED <<world, told>>
    BY <2>1 DEF Says, Truly
  <2>3. Append(Coming, p) = Coming \o <<p>> /\ <<p>> \in Seq(Sent) /\ \A j \in 1 .. Len(<<p>>) : <<p>>[j] = p
    BY <1>1
  <2> QED BY <1>5, <2>2, <2>3
<1>7. CASE Comes
  <2>1. PICK s \in Seq(Sent), m \in Maps, c \in Cells, view \in Views, a \in Nat :
          ArrivalAt(s, a, game.map, m, c, view) /\ Coming' = Coming \o s /\ UNCHANGED <<world, told>>
    BY <1>7 DEF Comes
  <2>2. /\ a \in 1 .. Len(s) /\ s[a] \in Setters
        /\ \A j \in 1 .. Len(s) : s[j].op \in {"gp", "wp"} => j > a
    BY <2>1, ListComesNamed
  <2>3. \A j \in 1 .. Len(s) : s[j].op \in {"gp", "wp"} => a \in 1 .. j - 1
    BY <2>2
  <2> QED BY <1>5, <2>1, <2>2, <2>3
<1>8. CASE Hears
  <2> PICK p : p = Head(Coming)
    OBVIOUS
  <2>1. Coming # <<>> /\ Coming' = Tail(Coming) /\ p \in Sent /\ p \in Packets /\ world' = Feed(world, p) /\ told' = ToldBy(p)
    BY <1>8, SentFields DEF Hears
  <2>2. world.map = None /\ world'.departure = world.departure /\ p.op \notin {"at", "c_map"}
    BY <1>1, <2>1, MaplessFed
  <2>3. "place" \notin told' /\ "map" \notin told'
    BY <1>3, <2>1, <2>2, ToldWhat
  <2>4. /\ Len(Tail(Coming)) = Len(Coming) - 1 /\ Coming[1] = p
        /\ \A i \in 1 .. Len(Tail(Coming)) : Tail(Coming)[i] = Coming[i + 1]
    BY <1>1, <2>1
  <2>5. ASSUME "gap" \notin mishaps', NEW j \in 1 .. Len(Coming'), Coming'[j].op \in {"gp", "wp"}
        PROVE  \E k \in 1 .. j - 1 : Coming'[k] \in Setters
    <3>1. j + 1 \in 1 .. Len(Coming) /\ Coming[j + 1].op \in {"gp", "wp"}
      BY <1>1, <2>1, <2>4, <2>5
    <3>2. PICK k \in 1 .. (j + 1) - 1 : Coming[k] \in Setters
      BY <1>3, <2>2, <2>5, <3>1
    <3>3. k # 1
      BY <2>2, <2>4, <3>2 DEF Setters
    <3>4. k - 1 \in 1 .. j - 1 /\ k - 1 \in 1 .. Len(Tail(Coming)) /\ (k - 1) + 1 = k
      BY <1>1, <2>1, <2>4, <3>1, <3>2, <3>3
    <3> QED BY <2>1, <2>4, <3>2, <3>4
  <2> QED BY <1>3, <2>2, <2>3, <2>5
<1>9. CASE Misses
  <2>1. told' = {} /\ "gap" \in mishaps' /\ world' = world
    BY <1>9 DEF Misses
  <2> QED BY <1>3, <2>1
<1> QED BY <1>4, <1>6, <1>7, <1>8, <1>9 DEF Sight

\* While every packet is read in its turn, a walk that was read is where the log has the character,
\* and an at that comes ends a crossing from there.
Placed ==
  seeded = "no" /\ Settled({"ignored"}) /\ log.own /\ log.self # None =>
    /\ log.pos # None
    /\ Walking /\ Free(Going, Walks) => log.pos = asked[1].cell
    /\ \A i \in 1 .. Len(Coming) : Coming[i].op = "at" =>
         Exit[log.map][log.pos] = Coming[i].map /\ Exit[Coming[i].map][Coming[i].cell] = log.map

LEMMA PlacedPlayed ==
  ASSUME SessionTypeOK, AskInv, PlaceInv, LogInv, Placed, seeded = "no", Played, log' = log
  PROVE  Placed'
<1> SUFFICES ASSUME mishaps' \subseteq {"ignored"}, Going' = <<>> \/ Coming' = <<>>, log.own, log.self # None
             PROVE  /\ log.pos # None
                    /\ asked' # <<>> /\ asked'[1] \in Walks /\ Free(Going', Walks) => log.pos = asked'[1].cell
                    /\ \A i \in 1 .. Len(Coming') : Coming'[i].op = "at" =>
                         /\ Exit[log.map][log.pos] = Coming'[i].map
                         /\ Exit[Coming'[i].map][Coming'[i].cell] = log.map
  BY DEF Placed, Settled, Alive, Walking
<1>1. /\ Coming \in Seq(Sent) /\ Going \in Seq(Requests) /\ asked \in Seq(Requests) /\ Len(Coming) \in Nat
  <2>1. Coming \in Seq(Sent) /\ Going \in Seq(Requests) /\ asked \in Seq(Requests)
    BY WireFields DEF SessionTypeOK
  <2> QED BY <2>1
<1>2. Step
  BY DEF Step, Played
<1>3. mishaps \subseteq {"ignored"} /\ "overlapped" \notin mishaps /\ "overlapped" \notin mishaps'
      /\ (Warped => FALSE)
  BY <1>2, MishapsGrow
<1>4. ASSUME Going = <<>> \/ Coming = <<>>
      PROVE  /\ log.pos # None
             /\ asked # <<>> /\ asked[1] \in Walks /\ Free(Going, Walks) => log.pos = asked[1].cell
             /\ \A i \in 1 .. Len(Coming) : Coming[i].op = "at" =>
                  Exit[log.map][log.pos] = Coming[i].map /\ Exit[Coming[i].map][Coming[i].cell] = log.map
  BY <1>3, <1>4 DEF Placed, Settled, Alive, Walking
<1> DEFINE Goal == /\ log.pos # None
                   /\ asked' # <<>> /\ asked'[1] \in Walks /\ Free(Going', Walks) => log.pos = asked'[1].cell
                   /\ \A i \in 1 .. Len(Coming') : Coming'[i].op = "at" =>
                        /\ Exit[log.map][log.pos] = Coming'[i].map
                        /\ Exit[Coming'[i].map][Coming'[i].cell] = log.map
<1>5. ASSUME NEW request \in Requests, Asking(request) PROVE Goal
  <2>1. asked' = Append(asked, request) /\ Going' = Append(Going, request) /\ Coming' = Coming /\ asked = <<>>
    <3>1. "overlapped" \notin mishaps' => asked = <<>>
      BY <1>2, <1>5, MishapsGrow
    <3>2. Going' = Append(Going, request) /\ Coming' = Coming
      BY <1>5, WiresAfter
    <3> QED BY <1>3, <1>5, <3>1, <3>2 DEF Asking
  <2>2. Append(Going, request) # <<>>
    <3>1. Len(Append(Going, request)) = Len(Going) + 1 /\ Len(Going) \in Nat
      BY <1>1
    <3>2. Len(Append(Going, request)) # Len(<<>>)
      BY <3>1
    <3> QED BY <3>2
  <2>3. Coming = <<>> /\ Len(Coming') = 0
    BY <2>1, <2>2
  <2>4. asked'[1] = request
    BY <2>1
  <2>5. Free(Going', Walks) => request \notin Walks
    BY <1>1, <2>1, LastAppend
  <2>6. log.pos # None
    BY <1>4, <2>3
  <2> QED BY <2>3, <2>4, <2>5, <2>6
<1>6. ASSUME NEW p \in Sent, p.op # "at", Coming' = Append(Coming, p), Going' = Going,
             asked' = asked \/ asked' = <<>>
      PROVE  Goal
  <2>1. /\ Len(Append(Coming, p)) = Len(Coming) + 1 /\ Append(Coming, p)[Len(Coming) + 1] = p
        /\ \A i \in 1 .. Len(Coming) : Append(Coming, p)[i] = Coming[i]
        /\ Append(Coming, p) # <<>>
    BY <1>1
  <2>2. Going = <<>>
    BY <1>6, <2>1
  <2>3. \A i \in 1 .. Len(Coming') : i \in 1 .. Len(Coming) \/ i = Len(Coming) + 1
    BY <1>1, <1>6, <2>1
  <2> QED BY <1>4, <1>6, <2>1, <2>2, <2>3
<1>7. ASSUME NEW request \in Requests, NEW p \in Sent, Replied(request, p) PROVE Goal
  <2>1. Serving(request) /\ p.op # "at"
    BY <1>7 DEF Replied
  <2>2. asked' = <<>>
    BY <1>3, <2>1, ServingLast
  <2>3. Going' = Going /\ Coming' = Append(Coming, p)
    BY <1>7, WiresAfter
  <2> QED BY <1>6, <2>1, <2>2, <2>3
<1>8. ASSUME NEW p \in Sent, Told(p) PROVE Goal
  <2>1. asked' = asked /\ p.op # "at"
    BY <1>8 DEF Told, Saying, Truly
  <2>2. Going' = Going /\ Coming' = Append(Coming, p)
    BY <1>8, WiresAfter
  <2> QED BY <1>6, <2>1, <2>2
<1>9. ASSUME NEW request \in Requests, Walked(request) \/ Ignored(request) PROVE Goal
  <2>1. Serving(request)
    BY <1>9 DEF Walked, Ignored
  <2>2. asked' = <<>>
    BY <1>3, <2>1, ServingLast
  <2>3. Going' = Going /\ Coming' = Coming
    BY <1>9, WiresAfter
  <2> QED BY <1>4, <2>2, <2>3
<1>10. ASSUME NEW request \in Requests, Went(request) PROVE Goal
  <2>1. Serving(request) /\ request \in Walks
    BY <1>10 DEF Went, Walks
  <2>2. asked' = <<>> /\ request = asked[1] /\ asked # <<>>
    BY <1>3, <2>1, ServingLast
  <2>3. PICK m \in Maps, c \in Cells : m = Exit[game.map][request.cell] /\ Exit[m][c] = game.map /\ Moving(m, c)
    BY <1>10 DEF Went
  <2>4. PICK s \in Seq(Sent), view \in Views, a \in Nat :
          /\ ArrivalAt(s, a, game.map, m, c, view)
          /\ wire' = [SEND |-> Going, RECV |-> Coming \o s]
    BY <2>3 DEF Moving
  <2>5. Going' = Going /\ Coming' = Coming \o s
    BY <2>4 DEF Going, Coming
  <2>6. /\ a \in 1 .. Len(s) /\ s[a] = [op |-> "at", id |-> Me, map |-> m, cell |-> c]
        /\ \A j \in 1 .. Len(s) : s[j].op = "at" => j = a
    <3> PICK from : from = game.map
      OBVIOUS
    <3>1. ArrivalAt(s, a, from, m, c, view)
      BY <2>4
    <3>2. /\ a \in 1 .. Len(s) /\ s[a] = [op |-> "at", id |-> Me, map |-> m, cell |-> c] /\ s[a] \in Setters
          /\ \A j \in 1 .. Len(s) : (s[j].op = "at" => j = a) /\ (s[j].op \in {"gp", "wp"} => j > a)
      BY <3>1, ListComesNamed
    <3> QED BY <3>2
  <2>7. /\ Len(Coming') = Len(Coming) + Len(s) /\ Len(s) \in Nat
        /\ \A i \in 1 .. Len(Coming) : Coming'[i] = Coming[i]
        /\ \A i \in 1 .. Len(s) : Coming'[Len(Coming) + i] = s[i]
    BY <1>1, <2>5, ConcatFields
  <2>8. Going = <<>>
    <3>1. Len(Coming') # 0
      BY <1>1, <2>6, <2>7
    <3>2. Coming' # <<>>
      BY <3>1
    <3> QED BY <2>5, <3>2
  <2>9. Free(Coming, Movers)
    <3>1. Settled({"mistaken", "ignored"})
      BY <1>3, <2>8 DEF Settled, Alive
    <3> QED BY <2>2, <2>8, <3>1 DEF PlaceInv
  <2>10. \A i \in 1 .. Len(Coming) : Coming[i].op # "at"
    <3>1. \A i \in 1 .. Len(Coming) : Coming[i] \in Sent /\ Coming[i] \notin Movers
      BY <1>1, <2>9 DEF Free
    <3> QED BY <3>1, MoverOps
  <2>11. log.map = game.map
    BY <2>10, MapLogged
  <2>12. log.pos # None /\ log.pos = request.cell
    <3>1. Free(Going, Walks)
      BY <2>8 DEF Free
    <3> QED BY <1>4, <2>1, <2>2, <2>8, <3>1
  <2>13. ASSUME NEW i \in 1 .. Len(Coming'), Coming'[i].op = "at" PROVE Coming'[i] = s[a]
    <3>1. i \notin 1 .. Len(Coming)
      BY <2>7, <2>10, <2>13
    <3> PICK j : j = i - Len(Coming)
      OBVIOUS
    <3>2. j \in 1 .. Len(s) /\ i = Len(Coming) + j
      BY <1>1, <2>7, <3>1
    <3>3. Coming'[i] = s[j]
      BY <2>7, <3>2
    <3> QED BY <2>6, <2>13, <3>2, <3>3
  <2>14. s[a].map = m /\ s[a].cell = c
    BY <2>6
  <2> QED BY <2>2, <2>3, <2>11, <2>12, <2>13, <2>14
<1> HIDE DEF Goal
<1>11. Goal
  BY <1>3, <1>5, <1>7, <1>8, <1>9, <1>10 DEF Played
<1> QED BY <1>11 DEF Goal

LEMMA PlacedRead ==
  ASSUME SessionTypeOK, AskInv, PlaceInv, PortalsInv, LogInv, Placed, seeded = "no",
         NEW way \in {"SEND", "RECV"}, Read(way), Head(wire[way]) \in Captured, After(log, Head(wire[way]), log')
  PROVE  Placed'
<1> SUFFICES ASSUME mishaps' \subseteq {"ignored"}, log'.own, log'.self # None
             PROVE  /\ log'.pos # None
                    /\ asked' # <<>> /\ asked'[1] \in Walks /\ Free(Going', Walks) => log'.pos = asked'[1].cell
                    /\ \A i \in 1 .. Len(Coming') : Coming'[i].op = "at" =>
                         /\ Exit[log'.map][log'.pos] = Coming'[i].map
                         /\ Exit[Coming'[i].map][Coming'[i].cell] = log'.map
  BY DEF Placed, Settled, Walking
<1> PICK x : x = log'
  OBVIOUS
<1> PICK p : p = Head(wire[way])
  OBVIOUS
<1>1. /\ Coming \in Seq(Sent) /\ Going \in Seq(Requests) /\ asked \in Seq(Requests) /\ Len(Coming) \in Nat
      /\ wire["SEND"] = Going /\ wire["RECV"] = Coming
  <2>1. /\ Coming \in Seq(Sent) /\ Going \in Seq(Requests) /\ asked \in Seq(Requests)
        /\ wire["SEND"] = Going /\ wire["RECV"] = Coming
    BY WireFields DEF SessionTypeOK
  <2> QED BY <2>1
<1>2. Step /\ wire[way] # <<>> /\ asked' = asked
  BY DEF Step, Read
<1>3. /\ mishaps \subseteq {"ignored"}
      /\ Read("RECV") => Going = <<>>
      /\ Read("SEND") => Coming = <<>>
  BY <1>2, MishapsGrow
<1>4. Going = <<>> \/ Coming = <<>>
  BY <1>3
<1>5. /\ x.self = IF p.op = "at" THEN p.id ELSE log.self
      /\ x.map = IF Enters(p) THEN p.map ELSE log.map
      /\ x.pos = IF p.op = "at" \/ MovesPlayer(p) THEN p.cell ELSE log.pos
      /\ x.own = OwnAfter(log, p)
  BY DEF After
<1>6. ASSUME log.own, log.self # None
      PROVE  /\ log.pos # None
             /\ asked # <<>> /\ asked[1] \in Walks /\ Free(Going, Walks) => log.pos = asked[1].cell
             /\ \A i \in 1 .. Len(Coming) : Coming[i].op = "at" =>
                  Exit[log.map][log.pos] = Coming[i].map /\ Exit[Coming[i].map][Coming[i].cell] = log.map
  BY <1>3, <1>4, <1>6 DEF Placed, Settled, Alive, Walking
<1>7. CASE way = "SEND"
  <2>1. /\ Going # <<>> /\ Coming = <<>> /\ p = Head(Going) /\ p \in Requests
        /\ Going' = Tail(Going) /\ Coming' = Coming
    BY <1>1, <1>2, <1>3, <1>7, WiresAfter
  <2>2. p.op \in {"walk", "u_s", "rest"} /\ (p.op = "walk" => p.cell \in Cells \cup {None})
    BY <2>1, RequestFields
  <2>3. p \in Walks <=> MovesPlayer(p)
    BY <2>1, <2>2 DEF Walks, MovesPlayer
  <2>4. x.self = log.self /\ (x.own = IF p \in Walks THEN TRUE ELSE log.own)
        /\ (x.pos = IF p \in Walks THEN p.cell ELSE log.pos)
    BY <1>5, <2>2, <2>3 DEF OwnAfter, MovesPlayer
  <2>5. x.pos # None
    BY <1>6, <2>4 DEF Walks
  <2>6. ASSUME asked # <<>>, asked[1] \in Walks, Free(Tail(Going), Walks) PROVE x.pos = asked[1].cell
    <3>1. Going[Len(Going)] = asked[1]
      BY <1>3, <2>1, <2>6 DEF AskInv
    <3>2. /\ Tail(Going) # <<>> => Tail(Going)[Len(Tail(Going))] = Going[Len(Going)]
          /\ Tail(Going) = <<>> => Going[Len(Going)] = Head(Going)
      BY <1>1, <2>1, TailEnd
    <3>3. Tail(Going) = <<>>
      <4> SUFFICES ASSUME Tail(Going) # <<>> PROVE FALSE
        OBVIOUS
      <4>1. Tail(Going) \in Seq(Requests)
        BY <1>1, <2>1
      <4>2. Len(Tail(Going)) \in 1 .. Len(Tail(Going))
        <5> PICK t \in Seq(Requests) : t = Tail(Going)
          BY <4>1
        <5>1. Len(t) \in Nat /\ Len(t) # 0
          BY EmptySeq
        <5> QED BY <5>1
      <4> QED BY <2>6, <3>1, <3>2, <4>2 DEF Free
    <3> QED BY <2>1, <2>4, <2>6, <3>1, <3>2, <3>3
  <2>7. Len(Coming') = 0
    BY <2>1
  <2> QED BY <1>2, <2>1, <2>5, <2>6, <2>7
<1>8. CASE way = "RECV"
  <2>1. /\ Coming # <<>> /\ Going = <<>> /\ p = Head(Coming) /\ p \in Sent
        /\ Going' = Going /\ Coming' = Tail(Coming)
    BY <1>1, <1>2, <1>3, <1>8, WiresAfter DEF Hears
  <2>2. /\ Coming[1] = p /\ 1 \in 1 .. Len(Coming)
        /\ \A i \in 1 .. Len(Tail(Coming)) : i + 1 \in 1 .. Len(Coming) /\ i + 1 # 1 /\ Tail(Coming)[i] = Coming[i + 1]
    BY <1>1, <2>1
  <2>3. Free(Going, Walks) /\ Settled({"mistaken", "ignored"}) /\ Alive
    BY <1>3, <2>1 DEF Free, Settled, Alive
  <2>4. CASE p.op \in {"at", "tp"}
    <3>1. p \in Movers
      BY <2>1, <2>4, MoverOps
    <3>2. asked = <<>>
      <4>1. ~Free(Coming, Movers)
        BY <2>2, <3>1 DEF Free
      <4> QED BY <2>1, <2>3, <4>1 DEF PlaceInv
    <3>3. ASSUME NEW i \in 1 .. Len(Coming'), Coming'[i].op = "at" PROVE FALSE
      <4>1. i + 1 \in 1 .. Len(Coming) /\ i + 1 # 1 /\ Coming[i + 1].op = "at"
        BY <2>1, <2>2, <3>3
      <4>2. PICK m \in Maps, c \in Cells : Crossing(i + 1, m, c)
        BY <1>3, <2>3, <4>1 DEF PortalsInv
      <4>3. Coming[1] \notin Movers
        BY <2>2, <4>1, <4>2 DEF Crossing
      <4> QED BY <2>2, <3>1, <4>3
    <3>4. x.pos = p.cell /\ p.cell \in Cells
      <4>1. p.cell \in Cells /\ p.id = Me
        BY <2>1, <2>4, SentFields
      <4> QED BY <1>5, <2>4, <4>1, OthersIds DEF MovesPlayer
    <3>5. x.pos # None
      BY <3>4, NoneAssumption
    <3> QED BY <1>2, <3>2, <3>3, <3>5
  <2>5. CASE p.op \notin {"at", "tp"} /\ MovesPlayer(p)
    <3>1. p.op = "mv" /\ p.id # Me
      BY <2>1, <2>5, SentFields DEF MovesPlayer, Others
    <3>2. ~OwnAfter(log, p)
      BY <2>5, <3>1 DEF OwnAfter
    <3> QED BY <1>5, <3>2
  <2>6. CASE p.op \notin {"at", "tp"} /\ ~MovesPlayer(p)
    <3>1. x.pos = log.pos /\ x.self = log.self /\ x.own = log.own
      BY <1>5, <2>6 DEF OwnAfter
    <3>2. x.map = log.map
      <4>1. CASE Enters(p)
        <5>1. p.op = "c_map" /\ \A i \in 1 .. 1 - 1 : Coming[i].op # "at"
          BY <2>6, <4>1 DEF Enters
        <5>2. Coming[1].map = log.map
          BY <2>2, <3>1, <5>1, MapLogged
        <5> QED BY <1>5, <2>2, <4>1, <5>2
      <4> QED BY <1>5, <4>1
    <3> QED BY <1>2, <1>6, <2>1, <2>2, <2>3, <3>1, <3>2
  <2> QED BY <2>4, <2>5, <2>6
<1> QED BY <1>7, <1>8

LEMMA PlacedKept ==
  ASSUME SessionInv, LateInv, Placed, [LateNext]_allVars
  PROVE  Placed'
<1> SUFFICES ASSUME seeded' = "no", mishaps' \subseteq {"ignored"} PROVE Placed'
  BY DEF Placed, Settled
<1>1. CASE UNCHANGED allVars
  BY <1>1 DEF allVars, vars, Placed, Settled, Alive, Walking, Going, Coming
<1>2. CASE LateNext
  <2>1. seeded = "no" /\ ~Seed
    BY <1>2 DEF LateNext, Seed
  <2>2. SessionTypeOK /\ AskInv /\ PlaceInv /\ PortalsInv /\ LogInv
    BY <2>1 DEF LateInv, SessionInv
  <2>3. CASE Game /\ log' = log
    <3>1. Played
      BY <2>2, <2>3, GameSteps
    <3> QED BY <2>1, <2>2, <2>3, <3>1, PlacedPlayed
  <2>4. CASE Age /\ log' = log
    BY <2>1, <2>4 DEF Age, Placed, Settled, Alive, Walking, Going, Coming
  <2>5. ~Gap
    <3> SUFFICES ASSUME Gap PROVE "gap" \in mishaps'
      OBVIOUS
    <3>1. \E more : mishaps' = mishaps \cup {"gap"} \cup more
      BY DEF Gap
    <3> QED BY <3>1
  <2>6. ASSUME NEW way \in {"SEND", "RECV"}, Deliver(way), log' = Drained(log, Lost("RECV"), Lost("SEND"))
        PROVE  Placed'
    <3>1. log \in Logs
      BY <2>2 DEF LogInv
    <3>2. Read(way) /\ Head(wire[way]) \in Captured /\ After(log, Head(wire[way]), log')
      BY <2>2, <2>6, <3>1, ReadIsLogged
    <3> QED BY <2>1, <2>2, <2>6, <3>2, PlacedRead
  <2> QED BY <1>2, <2>1, <2>3, <2>4, <2>5, <2>6 DEF LateNext
<1> QED BY <1>1, <1>2

\* What the host takes: where an empty world is, from the log as it is then.
Seeded(w, l) ==
  [w EXCEPT !.map = l.map, !.pos = IF l.pos = None THEN @ ELSE l.pos, !.self = IF l.self = None THEN @ ELSE l.self]

Takes(l) ==
  /\ world.map = None /\ l \in Logs /\ l.map # None /\ l.self = Me /\ world' = Seeded(world, l)
  /\ mishaps \subseteq mishaps' /\ mishaps' \subseteq mishaps \cup {"ahead", "misplaced"}
  /\ mishaps' \cap {"ahead", "misplaced"} = {} => l = log /\ log.own

LEMMA SeedTakes ==
  ASSUME SessionTypeOK, LogInv, Seed
  PROVE  /\ UNCHANGED <<game, asked, wire, told, count>> /\ Going' = Going /\ Coming' = Coming
         /\ (UNCHANGED <<world, mishaps>>) \/ \E l : Takes(l)
<1>1. Going \in Seq(Requests) /\ Coming \in Seq(Sent) /\ Coming \in Seq(Captured)
  BY WireFields DEF Captured
<1>2. UNCHANGED <<game, asked, wire, told, count>> /\ Going' = Going /\ Coming' = Coming
  BY DEF Seed, Going, Coming
<1> PICK j, k, l :
      LET takes == world.map = None /\ l.map # None
      IN /\ j \in 0 .. Len(Going) /\ k \in 0 .. Len(Coming)
         /\ l = Drained(log, SubSeq(Coming, 1, k), SubSeq(Going, 1, j))
         /\ world' = IF ~takes THEN world ELSE Seeded(world, l)
         /\ mishaps' = mishaps \cup (IF takes /\ j + k > 0 THEN {"ahead"} ELSE {})
                               \cup (IF takes /\ ~l.own THEN {"misplaced"} ELSE {})
  BY DEF Seed, Going, Coming, Seeded
<1>3. CASE ~(world.map = None /\ l.map # None)
  BY <1>2, <1>3
<1>4. CASE world.map = None /\ l.map # None
  <2>1. log \in Logs /\ Charted(log, Coming, game.map, game.near)
    BY DEF LogInv
  <2> PICK f : f = SubSeq(Coming, 1, k)
    OBVIOUS
  <2> PICK g : g = SubSeq(Going, 1, j)
    OBVIOUS
  <2>2. g \in Seq(Requests)
    <3>1. \A i \in 1 .. j : Going[i] \in Requests
      BY <1>1
    <3> QED BY <3>1, SubSeqProperties
  <2>3. f \in Seq(Captured) /\ g \in Seq(Captured)
    <3>1. \A i \in 1 .. k : Coming[i] \in Captured
      BY <1>1
    <3>2. f \in Seq(Captured)
      BY <3>1, SubSeqProperties
    <3> QED BY <2>2, <3>2 DEF Captured
  <2>4. l \in Logs
    BY <2>1, <2>3, DrainedTyped
  <2>5. l.self = Me
    <3> PICK u : u = SubSeq(Coming, k + 1, Len(Coming))
      OBVIOUS
    <3>1. Charted(l, u, game.map, game.near)
      BY <1>1, <2>1, <2>2, ChartTaken
    <3>2. u \in Seq(Captured) /\ Len(u) \in Nat /\ 0 \in 0 .. Len(u)
      <4>1. \A i \in k + 1 .. Len(Coming) : Coming[i] \in Captured
        BY <1>1
      <4>2. u \in Seq(Captured)
        BY <1>1, <4>1, SubSeqProperties
      <4> QED BY <4>2
    <3>3. Behind(l, u)[0] = l
      BY <2>4, <3>2, BehindIs
    <3> QED BY <1>4, <3>1, <3>2, <3>3 DEF Charted, Sound
  <2>6. ASSUME j + k = 0 PROVE l = log
    <3>1. f = <<>> /\ g = <<>>
      BY <1>1, <2>6
    <3>2. l = Drained(log, <<>>, <<>>)
      BY <3>1
    <3>3. <<>> \in Seq(Captured)
      OBVIOUS
    <3> QED BY <2>1, <3>2, <3>3, DrainedNothing
  <2>7. mishaps \subseteq mishaps' /\ mishaps' \subseteq mishaps \cup {"ahead", "misplaced"}
    BY <1>4
  <2>8. ASSUME mishaps' \cap {"ahead", "misplaced"} = {} PROVE l = log /\ log.own
    <3>1. ~(j + k > 0) /\ l.own
      BY <1>4, <2>8
    <3>2. j + k = 0
      BY <3>1
    <3> QED BY <2>6, <3>1, <3>2
  <2>9. Takes(l)
    BY <1>4, <2>4, <2>5, <2>7, <2>8 DEF Takes
  <2> QED BY <1>2, <2>9
<1> QED BY <1>3, <1>4

\* No packet on the way says anything else of the world now that the host knows where it is.
LEMMA SeedKept ==
  ASSUME SessionInv, LateInv, Mapless, Placed, Seed
  PROVE  SessionInv' /\ Mapless'
<1>1. seeded = "no"
  BY DEF Seed
<1>2. /\ SessionTypeOK /\ Followed /\ ViewInv /\ DropsInv /\ ListInv /\ GatesInv /\ RestInv
      /\ AskInv /\ PlaceInv /\ PortalsInv /\ SkillsInv /\ LogInv
  BY <1>1 DEF SessionInv, LateInv
<1>3. /\ game' = game /\ asked' = asked /\ wire' = wire /\ told' = told /\ count' = count
      /\ Going' = Going /\ Coming' = Coming
      /\ (UNCHANGED <<world, mishaps>>) \/ \E l : Takes(l)
  BY <1>2, SeedTakes
<1>4. Coming \in Seq(Sent) /\ Len(Coming) \in Nat
  <2>1. Coming \in Seq(Sent)
    BY <1>2, WireFields
  <2> QED BY <2>1
<1>5. CASE UNCHANGED <<world, mishaps>>
  <2>1. UNCHANGED vars
    BY <1>3, <1>5 DEF vars
  <2>2. SessionInv'
    BY <2>1, SessionKept
  <2> QED BY <1>3, <1>5, <2>2 DEF Mapless
<1>6. ASSUME NEW l, Takes(l) PROVE SessionInv' /\ Mapless'
  <2>1. /\ world.map = None /\ l \in Logs /\ l.map # None /\ l.self = Me
        /\ mishaps \subseteq mishaps' /\ mishaps' \subseteq mishaps \cup {"ahead", "misplaced"}
        /\ mishaps' \cap {"ahead", "misplaced"} = {} => l = log /\ log.own
    BY <1>6 DEF Takes
  <2>2. /\ "place" \notin told /\ "map" \notin told /\ "rest" \notin told /\ world.departure = None
        /\ "gap" \notin mishaps =>
             \A j \in 1 .. Len(Coming) : Coming[j].op \in {"gp", "wp"} => \E k \in 1 .. j - 1 : Coming[k] \in Setters
    BY <1>2, <2>1 DEF Mapless, RestInv
  <2>3. world \in Worlds
    BY <1>2 DEF SessionTypeOK
  <2>4. /\ world'.map = l.map /\ world'.self = Me /\ world'.pos = (IF l.pos = None THEN world.pos ELSE l.pos)
        /\ world'.gates = world.gates /\ world'.spaces = world.spaces /\ world'.portals = world.portals
        /\ world'.departure = world.departure /\ world'.pending = world.pending /\ world'.learned = world.learned
        /\ world'.basic = world.basic /\ world' \in Worlds
    <3>1. world' = Seeded(world, l) /\ Me # None
      BY <1>6, NoneAssumption, SessionAssumption DEF Takes
    <3>2. l.map \in Maps \cup {None} /\ l.pos \in Cells \cup {None} /\ Me \in Players
      BY <2>1, SessionAssumption DEF Logs
    <3> PICK w : w = Seeded(world, l)
      OBVIOUS
    <3>3. /\ w.map = l.map /\ w.self = Me /\ w.pos = (IF l.pos = None THEN world.pos ELSE l.pos)
          /\ w.gates = world.gates /\ w.spaces = world.spaces /\ w.portals = world.portals
          /\ w.departure = world.departure /\ w.pending = world.pending /\ w.learned = world.learned
          /\ w.basic = world.basic /\ w \in Worlds
      BY <2>1, <2>3, <3>1, <3>2 DEF Seeded, Worlds
    <3> QED BY <3>1, <3>3
  <2>5. ASSUME mishaps' \subseteq {"ignored"}, Alive
        PROVE  /\ mishaps \subseteq {"ignored"} /\ l = log /\ log.self = Me /\ log.pos # None
               /\ Walking /\ Free(Going, Walks) => log.pos = asked[1].cell
               /\ \A i \in 1 .. Len(Coming) : Coming[i].op = "at" =>
                    Exit[log.map][log.pos] = Coming[i].map /\ Exit[Coming[i].map][Coming[i].cell] = log.map
    <3>1. mishaps \subseteq {"ignored"} /\ l = log /\ log.own /\ log.self = Me
      BY <2>1, <2>5
    <3>2. Me # None
      BY NoneAssumption, SessionAssumption
    <3> QED BY <1>1, <2>5, <3>1, <3>2 DEF Placed, Settled
  <2>6. SessionTypeOK'
    <3>1. mishaps' \subseteq Mishaps
      BY <1>2, <2>1 DEF SessionTypeOK, Mishaps
    <3> QED BY <1>2, <1>3, <2>4, <3>1 DEF SessionTypeOK
  <2>7. Followed' /\ ViewInv' /\ DropsInv' /\ ListInv'
    <3>1. Followed' /\ ListInv'
      <4>1. Followed'
        BY <1>2, <1>3 DEF Followed
      <4>2. ListInv'
        BY <1>2, <1>3 DEF ListInv
      <4> QED BY <4>1, <4>2
    <3>2. ViewInv'
      BY <1>2, <1>3, <2>2 DEF ViewInv
    <3>3. DropsInv'
      BY <1>2, <1>3, <2>2 DEF DropsInv
    <3> QED BY <3>1, <3>2, <3>3
  <2>8. GatesInv'
    <3>1. ASSUME "gap" \notin mishaps', NEW j \in 1 .. Len(Coming), \A k \in 1 .. j - 1 : Coming[k] \notin Setters
          PROVE  TrueOf(world'.map, Coming[j])
      <4>1. Coming[j].op \notin {"gp", "wp"}
        BY <2>1, <2>2, <3>1
      <4> QED BY <4>1 DEF TrueOf
    <3>2. "gap" \notin mishaps' =>
            \A p \in Places : /\ world.gates[p] \in {None, Exit[p[1]][p[2]]}
                              /\ p \in world.spaces => p[2] \in Stones[p[1]]
      BY <1>2, <2>1 DEF GatesInv
    <3> QED BY <1>3, <2>2, <2>4, <3>1, <3>2 DEF GatesInv
  <2>9. RestInv'
    BY <1>2, <1>3, <2>2 DEF RestInv
  <2>10. AskInv'
    BY <1>2, <1>3, <2>1, <2>4 DEF AskInv
  <2>11. PlaceInv'
    <3>1. ASSUME mishaps' \subseteq {"ignored"}, Alive, Walking PROVE Heard(asked[1].cell)'
      <4>1. Heard(asked[1].cell)
        BY <1>2, <2>5, <3>1 DEF PlaceInv, Settled
      <4>2. Free(Going, Walks) => world'.pos = asked[1].cell
        BY <2>4, <2>5, <3>1
      <4> QED BY <1>3, <4>1, <4>2 DEF Heard
    <3>2. \A allowed : Settled(allowed)' => Settled(allowed)
      BY <1>3, <2>1 DEF Settled, Alive
    <3>3. /\ Settled({"mistaken", "ignored"})' /\ Going = <<>> /\ ~Free(Coming, Movers) => asked = <<>>
          /\ Settled({"mistaken"})' /\ Going = <<>> =>
               \A i \in 1 .. Len(Coming) : LastIn(Coming, Movers, i) => Coming[i].cell = game.cell
      BY <1>2, <3>2 DEF PlaceInv
    <3>4. Settled({"ignored"})' /\ Walking' => mishaps' \subseteq {"ignored"} /\ Alive /\ Walking
      BY <1>3 DEF Settled, Alive, Walking
    <3> QED BY <1>3, <2>2, <3>1, <3>3, <3>4 DEF PlaceInv
  <2>12. PortalsInv'
    <3> SUFFICES ASSUME mishaps' \subseteq {"ignored"} PROVE PortalsInv'
      BY DEF PortalsInv
    <3>1. \A p \in Places : world.portals[p] \in {None, Exit[p[1]][p[2]]}
      BY <1>2, <2>1 DEF PortalsInv
    <3>2. ASSUME Alive, NEW i \in 1 .. Len(Coming), Coming[i].op = "at"
          PROVE  \E m \in Maps, c \in Cells : Crossing(i, m, c)'
      <4>1. PICK m \in Maps, c \in Cells : Crossing(i, m, c)
        BY <1>2, <2>1, <3>2 DEF PortalsInv
      <4>2. /\ l = log /\ log.self = Me /\ log.pos # None
            /\ Exit[log.map][log.pos] = Coming[i].map /\ Exit[Coming[i].map][Coming[i].cell] = log.map
        BY <2>5, <3>2
      <4>3. log.map \in Maps /\ log.pos \in Cells /\ log.self # None
        BY <2>1, <4>2, NoneAssumption, SessionAssumption DEF Logs
      <4>4. /\ Coming[i].map = game.map
            /\ \A j \in 1 .. Len(Coming) :
                 /\ j # i => Coming[j] \notin Movers
                 /\ j > i => Coming[j].op # "mapout"
                             /\ (Coming[j].op = "c_map" => Coming[j].entering /\ Coming[j].map = game.map)
        BY <4>1 DEF Crossing
      <4>5. ASSUME NEW j \in 1 .. Len(Coming), j < i, Coming[j].op = "c_map" PROVE Coming[j].map = log.map
        <5>1. ASSUME NEW k \in 1 .. j - 1 PROVE Coming[k].op # "at"
          <6>1. k \in 1 .. Len(Coming) /\ k # i
            BY <1>4, <4>5, <5>1
          <6>2. Coming[k] \in Sent /\ Coming[k] \notin Movers
            BY <1>4, <4>4, <6>1
          <6> QED BY <6>2, MoverOps
        <5> QED BY <1>2, <4>3, <4>5, <5>1, MapLogged
      <4>6. world'.map = log.map /\ world'.pos = log.pos /\ world'.departure = None
        BY <2>2, <2>4, <4>2
      <4> PICK u, v : u = log.map /\ v = log.pos
        OBVIOUS
      <4>7. Crossing(i, u, v)'
        <5>1. /\ Exit[u][v] = Coming[i].map /\ Exit[Coming[i].map][Coming[i].cell] = u /\ Coming[i].map = game.map
              /\ world'.map = u /\ world'.pos = v /\ world'.departure = None
          BY <4>2, <4>4, <4>6
        <5>2. \A j \in 1 .. Len(Coming) :
                /\ j # i => Coming[j] \notin Movers
                /\ j < i /\ Coming[j].op = "c_map" => Coming[j].map = u
                /\ j > i => Coming[j].op # "mapout"
                            /\ (Coming[j].op = "c_map" => Coming[j].entering /\ Coming[j].map = game.map)
          BY <4>4, <4>5
        <5> QED BY <1>3, <5>1, <5>2 DEF Crossing
      <4>8. u \in Maps /\ v \in Cells
        BY <4>3
      <4> QED BY <4>7, <4>8
    <3>3. ASSUME Alive, \A i \in 1 .. Len(Coming) : Coming[i].op # "at"
          PROVE  /\ world'.departure = None /\ world'.map \in {None, game.map}
                 /\ \A i \in 1 .. Len(Coming) :
                      /\ Coming[i].op # "mapout"
                      /\ Coming[i].op = "c_map" => Coming[i].entering /\ Coming[i].map = game.map
      <4>1. \A i \in 1 .. Len(Coming) :
              /\ Coming[i].op # "mapout"
              /\ Coming[i].op = "c_map" => Coming[i].entering /\ Coming[i].map = game.map
        BY <1>2, <2>1, <3>3 DEF PortalsInv
      <4>2. l = log /\ log.self # None
        BY <2>5, <3>3, NoneAssumption, SessionAssumption
      <4>3. log.map = game.map
        BY <1>2, <3>3, <4>2, MapLogged
      <4> QED BY <2>2, <2>4, <4>1, <4>2, <4>3
    <3>4. Alive' <=> Alive
      BY <1>3 DEF Alive
    <3> QED BY <1>3, <2>4, <3>1, <3>2, <3>3, <3>4 DEF PortalsInv
  <2>13. SkillsInv'
    <3>1. Paired' => Paired
      BY <2>1 DEF Paired
    <3> QED BY <1>2, <1>3, <2>4, <3>1 DEF SkillsInv
  <2>14. Mapless'
    BY <2>1, <2>4 DEF Mapless
  <2> QED BY <2>6, <2>7, <2>8, <2>9, <2>10, <2>11, <2>12, <2>13, <2>14 DEF SessionInv
<1> QED BY <1>3, <1>5, <1>6

\* What a host that attaches late keeps true, before it reads the log and after.
HostInv == SessionInv /\ LateInv /\ Mapless /\ Placed

LEMMA HostBegins ==
  ASSUME LateInit
  PROVE  HostInv
<1>1. SessionInv /\ LateInv
  BY SessionInit, LateBegins DEF LateInit
<1>2. /\ asked = <<>> /\ wire.SEND = <<>> /\ wire.RECV = <<>> /\ mishaps = {}
      /\ \/ world = NewWorld /\ told = {}
         \/ world = Following(game)
  BY DEF LateInit, Init
<1>3. Coming = <<>> /\ Len(Coming) = 0 /\ game.map \in Maps /\ game.cell \in Cells
  BY <1>1, <1>2, GameFields DEF Coming, SessionInv
<1>4. Mapless
  <2>1. Following(game).map = game.map /\ game.map # None
    BY <1>3, NoneAssumption DEF Following, NewWorld
  <2>2. NewWorld.departure = None
    BY DEF NewWorld
  <2> QED BY <1>2, <1>3, <2>1, <2>2 DEF Mapless
<1>5. Placed
  <2>1. seeded = "no" /\ log.own /\ log.self # None => log.pos = game.cell
    BY <1>1, <1>2, LateTrue DEF LogTrue
  <2>2. game.cell # None
    BY <1>3, NoneAssumption
  <2> QED BY <1>2, <1>3, <2>1, <2>2 DEF Placed, Walking
<1> QED BY <1>1, <1>4, <1>5 DEF HostInv

LEMMA HostKept ==
  ASSUME HostInv, [LateNext]_allVars
  PROVE  HostInv'
<1>1. SessionInv /\ LateInv /\ Mapless /\ Placed
  BY DEF HostInv
<1>2. LateInv' /\ Placed'
  BY <1>1, LateKept, PlacedKept
<1>3. CASE Seed
  BY <1>1, <1>2, <1>3, SeedKept DEF HostInv
<1>4. CASE ~Seed
  <2>1. [Next]_vars
    BY <1>4 DEF LateNext, Next, allVars, vars
  <2>2. SessionInv'
    BY <1>1, <2>1, SessionKept
  <2>3. SessionTypeOK /\ Sight
    BY <1>1, <2>1, Steps, Sights DEF SessionInv
  <2>4. Mapless'
    BY <1>1, <2>3, MaplessKept
  <2> QED BY <1>2, <2>2, <2>4 DEF HostInv
<1> QED BY <1>3, <1>4

\* A host may take its map, place and id from the log at any moment of any game: all that holds of a
\* host that was there from the beginning holds of it still (_seed_from_log, _ensure_spawns_loaded).
THEOREM LateHostHolds ==
  LateSpec => [](ViewIsCurrent /\ GatesExact /\ PortalsTrue /\ PositionTrue /\ RestTrue /\ SkillsTrue)
<1>1. LateInit => HostInv
  BY HostBegins
<1>2. HostInv /\ [LateNext]_allVars => HostInv'
  BY HostKept
<1>3. HostInv => ViewIsCurrent /\ GatesExact /\ PortalsTrue /\ PositionTrue /\ RestTrue /\ SkillsTrue
  BY ViewFollows, GatesFollow, PortalsFollow, PositionFollows, RestFollows, SkillsFollow DEF HostInv
<1> QED BY <1>1, <1>2, <1>3, PTL DEF LateSpec

=============================================================================
