------------------------------ MODULE BotProofs ------------------------------
(***************************************************************************)
(* What holds of the bot and of the click-to-walk for every map, setup and *)
(* bound: the types, that Stop and a change of map are final, that the     *)
(* rest packet is not sent twice, and why a bot that runs may stop.        *)
(*                                                                         *)
(* None of the properties is inductive alone.  BotInv adds to them what    *)
(* may begin again after Stop (Halted), which goals have been walked to    *)
(* (Led), and what the window knows of the posture, which deadline its bot *)
(* waits for and where the answer of the server is (Once).                 *)
(*                                                                         *)
(* Route is recursive: that it is a path is proved by the least number of  *)
(* waypoints for which it would not be one.                                *)
(***************************************************************************)
EXTENDS Bot, SequenceTheorems, FiniteSetTheorems, WellFoundedInduction, TLAPS

-----------------------------------------------------------------------------
(* Numbers: what is proved of every number by a least counterexample. *)

\* A set of numbers up to n has a least one: of the intervals that end in the set, one
\* contains no other.
LEMMA Least ==
  ASSUME NEW n \in Nat, NEW S \in SUBSET (0 .. n), S # {}
  PROVE  \E x \in S : \A y \in S : x <= y
<1> DEFINE U == 0 .. n
           T == {0 .. i : i \in S}
<1>1. IsFiniteSet(U)
  BY FS_Interval
<1>2. IsWellFoundedOn(StrictSubsetOrdering(U), SUBSET U)
  BY <1>1, FS_StrictSubsetOrderingWellFounded, FS_FiniteSubsetsOfFinite
<1>3. T \subseteq SUBSET U /\ T # {}
  <2>1. ASSUME NEW j \in S PROVE 0 .. j \in SUBSET U
    <3>1. j \in 0 .. n
      OBVIOUS
    <3> QED BY <3>1 DEF U
  <2>2. PICK i \in S : TRUE
    OBVIOUS
  <2>3. (0 .. i) \in T
    BY <2>2
  <2> QED BY <2>1, <2>3
<1> HIDE DEF U, T
<1>4. \E x \in T : \A y \in T : ~ (<<y, x>> \in StrictSubsetOrdering(U))
  BY <1>2, <1>3, WFMin
<1>5. PICK x \in S : \A y \in S : ~ (<<0 .. y, 0 .. x>> \in StrictSubsetOrdering(U))
  BY <1>4 DEF T
<1>6. ASSUME NEW y \in S PROVE x <= y
  <2>1. x \in 0 .. n /\ y \in 0 .. n
    OBVIOUS
  <2>2. CASE y < x
    <3>1. (0 .. y) \subseteq (0 .. x) /\ (0 .. y) # (0 .. x)
      BY <2>1, <2>2
    <3>2. (0 .. y) \in SUBSET U /\ (0 .. x) \in SUBSET U
      BY <2>1 DEF U
    <3>3. <<0 .. y, 0 .. x>> \in StrictSubsetOrdering(U)
      BY <3>1, <3>2 DEF StrictSubsetOrdering
    <3> QED BY <3>3, <1>5
  <2> QED BY <2>1, <2>2
<1> QED BY <1>6

-----------------------------------------------------------------------------
(* Paths and legs stay on the map. *)

LEMMA DistType ==
  ASSUME NEW a \in Cells, NEW b \in Cells
  PROVE  Dist(a, b) \in Nat /\ (Dist(a, b) = 0 => a = b)
  BY BotAssumption DEF Dist, Cells

\* A way along the line ends where it should, after as many cells as the two are apart.
LEMMA AstarType ==
  ASSUME NEW a \in Cells, NEW b \in Cells, Astar(a, b) # None
  PROVE  Astar(a, b) \in Seq(Cells) /\ Len(Astar(a, b)) = Dist(a, b)
<1>1. Dist(a, b) \in Nat
  BY DistType
<1>2. Astar(a, b) = [i \in 1 .. Dist(a, b) |-> IF a < b THEN a + i ELSE a - i]
  BY DEF Astar
<1>3. \A i \in 1 .. Dist(a, b) : (IF a < b THEN a + i ELSE a - i) \in Cells
  BY BotAssumption DEF Dist, Cells
<1>4. Astar(a, b) \in [1 .. Dist(a, b) -> Cells]
  BY <1>2, <1>3
<1> QED BY <1>1, <1>4

\* The legs of a path are cells of it, and a path that is not empty has one.
LEMMA LegsType ==
  ASSUME NEW path \in Seq(Cells)
  PROVE  Legs(path) \in Seq(Cells) /\ (path # <<>> => Legs(path) # <<>>)
<1> DEFINE n == Len(path)
           k == (n + 2) \div 3
<1>1. n \in Nat /\ (path # <<>> => n > 0)
  BY EmptySeq
<1>2. k \in Nat /\ (n > 0 => k > 0) /\ (n = 0 => k = 0)
  BY <1>1
<1>3. ASSUME NEW i \in 1 .. k PROVE (IF 3 * i <= n THEN path[3 * i] ELSE path[n]) \in Cells
  <2>1. n > 0
    BY <1>1, <1>2, <1>3
  <2>2. 3 * i <= n => 3 * i \in 1 .. n
    BY <1>1, <1>2
  <2>3. n \in 1 .. n
    BY <1>1, <2>1
  <2> QED BY <2>2, <2>3, ElementOfSeq
<1>4. Legs(path) = [i \in 1 .. k |-> IF 3 * i <= n THEN path[3 * i] ELSE path[n]]
  BY DEF Legs
<1> HIDE DEF n, k
<1>5. Legs(path) \in [1 .. k -> Cells]
  BY <1>3, <1>4
<1>6. Legs(path) \in Seq(Cells) /\ Len(Legs(path)) = k
  BY <1>2, <1>5
<1> QED BY <1>1, <1>2, <1>6, EmptySeq

-----------------------------------------------------------------------------
(* The route drawn through the waypoints. *)

Sofar == [at : Cells, path : Seq(Cells)]

LEMMA OnwardType ==
  ASSUME NEW so \in Sofar, NEW cell \in Cells
  PROVE  Onward(so, cell) \in Sofar
<1>1. so.at \in Cells /\ so.path \in Seq(Cells)
  BY DEF Sofar
<1>2. CASE Astar(so.at, cell) # None
  <2>1. Astar(so.at, cell) \in Seq(Cells)
    BY <1>1, <1>2, AstarType
  <2>2. so.path \o Astar(so.at, cell) \in Seq(Cells)
    BY <1>1, <2>1, ConcatProperties
  <2> QED BY <1>2, <2>2 DEF Onward, Sofar
<1> QED BY <1>2 DEF Onward

\* The functions that walk the first n waypoints as Route does.
Walks(a, way, n) ==
  {W \in [0 .. n -> Sofar] :
     \A i \in 0 .. n : W[i] = IF i = 0 THEN [at |-> a, path |-> <<>>] ELSE Onward(W[i - 1], way[i])}

\* There is one for every n: a least n without one would only need another step.
LEMMA WalksExist ==
  ASSUME NEW a \in Cells, NEW way \in Seq(Cells)
  PROVE  \A n \in 0 .. Len(way) : Walks(a, way, n) # {}
<1> DEFINE Bad == {n \in 0 .. Len(way) : Walks(a, way, n) = {}}
<1>1. ASSUME Bad # {} PROVE FALSE
  <2>1. PICK m \in Bad : \A k \in Bad : m <= k
    <3>1. Len(way) \in Nat /\ Bad \in SUBSET (0 .. Len(way))
      OBVIOUS
    <3> HIDE DEF Bad
    <3> QED BY <1>1, <3>1, Least
  <2>2. m \in 0 .. Len(way) /\ Walks(a, way, m) = {}
    OBVIOUS
  <2>3. CASE m = 0
    <3> DEFINE W == [i \in 0 .. 0 |-> [at |-> a, path |-> <<>>]]
    <3>1. [at |-> a, path |-> <<>>] \in Sofar
      BY EmptySeq DEF Sofar
    <3>2. W \in Walks(a, way, 0)
      BY <3>1 DEF Walks
    <3> QED BY <2>2, <2>3, <3>2
  <2>4. CASE m # 0
    <3>1. m \in Nat /\ m - 1 \in 0 .. Len(way) /\ ~(m <= m - 1) /\ m \in 1 .. Len(way)
      BY <2>2, <2>4
    <3>2. m - 1 \notin Bad
      BY <2>1, <3>1
    <3>3. PICK W : W \in Walks(a, way, m - 1)
      BY <3>1, <3>2
    <3>4. /\ W \in [0 .. m - 1 -> Sofar]
          /\ \A i \in 0 .. m - 1 :
               W[i] = IF i = 0 THEN [at |-> a, path |-> <<>>] ELSE Onward(W[i - 1], way[i])
      BY <3>3 DEF Walks
    <3> DEFINE V == [i \in 0 .. m |-> IF i = m THEN Onward(W[m - 1], way[m]) ELSE W[i]]
    <3>5. Onward(W[m - 1], way[m]) \in Sofar
      <4>1. W[m - 1] \in Sofar /\ way[m] \in Cells
        BY <3>1, <3>4, ElementOfSeq
      <4> QED BY <4>1, OnwardType
    <3>6. \A i \in 0 .. m : i # m => i \in 0 .. m - 1
      BY <3>1
    <3>7. V \in [0 .. m -> Sofar]
      BY <3>4, <3>5, <3>6
    <3>8. ASSUME NEW i \in 0 .. m
          PROVE  V[i] = IF i = 0 THEN [at |-> a, path |-> <<>>] ELSE Onward(V[i - 1], way[i])
      <4>1. CASE i = m
        <5>1. m - 1 \in 0 .. m /\ m - 1 # m
          BY <3>1
        <5>2. V[m - 1] = W[m - 1] /\ V[m] = Onward(W[m - 1], way[m])
          BY <5>1, <4>1
        <5> QED BY <2>4, <4>1, <5>2
      <4>2. CASE i # m
        <5>1. i \in 0 .. m - 1 /\ V[i] = W[i]
          BY <3>6, <4>2
        <5>2. CASE i = 0
          BY <3>4, <5>1, <5>2
        <5>3. CASE i # 0
          <6>1. i - 1 \in 0 .. m /\ i - 1 # m
            BY <3>1, <5>1, <5>3
          <6>2. V[i - 1] = W[i - 1]
            BY <6>1
          <6> QED BY <3>4, <5>1, <5>3, <6>2
        <5> QED BY <5>2, <5>3
      <4> QED BY <4>1, <4>2
    <3> HIDE DEF V
    <3>9. V \in Walks(a, way, m)
      BY <3>7, <3>8 DEF Walks
    <3> QED BY <2>2, <3>9
  <2> QED BY <2>3, <2>4
<1> QED BY <1>1

\* So the route is one of cells.
LEMMA RouteType ==
  ASSUME NEW a \in Cells, NEW way \in Seq(Cells)
  PROVE  Route(a, way) \in Seq(Cells)
<1> DEFINE n == Len(way)
           Is(f) == f = [i \in 0 .. n |-> IF i = 0 THEN [at |-> a, path |-> <<>>] ELSE Onward(f[i - 1], way[i])]
           F == CHOOSE f : Is(f)
<1>1. Route(a, way) = F[Len(way)].path
  BY Zenon DEF Route
<1>2. n \in Nat
  OBVIOUS
<1>3. PICK W : W \in Walks(a, way, n)
  BY <1>2, WalksExist
<1>4. Is(W)
  BY <1>3 DEF Walks
<1>5. Is(F)
  BY <1>4
<1> HIDE DEF n
<1>6. F \in [0 .. n -> Sofar]
  <2> DEFINE Bad == {i \in 0 .. n : F[i] \notin Sofar}
  <2>1. ASSUME Bad # {} PROVE FALSE
    <3>1. PICK m \in Bad : \A k \in Bad : m <= k
      <4>1. Bad \in SUBSET (0 .. n)
        OBVIOUS
      <4> HIDE DEF Bad
      <4> QED BY <1>2, <2>1, <4>1, Least
    <3>2. m \in 0 .. n /\ F[m] \notin Sofar
      BY <3>1
    <3>3. F[m] = IF m = 0 THEN [at |-> a, path |-> <<>>] ELSE Onward(F[m - 1], way[m])
      BY <1>5, <3>2
    <3>4. m = 0 \/ (m - 1 \in 0 .. n /\ ~(m <= m - 1) /\ m \in 1 .. n)
      BY <1>2, <3>2
    <3>5. m # 0
      <4>1. [at |-> a, path |-> <<>>] \in Sofar
        BY EmptySeq DEF Sofar
      <4> QED BY <3>2, <3>3, <4>1
    <3>6. F[m - 1] \in Sofar
      BY <3>1, <3>4, <3>5
    <3>7. way[m] \in Cells
      BY <3>4, <3>5, ElementOfSeq DEF n
    <3> HIDE DEF F
    <3> QED BY <3>2, <3>3, <3>5, <3>6, <3>7, OnwardType
  <2>2. F = [i \in 0 .. n |-> F[i]]
    <3>1. ASSUME NEW f, Is(f) PROVE f = [i \in 0 .. n |-> f[i]]
      BY <3>1
    <3> HIDE DEF F, Is
    <3> QED BY <1>5, <3>1
  <2> HIDE DEF F
  <2>3. \A i \in 0 .. n : F[i] \in Sofar
    BY <2>1
  <2> QED BY <2>2, <2>3
<1> HIDE DEF F, Is
<1>7. n \in 0 .. n
  BY <1>2
<1>8. F[n] \in Sofar
  BY <1>6, <1>7
<1> QED BY <1>1, <1>8 DEF Sofar, n

-----------------------------------------------------------------------------
(* The records. *)

GameOK == game \in Games /\ view \in Views /\ waits \subseteq Timers
HostOK == /\ ui \in Drawings /\ opt \in Toggles /\ bot \in Bots /\ trip \in Trips
          /\ later \in Seq(Calls) /\ Len(later) <= MaxLater /\ idle \in 0 .. 1
WireOK == /\ cmds \in Seq(Commands) /\ Len(cmds) <= MaxCmds
          /\ inbox \in Seq(Messages) /\ Len(inbox) <= MaxInbox /\ link \in BOOLEAN
PastOK == /\ count \in Nat /\ halt \in {"no", "stop", "map"} /\ left \subseteq {"later", "idle", "located"}
          /\ streak \in Nat /\ ordered \subseteq Nat \ {0}
          /\ mishaps \subseteq {"late", "clicked", "queued", "both", "guessed", "resumed"}

LEMMA TypeParts == (TypeOK <=> GameOK /\ HostOK /\ WireOK /\ PastOK)
                   /\ (TypeOK' <=> GameOK' /\ HostOK' /\ WireOK' /\ PastOK')
  BY DEF TypeOK, GameOK, HostOK, WireOK, PastOK

LEMMA BotType ==
  ASSUME NEW b \in Bots
  PROVE  /\ \A v \in BOOLEAN : /\ [b EXCEPT !.running = v] \in Bots /\ [b EXCEPT !.located = v] \in Bots
                               /\ [b EXCEPT !.recovering = v] \in Bots /\ [b EXCEPT !.seen = v] \in Bots
         /\ \A i \in Nat \ {0} : [b EXCEPT !.index = i] \in Bots
         /\ [b EXCEPT !.index = 1] \in Bots
         /\ \A r \in Nat : [b EXCEPT !.rejected = r] \in Bots
         /\ \A k \in 0 .. 3 : [b EXCEPT !.age = k] \in Bots /\ [b EXCEPT !.tries = k] \in Bots
         /\ \A v \in MaybeAt : [b EXCEPT !.pending = v] \in Bots
         /\ \A v \in Seq(Cells) : [b EXCEPT !.goals = v] \in Bots
<1>1. \A v \in BOOLEAN : /\ [b EXCEPT !.running = v] \in Bots /\ [b EXCEPT !.located = v] \in Bots
                         /\ [b EXCEPT !.recovering = v] \in Bots /\ [b EXCEPT !.seen = v] \in Bots
  BY DEF Bots
<1>2. \A i \in Nat \ {0} : [b EXCEPT !.index = i] \in Bots
  BY DEF Bots
<1>3. [b EXCEPT !.index = 1] \in Bots
  BY DEF Bots
<1>4. \A r \in Nat : [b EXCEPT !.rejected = r] \in Bots
  BY DEF Bots
<1>5. \A k \in 0 .. 3 : [b EXCEPT !.age = k] \in Bots /\ [b EXCEPT !.tries = k] \in Bots
  BY DEF Bots
<1>6. \A v \in MaybeAt : [b EXCEPT !.pending = v] \in Bots
  BY DEF Bots
<1>7. \A v \in Seq(Cells) : [b EXCEPT !.goals = v] \in Bots
  BY DEF Bots
<1> QED BY <1>1, <1>2, <1>3, <1>4, <1>5, <1>6, <1>7

\* Fields given values one after the other.
LEMMA LeftType ==
  ASSUME NEW b \in Bots
  PROVE  /\ [b EXCEPT !.pending = None, !.age = 0] \in Bots
         /\ [b EXCEPT !.pending = None, !.age = 0, !.seen = FALSE] \in Bots
         /\ [b EXCEPT !.recovering = TRUE, !.pending = None, !.age = 0, !.seen = FALSE] \in Bots
         /\ [b EXCEPT !.index = 1, !.pending = None, !.age = 0, !.seen = FALSE] \in Bots
         /\ \A cell \in Cells : Walking(b, cell) \in Bots
         /\ [b EXCEPT !.goals = <<>>, !.index = 1] \in Bots
         /\ [b EXCEPT !.goals = <<>>, !.index = 1, !.pending = None, !.age = 0] \in Bots
<1>1. None \in MaybeAt /\ Cells \subseteq MaybeAt /\ 0 \in 0 .. 3 /\ <<>> \in Seq(Cells)
  BY EmptySeq DEF MaybeAt
<1>2. ASSUME NEW c \in Bots, NEW v \in MaybeAt
      PROVE  [c EXCEPT !.pending = v, !.age = 0] \in Bots /\ [c EXCEPT !.pending = v, !.age = 0, !.seen = FALSE] \in Bots
  <2> DEFINE d == [c EXCEPT !.pending = v]
             e == [d EXCEPT !.age = 0]
  <2>1. d \in Bots
    BY BotType
  <2>2. [c EXCEPT !.pending = v, !.age = 0] = e /\ [c EXCEPT !.pending = v, !.age = 0, !.seen = FALSE] = [e EXCEPT !.seen = FALSE]
    OBVIOUS
  <2> HIDE DEF d
  <2>3. e \in Bots
    BY <1>1, <2>1, BotType
  <2> HIDE DEF e
  <2>4. [e EXCEPT !.seen = FALSE] \in Bots
    BY <2>3, BotType
  <2> QED BY <2>2, <2>3, <2>4
<1>3. \A cell \in Cells : Walking(b, cell) \in Bots
  BY <1>1, <1>2 DEF Walking
<1>4. [b EXCEPT !.recovering = TRUE, !.pending = None, !.age = 0, !.seen = FALSE] \in Bots
  <2> DEFINE c == [b EXCEPT !.recovering = TRUE]
  <2>1. c \in Bots
    BY BotType
  <2>2. [b EXCEPT !.recovering = TRUE, !.pending = None, !.age = 0, !.seen = FALSE]
        = [c EXCEPT !.pending = None, !.age = 0, !.seen = FALSE]
    OBVIOUS
  <2> HIDE DEF c
  <2> QED BY <1>1, <1>2, <2>1, <2>2
<1>5. [b EXCEPT !.index = 1, !.pending = None, !.age = 0, !.seen = FALSE] \in Bots
  <2> DEFINE c == [b EXCEPT !.index = 1]
  <2>1. c \in Bots
    BY BotType
  <2>2. [b EXCEPT !.index = 1, !.pending = None, !.age = 0, !.seen = FALSE]
        = [c EXCEPT !.pending = None, !.age = 0, !.seen = FALSE]
    OBVIOUS
  <2> HIDE DEF c
  <2> QED BY <1>1, <1>2, <2>1, <2>2
<1>6. /\ [b EXCEPT !.goals = <<>>, !.index = 1] \in Bots
      /\ [b EXCEPT !.goals = <<>>, !.index = 1, !.pending = None, !.age = 0] \in Bots
  <2> DEFINE c == [b EXCEPT !.goals = <<>>]
             d == [c EXCEPT !.index = 1]
  <2>1. c \in Bots
    BY <1>1, BotType
  <2>2. /\ [b EXCEPT !.goals = <<>>, !.index = 1] = d
        /\ [b EXCEPT !.goals = <<>>, !.index = 1, !.pending = None, !.age = 0] = [d EXCEPT !.pending = None, !.age = 0]
    OBVIOUS
  <2> HIDE DEF c
  <2>3. d \in Bots
    BY <2>1, BotType
  <2> HIDE DEF d
  <2> QED BY <1>1, <1>2, <2>2, <2>3
<1> QED BY <1>1, <1>2, <1>3, <1>4, <1>5, <1>6

LEMMA StoppedType ==
  ASSUME NEW b \in Bots
  PROVE  Stopped(b) \in Bots /\ ~Stopped(b).running /\ ~Stopped(b).located
<1> DEFINE c == [b EXCEPT !.running = FALSE]
           d == [c EXCEPT !.located = FALSE]
           e == [d EXCEPT !.pending = None, !.age = 0, !.seen = FALSE]
<1>1. c \in Bots
  BY BotType
<1>2. Stopped(b) = [e EXCEPT !.recovering = FALSE]
  BY DEF Stopped
<1>3. ~Stopped(b).running /\ ~Stopped(b).located
  BY DEF Stopped, Bots
<1> HIDE DEF c
<1>4. d \in Bots
  BY <1>1, BotType
<1> HIDE DEF d
<1>5. e \in Bots
  BY <1>4, LeftType
<1> HIDE DEF e
<1> QED BY <1>2, <1>3, <1>5, BotType

LEMMA AdvanceType ==
  ASSUME NEW b \in Bots
  PROVE  Advance(b) \in Bots
<1>1. b.index + 1 \in Nat \ {0} /\ 1 \in Nat \ {0}
  BY DEF Bots
<1>2. [b EXCEPT !.index = @ + 1] \in Bots /\ [b EXCEPT !.index = 1] \in Bots
  BY <1>1, BotType
<1> QED BY <1>2, StoppedType DEF Advance, PathFinished

LEMMA BeginType ==
  /\ NewBot \in Bots /\ ~NewBot.running /\ ~NewBot.located
  /\ NoTrip \in Trips /\ ~NoTrip.on
  /\ (ui \in Drawings => Begun \in Bots /\ Begun.running)
<1>1. <<>> \in Seq(Cells)
  BY EmptySeq
<1>2. NewBot \in Bots
  BY <1>1 DEF NewBot, Bots, MaybeAt
<1>3. NoTrip \in Trips
  BY <1>1 DEF NoTrip, Trips, MaybeAt
<1>4. ASSUME ui \in Drawings PROVE Begun \in Bots /\ Begun.running
  <2>1. (IF ui.path # <<>> THEN Legs(ui.path) ELSE ui.way) \in Seq(Cells)
    BY <1>4, LegsType DEF Drawings
  <2> QED BY <1>2, <2>1 DEF Begun, Bots
<1> QED BY <1>2, <1>3, <1>4 DEF NewBot, NoTrip

LEMMA PlayerType ==
  ASSUME view \in Views
  PROVE  PlayerCell \in MaybeAt
  BY DEF Views, PlayerCell

LEMMA DrawnType ==
  ASSUME NEW u \in Drawings, view \in Views
  PROVE  /\ Rebuilt(u) \in Drawings
         /\ \A cell \in Cells : [u EXCEPT !.start = cell, !.way = <<>>] \in Drawings
                                /\ [u EXCEPT !.way = Append(@, cell)] \in Drawings
         /\ [u EXCEPT !.start = None] \in Drawings /\ [u EXCEPT !.draw = ~@] \in Drawings
         /\ u.way # <<>> => [u EXCEPT !.way = SubSeq(@, 1, Len(@) - 1)] \in Drawings
         /\ [Blank EXCEPT !.draw = u.draw] \in Drawings
<1>1. u.way \in Seq(Cells) /\ u.start \in MaybeAt /\ u.path \in Seq(Cells) /\ <<>> \in Seq(Cells)
  BY EmptySeq DEF Drawings
<1>2. \A cell \in Cells : Append(u.way, cell) \in Seq(Cells)
  BY <1>1, AppendProperties
<1>3. ASSUME u.way # <<>> PROVE SubSeq(u.way, 1, Len(u.way) - 1) \in Seq(Cells)
  <2>1. Len(u.way) \in Nat \ {0}
    BY <1>1, <1>3, EmptySeq
  <2>2. \A i \in 1 .. Len(u.way) - 1 : u.way[i] \in Cells
    BY <1>1, <2>1, ElementOfSeq
  <2> QED BY <2>1, <2>2, SubSeqProperties
<1>4. Rebuilt(u) \in Drawings
  <2> DEFINE from == IF u.start # None THEN u.start ELSE PlayerCell
             path == IF view.grid = None \/ from \in Walls \cup {None} THEN <<>> ELSE Route(from, u.way)
  <2>1. from \in MaybeAt
    BY <1>1, PlayerType
  <2>2. path \in Seq(Cells)
    BY <1>1, <2>1, RouteType DEF MaybeAt
  <2>3. Rebuilt(u) = [u EXCEPT !.path = path]
    BY DEF Rebuilt
  <2> HIDE DEF path
  <2> QED BY <2>2, <2>3 DEF Drawings
<1>5. [Blank EXCEPT !.draw = u.draw] \in Drawings
  BY <1>1 DEF Blank, Drawings, MaybeAt
<1> QED BY <1>1, <1>2, <1>3, <1>4, <1>5 DEF Drawings, MaybeAt

-----------------------------------------------------------------------------
(* The queues. *)

LEMMA SentType ==
  /\ Rest \in Commands /\ Target \in Commands /\ \A c \in Cells : Move(c) \in Commands
  /\ \A op \in {"rest", "target", "attack", "get"} : [op |-> op] \in Commands
  BY DEF Rest, Target, Move, Commands

LEMMA SendType ==
  ASSUME WireOK, NEW s \in Seq(Commands), Send(s)
  PROVE  cmds' \in Seq(Commands) /\ Len(cmds') <= MaxCmds
<1>1. Len(cmds) + Len(s) <= MaxCmds
  BY DEF Send
<1>2. CASE link
  <2>1. cmds' = cmds \o s
    BY <1>2 DEF Send
  <2>2. cmds \o s \in Seq(Commands) /\ Len(cmds \o s) = Len(cmds) + Len(s)
    BY ConcatProperties DEF WireOK
  <2> QED BY <1>1, <2>1, <2>2
<1>3. CASE ~link
  BY <1>3 DEF Send, WireOK
<1> QED BY <1>2, <1>3

LEMMA OneCommand ==
  ASSUME NEW c \in Commands
  PROVE  <<c>> \in Seq(Commands) /\ Len(<<c>>) = 1 /\ <<c>>[1] = c
  OBVIOUS

LEMMA ToggledType ==
  ASSUME WireOK, Toggled
  PROVE  cmds' \in Seq(Commands) /\ Len(cmds') <= MaxCmds
  BY SentType, OneCommand, SendType DEF Toggled

LEMMA TellType ==
  ASSUME WireOK, NEW m \in Messages, Tell(<<m>>)
  PROVE  inbox' \in Seq(Messages) /\ Len(inbox') <= MaxInbox
<1>1. Len(inbox) < MaxInbox /\ MaxInbox \in Nat /\ Len(inbox) \in Nat
  BY BotAssumption DEF Tell, WireOK
<1>2. CASE link
  <2>1. inbox' = inbox \o <<m>>
    BY <1>2 DEF Tell
  <2>2. <<m>> \in Seq(Messages) /\ Len(<<m>>) = 1
    OBVIOUS
  <2>3. inbox \o <<m>> \in Seq(Messages) /\ Len(inbox \o <<m>>) = Len(inbox) + 1
    BY <2>2, ConcatProperties DEF WireOK
  <2> QED BY <1>1, <2>1, <2>3
<1>3. CASE ~link
  BY <1>3 DEF Tell, WireOK
<1> QED BY <1>2, <1>3

LEMMA ToldType ==
  /\ \A c \in Cells, s \in BOOLEAN : [op |-> "pos", cell |-> c, sitting |-> s] \in Messages
  /\ \A s \in BOOLEAN : [op |-> "rest", sitting |-> s] \in Messages /\ [op |-> "err", gone |-> s] \in Messages
  /\ \A c \in Cells : [op |-> "walk", cell |-> c] \in Messages /\ [op |-> "tp", cell |-> c] \in Messages
                      /\ [op |-> "mv", cell |-> c] \in Messages
  /\ \A h \in {"low", "full"} : [op |-> "stat", hp |-> h] \in Messages
  /\ [op |-> "st"] \in Messages /\ [op |-> "get"] \in Messages
  /\ \A m \in Maps, c \in Cells : [op |-> "at", map |-> m, cell |-> c] \in Messages
  BY DEF Messages

LEMMA ExcusedType ==
  ASSUME PastOK, NEW kind \in {"late", "clicked", "queued", "both", "guessed", "resumed"}, Excused(kind)
  PROVE  mishaps' \subseteq {"late", "clicked", "queued", "both", "guessed", "resumed"}
  BY DEF PastOK, Excused

LEMMA PendingType ==
  ASSUME NEW kinds \in SUBSET {"later", "idle", "located"}
  PROVE  Pending(kinds) \subseteq {"later", "idle", "located"}
  BY DEF Pending

-----------------------------------------------------------------------------
(* The initial states and the user. *)

LEMMA InitType == Init => TypeOK
<1> SUFFICES ASSUME Init PROVE TypeOK
  OBVIOUS
<1>1. PICK setup \in Setups :
        /\ game = setup.game /\ opt = setup.opt /\ ui = setup.ui /\ count = setup.count
        /\ view = IF setup.located THEN Located(game) ELSE Unlocated(game)
        /\ bot = IF setup.running THEN Begun ELSE NewBot
  BY DEF Init
<1>2. game \in Games /\ opt \in Toggles /\ ui \in Drawings /\ count \in Nat
  BY <1>1, SetupsAssumption
<1>3. Located(game) \in Views /\ Unlocated(game) \in Views
  BY <1>2, BotAssumption DEF Located, Unlocated, Games, Views, MaybeAt
<1>4. bot \in Bots
  BY <1>1, <1>2, BeginType
<1>5. /\ trip = NoTrip /\ later = <<>> /\ idle = 0 /\ waits = {} /\ cmds = <<>> /\ inbox = <<>> /\ link = TRUE
      /\ halt = "no" /\ left = {} /\ streak = 0 /\ ordered = {} /\ mishaps = {}
  BY DEF Init
<1>6. /\ later \in Seq(Calls) /\ Len(later) <= MaxLater /\ cmds \in Seq(Commands) /\ Len(cmds) <= MaxCmds
      /\ inbox \in Seq(Messages) /\ Len(inbox) <= MaxInbox
  BY <1>5, EmptySeq, BotAssumption
<1> QED BY <1>1, <1>2, <1>3, <1>4, <1>5, <1>6, BeginType DEF TypeOK

LEMMA StartTravelType ==
  ASSUME GameOK, HostOK, WireOK, NEW cell \in Cells, NEW then \in BOOLEAN,
         NEW calls \in Seq(Calls), Len(calls) < MaxLater, StartTravel(cell, then, calls)
  PROVE  /\ trip' \in Trips /\ later' \in Seq(Calls) /\ Len(later') <= MaxLater
         /\ cmds' \in Seq(Commands) /\ Len(cmds') <= MaxCmds
<1>1. [cell |-> cell, then |-> then] \in Calls
  BY DEF Calls
<1>2. /\ calls \in Seq(Calls) /\ Len(calls) <= MaxLater
      /\ Append(calls, [cell |-> cell, then |-> then]) \in Seq(Calls)
      /\ Len(Append(calls, [cell |-> cell, then |-> then])) <= MaxLater
  <2>1. Len(calls) \in Nat /\ MaxLater \in Nat
    BY BotAssumption
  <2>2. \A n, k \in Nat : n < k => n <= k /\ n + 1 <= k
    OBVIOUS
  <2> QED BY <1>1, <2>1, <2>2, AppendProperties
<1>3. later' = calls \/ later' = Append(calls, [cell |-> cell, then |-> then])
  BY DEF StartTravel
<1>4. UNCHANGED cmds \/ Toggled
  BY DEF StartTravel
<1>5. cmds' \in Seq(Commands) /\ Len(cmds') <= MaxCmds
  BY <1>4, ToggledType DEF WireOK
<1>6. trip' \in Trips
  <2>1. CASE trip' = NoTrip
    BY <2>1, BeginType
  <2>2. CASE trip' # NoTrip
    <3> DEFINE path == Astar(PlayerCell, cell)
    <3>1. /\ PlayerCell \notin {None, cell} /\ path # None
          /\ trip' = [NoTrip EXCEPT !.targets = Legs(path), !.then = then, !.on = TRUE]
      BY <2>2 DEF StartTravel
    <3>2. PlayerCell \in Cells
      BY <3>1, PlayerType DEF GameOK, MaybeAt
    <3>3. path \in Seq(Cells)
      BY <3>1, <3>2, AstarType
    <3> HIDE DEF path
    <3>4. Legs(path) \in Seq(Cells)
      BY <3>3, LegsType
    <3> QED BY <3>1, <3>4, BeginType DEF Trips
  <2> QED BY <2>1, <2>2
<1> QED BY <1>2, <1>3, <1>5, <1>6

LEMMA StartBotType ==
  ASSUME GameOK, HostOK, WireOK, PastOK, NEW b \in Bots, StartBot(b)
  PROVE  /\ bot' \in Bots /\ trip' \in Trips /\ later' \in Seq(Calls) /\ Len(later') <= MaxLater
         /\ cmds' \in Seq(Commands) /\ Len(cmds') <= MaxCmds /\ waits' \subseteq Timers
         /\ streak' \in Nat /\ ordered' \subseteq Nat \ {0}
<1> DEFINE same == /\ trip' \in Trips /\ later' \in Seq(Calls) /\ Len(later') <= MaxLater
                   /\ cmds' \in Seq(Commands) /\ Len(cmds') <= MaxCmds
<1>1. CASE UNCHANGED <<trip, later, cmds>>
  <2>1. same
    BY <1>1 DEF HostOK, WireOK
  <2>2. b.located \in BOOLEAN
    BY DEF Bots
  <2>3. bot' \in {b, [b EXCEPT !.located = TRUE], [b EXCEPT !.located = FALSE], [Begun EXCEPT !.located = b.located]}
    BY DEF StartBot
  <2>4. bot' \in Bots
    BY <2>2, <2>3, BotType, BeginType DEF HostOK
  <2>5. /\ waits' = waits \/ waits' = waits \cap {"block"}
        /\ streak' = streak \/ streak' = 0
        /\ ordered' = ordered \/ ordered' = {}
    BY DEF StartBot
  <2>6. waits' \subseteq Timers
    BY <2>5 DEF GameOK
  <2>7. streak' \in Nat
    BY <2>5 DEF PastOK
  <2>8. ordered' \subseteq Nat \ {0}
    BY <2>5, Zenon DEF PastOK
  <2> QED BY <2>1, <2>4, <2>6, <2>7, <2>8
<1>2. CASE /\ Len(later) < MaxLater /\ bot' = [b EXCEPT !.located = FALSE]
           /\ StartTravel(ui.start, TRUE, later) /\ UNCHANGED <<waits, streak, ordered>>
           /\ ui.start \notin {None, PlayerCell}
  <2>1. ui.start \in Cells /\ later \in Seq(Calls)
    BY <1>2 DEF HostOK, Drawings, MaybeAt
  <2>2. same
    BY <1>2, <2>1, StartTravelType
  <2> QED BY <1>2, <2>2, BotType DEF GameOK, PastOK
<1> QED BY <1>1, <1>2 DEF StartBot

LEMMA ActsType ==
  ASSUME GameOK, WireOK, PastOK, HostOK, Acts
  PROVE  /\ game' \in Games /\ view' \in Views /\ idle' \in 0 .. 1
         /\ inbox' \in Seq(Messages) /\ Len(inbox') <= MaxInbox /\ link' \in BOOLEAN
         /\ count' \in Nat /\ halt' \in {"no", "stop", "map"} /\ left' \subseteq {"later", "idle", "located"}
  BY DEF GameOK, WireOK, PastOK, HostOK, Acts, Event

LEMMA ClickType ==
  ASSUME TypeOK, NEW c \in Clicked, Click(c)
  PROVE  TypeOK'
<1> USE TypeParts
<1>1. c \in Cells
  BY BotAssumption
<1>2. Acts /\ UNCHANGED <<opt, waits, streak, ordered>>
  BY DEF Click
<1>3. CASE Len(later) < MaxLater /\ StartTravel(c, FALSE, later) /\ Excused("clicked") /\ UNCHANGED <<ui, bot>>
  <2>1. later \in Seq(Calls)
    BY DEF HostOK
  <2>2. /\ trip' \in Trips /\ later' \in Seq(Calls) /\ Len(later') <= MaxLater
        /\ cmds' \in Seq(Commands) /\ Len(cmds') <= MaxCmds
    BY <1>1, <1>3, <2>1, StartTravelType
  <2>3. mishaps' \subseteq {"late", "clicked", "queued", "both", "guessed", "resumed"}
    BY <1>3, ExcusedType
  <2> QED BY <1>2, <1>3, <2>2, <2>3, ActsType DEF GameOK, HostOK, WireOK, PastOK
<1>4. CASE /\ ui' = (IF ~bot.running /\ ui.start = None
                       THEN Rebuilt([ui EXCEPT !.start = c, !.way = <<>>])
                     ELSE Rebuilt([ui EXCEPT !.way = Append(@, c)]))
           /\ ResetIndex /\ UNCHANGED <<trip, later, cmds, mishaps>>
  <2>1. ui \in Drawings /\ view \in Views /\ bot \in Bots
    BY DEF GameOK, HostOK
  <2>2. [ui EXCEPT !.start = c, !.way = <<>>] \in Drawings /\ [ui EXCEPT !.way = Append(@, c)] \in Drawings
    BY <1>1, <2>1, DrawnType
  <2>3. ui' \in Drawings
    BY <1>4, <2>1, <2>2, DrawnType
  <2>4. bot' \in Bots
    BY <1>4, <2>1, BotType DEF ResetIndex
  <2> QED BY <1>2, <1>4, <2>3, <2>4, ActsType DEF GameOK, HostOK, WireOK, PastOK
<1> QED BY <1>3, <1>4 DEF Click

LEMMA UserType ==
  ASSUME TypeOK, User
  PROVE  TypeOK'
<1> USE TypeParts
<1>1. /\ ui \in Drawings /\ view \in Views /\ bot \in Bots /\ opt \in Toggles /\ trip \in Trips
      /\ waits \subseteq Timers
  BY DEF GameOK, HostOK
<1>2. CASE \E c \in Clicked : Click(c)
  BY <1>2, ClickType
<1>3. CASE Undo
  <2>1. ui' \in Drawings
    <3>1. CASE ui.way # <<>> /\ ui' = Rebuilt([ui EXCEPT !.way = SubSeq(@, 1, Len(@) - 1)])
      <4>1. [ui EXCEPT !.way = SubSeq(@, 1, Len(@) - 1)] \in Drawings
        BY <1>1, <3>1, DrawnType
      <4> QED BY <1>1, <3>1, <4>1, DrawnType
    <3>2. CASE ui' = Rebuilt([ui EXCEPT !.start = None])
      <4>1. [ui EXCEPT !.start = None] \in Drawings
        BY <1>1, DrawnType
      <4> QED BY <1>1, <3>2, <4>1, DrawnType
    <3> QED BY <1>3, <3>1, <3>2 DEF Undo
  <2>2. bot' \in Bots
    BY <1>1, <1>3, BotType DEF Undo, ResetIndex
  <2> QED BY <1>3, <2>1, <2>2, ActsType DEF Undo, GameOK, HostOK, WireOK, PastOK
<1>4. CASE DrawPath
  BY <1>1, <1>4, DrawnType, ActsType DEF DrawPath, GameOK, HostOK, WireOK, PastOK
<1>5. CASE ClearPath
  BY <1>1, <1>5, DrawnType, LeftType, BeginType, ActsType DEF ClearPath, GameOK, HostOK, WireOK, PastOK
<1>6. CASE Start
  <2>1. mishaps' \subseteq {"late", "clicked", "queued", "both", "guessed", "resumed"}
    BY <1>6, ExcusedType DEF Start
  <2>2. StartBot(bot) /\ Acts /\ UNCHANGED <<ui, opt>>
    BY <1>6 DEF Start
  <2> QED BY <1>1, <2>1, <2>2, StartBotType, ActsType DEF GameOK, HostOK, WireOK, PastOK
<1>7. CASE Stop
  <2>1. bot' \in Bots /\ trip' \in Trips /\ waits' \subseteq Timers
    BY <1>1, <1>7, StoppedType, BeginType DEF Stop, StopBot
  <2>2. left' \subseteq {"later", "idle", "located"}
    BY <1>7, PendingType DEF Stop
  <2>3. count' \in Nat
    BY <1>7 DEF Stop, Event, PastOK
  <2> QED BY <1>7, <2>1, <2>2, <2>3 DEF Stop, GameOK, HostOK, WireOK, PastOK
<1>8. ASSUME NEW o \in Options, LoadConfig(o) PROVE TypeOK'
  <2>1. opt' \in Toggles
    BY <1>8, SetupsAssumption DEF LoadConfig
  <2>2. bot' \in Bots
    BY <1>1, <1>8, StoppedType, LeftType DEF LoadConfig
  <2>3. trip' \in Trips /\ waits' \subseteq Timers
    BY <1>1, <1>8, BeginType DEF LoadConfig
  <2> QED BY <1>8, <2>1, <2>2, <2>3, ActsType DEF LoadConfig, GameOK, HostOK, WireOK, PastOK
<1>9. ASSUME NEW kind \in Flipped, Flip(kind) PROVE TypeOK'
  <2>1. kind \in {"loop", "attack", "recover", "pickup"}
    BY SetupsAssumption
  <2>2. opt' = [opt EXCEPT ![kind] = ~opt[kind]]
    BY <1>9 DEF Flip
  <2>3. opt' \in Toggles
    BY <1>1, <2>1, <2>2 DEF Toggles
  <2>4. count' \in Nat
    BY <1>9 DEF Flip, Event, PastOK
  <2> QED BY <1>9, <2>3, <2>4 DEF Flip, past, GameOK, HostOK, WireOK, PastOK
<1> QED BY <1>2, <1>3, <1>4, <1>5, <1>6, <1>7, <1>8, <1>9 DEF User

-----------------------------------------------------------------------------
(* The window. *)

LEMMA MessageType ==
  ASSUME NEW m \in Messages
  PROVE  /\ m.op \in {"pos", "rest", "walk", "tp", "mv", "stat", "st", "get", "err", "at"}
         /\ m.op \in {"pos", "walk", "tp", "mv", "at"} => m.cell \in Cells
         /\ m.op \in {"pos", "rest"} => m.sitting \in BOOLEAN
         /\ m.op = "stat" => m.hp \in {"low", "full"}
         /\ m.op = "err" => m.gone \in BOOLEAN
         /\ m.op = "at" => m.map \in Maps
  BY DEF Messages

LEMMA ViewType ==
  ASSUME NEW v \in Views
  PROVE  /\ \A c \in MaybeAt : [v EXCEPT !.pos = c] \in Views /\ [v EXCEPT !.real = c] \in Views
         /\ \A p \in {"unknown", "sitting", "standing"} : [v EXCEPT !.resting = p] \in Views
         /\ \A h \in {"unknown", "low", "full"} : [v EXCEPT !.hp = h] \in Views
         /\ \A f \in BOOLEAN : /\ [v EXCEPT !.foe = f] \in Views /\ [v EXCEPT !.item = f] \in Views
                               /\ [v EXCEPT !.char = f] \in Views
         /\ \A m \in Maps : [v EXCEPT !.map = m] \in Views
         /\ \A m \in Gridded : [v EXCEPT !.grid = m] \in Views
  BY DEF Views

LEMMA PostureType ==
  ASSUME NEW s \in BOOLEAN
  PROVE  Posture(s) \in {"unknown", "sitting", "standing"}
  BY DEF Posture

LEMMA SeenType ==
  ASSUME view \in Views, NEW m \in Messages
  PROVE  Seen(m) \in Views
<1>1. CASE m.op = "pos"
  <2> DEFINE v == [view EXCEPT !.pos = m.cell]
             w == [v EXCEPT !.real = m.cell]
             x == [w EXCEPT !.char = TRUE]
  <2>1. m.cell \in MaybeAt /\ Posture(m.sitting) \in {"unknown", "sitting", "standing"}
    BY <1>1, MessageType, PostureType DEF MaybeAt
  <2>2. Seen(m) = [x EXCEPT !.resting = Posture(m.sitting)]
    BY <1>1 DEF Seen
  <2>3. v \in Views
    BY <2>1, ViewType
  <2> HIDE DEF v
  <2>4. w \in Views
    BY <2>1, <2>3, ViewType
  <2> HIDE DEF w
  <2>5. x \in Views
    BY <2>4, ViewType
  <2> HIDE DEF x
  <2> QED BY <2>1, <2>2, <2>5, ViewType
<1>2. CASE m.op \in {"walk", "tp"}
  <2>1. m.cell \in MaybeAt
    BY <1>2, MessageType DEF MaybeAt
  <2>2. Seen(m) = view \/ Seen(m) = [view EXCEPT !.pos = m.cell]
    BY <1>2 DEF Seen
  <2> QED BY <2>1, <2>2, ViewType
<1>3. CASE m.op = "rest"
  <2> DEFINE v == [view EXCEPT !.resting = Posture(m.sitting)]
  <2>1. Posture(m.sitting) \in {"unknown", "sitting", "standing"}
    BY <1>3, MessageType, PostureType
  <2>2. Seen(m) = [v EXCEPT !.char = TRUE]
    BY <1>3 DEF Seen
  <2>3. v \in Views
    BY <2>1, ViewType
  <2> HIDE DEF v
  <2> QED BY <2>2, <2>3, ViewType
<1>4. CASE m.op = "stat"
  <2>1. m.hp \in {"unknown", "low", "full"}
    BY <1>4, MessageType
  <2>2. Seen(m) = [view EXCEPT !.hp = m.hp]
    BY <1>4 DEF Seen
  <2> QED BY <2>1, <2>2, ViewType
<1>5. CASE m.op \in {"st", "get", "err"}
  <2>1. Seen(m) \in {view, [view EXCEPT !.foe = FALSE], [view EXCEPT !.item = FALSE]}
    BY <1>5 DEF Seen, Refused
  <2> QED BY <2>1, ViewType
<1>6. CASE m.op \in {"mv", "at"}
  BY <1>6 DEF Seen
<1> QED BY <1>1, <1>2, <1>3, <1>4, <1>5, <1>6, MessageType

LEMMA ChangesToType ==
  ASSUME GameOK, HostOK, NEW m, ChangesTo(m)
  PROVE  ui' \in Drawings /\ bot' \in Bots /\ trip' \in Trips /\ waits' \subseteq Timers
<1>1. ui \in Drawings /\ view \in Views /\ bot \in Bots /\ trip \in Trips /\ waits \subseteq Timers
  BY DEF GameOK, HostOK
<1>2. Stopped(bot) \in Bots
  BY <1>1, StoppedType
<1>3. /\ [Stopped(bot) EXCEPT !.goals = <<>>, !.index = 1] \in Bots
      /\ [bot EXCEPT !.goals = <<>>, !.index = 1, !.pending = None, !.age = 0] \in Bots
  BY <1>1, <1>2, LeftType
<1>4. [Blank EXCEPT !.draw = ui.draw] \in Drawings /\ NoTrip \in Trips
  BY <1>1, DrawnType, BeginType
<1>5. /\ ui' \in {ui, [Blank EXCEPT !.draw = ui.draw]} /\ trip' \in {trip, NoTrip}
      /\ waits' \in {waits, waits \ {"block"}}
      /\ bot' \in {bot, [Stopped(bot) EXCEPT !.goals = <<>>, !.index = 1],
                   [bot EXCEPT !.goals = <<>>, !.index = 1, !.pending = None, !.age = 0]}
  BY DEF ChangesTo
<1> QED BY <1>1, <1>3, <1>4, <1>5

LEMMA DrainedType ==
  ASSUME TypeOK, Drained
  PROVE  /\ Head(inbox) \in Messages /\ inbox' \in Seq(Messages) /\ Len(inbox') <= MaxInbox
         /\ UNCHANGED <<game, opt, later, idle, cmds, link, count, streak, ordered, mishaps>>
<1>1. inbox # <<>> /\ inbox' = Tail(inbox)
      /\ UNCHANGED <<game, opt, later, idle, cmds, link, count, streak, ordered, mishaps>>
  BY DEF Drained
<1>2. inbox \in Seq(Messages) /\ Len(inbox) <= MaxInbox /\ MaxInbox \in Nat
  BY BotAssumption DEF TypeOK
<1>3. /\ Head(inbox) \in Messages /\ Tail(inbox) \in Seq(Messages) /\ Len(Tail(inbox)) = Len(inbox) - 1
      /\ Len(inbox) \in Nat
  BY <1>1, <1>2, HeadTailProperties
<1> QED BY <1>1, <1>2, <1>3

LEMMA DrainType ==
  ASSUME TypeOK, Drain \/ (\E m \in Maps : DetectMap(m))
  PROVE  TypeOK'
<1> USE TypeParts
<1>1. view \in Views /\ bot \in Bots /\ waits \subseteq Timers /\ trip \in Trips /\ ui \in Drawings
  BY DEF GameOK, HostOK
<1>2. CASE DrainMap
  <2> DEFINE m == Head(inbox)
             v == [view EXCEPT !.map = m.map]
             w == [v EXCEPT !.grid = IF m.map \in Gridded THEN m.map ELSE @]
             x == [w EXCEPT !.pos = m.cell]
             y == [x EXCEPT !.char = TRUE]
             z == [y EXCEPT !.foe = FALSE]
  <2>1. Drained
    BY <1>2 DEF DrainMap
  <2>2. m \in Messages /\ m.op = "at"
    BY <1>2, <2>1, DrainedType DEF DrainMap
  <2>3. m.map \in Maps /\ m.cell \in MaybeAt
    BY <2>2, MessageType DEF MaybeAt
  <2>4. view' = [z EXCEPT !.item = FALSE]
    BY <1>2 DEF DrainMap
  <2>5. /\ ChangesTo(m.map)
        /\ (halt' = halt /\ left' = left) \/ (halt' = "map" /\ left' = Pending({"later", "idle", "located"}))
    BY <1>2 DEF DrainMap
  <2> HIDE DEF m
  <2>6. v \in Views
    BY <1>1, <2>3, ViewType
  <2> HIDE DEF v
  <2>7. w = v \/ (m.map \in Gridded /\ w = [v EXCEPT !.grid = m.map])
    BY <2>6 DEF Views
  <2>8. w \in Views
    BY <2>6, <2>7, ViewType
  <2> HIDE DEF w
  <2>9. x \in Views
    BY <2>3, <2>8, ViewType
  <2> HIDE DEF x
  <2>10. y \in Views
    BY <2>9, ViewType
  <2> HIDE DEF y
  <2>11. z \in Views
    BY <2>10, ViewType
  <2> HIDE DEF z
  <2>12. view' \in Views
    BY <2>4, <2>11, ViewType
  <2>13. halt' \in {"no", "stop", "map"} /\ left' \subseteq {"later", "idle", "located"}
    BY <2>5, PendingType DEF PastOK
  <2> QED BY <2>1, <2>5, <2>12, <2>13, ChangesToType, DrainedType DEF GameOK, HostOK, WireOK, PastOK
<1>3. CASE DrainOther
  <2> DEFINE m == Head(inbox)
  <2>1. Drained /\ m.op # "at" /\ view' = Seen(m)
        /\ bot' \in {bot, [bot EXCEPT !.seen = m.cell = bot.pending]}
        /\ waits' \in {waits, waits \cup {"block"}} /\ UNCHANGED <<ui, trip, halt, left>>
    BY <1>3 DEF DrainOther
  <2>2. m \in Messages
    BY <2>1, DrainedType
  <2> HIDE DEF m
  <2>3. view' \in Views
    BY <1>1, <2>1, <2>2, SeenType
  <2>4. bot' \in Bots
    <3>1. (m.cell = bot.pending) \in BOOLEAN
      OBVIOUS
    <3> QED BY <1>1, <2>1, <3>1, BotType
  <2>5. waits' \subseteq Timers
    BY <1>1, <2>1 DEF Timers
  <2> QED BY <2>1, <2>3, <2>4, <2>5, DrainedType DEF GameOK, HostOK, WireOK, PastOK
<1>4. ASSUME NEW m \in Maps, DetectMap(m) PROVE TypeOK'
  <2>1. /\ m \in Gridded /\ view' = [view EXCEPT !.grid = m] /\ ChangesTo(m)
        /\ count' = count + 1 /\ halt' = "map" /\ left' = Pending({"later", "idle", "located"})
        /\ UNCHANGED <<game, opt, later, idle, cmds, inbox, link, streak, ordered, mishaps>>
    BY <1>4 DEF DetectMap, Event
  <2>2. view' \in Views
    BY <1>1, <2>1, ViewType
  <2>3. left' \subseteq {"later", "idle", "located"}
    BY <2>1, PendingType
  <2> QED BY <2>1, <2>2, <2>3, ChangesToType DEF GameOK, HostOK, WireOK, PastOK
<1> QED BY <1>2, <1>3, <1>4 DEF Drain

LEMMA CallbackType ==
  ASSUME TypeOK, StartLocated \/ StandUpOver \/ IdleStart
  PROVE  TypeOK'
<1> USE TypeParts
<1>1. bot \in Bots /\ [bot EXCEPT !.located = FALSE] \in Bots
  BY BotType DEF HostOK
<1>2. CASE StartLocated
  <2>1. /\ StartBot([bot EXCEPT !.located = FALSE]) /\ Excused("queued")
        /\ UNCHANGED <<game, view, ui, opt, idle, inbox, link, count, halt, left>>
    BY <1>2 DEF StartLocated
  <2> QED BY <1>1, <2>1, StartBotType, ExcusedType DEF GameOK, HostOK, WireOK, PastOK
<1>3. CASE StandUpOver
  <2>1. /\ later # <<>> /\ StartTravel(Head(later).cell, Head(later).then, Tail(later))
        /\ UNCHANGED <<bot, idle, waits, streak, ordered>>
        /\ UNCHANGED <<game, view, ui, opt, inbox, link, count, halt, left>>
        /\ mishaps' \subseteq mishaps \cup {"late", "both"}
    BY <1>3 DEF StandUpOver, Quiet
  <2>2. later \in Seq(Calls) /\ Len(later) <= MaxLater /\ MaxLater \in Nat
    BY BotAssumption DEF HostOK
  <2>3. /\ Head(later) \in Calls /\ Tail(later) \in Seq(Calls) /\ Len(Tail(later)) = Len(later) - 1
        /\ Len(later) \in Nat
    BY <2>1, <2>2, HeadTailProperties
  <2>4. Head(later).cell \in Cells /\ Head(later).then \in BOOLEAN /\ Len(Tail(later)) < MaxLater
    BY <2>2, <2>3 DEF Calls
  <2>5. /\ trip' \in Trips /\ later' \in Seq(Calls) /\ Len(later') <= MaxLater
        /\ cmds' \in Seq(Commands) /\ Len(cmds') <= MaxCmds
    BY <2>1, <2>3, <2>4, StartTravelType
  <2> QED BY <2>1, <2>5 DEF GameOK, HostOK, WireOK, PastOK
<1>4. CASE IdleStart
  <2>1. /\ StartBot(bot) /\ Excused("queued") /\ idle > 0 /\ idle' = idle - 1
        /\ UNCHANGED <<game, view, ui, opt, inbox, link, count, halt, left>>
    BY <1>4 DEF IdleStart, Quiet
  <2>2. idle' \in 0 .. 1
    BY <2>1 DEF HostOK
  <2> QED BY <1>1, <2>1, <2>2, StartBotType, ExcusedType DEF GameOK, HostOK, WireOK, PastOK
<1> QED BY <1>2, <1>3, <1>4

LEMMA TripType ==
  ASSUME NEW t \in Trips
  PROVE  /\ [t EXCEPT !.on = FALSE] \in Trips
         /\ [t EXCEPT !.index = @ + 1, !.pending = None, !.age = 0] \in Trips
         /\ \A cell \in Cells : [t EXCEPT !.pending = cell, !.age = 0] \in Trips
         /\ \A k \in 0 .. 2 : [t EXCEPT !.age = k] \in Trips
<1>1. ASSUME NEW u \in Trips
      PROVE  /\ \A i \in Nat \ {0} : [u EXCEPT !.index = i] \in Trips
             /\ \A k \in 0 .. 2 : [u EXCEPT !.age = k] \in Trips
             /\ \A v \in BOOLEAN : [u EXCEPT !.on = v] \in Trips
  BY DEF Trips
<1>2. ASSUME NEW u \in Trips, NEW v \in MaybeAt PROVE [u EXCEPT !.pending = v, !.age = 0] \in Trips
  <2> DEFINE w == [u EXCEPT !.pending = v]
  <2>1. w \in Trips
    BY DEF Trips
  <2>2. [u EXCEPT !.pending = v, !.age = 0] = [w EXCEPT !.age = 0]
    OBVIOUS
  <2> HIDE DEF w
  <2>3. 0 \in 0 .. 2
    OBVIOUS
  <2> QED BY <1>1, <2>1, <2>2, <2>3
<1>3. t.index + 1 \in Nat \ {0}
  BY DEF Trips
<1>4. [t EXCEPT !.index = @ + 1, !.pending = None, !.age = 0] \in Trips
  <2> DEFINE u == [t EXCEPT !.index = @ + 1]
  <2>1. u \in Trips
    BY <1>1, <1>3
  <2>2. [t EXCEPT !.index = @ + 1, !.pending = None, !.age = 0] = [u EXCEPT !.pending = None, !.age = 0]
    OBVIOUS
  <2> HIDE DEF u
  <2> QED BY <1>2, <2>1, <2>2 DEF MaybeAt
<1> QED BY <1>1, <1>2, <1>4 DEF MaybeAt

LEMMA TravelType ==
  ASSUME TypeOK, TravelTick
  PROVE  TypeOK'
<1> USE TypeParts
<1>1. trip \in Trips /\ idle \in 0 .. 1 /\ WireOK
  BY DEF HostOK
<1>2. /\ UNCHANGED <<bot, later, waits, streak, ordered, mishaps>>
      /\ UNCHANGED <<game, view, ui, opt, inbox, link, count, halt, left>>
  BY DEF TravelTick, Quiet
<1> DEFINE same == trip' \in Trips /\ idle' \in 0 .. 1 /\ cmds' \in Seq(Commands) /\ Len(cmds') <= MaxCmds
<1>3. ASSUME Arrived PROVE same
  <2>1. idle' \in 0 .. 1
    BY <1>1, <1>3 DEF Arrived
  <2> QED BY <1>1, <1>3, <2>1, BeginType DEF Arrived, WireOK
<1>4. ASSUME NextLeg PROVE same
  BY <1>1, <1>4, TripType DEF NextLeg, WireOK
<1>5. ASSUME trip' = NoTrip \/ trip' = trip \/ trip' = [trip EXCEPT !.on = FALSE], UNCHANGED <<idle, cmds>> PROVE same
  BY <1>1, <1>5, TripType, BeginType DEF WireOK
<1>6. CASE bot.running
  BY <1>2, <1>5, <1>6 DEF TravelTick, GameOK, HostOK, WireOK, PastOK
<1>7. CASE ~bot.running /\ TravelWaits
  <2>1. same
    BY <1>3, <1>4, <1>5, <1>7 DEF TravelWaits
  <2> QED BY <1>2, <2>1 DEF GameOK, HostOK, WireOK, PastOK
<1>8. CASE ~bot.running /\ TravelWalks
  <2> DEFINE target == trip.targets[trip.index]
  <2>1. CASE Arrived \/ NextLeg \/ (trip' = NoTrip /\ UNCHANGED <<idle, cmds>>)
    <3>1. same
      BY <1>3, <1>4, <1>5, <2>1
    <3> QED BY <1>2, <3>1 DEF GameOK, HostOK, WireOK, PastOK
  <2>2. CASE /\ ~(trip.index > Len(trip.targets)) /\ Send(<<Move(target)>>)
             /\ trip' = [trip EXCEPT !.pending = target, !.age = 0] /\ UNCHANGED idle
    <3>1. trip.targets \in Seq(Cells) /\ trip.index \in Nat \ {0}
      BY <1>1 DEF Trips
    <3>2. trip.index \in 1 .. Len(trip.targets)
      BY <2>2, <3>1
    <3>3. target \in Cells
      BY <3>1, <3>2, ElementOfSeq
    <3> HIDE DEF target
    <3>4. <<Move(target)>> \in Seq(Commands)
      BY <3>3, SentType, OneCommand
    <3>5. same
      BY <1>1, <2>2, <3>3, <3>4, SendType, TripType
    <3> QED BY <1>2, <3>5 DEF GameOK, HostOK, WireOK, PastOK
  <2> QED BY <1>8, <2>1, <2>2 DEF TravelWalks
<1> QED BY <1>6, <1>7, <1>8 DEF TravelTick

-----------------------------------------------------------------------------
(* The tick of the bot. *)

LEMMA TickFrame ==
  ASSUME BotTick
  PROVE  bot.running /\ UNCHANGED <<later, idle>> /\ UNCHANGED <<game, view, ui, opt, inbox, link, count, halt, left>>
  BY DEF BotTick, TickUnlinked, TickResume, TickRecover, Stages, TickWalking, TickStand, TickPickup, TickFight,
         TickChase, TickStays, TickRoute, Idles, Free, Ticks, Quiet

LEMMA AwakeType ==
  ASSUME bot \in Bots
  PROVE  /\ Awake \in Bots
         /\ \A b \in Bots : Left(b) \in Bots
         /\ Awake.running = bot.running /\ Awake.goals = bot.goals /\ Awake.index = bot.index
         /\ Awake.pending = bot.pending /\ Awake.rejected = bot.rejected
<1>1. Awake \in Bots
  BY BotType DEF Awake
<1>2. \A b \in Bots : Left(b) \in Bots
  BY LeftType DEF Left
<1>3. /\ Awake.running = bot.running /\ Awake.goals = bot.goals /\ Awake.index = bot.index
      /\ Awake.pending = bot.pending /\ Awake.rejected = bot.rejected
  BY DEF Awake, Bots
<1> QED BY <1>1, <1>2, <1>3

LEMMA BecameType ==
  ASSUME GameOK, HostOK, NEW b \in Bots, Became(b)
  PROVE  bot' \in Bots /\ trip' \in Trips /\ waits' \subseteq Timers
  BY BeginType DEF Became, GameOK, HostOK

\* What TickWalking makes of the bot.
Again == [Left(Awake) EXCEPT !.rejected = @ + 1]
Zero  == [Left(Awake) EXCEPT !.rejected = 0]

LEMMA AgainType ==
  ASSUME bot \in Bots
  PROVE  Again \in Bots /\ Zero \in Bots
<1>1. Left(Awake) \in Bots
  BY AwakeType
<1>2. Left(Awake).rejected + 1 \in Nat
  BY <1>1 DEF Bots
<1> QED BY <1>1, <1>2, BotType DEF Again, Zero

LEMMA WalkingShape ==
  ASSUME TickWalking
  PROVE  \/ Became(Advance(Zero)) /\ streak' = 0
         \/ Became(Awake) /\ streak' = streak
         \/ /\ streak' = streak + 1
            /\ Became(IF Again.rejected >= 3 THEN Stopped(Again) ELSE Advance(Again))
  BY DEF TickWalking, Again, Zero

LEMMA WalkingType ==
  ASSUME TypeOK, TickWalking
  PROVE  /\ bot' \in Bots /\ trip' \in Trips /\ waits' \subseteq Timers /\ streak' \in Nat
<1> USE TypeParts
<1>1. bot \in Bots /\ streak \in Nat
  BY DEF HostOK, PastOK
<1>2. Advance(Zero) \in Bots /\ Awake \in Bots /\ Stopped(Again) \in Bots /\ Advance(Again) \in Bots
  BY <1>1, AgainType, AwakeType, AdvanceType, StoppedType
<1>3. \E b \in Bots : Became(b)
  BY <1>2, WalkingShape
<1>4. streak' \in Nat
  BY <1>1, WalkingShape
<1> QED BY <1>3, <1>4, BecameType

\* The goal that TickRoute looks at, and the bot that has it.
At   == IF bot.index > Len(bot.goals) THEN 1 ELSE bot.index
Back == [Awake EXCEPT !.index = At]

LEMMA RouteShape ==
  ASSUME TickRoute
  PROVE  \/ bot.index > Len(bot.goals) /\ ~opt.loop /\ Became(PathFinished(bot)) /\ UNCHANGED <<cmds, ordered>>
         \/ Became(Advance(Back)) /\ ordered' = ordered \cup {At} /\ UNCHANGED cmds
         \/ Became(Back) /\ UNCHANGED <<cmds, ordered>>
         \/ Send(<<Move(bot.goals[At])>>) /\ Became(Walking(Back, bot.goals[At])) /\ ordered' = ordered \cup {At}
  BY DEF TickRoute, At, Back

LEMMA AtType ==
  ASSUME bot \in Bots, bot.goals # <<>>
  PROVE  /\ At \in 1 .. Len(bot.goals) /\ bot.goals[At] \in Cells /\ Back \in Bots
         /\ Back.running = bot.running /\ Back.goals = bot.goals /\ Back.index = At
         /\ Back.pending = bot.pending /\ Back.rejected = bot.rejected
<1>1. bot.goals \in Seq(Cells) /\ bot.index \in Nat \ {0}
  BY DEF Bots
<1>2. Len(bot.goals) \in Nat \ {0}
  BY <1>1, EmptySeq
<1>3. At \in 1 .. Len(bot.goals)
  BY <1>1, <1>2 DEF At
<1>4. bot.goals[At] \in Cells
  BY <1>1, <1>3, ElementOfSeq
<1>5. At \in Nat \ {0}
  BY <1>2, <1>3
<1>6. Back \in Bots
  BY <1>5, AwakeType, BotType DEF Back
<1>7. Awake \in Bots
  BY AwakeType
<1>8. /\ Back.running = Awake.running /\ Back.goals = Awake.goals /\ Back.index = At
      /\ Back.pending = Awake.pending /\ Back.rejected = Awake.rejected
  BY <1>7 DEF Back, Bots
<1> QED BY <1>3, <1>4, <1>6, <1>8, AwakeType

LEMMA RouteTickType ==
  ASSUME TypeOK, TickRoute
  PROVE  /\ bot' \in Bots /\ trip' \in Trips /\ waits' \subseteq Timers
         /\ cmds' \in Seq(Commands) /\ Len(cmds') <= MaxCmds /\ ordered' \subseteq Nat \ {0}
<1> USE TypeParts
<1>1. bot \in Bots /\ ordered \subseteq Nat \ {0} /\ bot.goals # <<>>
  BY DEF HostOK, PastOK, TickRoute
<1>2. At \in Nat \ {0}
  BY <1>1, AtType
<1>3. /\ PathFinished(bot) \in Bots /\ Advance(Back) \in Bots /\ Back \in Bots
      /\ Walking(Back, bot.goals[At]) \in Bots
  BY <1>1, AtType, AdvanceType, StoppedType, LeftType DEF PathFinished
<1>4. \E b \in Bots : Became(b)
  BY <1>3, RouteShape
<1>5. ordered' \subseteq Nat \ {0}
  <2>1. ordered' = ordered \/ ordered' = ordered \cup {At}
    BY RouteShape
  <2> QED BY <1>1, <1>2, <2>1
<1>6. cmds' \in Seq(Commands) /\ Len(cmds') <= MaxCmds
  <2>1. <<Move(bot.goals[At])>> \in Seq(Commands)
    BY <1>1, AtType, SentType, OneCommand
  <2>2. cmds' = cmds \/ Send(<<Move(bot.goals[At])>>)
    BY RouteShape
  <2> QED BY <2>1, <2>2, SendType DEF WireOK
<1> QED BY <1>4, <1>5, <1>6, BecameType

LEMMA ChaseType ==
  ASSUME TypeOK, TickChase
  PROVE  bot' \in Bots /\ cmds' \in Seq(Commands) /\ Len(cmds') <= MaxCmds
<1> USE TypeParts
<1> DEFINE path == Astar(PlayerCell, Foe)
           leg  == path[IF Len(path) < 4 THEN Len(path) ELSE 4]
<1>1. bot \in Bots /\ PlayerCell \in Cells /\ path # None /\ Foe \in Cells
  BY PlayerType, BotAssumption DEF TickChase, Chases, Monster, HostOK, GameOK, MaybeAt
<1>2. path \in Seq(Cells) /\ Len(path) = Dist(PlayerCell, Foe) /\ Dist(PlayerCell, Foe) \in Nat
  BY <1>1, AstarType, DistType
<1>3. Awake \in Bots
  BY <1>1, AwakeType
<1>4. CASE bot' = Awake /\ UNCHANGED cmds
  BY <1>3, <1>4 DEF WireOK
<1>5. CASE ~(Dist(PlayerCell, Foe) < 2) /\ Send(<<Target, Move(leg)>>) /\ bot' = Walking(Awake, leg)
  <2>1. (IF Len(path) < 4 THEN Len(path) ELSE 4) \in 1 .. Len(path)
    BY <1>2, <1>5
  <2> HIDE DEF path
  <2>2. leg \in Cells
    BY <1>2, <2>1, ElementOfSeq
  <2> HIDE DEF leg
  <2>3. Target \in Commands /\ Move(leg) \in Commands
    BY <2>2, SentType
  <2>4. <<Target, Move(leg)>> \in Seq(Commands)
    BY <2>3
  <2> QED BY <1>3, <1>5, <2>2, <2>4, SendType, LeftType
<1> QED BY <1>4, <1>5 DEF TickChase

LEMMA BotTickType ==
  ASSUME TypeOK, BotTick
  PROVE  TypeOK'
<1> USE TypeParts
<1>1. /\ UNCHANGED <<later, idle>> /\ UNCHANGED <<game, view, ui, opt, inbox, link, count, halt, left>>
      /\ bot \in Bots /\ trip \in Trips /\ waits \subseteq Timers
      /\ cmds \in Seq(Commands) /\ Len(cmds) <= MaxCmds /\ streak \in Nat /\ ordered \subseteq Nat \ {0}
      /\ mishaps \subseteq {"late", "clicked", "queued", "both", "guessed", "resumed"}
  BY TickFrame DEF GameOK, HostOK, WireOK, PastOK
<1>2. SUFFICES /\ bot' \in Bots /\ trip' \in Trips /\ waits' \subseteq Timers
               /\ cmds' \in Seq(Commands) /\ Len(cmds') <= MaxCmds /\ streak' \in Nat /\ ordered' \subseteq Nat \ {0}
               /\ mishaps' \subseteq {"late", "clicked", "queued", "both", "guessed", "resumed"}
  BY <1>1, <1>2 DEF GameOK, HostOK, WireOK, PastOK
<1>3. Awake \in Bots
  BY <1>1, AwakeType
<1>4. CASE TickUnlinked
  BY <1>1, <1>4, StoppedType, BeginType DEF TickUnlinked, StopBot
<1>5. CASE TickResume
  <2>1. bot' = [bot EXCEPT !.recovering = FALSE] /\ UNCHANGED <<trip, waits, streak, ordered>>
        /\ (Toggled \/ UNCHANGED cmds) /\ mishaps' \subseteq mishaps \cup {"resumed"}
    BY <1>5 DEF TickResume
  <2> QED BY <1>1, <2>1, BotType, ToggledType
<1>6. CASE TickRecover
  <2>1. /\ bot' \in {bot, [bot EXCEPT !.recovering = TRUE, !.pending = None, !.age = 0, !.seen = FALSE]}
        /\ UNCHANGED <<trip, streak, ordered>> /\ (Toggled \/ UNCHANGED cmds)
        /\ mishaps' \subseteq mishaps \cup {"guessed"} /\ waits' \subseteq waits \cup {"sit"}
    BY <1>6 DEF TickRecover
  <2>2. bot' \in Bots
    BY <1>1, <2>1, LeftType
  <2>3. waits' \subseteq Timers
    BY <1>1, <2>1 DEF Timers
  <2> QED BY <1>1, <2>1, <2>2, <2>3, ToggledType
<1>7. CASE TickWalking
  BY <1>1, <1>7, WalkingType DEF TickWalking
<1>8. CASE TickStand
  <2>1. Toggled /\ waits' = waits \cup {"stand"} /\ bot' = Awake /\ UNCHANGED <<trip, streak, ordered, mishaps>>
    BY <1>8 DEF TickStand
  <2>2. waits' \subseteq Timers
    BY <1>1, <2>1 DEF Timers
  <2> QED BY <1>1, <1>3, <2>1, <2>2, ToggledType
<1>9. CASE TickPickup
  <2>1. /\ Send(<<[op |-> "get"]>>) /\ waits' = waits \cup {"pick"} /\ bot.tries < 3
        /\ bot' = [Awake EXCEPT !.tries = @ + 1] /\ UNCHANGED <<trip, streak, ordered, mishaps>>
    BY <1>9 DEF TickPickup, MustPick
  <2>2. waits' \subseteq Timers
    BY <1>1, <2>1 DEF Timers
  <2>3. <<[op |-> "get"]>> \in Seq(Commands)
    BY SentType, OneCommand
  <2>4. Awake.tries + 1 \in 0 .. 3
    <3>1. Awake.tries = bot.tries /\ bot.tries \in 0 .. 3
      BY <1>1 DEF Awake, Bots
    <3> QED BY <2>1, <3>1
  <2>5. bot' \in Bots
    BY <1>3, <2>1, <2>4, BotType
  <2> QED BY <1>1, <2>1, <2>2, <2>3, <2>5, SendType
<1>10. CASE TickFight
  <2>1. /\ \/ UNCHANGED <<cmds, waits>>
           \/ Send(Strike) /\ waits' = waits \cup {"attack", "walk"}
        /\ bot' = Awake /\ UNCHANGED <<trip, streak, ordered, mishaps>>
    BY <1>10 DEF TickFight
  <2>2. waits' \subseteq Timers
    BY <1>1, <2>1 DEF Timers
  <2>3. Target \in Commands /\ [op |-> "attack"] \in Commands
    BY SentType
  <2>4. Strike \in Seq(Commands)
    BY <2>3 DEF Strike
  <2>5. cmds' \in Seq(Commands) /\ Len(cmds') <= MaxCmds
    BY <1>1, <2>1, <2>4, SendType
  <2> QED BY <1>1, <1>3, <2>1, <2>2, <2>5
<1>11. CASE TickChase
  BY <1>1, <1>11, ChaseType DEF TickChase
<1>12. CASE TickStays
  <2>1. \E b \in {Awake, PathFinished(bot)} : Became(b)
    BY <1>12 DEF TickStays
  <2>2. PathFinished(bot) \in Bots
    BY <1>1, StoppedType DEF PathFinished
  <2>3. bot' \in Bots /\ trip' \in Trips /\ waits' \subseteq Timers
    BY <1>3, <2>1, <2>2, BecameType
  <2> QED BY <1>1, <1>12, <2>3 DEF TickStays
<1>13. CASE TickRoute
  BY <1>1, <1>13, RouteTickType DEF TickRoute
<1> QED BY <1>4, <1>5, <1>6, <1>7, <1>8, <1>9, <1>10, <1>11, <1>12, <1>13 DEF BotTick, Stages

-----------------------------------------------------------------------------
(* Time, the game and the network. *)

LEMMA TimeType ==
  ASSUME TypeOK, Time
  PROVE  TypeOK'
<1> USE TypeParts
<1>1. bot \in Bots /\ trip \in Trips /\ view \in Views /\ waits \subseteq Timers
  BY DEF HostOK, GameOK
<1>2. ASSUME NEW t \in Timers, Elapse(t) PROVE TypeOK'
  <2>1. /\ waits' = waits \ {t} /\ UNCHANGED <<bot, trip>>
        /\ UNCHANGED <<game, view, ui, opt, later, idle, cmds, inbox, link, halt, left, streak, ordered>>
        /\ count' = count \/ count' = count + 1
        /\ mishaps' \subseteq mishaps \cup {"late"}
    BY <1>2 DEF Elapse, Event, Passes
  <2>2. count' \in Nat
    BY <2>1 DEF PastOK
  <2> QED BY <2>1, <2>2 DEF GameOK, HostOK, WireOK, PastOK
<1>3. CASE BotAges
  <2>1. bot.age + 1 \in 0 .. 3
    BY <1>1, <1>3 DEF BotAges, Bots
  <2>2. bot' \in Bots
    BY <1>1, <1>3, <2>1, BotType DEF BotAges
  <2> QED BY <1>3, <2>2 DEF BotAges, Passes, GameOK, HostOK, WireOK, PastOK
<1>4. CASE TripAges
  <2>1. trip.age + 1 \in 0 .. 2
    BY <1>1, <1>4 DEF TripAges, Trips
  <2>2. trip' \in Trips
    BY <1>1, <1>4, <2>1, TripType DEF TripAges
  <2> QED BY <1>4, <2>2 DEF TripAges, Passes, GameOK, HostOK, WireOK, PastOK
<1>5. CASE PosGoesStale
  <2>1. view' \in Views /\ (count' = count \/ count' = count + 1)
    BY <1>1, <1>5, ViewType DEF PosGoesStale, Event, MaybeAt
  <2>2. count' \in Nat
    BY <2>1 DEF PastOK
  <2> QED BY <1>5, <2>1, <2>2 DEF PosGoesStale, World, GameOK, HostOK, WireOK, PastOK
<1> QED BY <1>2, <1>3, <1>4, <1>5 DEF Time

LEMMA GameType ==
  ASSUME NEW g \in Games
  PROVE  /\ \A c \in MaybeAt : [g EXCEPT !.dest = c] \in Games
         /\ \A c \in Cells : [g EXCEPT !.cell = c] \in Games
         /\ \A f \in BOOLEAN : [g EXCEPT !.foe = f] \in Games /\ [g EXCEPT !.item = f] \in Games
                               /\ [g EXCEPT !.sitting = f] \in Games
         /\ \A h \in {"low", "full"} : [g EXCEPT !.hp = h] \in Games
         /\ \A m \in Maps : [g EXCEPT !.map = m] \in Games
         /\ g.map \in Maps /\ g.cell \in Cells /\ g.dest \in MaybeAt /\ g.sitting \in BOOLEAN
  BY DEF Games

LEMMA WorldFrame ==
  ASSUME Answer \/ Rules \/ Chance
  PROVE  /\ UNCHANGED <<ui, opt, bot, trip, later, idle, waits, halt, left, streak, ordered, mishaps>>
         /\ view' = view
  BY DEF Answer, Rules, Serve, Step, Heal, Chance, Hurt, Warp, OtherMoves, LoseLink, Reconnect, World

\* What the client and the server make of a command.
LEMMA ServedType ==
  ASSUME TypeOK, Serve
  PROVE  game' \in Games /\ inbox' \in Seq(Messages) /\ Len(inbox') <= MaxInbox /\ count' \in Nat
<1> USE TypeParts
<1>1. cmds # <<>> /\ cmds \in Seq(Commands) /\ WireOK /\ game \in Games /\ count \in Nat
  BY DEF Serve, WireOK, GameOK, PastOK
<1> DEFINE c == Head(cmds)
<1>2. c \in Commands
  BY <1>1, HeadTailProperties
<1>3. c.op = "move" => c.cell \in Cells
  BY <1>2 DEF Commands
<1>4. count + 1 \in Nat
  BY <1>1
<1>5. inbox \in Seq(Messages) /\ Len(inbox) <= MaxInbox
  BY DEF WireOK
<1>6. Serve => \/ c.op = "move" /\ ServeMove(c.cell)
               \/ ServeRest \/ ServeTarget \/ ServeAttack \/ ServeGet
  BY DEF Serve
<1>7. CASE c.op = "move" /\ ServeMove(c.cell)
  <2>1. \/ game' = [game EXCEPT !.dest = c.cell] /\ Tell(<<[op |-> "walk", cell |-> c.cell]>>) /\ UNCHANGED count
        \/ UNCHANGED <<game, inbox, count>>
        \/ game' = game /\ count' = count + 1 /\ Tell(<<[op |-> "tp", cell |-> game.cell]>>)
    BY <1>7 DEF ServeMove, Event
  <2>2. [op |-> "walk", cell |-> c.cell] \in Messages /\ [op |-> "tp", cell |-> game.cell] \in Messages
        /\ c.cell \in MaybeAt
    BY <1>1, <1>3, <1>7, GameType, ToldType DEF MaybeAt
  <2> HIDE DEF c
  <2> QED BY <1>1, <1>4, <1>5, <2>1, <2>2, TellType, GameType
<1>8. CASE ServeRest
  <2>1. [op |-> "rest", sitting |-> ~game.sitting] \in Messages
    BY <1>1, GameType, ToldType
  <2>2. inbox' \in Seq(Messages) /\ Len(inbox') <= MaxInbox
    BY <1>1, <1>8, <2>1, TellType DEF ServeRest
  <2>3. game' \in Games
    BY <1>1, <1>8 DEF ServeRest, Games, MaybeAt
  <2> QED BY <1>1, <1>8, <2>2, <2>3 DEF ServeRest
<1>9. CASE ServeTarget
  <2>1. [op |-> "err", gone |-> TRUE] \in Messages /\ [op |-> "err", gone |-> FALSE] \in Messages
    BY ToldType
  <2>2. /\ game' = game /\ (count' = count \/ count' = count + 1)
        /\ inbox' = inbox \/ Tell(<<[op |-> "err", gone |-> TRUE]>>) \/ Tell(<<[op |-> "err", gone |-> FALSE]>>)
    BY <1>9 DEF ServeTarget, Event
  <2> QED BY <1>1, <1>4, <1>5, <2>1, <2>2, TellType
<1>10. CASE ServeAttack \/ ServeGet
  <2>1. [op |-> "st"] \in Messages /\ [op |-> "get"] \in Messages
    BY ToldType
  <2>2. /\ game' \in {game, [game EXCEPT !.foe = FALSE], [game EXCEPT !.item = FALSE]}
        /\ count' = count \/ count' = count + 1
        /\ inbox' = inbox \/ Tell(<<[op |-> "st"]>>) \/ Tell(<<[op |-> "get"]>>)
    BY <1>10 DEF ServeAttack, ServeGet, Event
  <2> QED BY <1>1, <1>4, <1>5, <2>1, <2>2, TellType, GameType
<1> QED BY <1>6, <1>7, <1>8, <1>9, <1>10

LEMMA WorldType ==
  ASSUME TypeOK, Answer \/ Rules \/ Chance
  PROVE  TypeOK'
<1> USE TypeParts
<1>1. /\ WireOK /\ game \in Games /\ count \in Nat /\ count + 1 \in Nat /\ inbox \in Seq(Messages)
      /\ Len(inbox) <= MaxInbox /\ cmds \in Seq(Commands) /\ Len(cmds) <= MaxCmds /\ link \in BOOLEAN
  BY DEF WireOK, GameOK, PastOK
<1> DEFINE goal == /\ game' \in Games /\ cmds' \in Seq(Commands) /\ Len(cmds') <= MaxCmds
                   /\ inbox' \in Seq(Messages) /\ Len(inbox') <= MaxInbox /\ link' \in BOOLEAN /\ count' \in Nat
<1>2. SUFFICES goal
  BY WorldFrame DEF GameOK, HostOK, WireOK, PastOK
<1>3. CASE Answer
  <2>1. [op |-> "pos", cell |-> game.cell, sitting |-> game.sitting] \in Messages
    BY <1>1, GameType, ToldType
  <2> QED BY <1>1, <1>3, <2>1, TellType DEF Answer
<1>4. CASE Serve
  <2>1. cmds # <<>> /\ cmds' = Tail(cmds) /\ link' = link
    BY <1>4 DEF Serve
  <2>2. Tail(cmds) \in Seq(Commands) /\ Len(Tail(cmds)) = Len(cmds) - 1 /\ Len(cmds) \in Nat
    BY <1>1, <2>1, HeadTailProperties
  <2>3. MaxCmds \in Nat
    BY BotAssumption
  <2>4. Len(cmds') <= MaxCmds
    BY <1>1, <2>1, <2>2, <2>3
  <2> QED BY <1>1, <1>4, <2>1, <2>2, <2>4, ServedType
<1>5. CASE Step
  <2>1. /\ game.dest \notin {None, game.cell} /\ UNCHANGED <<view, cmds, inbox, link, count>>
        /\ game' = [game EXCEPT !.cell = IF game.dest > game.cell THEN game.cell + 1 ELSE game.cell - 1]
    BY <1>5 DEF Step
  <2>2. game.dest \in Cells /\ game.cell \in Cells
    BY <1>1, <2>1, GameType DEF MaybeAt
  <2>3. (IF game.dest > game.cell THEN game.cell + 1 ELSE game.cell - 1) \in Cells
    BY <2>1, <2>2, BotAssumption DEF Cells
  <2> QED BY <1>1, <2>1, <2>3, GameType
<1>6. CASE Heal \/ Hurt
  <2>1. /\ game' \in {[game EXCEPT !.hp = "full"], [game EXCEPT !.hp = "low"]}
        /\ Tell(<<[op |-> "stat", hp |-> "full"]>>) \/ Tell(<<[op |-> "stat", hp |-> "low"]>>)
        /\ UNCHANGED <<cmds, link>> /\ (count' = count \/ count' = count + 1)
    BY <1>6 DEF Heal, Hurt, Event
  <2>2. [op |-> "stat", hp |-> "full"] \in Messages /\ [op |-> "stat", hp |-> "low"] \in Messages
    BY ToldType
  <2> QED BY <1>1, <2>1, <2>2, TellType, GameType
<1>7. ASSUME NEW m \in Maps, Warp(m) PROVE goal
  <2>1. Entry \in Cells
    BY BotAssumption
  <2>2. [op |-> "at", map |-> m, cell |-> Entry] \in Messages
    BY <2>1, ToldType
  <2>3. game' \in Games
    <3> DEFINE g == [game EXCEPT !.map = m]
               h == [g EXCEPT !.cell = Entry]
               i == [h EXCEPT !.dest = None]
               j == [i EXCEPT !.foe = FALSE]
    <3>1. game' = [j EXCEPT !.item = FALSE]
      BY <1>7 DEF Warp
    <3>2. g \in Games
      BY <1>1, GameType
    <3> HIDE DEF g
    <3>3. h \in Games
      BY <2>1, <3>2, GameType
    <3> HIDE DEF h
    <3>4. i \in Games
      BY <3>3, GameType DEF MaybeAt
    <3> HIDE DEF i
    <3>5. j \in Games
      BY <3>4, GameType
    <3> HIDE DEF j
    <3> QED BY <3>1, <3>5, GameType
  <2>4. inbox' \in Seq(Messages) /\ Len(inbox') <= MaxInbox
    BY <1>1, <1>7, <2>2, TellType DEF Warp
  <2>5. UNCHANGED <<cmds, link>> /\ count' = count + 1
    BY <1>7 DEF Warp, Event
  <2> QED BY <1>1, <2>3, <2>4, <2>5
<1>8. ASSUME NEW c \in {Entry, bot.pending} \ {None}, OtherMoves(c) PROVE goal
  <2>1. c \in Cells
    BY <1>8, BotAssumption DEF HostOK, Bots, MaybeAt
  <2>2. [op |-> "mv", cell |-> c] \in Messages
    BY <2>1, ToldType
  <2> QED BY <1>1, <1>8, <2>2, TellType DEF OtherMoves, Event
<1>9. CASE LoseLink \/ Reconnect
  <2>1. /\ game' = game /\ inbox' = inbox /\ link' \in BOOLEAN /\ (cmds' = cmds \/ cmds' = <<>>)
        /\ count' = count \/ count' = count + 1
    BY <1>9 DEF LoseLink, Reconnect, Event
  <2>2. <<>> \in Seq(Commands) /\ Len(<<>>) <= MaxCmds
    BY EmptySeq, BotAssumption
  <2> QED BY <1>1, <2>1, <2>2
<1> QED BY <1>3, <1>4, <1>5, <1>6, <1>7, <1>8, <1>9 DEF Rules, Chance

-----------------------------------------------------------------------------
(* So the types are kept. *)

LEMMA TypeKept == TypeOK /\ [Next]_vars => TypeOK'
<1> SUFFICES ASSUME TypeOK, [Next]_vars PROVE TypeOK'
  OBVIOUS
<1>1. CASE UNCHANGED vars
  BY <1>1 DEF TypeOK, vars, host, past
<1>2. CASE TravelTick
  BY <1>2, TravelType
<1>3. CASE BotTick
  BY <1>3, BotTickType
<1> QED BY <1>1, <1>2, <1>3, UserType, DrainType, CallbackType, TimeType, WorldType DEF Next, Window

-----------------------------------------------------------------------------
(* Stop and a change of map.  StopIsFinal alone is not inductive: nothing  *)
(* in it keeps a start that waits for a position, or a call left with      *)
(* GLib, from beginning again what was stopped.                            *)

Final == halt \in {"stop", "map"} /\ left = {}
Idle  == Still /\ ~bot.located /\ later = <<>> /\ idle = 0

Halted == Final => Idle

\* What the user does ends what Stop or a change of map has begun, but for a toggle; Stop itself
\* leaves nothing, unless a callback waits.
LEMMA UserHalted ==
  ASSUME TypeOK, Halted, User
  PROVE  Halted'
<1>1. CASE Stop
  <2>1. bot' = Stopped(bot) /\ trip' = NoTrip /\ UNCHANGED <<later, idle>>
    BY <1>1 DEF Stop, StopBot
  <2>2. left' = {} => later = <<>> /\ ~(idle > 0)
    BY <1>1 DEF Stop, Pending
  <2>3. bot \in Bots /\ idle \in 0 .. 1
    BY DEF TypeOK
  <2>4. left' = {} => Idle'
    BY <2>1, <2>2, <2>3, StoppedType, BeginType DEF Idle, Still
  <2> QED BY <2>4 DEF Halted, Final
<1>2. CASE \E kind \in Flipped : Flip(kind)
  <2>1. UNCHANGED <<halt, left, bot, trip, later, idle>>
    BY <1>2 DEF Flip, past
  <2> QED BY <2>1 DEF Halted, Final, Idle, Still
<1>3. CASE ~Stop /\ ~\E kind \in Flipped : Flip(kind)
  <2>1. halt' = "no"
    BY <1>3 DEF User, Click, Undo, DrawPath, ClearPath, Start, LoadConfig, Acts
  <2> QED BY <2>1 DEF Halted, Final
<1> QED BY <1>1, <1>2, <1>3

\* A change to another map stops the bot, wherever it is, and the walk.
LEMMA ChangesToStops ==
  ASSUME TypeOK, NEW m \in Gridded \ {view.grid}, ChangesTo(m)
  PROVE  trip' = NoTrip /\ ~bot'.running /\ (~bot.located => ~bot'.located)
<1>1. bot \in Bots /\ Stopped(bot) \in Bots /\ ~Stopped(bot).running /\ ~Stopped(bot).located
  BY StoppedType DEF TypeOK
<1>2. CASE bot.running
  <2>1. bot' = [Stopped(bot) EXCEPT !.goals = <<>>, !.index = 1] /\ trip' = NoTrip
    BY <1>2 DEF ChangesTo
  <2> QED BY <1>1, <2>1 DEF Bots
<1>3. CASE ~bot.running
  <2>1. bot' = [bot EXCEPT !.goals = <<>>, !.index = 1, !.pending = None, !.age = 0] /\ trip' = NoTrip
    BY <1>3 DEF ChangesTo
  <2> QED BY <1>1, <1>3, <2>1 DEF Bots
<1> QED BY <1>2, <1>3

LEMMA MapHalted ==
  ASSUME TypeOK, NEW m \in Gridded \ {view.grid}, ChangesTo(m),
         halt' = "map", left' = Pending({"later", "idle", "located"}), UNCHANGED <<later, idle>>
  PROVE  Halted'
<1>1. left' = {} => later = <<>> /\ ~(idle > 0) /\ ~bot.located
  BY DEF Pending
<1>2. idle \in 0 .. 1
  BY DEF TypeOK
<1>3. left' = {} => Idle'
  BY <1>1, <1>2, ChangesToStops, BeginType DEF Idle, Still
<1> QED BY <1>3 DEF Halted, Final

LEMMA DrainHalted ==
  ASSUME TypeOK, Halted, Drain \/ (\E m \in Maps : DetectMap(m))
  PROVE  Halted'
<1>1. CASE DrainMap
  <2> DEFINE m == Head(inbox).map
  <2>1. /\ ChangesTo(m) /\ UNCHANGED <<later, idle>>
        /\ IF m \notin Gridded \ {view.grid} THEN UNCHANGED <<halt, left>>
           ELSE halt' = "map" /\ left' = Pending({"later", "idle", "located"})
    BY <1>1 DEF DrainMap, Drained
  <2>2. CASE m \in Gridded \ {view.grid}
    BY <2>1, <2>2, MapHalted
  <2>3. CASE m \notin Gridded \ {view.grid}
    <3>1. UNCHANGED <<bot, trip, later, idle, halt, left>>
      BY <2>1, <2>3 DEF ChangesTo
    <3> QED BY <3>1 DEF Halted, Final, Idle, Still
  <2> QED BY <2>2, <2>3
<1>2. CASE DrainOther
  <2>1. UNCHANGED <<trip, later, idle, halt, left>>
    BY <1>2 DEF DrainOther, Drained
  <2>2. bot' = bot \/ bot' = [bot EXCEPT !.seen = Head(inbox).cell = bot.pending]
    BY <1>2 DEF DrainOther
  <2>3. bot'.running = bot.running /\ bot'.located = bot.located
    BY <2>2 DEF TypeOK, Bots
  <2> QED BY <2>1, <2>3 DEF Halted, Final, Idle, Still
<1>3. ASSUME NEW m \in Maps, DetectMap(m) PROVE Halted'
  BY <1>3, MapHalted DEF DetectMap
<1> QED BY <1>1, <1>2, <1>3 DEF Drain

\* What may start or go on with something finds nothing to do when all is idle.
LEMMA GoesOnHalted ==
  ASSUME Halted, StartLocated \/ StandUpOver \/ IdleStart \/ TravelTick \/ BotTick
  PROVE  Halted'
<1>1. ~Idle /\ UNCHANGED <<halt, left>>
  <2>1. CASE StartLocated
    BY <2>1 DEF StartLocated, Idle
  <2>2. CASE StandUpOver
    BY <2>2 DEF StandUpOver, Idle, Quiet
  <2>3. CASE IdleStart
    BY <2>3 DEF IdleStart, Idle, Quiet
  <2>4. CASE TravelTick
    BY <2>4 DEF TravelTick, Idle, Still, Quiet
  <2>5. CASE BotTick
    BY <2>5, TickFrame DEF Idle, Still
  <2> QED BY <2>1, <2>2, <2>3, <2>4, <2>5
<1> QED BY <1>1 DEF Halted, Final

\* Time, the game and the network touch neither what waits nor what runs.
LEMMA AsideHalted ==
  ASSUME TypeOK, Halted, Time \/ Answer \/ Rules \/ Chance \/ UNCHANGED vars
  PROVE  Halted'
<1>1. UNCHANGED <<later, idle, halt, left>> /\ (trip' = trip \/ trip' = [trip EXCEPT !.age = @ + 1])
      /\ (bot' = bot \/ bot' = [bot EXCEPT !.age = @ + 1])
  <2>1. CASE Time
    BY <2>1 DEF Time, Elapse, BotAges, TripAges, PosGoesStale, Passes, World
  <2>2. CASE Answer \/ Rules \/ Chance
    BY <2>2, WorldFrame
  <2>3. CASE UNCHANGED vars
    BY <2>3 DEF vars, host, past
  <2> QED BY <2>1, <2>2, <2>3
<1>2. bot'.running = bot.running /\ bot'.located = bot.located
  BY <1>1 DEF TypeOK, Bots
<1>3. trip'.on = trip.on
  BY <1>1 DEF TypeOK, Trips
<1> QED BY <1>1, <1>2, <1>3 DEF Halted, Final, Idle, Still

LEMMA HaltedKept == TypeOK /\ Halted /\ [Next]_vars => Halted'
  BY UserHalted, DrainHalted, GoesOnHalted, AsideHalted DEF Next, Window

-----------------------------------------------------------------------------
(* The reasons a running bot has to stop. *)

\* Walks that timed out are counted, and every goal before the one the bot is at, and that one
\* once it walks there, has been walked to or stood on.
Led == /\ bot.rejected <= streak
       /\ bot.running =>
            \A i \in 1 .. Len(bot.goals) :
              i < bot.index \/ (i = bot.index /\ bot.pending # None) => i \in ordered

\* What is left of Led for a bot that keeps its goals and does not go ahead.
Same(b) == /\ b.rejected = bot.rejected /\ b.goals = bot.goals /\ b.index = bot.index
           /\ b.running => bot.running
           /\ b.pending \in {None, bot.pending}

LEMMA SameLed ==
  ASSUME TypeOK, Led, Same(bot'), UNCHANGED streak, ordered \subseteq ordered'
  PROVE  Led'
<1>1. bot'.rejected <= streak'
  BY DEF Led, Same
<1>2. ASSUME bot'.running
      PROVE  \A i \in 1 .. Len(bot'.goals) :
               i < bot'.index \/ (i = bot'.index /\ bot'.pending # None) => i \in ordered'
  <2>1. bot.running /\ bot'.goals = bot.goals /\ bot'.index = bot.index /\ bot'.pending \in {None, bot.pending}
    BY <1>2 DEF Same
  <2> QED BY <2>1 DEF Led
<1> QED BY <1>1, <1>2 DEF Led

\* A bot that does not run has nothing to account for but its walks that timed out.
LEMMA StillLed ==
  ASSUME ~bot'.running, bot'.rejected <= streak'
  PROVE  Led'
  BY DEF Led

LEMMA InitLed == Init => Led
<1> SUFFICES ASSUME Init PROVE Led
  OBVIOUS
<1>1. PICK setup \in Setups :
        /\ opt = setup.opt /\ ui = setup.ui /\ bot = IF setup.running THEN Begun ELSE NewBot
  BY DEF Init
<1>2. streak = 0 /\ ui \in Drawings
  BY <1>1, SetupsAssumption DEF Init
<1>3. CASE ~setup.running
  BY <1>1, <1>2, <1>3 DEF NewBot, Led
<1>4. CASE setup.running
  <2>1. /\ bot = Begun /\ bot.rejected = 0 /\ bot.index = 1 /\ bot.pending = None
        /\ bot.goals = (IF ui.path # <<>> THEN Legs(ui.path) ELSE ui.way)
    BY <1>1, <1>4 DEF Begun, NewBot
  <2>2. \A i \in 1 .. Len(bot.goals) : ~(i < 1)
    <3>1. Len(bot.goals) \in Nat
      BY <1>2, <2>1, BeginType DEF Bots
    <3> QED BY <3>1
  <2> QED BY <1>2, <2>1, <2>2 DEF Led
<1> QED BY <1>3, <1>4

\* Back to the first goal: it is behind the bot, or the one it walks to.
LEMMA ResetLed ==
  ASSUME TypeOK, Led, bot'.goals = bot.goals, bot'.rejected = bot.rejected, bot'.running = bot.running,
         bot'.index = 1, bot'.pending \in {None, bot.pending}, UNCHANGED <<streak, ordered>>
  PROVE  Led'
<1>1. bot.index \in Nat \ {0} /\ bot.goals \in Seq(Cells)
  BY DEF TypeOK, Bots
<1>2. ASSUME bot.running, NEW i \in 1 .. Len(bot.goals), i < 1 \/ (i = 1 /\ bot'.pending # None)
      PROVE  i \in ordered
  <2>1. i = 1 /\ bot.pending # None
    BY <1>1, <1>2
  <2>2. i < bot.index \/ i = bot.index
    BY <1>1, <2>1
  <2> QED BY <1>2, <2>1, <2>2 DEF Led
<1> QED BY <1>2 DEF Led

\* The bot that _advance_path leaves: all the goals up to the one it was at are behind it.
LEMMA AdvanceLed ==
  ASSUME NEW b \in Bots, b.goals = bot.goals, b.pending = None, b.rejected <= streak', bot' = Advance(b),
         \A i \in 1 .. Len(b.goals) : i <= b.index => i \in ordered'
  PROVE  /\ Led'
         /\ b.running /\ ~bot'.running => ~opt.loop /\ DOMAIN bot.goals \subseteq ordered'
<1>1. b.index \in Nat \ {0} /\ b.goals \in Seq(Cells) /\ Len(b.goals) \in Nat
  BY DEF Bots
<1>2. CASE b.index < Len(b.goals)
  <2>1. bot' = [b EXCEPT !.index = b.index + 1]
    BY <1>2 DEF Advance
  <2>2. /\ bot'.running = b.running /\ bot'.goals = b.goals /\ bot'.index = b.index + 1 /\ bot'.pending = None
        /\ bot'.rejected = b.rejected
    BY <2>1 DEF Bots
  <2>3. \A i \in 1 .. Len(b.goals) : i < b.index + 1 => i <= b.index
    BY <1>1
  <2> QED BY <2>2, <2>3 DEF Led
<1>3. CASE ~(b.index < Len(b.goals)) /\ opt.loop
  <2>1. bot' = [b EXCEPT !.index = 1]
    BY <1>3 DEF Advance
  <2>2. /\ bot'.running = b.running /\ bot'.goals = b.goals /\ bot'.index = 1 /\ bot'.pending = None
        /\ bot'.rejected = b.rejected
    BY <2>1 DEF Bots
  <2>3. \A i \in 1 .. Len(b.goals) : ~(i < 1)
    BY <1>1
  <2> QED BY <2>2, <2>3 DEF Led
<1>4. CASE ~(b.index < Len(b.goals)) /\ ~opt.loop
  <2>1. bot' = Stopped([b EXCEPT !.index = b.index + 1])
    BY <1>4 DEF Advance, PathFinished
  <2>2. ~bot'.running /\ bot'.rejected = b.rejected
    BY <2>1 DEF Stopped, Bots
  <2>3. \A i \in 1 .. Len(b.goals) : i <= b.index
    BY <1>1, <1>4
  <2>4. DOMAIN bot.goals = 1 .. Len(b.goals)
    BY <1>1
  <2> QED BY <1>4, <2>2, <2>3, <2>4, StillLed
<1> QED BY <1>2, <1>3, <1>4

LEMMA StartBotLed ==
  ASSUME TypeOK, Led, NEW b \in {bot, [bot EXCEPT !.located = FALSE]}, StartBot(b)
  PROVE  Led' /\ (bot.running => bot'.running)
<1>1. /\ b \in Bots /\ b.running = bot.running /\ b.goals = bot.goals /\ b.index = bot.index
      /\ b.pending = bot.pending /\ b.rejected = bot.rejected
  <2>1. bot \in Bots
    BY DEF TypeOK
  <2>2. b \in Bots
    BY <2>1, BotType
  <2>3. CASE b = [bot EXCEPT !.located = FALSE]
    BY <2>1, <2>2, <2>3 DEF Bots
  <2> QED BY <2>2, <2>3
<1>2. CASE bot' \in {b, [b EXCEPT !.located = TRUE], [b EXCEPT !.located = FALSE]} /\ UNCHANGED <<streak, ordered>>
  <2>1. /\ bot'.running = b.running /\ bot'.goals = b.goals /\ bot'.index = b.index
        /\ bot'.pending = b.pending /\ bot'.rejected = b.rejected
    <3>1. ASSUME NEW v \in BOOLEAN, bot' = [b EXCEPT !.located = v]
          PROVE  /\ bot'.running = b.running /\ bot'.goals = b.goals /\ bot'.index = b.index
                 /\ bot'.pending = b.pending /\ bot'.rejected = b.rejected
      BY <1>1, <3>1 DEF Bots
    <3> QED BY <1>2, <3>1
  <2> QED BY <1>1, <1>2, <2>1, SameLed DEF Same
<1>3. CASE bot' = [Begun EXCEPT !.located = b.located] /\ streak' = 0 /\ ordered' = {} /\ ~b.running
  <2>1. /\ bot'.running /\ bot'.rejected = 0 /\ bot'.index = 1 /\ bot'.pending = None
        /\ bot'.goals = (IF ui.path # <<>> THEN Legs(ui.path) ELSE ui.way)
    BY <1>3 DEF Begun, NewBot
  <2>2. ui \in Drawings
    BY DEF TypeOK
  <2>3. bot'.goals \in Seq(Cells)
    BY <2>1, <2>2, LegsType DEF Drawings
  <2>4. \A i \in 1 .. Len(bot'.goals) : ~(i < bot'.index)
    BY <2>1, <2>3
  <2>5. bot'.rejected <= streak'
    BY <1>3, <2>1
  <2> QED BY <1>1, <1>3, <2>1, <2>4, <2>5 DEF Led
<1> QED BY <1>2, <1>3 DEF StartBot

\* Why a bot stops, as StopsForAReason has it.
Reason == bot.running /\ ~bot'.running =>
            Interrupted \/ RouteDone \/ NothingToDo \/ ChaseTakenForRoute

LEMMA UserLed ==
  ASSUME TypeOK, Led, User
  PROVE  Led' /\ Reason
<1>1. bot \in Bots /\ count \in Nat
  BY DEF TypeOK
<1>2. Reason
  <2>1. count' = count + 1
    BY DEF User, Click, Undo, DrawPath, ClearPath, Start, Stop, LoadConfig, Flip, Acts, Event
  <2> QED BY <1>1, <2>1 DEF Reason, Interrupted
<1>3. CASE \E c \in Clicked : Click(c)
  <2>1. UNCHANGED <<streak, ordered>> /\ (bot' = bot \/ bot' = [bot EXCEPT !.index = 1])
    BY <1>3 DEF Click, ResetIndex
  <2>2. CASE bot' = bot
    BY <1>2, <2>1, <2>2, SameLed DEF Same
  <2>3. CASE bot' = [bot EXCEPT !.index = 1]
    <3>1. /\ bot'.goals = bot.goals /\ bot'.rejected = bot.rejected /\ bot'.running = bot.running
          /\ bot'.index = 1 /\ bot'.pending = bot.pending
      BY <1>1, <2>3 DEF Bots
    <3> QED BY <1>2, <2>1, <3>1, ResetLed
  <2> QED BY <2>1, <2>2, <2>3
<1>4. CASE Undo \/ ClearPath
  <2>1. /\ UNCHANGED <<streak, ordered>>
        /\ \/ bot' = [bot EXCEPT !.index = 1]
           \/ bot' = [bot EXCEPT !.index = 1, !.pending = None, !.age = 0, !.seen = FALSE]
    BY <1>4 DEF Undo, ClearPath, ResetIndex
  <2>2. /\ bot'.goals = bot.goals /\ bot'.rejected = bot.rejected /\ bot'.running = bot.running
        /\ bot'.index = 1 /\ bot'.pending \in {None, bot.pending}
    BY <1>1, <2>1 DEF Bots
  <2> QED BY <1>2, <2>1, <2>2, ResetLed
<1>5. CASE DrawPath \/ \E kind \in Flipped : Flip(kind)
  BY <1>2, <1>5, SameLed DEF DrawPath, Flip, past, Same
<1>6. CASE Start
  BY <1>2, <1>6, StartBotLed DEF Start
<1>7. CASE Stop \/ \E o \in Options : LoadConfig(o)
  <2>1. /\ UNCHANGED streak
        /\ \/ bot' = Stopped(bot)
           \/ ~bot.running /\ bot' = [bot EXCEPT !.pending = None, !.age = 0]
    BY <1>7 DEF Stop, StopBot, LoadConfig
  <2>2. ~bot'.running /\ bot'.rejected = bot.rejected
    BY <1>1, <2>1 DEF Stopped, Bots
  <2> QED BY <1>2, <2>1, <2>2, StillLed DEF Led
<1> QED BY <1>3, <1>4, <1>5, <1>6, <1>7 DEF User

LEMMA DrainLed ==
  ASSUME TypeOK, Led, Drain \/ (\E m \in Maps : DetectMap(m))
  PROVE  Led' /\ Reason
<1>1. bot \in Bots /\ view \in Views
  BY DEF TypeOK
<1>2. ASSUME NEW m, ChangesTo(m), UNCHANGED <<streak, ordered>>
      PROVE  Led' /\ (bot.running /\ ~bot'.running => m \in Gridded /\ m # view.grid)
  <2>1. CASE m \in Gridded \ {view.grid}
    <3>1. \/ bot' = [Stopped(bot) EXCEPT !.goals = <<>>, !.index = 1]
          \/ ~bot.running /\ bot' = [bot EXCEPT !.goals = <<>>, !.index = 1, !.pending = None, !.age = 0]
      BY <1>2, <2>1 DEF ChangesTo
    <3>2. ~bot'.running /\ bot'.rejected = bot.rejected
      BY <1>1, <3>1 DEF Stopped, Bots
    <3> QED BY <1>2, <2>1, <3>2, StillLed DEF Led
  <2>2. CASE m \notin Gridded \ {view.grid}
    <3>1. bot' = bot
      BY <1>2, <2>2 DEF ChangesTo
    <3> QED BY <1>2, <3>1, SameLed DEF Same
  <2> QED BY <2>1, <2>2
<1>3. CASE DrainMap
  <2> DEFINE m == Head(inbox).map
  <2>1. ChangesTo(m) /\ UNCHANGED <<streak, ordered>>
    BY <1>3 DEF DrainMap, Drained
  <2>2. m \in Gridded => view'.grid = m
    <3>1. view' = [view EXCEPT !.map = m, !.grid = IF m \in Gridded THEN m ELSE @,
                               !.pos = Head(inbox).cell, !.char = TRUE, !.foe = FALSE, !.item = FALSE]
      BY <1>3 DEF DrainMap
    <3> HIDE DEF m
    <3> QED BY <1>1, <3>1 DEF Views
  <2> HIDE DEF m
  <2> QED BY <1>2, <2>1, <2>2 DEF Reason, Interrupted
<1>4. CASE DrainOther
  <2>1. /\ bot' = bot \/ bot' = [bot EXCEPT !.seen = Head(inbox).cell = bot.pending]
        /\ UNCHANGED <<streak, ordered>>
    BY <1>4 DEF DrainOther, Drained
  <2>2. /\ bot'.running = bot.running /\ bot'.goals = bot.goals /\ bot'.index = bot.index
        /\ bot'.pending = bot.pending /\ bot'.rejected = bot.rejected
    BY <1>1, <2>1 DEF Bots
  <2> QED BY <2>1, <2>2, SameLed DEF Same, Reason
<1>5. ASSUME NEW m \in Maps, DetectMap(m) PROVE Led' /\ Reason
  <2>1. ChangesTo(m) /\ UNCHANGED <<streak, ordered>> /\ count' = count + 1
    BY <1>5 DEF DetectMap, Event
  <2>2. count' > count
    BY <2>1 DEF TypeOK
  <2> QED BY <1>2, <2>1, <2>2 DEF Reason, Interrupted
<1> QED BY <1>3, <1>4, <1>5 DEF Drain

LEMMA GoesOnLed ==
  ASSUME TypeOK, Led, StartLocated \/ StandUpOver \/ IdleStart \/ TravelTick
  PROVE  Led' /\ Reason
<1>1. CASE StartLocated
  <2>1. StartBot([bot EXCEPT !.located = FALSE])
    BY <1>1 DEF StartLocated
  <2> QED BY <2>1, StartBotLed DEF Reason
<1>2. CASE IdleStart
  <2>1. StartBot(bot)
    BY <1>2 DEF IdleStart
  <2> QED BY <2>1, StartBotLed DEF Reason
<1>3. CASE StandUpOver \/ TravelTick
  <2>1. UNCHANGED <<bot, streak, ordered>>
    BY <1>3 DEF StandUpOver, TravelTick
  <2> QED BY <2>1, SameLed DEF Same, Reason
<1> QED BY <1>1, <1>2, <1>3

LEMMA AsideLed ==
  ASSUME TypeOK, Led, Time \/ Answer \/ Rules \/ Chance \/ UNCHANGED vars
  PROVE  Led' /\ Reason
<1>1. UNCHANGED <<streak, ordered>> /\ (bot' = bot \/ bot' = [bot EXCEPT !.age = @ + 1])
  <2>1. CASE Time
    BY <2>1 DEF Time, Elapse, BotAges, TripAges, PosGoesStale, Passes, World
  <2>2. CASE Answer \/ Rules \/ Chance
    BY <2>2, WorldFrame
  <2>3. CASE UNCHANGED vars
    BY <2>3 DEF vars, host, past
  <2> QED BY <2>1, <2>2, <2>3
<1>2. /\ bot'.running = bot.running /\ bot'.goals = bot.goals /\ bot'.index = bot.index
      /\ bot'.pending = bot.pending /\ bot'.rejected = bot.rejected
  BY <1>1 DEF TypeOK, Bots
<1> QED BY <1>1, <1>2, SameLed DEF Same, Reason

LEMMA WalkingLed ==
  ASSUME TypeOK, Led, TickWalking
  PROVE  Led' /\ Reason
<1>1. bot \in Bots /\ streak \in Nat /\ bot.running /\ bot.pending # None /\ UNCHANGED ordered
  BY DEF TypeOK, TickWalking, Ticks, Quiet
<1>2. bot.index \in Nat \ {0} /\ bot.rejected \in Nat
  BY <1>1 DEF Bots
<1>3. \A i \in 1 .. Len(bot.goals) : i <= bot.index => i \in ordered
  <2>1. \A i \in 1 .. Len(bot.goals) : i <= bot.index => i < bot.index \/ i = bot.index
    BY <1>2
  <2> QED BY <1>1, <2>1 DEF Led
<1>4. ~opt.loop /\ DOMAIN bot.goals \subseteq ordered' => RouteDone \/ ChaseTakenForRoute
  BY <1>1 DEF RouteDone, ChaseTakenForRoute
<1>5. /\ Zero \in Bots /\ Zero.goals = bot.goals /\ Zero.pending = None /\ Zero.rejected = 0
      /\ Zero.index = bot.index /\ Zero.running
  BY <1>1, AgainType DEF Zero, Left, Awake, Bots
<1>6. /\ Again \in Bots /\ Again.goals = bot.goals /\ Again.pending = None /\ Again.rejected = bot.rejected + 1
      /\ Again.index = bot.index /\ Again.running
  BY <1>1, AgainType DEF Again, Left, Awake, Bots
<1>7. CASE Became(Advance(Zero)) /\ streak' = 0
  <2>1. bot' = Advance(Zero)
    BY <1>7 DEF Became
  <2> QED BY <1>1, <1>3, <1>4, <1>5, <1>7, <2>1, AdvanceLed DEF Reason
<1>8. CASE Became(Awake) /\ streak' = streak
  <2>1. bot' = Awake
    BY <1>8 DEF Became
  <2> QED BY <1>1, <1>8, <2>1, AwakeType, SameLed DEF Same, Reason
<1>9. CASE /\ streak' = streak + 1
           /\ Became(IF Again.rejected >= 3 THEN Stopped(Again) ELSE Advance(Again))
  <2>1. bot' = IF Again.rejected >= 3 THEN Stopped(Again) ELSE Advance(Again)
    BY <1>9 DEF Became
  <2>2. Again.rejected <= streak'
    BY <1>1, <1>2, <1>6, <1>9 DEF Led
  <2>3. CASE Again.rejected >= 3
    <3>1. ~bot'.running /\ bot'.rejected = Again.rejected
      BY <1>6, <2>1, <2>3 DEF Stopped, Bots
    <3>2. streak' >= 3
      BY <1>1, <1>2, <1>6, <1>9, <2>2, <2>3
    <3> QED BY <2>2, <3>1, <3>2, StillLed DEF Reason, Interrupted
  <2>4. CASE ~(Again.rejected >= 3)
    <3>1. bot' = Advance(Again)
      BY <2>1, <2>4
    <3> QED BY <1>1, <1>3, <1>4, <1>6, <2>2, <3>1, AdvanceLed DEF Reason
  <2> QED BY <2>3, <2>4
<1> QED BY <1>7, <1>8, <1>9, WalkingShape

LEMMA RouteLed ==
  ASSUME TypeOK, Led, TickRoute
  PROVE  Led' /\ Reason
<1>1. /\ bot \in Bots /\ streak \in Nat /\ bot.running /\ bot.pending = None /\ bot.goals # <<>>
      /\ UNCHANGED streak
  BY DEF TypeOK, TickRoute, Idles, Free, Ticks, Quiet
<1>2. bot.index \in Nat \ {0} /\ Len(bot.goals) \in Nat /\ bot.goals \in Seq(Cells)
  BY <1>1 DEF Bots
<1>3. \A i \in 1 .. Len(bot.goals) : i < bot.index => i \in ordered
  BY <1>1 DEF Led
<1>4. \A i \in 1 .. Len(bot.goals) : i < At => i \in ordered
  <2>1. At <= bot.index /\ At \in Nat
    BY <1>2 DEF At
  <2> QED BY <1>2, <1>3, <2>1
<1>5. /\ At \in 1 .. Len(bot.goals) /\ Back \in Bots /\ Back.running /\ Back.goals = bot.goals
      /\ Back.index = At /\ Back.pending = None /\ Back.rejected = bot.rejected
  BY <1>1, AtType
<1>6. bot.rejected <= streak'
  BY <1>1 DEF Led
<1>7. CASE bot.index > Len(bot.goals) /\ ~opt.loop /\ Became(PathFinished(bot)) /\ UNCHANGED <<cmds, ordered>>
  <2>1. bot' = Stopped(bot)
    BY <1>7 DEF Became, PathFinished
  <2>2. ~bot'.running /\ bot'.rejected = bot.rejected
    BY <1>1, <2>1 DEF Stopped, Bots
  <2>3. DOMAIN bot.goals = 1 .. Len(bot.goals)
    BY <1>2
  <2>4. \A i \in 1 .. Len(bot.goals) : i \in ordered
    BY <1>2, <1>3, <1>7
  <2> QED BY <1>1, <1>6, <1>7, <2>2, <2>3, <2>4, StillLed DEF Reason, RouteDone
<1>8. CASE Became(Advance(Back)) /\ ordered' = ordered \cup {At} /\ UNCHANGED cmds
  <2>1. bot' = Advance(Back)
    BY <1>8 DEF Became
  <2>2. \A i \in 1 .. Len(bot.goals) : i <= At => i < At \/ i = At
    BY <1>2, <1>5
  <2>3. \A i \in 1 .. Len(bot.goals) : i <= At => i \in ordered'
    BY <1>4, <1>8, <2>2
  <2> QED BY <1>1, <1>5, <1>6, <2>1, <2>3, AdvanceLed DEF Reason, RouteDone
<1>9. CASE Became(Back) /\ UNCHANGED <<cmds, ordered>>
  <2>1. bot' = Back
    BY <1>9 DEF Became
  <2> QED BY <1>1, <1>4, <1>5, <1>6, <1>9, <2>1 DEF Led, Reason
<1>10. CASE Became(Walking(Back, bot.goals[At])) /\ ordered' = ordered \cup {At}
  <2>1. bot' = Walking(Back, bot.goals[At])
    BY <1>10 DEF Became
  <2>2. bot'.running /\ bot'.goals = bot.goals /\ bot'.index = At /\ bot'.rejected = bot.rejected
    BY <1>5, <2>1 DEF Walking, Bots
  <2> QED BY <1>1, <1>4, <1>6, <1>10, <2>2 DEF Led, Reason
<1> QED BY <1>7, <1>8, <1>9, <1>10, RouteShape

LEMMA BotTickLed ==
  ASSUME TypeOK, Led, BotTick
  PROVE  Led' /\ Reason
<1>1. bot \in Bots /\ bot.running
  BY TickFrame DEF TypeOK
<1>2. CASE TickUnlinked
  <2>1. bot' = Stopped(bot) /\ ~link /\ UNCHANGED streak
    BY <1>2 DEF TickUnlinked, StopBot
  <2>2. ~bot'.running /\ bot'.rejected = bot.rejected
    BY <1>1, <2>1 DEF Stopped, Bots
  <2> QED BY <2>1, <2>2, StillLed DEF Led, Reason, Interrupted
<1>3. ASSUME Same(bot'), bot'.running, UNCHANGED <<streak, ordered>> PROVE Led' /\ Reason
  BY <1>3, SameLed DEF Reason
<1>4. CASE TickResume \/ TickRecover
  <2>1. /\ \/ bot' = bot \/ bot' = [bot EXCEPT !.recovering = FALSE]
           \/ bot' = [bot EXCEPT !.recovering = TRUE, !.pending = None, !.age = 0, !.seen = FALSE]
        /\ UNCHANGED <<streak, ordered>>
    BY <1>4 DEF TickResume, TickRecover
  <2>2. Same(bot') /\ bot'.running
    BY <1>1, <2>1 DEF Same, Bots
  <2> QED BY <1>3, <2>1, <2>2
<1>5. CASE TickStand \/ TickPickup \/ TickFight
  <2>1. /\ bot' = Awake \/ bot' = [Awake EXCEPT !.tries = @ + 1]
        /\ UNCHANGED <<streak, ordered>>
    BY <1>5 DEF TickStand, TickPickup, TickFight
  <2>2. Same(bot') /\ bot'.running
    BY <1>1, <2>1 DEF Same, Awake, Bots
  <2> QED BY <1>3, <2>1, <2>2
<1>6. CASE TickChase
  <2>1. bot.goals = <<>> /\ UNCHANGED <<streak, ordered>>
        /\ (bot' = Awake \/ \E leg : bot' = Walking(Awake, leg))
    BY <1>6 DEF TickChase, Chases
  <2>2. bot'.goals = <<>> /\ bot'.running /\ bot'.rejected = bot.rejected
    BY <1>1, <2>1 DEF Walking, Awake, Bots
  <2>3. 1 .. Len(bot'.goals) = {}
    <3>1. Len(bot'.goals) = 0
      BY <2>2
    <3> QED BY <3>1
  <2> QED BY <2>1, <2>2, <2>3 DEF Led, Reason
<1>7. CASE TickStays
  <2>1. /\ bot.goals = <<>> /\ bot.pending = None /\ UNCHANGED <<streak, ordered>>
        /\ bot' = IF Stationary THEN Awake ELSE Stopped(bot)
    BY <1>7 DEF TickStays, Idles, Free, Became, PathFinished
  <2>2. CASE Stationary
    BY <1>1, <1>3, <2>1, <2>2, AwakeType DEF Same
  <2>3. CASE ~Stationary
    <3>1. ~bot'.running /\ bot'.rejected = bot.rejected
      BY <1>1, <2>1, <2>3 DEF Stopped, Bots
    <3> QED BY <2>1, <2>3, <3>1, StillLed DEF Led, Reason, NothingToDo
  <2> QED BY <2>2, <2>3
<1> QED BY <1>2, <1>4, <1>5, <1>6, <1>7, WalkingLed, RouteLed DEF BotTick, Stages

LEMMA LedKept == TypeOK /\ Led /\ [Next]_vars => Led' /\ Reason
<1> SUFFICES ASSUME TypeOK, Led, [Next]_vars PROVE Led' /\ Reason
  OBVIOUS
<1>1. CASE UNCHANGED vars \/ Time \/ Answer \/ Rules \/ Chance
  BY <1>1, AsideLed
<1>2. CASE User
  BY <1>2, UserLed
<1>3. CASE Window
  BY <1>3, DrainLed, GoesOnLed, BotTickLed DEF Window
<1> QED BY <1>1, <1>2, <1>3 DEF Next

-----------------------------------------------------------------------------
(* The rest packet.  The server's answer is on its way in one queue or the *)
(* other, and until it is read the window knows the posture there was      *)
(* before: Known.                                                          *)

Rests(s) == {i \in DOMAIN s : s[i].op = "rest"}
Asked    == Rests(cmds) # {} \/ Rests(inbox) # {}
Known    == IF Rests(inbox) # {} THEN ~game.sitting ELSE game.sitting

AtMostOne ==
  /\ \A i, j \in Rests(cmds) : i = j
  /\ \A i, j \in Rests(inbox) : i = j
  /\ Rests(cmds) = {} \/ Rests(inbox) = {}

\* A position tells the posture of its own time: before the answer the old one.
PostureTrue ==
  /\ view.resting \in {"unknown", Posture(Known)}
  /\ \A i \in Rests(inbox) : inbox[i].sitting = game.sitting
  /\ \A i \in DOMAIN inbox : inbox[i].op = "pos" =>
       inbox[i].sitting = IF \E j \in Rests(inbox) : j < i THEN game.sitting ELSE Known

\* A bot that runs while a rest is on its way has the deadline of the one it sent.
DriverWaits == bot.running /\ Asked => ("stand" \in waits /\ Known) \/ ("sit" \in waits /\ ~Known)

Linked == ~link => cmds = <<>>
Once   == mishaps = {} => AtMostOne /\ PostureTrue /\ DriverWaits

LEMMA RestsConcat ==
  ASSUME NEW S, NEW s \in Seq(S), NEW t \in Seq(S), Rests(t) = {}
  PROVE  Rests(s \o t) = Rests(s)
<1>1. /\ s \o t \in Seq(S) /\ Len(s \o t) = Len(s) + Len(t) /\ Len(s) \in Nat /\ Len(t) \in Nat
      /\ \A i \in 1 .. Len(s) + Len(t) : (s \o t)[i] = IF i <= Len(s) THEN s[i] ELSE t[i - Len(s)]
  BY ConcatProperties
<1>2. DOMAIN (s \o t) = 1 .. Len(s) + Len(t) /\ DOMAIN s = 1 .. Len(s) /\ DOMAIN t = 1 .. Len(t)
  BY <1>1, LenProperties
<1>3. ASSUME NEW i \in Rests(s \o t) PROVE i \in Rests(s)
  <2>1. i \in 1 .. Len(s) + Len(t) /\ (s \o t)[i].op = "rest"
    BY <1>2 DEF Rests
  <2>2. i <= Len(s)
    <3>1. ASSUME ~(i <= Len(s)) PROVE FALSE
      <4>1. i - Len(s) \in 1 .. Len(t) /\ t[i - Len(s)].op = "rest"
        BY <1>1, <2>1, <3>1
      <4> QED BY <1>2, <4>1 DEF Rests
    <3> QED BY <3>1
  <2>3. i \in 1 .. Len(s) /\ s[i].op = "rest"
    BY <1>1, <2>1, <2>2
  <2> QED BY <1>2, <2>3 DEF Rests
<1>4. ASSUME NEW i \in Rests(s) PROVE i \in Rests(s \o t)
  <2>1. i \in 1 .. Len(s) /\ s[i].op = "rest"
    BY <1>2 DEF Rests
  <2>2. i \in 1 .. Len(s) + Len(t) /\ i <= Len(s)
    BY <1>1, <2>1
  <2>3. (s \o t)[i].op = "rest"
    BY <1>1, <2>1, <2>2
  <2> QED BY <1>2, <2>2, <2>3 DEF Rests
<1> QED BY <1>3, <1>4

LEMMA RestsAppend ==
  ASSUME NEW S, NEW s \in Seq(S), NEW m \in S
  PROVE  /\ s \o <<m>> \in Seq(S) /\ Len(s \o <<m>>) = Len(s) + 1 /\ DOMAIN (s \o <<m>>) = 1 .. Len(s) + 1
         /\ DOMAIN s = 1 .. Len(s) /\ Len(s) \in Nat
         /\ \A i \in DOMAIN s : i \in DOMAIN (s \o <<m>>) /\ (s \o <<m>>)[i] = s[i] /\ i < Len(s) + 1
         /\ (s \o <<m>>)[Len(s) + 1] = m
         /\ Rests(s \o <<m>>) = Rests(s) \cup (IF m.op = "rest" THEN {Len(s) + 1} ELSE {})
<1> DEFINE t == s \o <<m>>
<1>1. <<m>> \in Seq(S) /\ Len(<<m>>) = 1 /\ <<m>>[1] = m
  OBVIOUS
<1>2. /\ t \in Seq(S) /\ Len(t) = Len(s) + 1 /\ Len(s) \in Nat
      /\ \A i \in 1 .. Len(s) + 1 : t[i] = IF i <= Len(s) THEN s[i] ELSE <<m>>[i - Len(s)]
  BY <1>1, ConcatProperties
<1>3. DOMAIN t = 1 .. Len(s) + 1 /\ DOMAIN s = 1 .. Len(s)
  BY <1>2, LenProperties
<1>4. t[Len(s) + 1] = m
  <2>1. Len(s) + 1 \in 1 .. Len(s) + 1 /\ ~(Len(s) + 1 <= Len(s)) /\ Len(s) + 1 - Len(s) = 1
    BY <1>2
  <2> QED BY <1>1, <1>2, <2>1
<1> HIDE DEF t
<1>5. \A i \in 1 .. Len(s) : i \in 1 .. Len(s) + 1 /\ i <= Len(s) /\ i < Len(s) + 1
  BY <1>2
<1>6. \A i \in 1 .. Len(s) : i \in DOMAIN t /\ t[i] = s[i] /\ i < Len(s) + 1
  BY <1>2, <1>3, <1>5
<1>7. Rests(t) = Rests(s) \cup (IF m.op = "rest" THEN {Len(s) + 1} ELSE {})
  <2>1. \A i \in DOMAIN t : i \in DOMAIN s \/ i = Len(s) + 1
    BY <1>2, <1>3
  <2>2. Len(s) + 1 \in DOMAIN t
    BY <1>2, <1>3
  <2> QED BY <1>3, <1>4, <1>6, <2>1, <2>2 DEF Rests
<1> QED BY <1>2, <1>3, <1>4, <1>6, <1>7 DEF t

LEMMA RestsTail ==
  ASSUME NEW S, NEW s \in Seq(S), s # <<>>
  PROVE  /\ DOMAIN Tail(s) \subseteq Nat
         /\ \A i \in DOMAIN Tail(s) : i + 1 \in DOMAIN s /\ Tail(s)[i] = s[i + 1] /\ i + 1 # 1
         /\ \A i \in Rests(Tail(s)) : i + 1 \in Rests(s)
         /\ \A i \in Rests(s) : i # 1 => i - 1 \in Rests(Tail(s))
         /\ DOMAIN s \subseteq Nat \ {0} /\ 1 \in DOMAIN s /\ Head(s) = s[1]
<1>1. /\ Tail(s) \in Seq(S) /\ Len(Tail(s)) = Len(s) - 1 /\ Len(s) \in Nat \ {0}
      /\ \A i \in 1 .. Len(Tail(s)) : Tail(s)[i] = s[i + 1]
  BY HeadTailProperties, EmptySeq
<1>2. DOMAIN Tail(s) = 1 .. Len(s) - 1 /\ DOMAIN s = 1 .. Len(s)
  BY <1>1, LenProperties
<1>3. \A i \in 1 .. Len(s) - 1 : i \in Nat /\ i + 1 \in 1 .. Len(s) /\ i + 1 # 1 /\ Tail(s)[i] = s[i + 1]
  BY <1>1
<1>4. \A i \in 1 .. Len(s) : i # 1 => i - 1 \in 1 .. Len(s) - 1 /\ (i - 1) + 1 = i
  BY <1>1
<1>5. ASSUME NEW i \in Rests(Tail(s)) PROVE i + 1 \in Rests(s)
  BY <1>2, <1>3 DEF Rests
<1>6. ASSUME NEW i \in Rests(s), i # 1 PROVE i - 1 \in Rests(Tail(s))
  <2>1. i \in 1 .. Len(s) /\ s[i].op = "rest"
    BY <1>2 DEF Rests
  <2>2. i - 1 \in 1 .. Len(s) - 1 /\ (i - 1) + 1 = i
    BY <1>4, <1>6, <2>1
  <2>3. Tail(s)[i - 1] = s[i]
    BY <1>3, <2>2
  <2> QED BY <1>2, <2>1, <2>2, <2>3 DEF Rests
<1>7. DOMAIN s \subseteq Nat \ {0} /\ 1 \in DOMAIN s /\ Head(s) = s[1]
  BY <1>1, <1>2
<1> QED BY <1>2, <1>3, <1>5, <1>6, <1>7

\* How many rests are unanswered, in numbers.
LEMMA Counted ==
  ASSUME TypeOK
  PROVE  /\ ~(Unanswered > 0) => ~Asked
         /\ AtMostOne => Unanswered <= 1
<1>1. ASSUME NEW S, NEW s \in Seq(S)
      PROVE  /\ Cardinality(Rests(s)) \in Nat
             /\ Rests(s) # {} => Cardinality(Rests(s)) > 0
             /\ Rests(s) = {} => Cardinality(Rests(s)) = 0
             /\ (\A i, j \in Rests(s) : i = j) => Cardinality(Rests(s)) <= 1
  <2>1. DOMAIN s = 1 .. Len(s) /\ Len(s) \in Nat
    BY LenProperties
  <2>2. IsFiniteSet(1 .. Len(s))
    BY <2>1, FS_Interval
  <2>3. IsFiniteSet(Rests(s))
    BY <2>1, <2>2, FS_Subset DEF Rests
  <2>4. Cardinality(Rests(s)) \in Nat
    BY <2>3, FS_CardinalityType
  <2>5. Rests(s) = {} <=> Cardinality(Rests(s)) = 0
    BY <2>3, FS_EmptySet
  <2>6. ASSUME Rests(s) # {}, \A i, j \in Rests(s) : i = j PROVE Cardinality(Rests(s)) = 1
    <3>1. PICK i : i \in Rests(s)
      BY <2>6
    <3>2. Rests(s) = {i}
      BY <2>6, <3>1
    <3> QED BY <3>2, FS_Singleton
  <2>7. Cardinality(Rests(s)) = 0 \/ Cardinality(Rests(s)) > 0
    BY <2>4
  <2> QED BY <2>4, <2>5, <2>6, <2>7
<1>2. cmds \in Seq(Commands) /\ inbox \in Seq(Messages)
  BY DEF TypeOK
<1> DEFINE m == Cardinality(Rests(cmds))
           n == Cardinality(Rests(inbox))
<1>3. Unanswered = m + n
  BY DEF Unanswered, Rests
<1>4. m \in Nat /\ n \in Nat /\ (Asked => m > 0 \/ n > 0)
  BY <1>1, <1>2 DEF Asked
<1>5. AtMostOne => m <= 1 /\ n <= 1 /\ (m = 0 \/ n = 0)
  BY <1>1, <1>2 DEF AtMostOne
<1> HIDE DEF m, n
<1> QED BY <1>3, <1>4, <1>5

-----------------------------------------------------------------------------
(* The steps there are, as far as the rest packet goes. *)

Toggling == AtMostOne /\ PostureTrue /\ DriverWaits

\* A running bot goes on with the deadlines it had.
GoesOn == bot'.running => bot.running /\ (waits \cap {"stand", "sit"}) \subseteq waits'

\* The window does not send a rest.
LEMMA PlainStep ==
  ASSUME Toggling, UNCHANGED <<game, inbox>>, view'.resting = view.resting,
         Rests(cmds') \in {{}, Rests(cmds)}, Asked => GoesOn
  PROVE  Toggling'
<1>1. Rests(inbox') = Rests(inbox) /\ Known' = Known /\ (Asked' => Asked)
  BY DEF Known, Asked
<1>2. AtMostOne'
  BY <1>1 DEF Toggling, AtMostOne
<1>3. PostureTrue'
  BY <1>1 DEF Toggling, PostureTrue
<1>4. DriverWaits'
  BY <1>1 DEF Toggling, DriverWaits, GoesOn
<1> QED BY <1>2, <1>3, <1>4 DEF Toggling

\* The window sends one where none is on its way.
LEMMA ToggleStep ==
  ASSUME TypeOK, Toggling, UNCHANGED <<game, inbox>>, view'.resting = view.resting,
         ~Asked, Toggled,
         bot'.running => ("stand" \in waits' /\ Known) \/ ("sit" \in waits' /\ ~Known)
  PROVE  Toggling'
<1>1. Rests(cmds) = {} /\ Rests(inbox) = {} /\ Rests(inbox') = {} /\ Known' = Known
  BY DEF Asked, Known
<1>2. \A i, j \in Rests(cmds') : i = j
  <2>1. cmds \in Seq(Commands) /\ Rest \in Commands
    BY SentType DEF TypeOK
  <2>2. cmds' = cmds \/ cmds' = cmds \o <<Rest>>
    BY DEF Toggled, Send
  <2>3. Rests(cmds \o <<Rest>>) \subseteq {Len(cmds) + 1}
    BY <1>1, <2>1, RestsAppend
  <2>4. Rests(cmds') = Rests(cmds) \/ Rests(cmds') = Rests(cmds \o <<Rest>>)
    BY <2>2, Zenon
  <2>5. Rests(cmds') \subseteq {Len(cmds) + 1}
    BY <1>1, <2>3, <2>4
  <2> QED BY <2>5
<1>3. AtMostOne'
  BY <1>1, <1>2 DEF AtMostOne
<1>4. PostureTrue'
  BY <1>1 DEF Toggling, PostureTrue
<1>5. DriverWaits'
  BY <1>1 DEF DriverWaits
<1> QED BY <1>3, <1>4, <1>5 DEF Toggling

\* The window reads a message, and believes what it says of the posture.
LEMMA ReadStep ==
  ASSUME TypeOK, Toggling, inbox # <<>>, inbox' = Tail(inbox), UNCHANGED <<game, cmds>>, GoesOn,
         view'.resting = IF Head(inbox).op \in {"pos", "rest"} THEN Posture(Head(inbox).sitting) ELSE view.resting
  PROVE  Toggling'
<1>1. inbox \in Seq(Messages)
  BY DEF TypeOK
<1>2. /\ DOMAIN inbox' \subseteq Nat
      /\ \A i \in DOMAIN inbox' : i + 1 \in DOMAIN inbox /\ inbox'[i] = inbox[i + 1] /\ i + 1 # 1
      /\ \A i \in Rests(inbox') : i + 1 \in Rests(inbox)
      /\ \A i \in Rests(inbox) : i # 1 => i - 1 \in Rests(inbox')
      /\ DOMAIN inbox \subseteq Nat \ {0} /\ 1 \in DOMAIN inbox /\ Head(inbox) = inbox[1]
  BY <1>1, RestsTail
<1>3. Rests(inbox') \subseteq DOMAIN inbox' /\ Rests(inbox) \subseteq DOMAIN inbox
  BY DEF Rests
<1>4. Rests(cmds') = Rests(cmds) /\ game' = game
  OBVIOUS
<1>5. \A i, j \in Nat : i + 1 = j + 1 => i = j
  OBVIOUS
<1>6. AtMostOne'
  <2>1. ASSUME NEW i \in Rests(inbox'), NEW j \in Rests(inbox') PROVE i = j
    <3>1. i + 1 = j + 1
      BY <1>2, <2>1 DEF Toggling, AtMostOne
    <3> QED BY <1>2, <1>3, <1>5, <3>1
  <2>2. Rests(cmds) = {} \/ Rests(inbox') = {}
    BY <1>2 DEF Toggling, AtMostOne
  <2> QED BY <1>4, <2>1, <2>2 DEF Toggling, AtMostOne
<1>7. CASE 1 \in Rests(inbox)
  <2>1. Rests(inbox) = {1} /\ Rests(cmds) = {}
    BY <1>7 DEF Toggling, AtMostOne
  <2>2. Rests(inbox') = {}
    BY <1>2, <1>3, <2>1
  <2>3. Head(inbox).op = "rest" /\ Head(inbox).sitting = game.sitting
    BY <1>2, <1>7 DEF Toggling, PostureTrue, Rests
  <2>4. Known' = game.sitting /\ view'.resting = Posture(game.sitting)
    BY <2>2, <2>3 DEF Known
  <2>5. ASSUME NEW i \in DOMAIN inbox', inbox'[i].op = "pos" PROVE inbox'[i].sitting = game.sitting
    <3>1. i + 1 \in DOMAIN inbox /\ inbox'[i] = inbox[i + 1] /\ 1 < i + 1
      <4>1. i \in Nat /\ i + 1 # 1
        BY <1>2
      <4> QED BY <1>2, <4>1
    <3> QED BY <1>7, <2>5, <3>1 DEF Toggling, PostureTrue
  <2>6. PostureTrue'
    BY <1>4, <2>2, <2>4, <2>5 DEF PostureTrue
  <2>7. ~Asked'
    BY <1>4, <2>1, <2>2 DEF Asked
  <2> QED BY <1>6, <2>6, <2>7 DEF Toggling, DriverWaits
<1>8. CASE 1 \notin Rests(inbox)
  <2>1. Rests(inbox) # {} <=> Rests(inbox') # {}
    BY <1>2, <1>8
  <2>2. Known' = Known /\ (Asked' <=> Asked)
    BY <1>4, <2>1 DEF Known, Asked
  <2>3. view'.resting \in {"unknown", Posture(Known)}
    <3>1. Head(inbox).op # "rest"
      BY <1>2, <1>8 DEF Rests
    <3>2. CASE Head(inbox).op = "pos"
      <4>1. ~ \E j \in Rests(inbox) : j < 1
        BY <1>2, <1>3
      <4>2. Head(inbox).sitting = Known
        BY <1>2, <3>2, <4>1 DEF Toggling, PostureTrue
      <4> QED BY <3>2, <4>2
    <3> QED BY <3>1, <3>2 DEF Toggling, PostureTrue
  <2>4. \A i \in Rests(inbox') : inbox'[i].sitting = game.sitting
    BY <1>2, <1>3 DEF Toggling, PostureTrue
  <2>5. ASSUME NEW i \in DOMAIN inbox', inbox'[i].op = "pos"
        PROVE  inbox'[i].sitting = IF \E j \in Rests(inbox') : j < i THEN game.sitting ELSE Known
    <3>1. i \in Nat /\ i + 1 \in DOMAIN inbox /\ inbox'[i] = inbox[i + 1]
      BY <1>2
    <3>2. (\E j \in Rests(inbox) : j < i + 1) <=> (\E j \in Rests(inbox') : j < i)
      <4>1. ASSUME NEW j \in Rests(inbox), j < i + 1 PROVE \E k \in Rests(inbox') : k < i
        <5>1. j - 1 \in Rests(inbox') /\ j \in Nat
          BY <1>2, <1>3, <1>8
        <5>2. j - 1 < i
          BY <3>1, <4>1, <5>1
        <5> QED BY <5>1, <5>2
      <4>2. ASSUME NEW j \in Rests(inbox'), j < i PROVE \E k \in Rests(inbox) : k < i + 1
        <5>1. j + 1 \in Rests(inbox) /\ j \in Nat
          BY <1>2, <1>3
        <5>2. j + 1 < i + 1
          BY <3>1, <4>2, <5>1
        <5> QED BY <5>1, <5>2
      <4> QED BY <4>1, <4>2
    <3>3. inbox[i + 1].sitting = IF \E j \in Rests(inbox) : j < i + 1 THEN game.sitting ELSE Known
      BY <2>5, <3>1 DEF Toggling, PostureTrue
    <3> QED BY <3>1, <3>2, <3>3
  <2>6. PostureTrue'
    BY <1>4, <2>2, <2>3, <2>4, <2>5 DEF PostureTrue
  <2>7. DriverWaits'
    BY <2>2 DEF Toggling, DriverWaits, GoesOn
  <2> QED BY <1>6, <2>6, <2>7 DEF Toggling
<1> QED BY <1>7, <1>8

\* A message that says nothing of a rest joins the queue: a position, that tells the posture as
\* it is while none is unread, or one of something else.
LEMMA TellStep ==
  ASSUME TypeOK, Toggling, UNCHANGED <<view, bot, waits>>, game'.sitting = game.sitting,
         Rests(cmds') # {} => Rests(cmds) # {}, \A i, j \in Rests(cmds') : i = j,
         NEW m \in Messages, m.op # "rest", m.op = "pos" => inbox = <<>> /\ m.sitting = game.sitting,
         inbox' \in {inbox, inbox \o <<m>>}
  PROVE  Toggling'
<1>1. inbox \in Seq(Messages)
  BY DEF TypeOK
<1>2. Rests(inbox') = Rests(inbox)
  <2>1. Rests(inbox \o <<m>>) = Rests(inbox) \cup (IF m.op = "rest" THEN {Len(inbox) + 1} ELSE {})
    BY <1>1, RestsAppend
  <2>2. Rests(inbox \o <<m>>) = Rests(inbox)
    BY <2>1
  <2> QED BY <2>2
<1>3. \A i \in DOMAIN inbox' : \/ i \in DOMAIN inbox /\ inbox'[i] = inbox[i]
                               \/ inbox'[i] = m
  <2>1. \A i \in DOMAIN (inbox \o <<m>>) : i \in DOMAIN inbox \/ i = Len(inbox) + 1
    BY <1>1, RestsAppend
  <2> QED BY <1>1, <2>1, RestsAppend
<1>4. Known' = Known /\ (Asked' => Asked)
  BY <1>2 DEF Known, Asked
<1>5. AtMostOne'
  BY <1>2 DEF Toggling, AtMostOne
<1>6. ASSUME NEW i \in Rests(inbox) PROVE inbox'[i].sitting = game.sitting
  <2>1. i \in DOMAIN inbox /\ i \in DOMAIN inbox' /\ inbox'[i].op = "rest"
    BY <1>2 DEF Rests
  <2>2. inbox'[i] = inbox[i]
    BY <1>3, <2>1
  <2> QED BY <2>2 DEF Toggling, PostureTrue
<1>7. ASSUME NEW i \in DOMAIN inbox', inbox'[i].op = "pos"
      PROVE  inbox'[i].sitting = IF \E j \in Rests(inbox') : j < i THEN game.sitting ELSE Known
  <2>1. CASE i \in DOMAIN inbox /\ inbox'[i] = inbox[i]
    BY <1>2, <1>7, <2>1 DEF Toggling, PostureTrue
  <2>2. CASE inbox'[i] = m
    <3>1. inbox = <<>> /\ m.sitting = game.sitting
      BY <1>7, <2>2
    <3>2. Rests(inbox) = {}
      BY <3>1 DEF Rests
    <3>3. Known = game.sitting /\ ~ \E j \in Rests(inbox') : j < i
      BY <1>2, <3>2 DEF Known
    <3> QED BY <2>2, <3>1, <3>3
  <2> QED BY <1>3, <1>7, <2>1, <2>2
<1>8. PostureTrue'
  BY <1>2, <1>4, <1>6, <1>7 DEF Toggling, PostureTrue
<1>9. DriverWaits'
  BY <1>4 DEF Toggling, DriverWaits
<1> QED BY <1>5, <1>8, <1>9 DEF Toggling

\* The server turns the posture round and says so.
LEMMA RestStep ==
  ASSUME TypeOK, Toggling, Linked, UNCHANGED <<view, bot, waits>>,
         cmds # <<>>, cmds' = Tail(cmds), Head(cmds).op = "rest", ServeRest
  PROVE  Toggling'
<1> DEFINE m == [op |-> "rest", sitting |-> ~game.sitting]
<1>1. cmds \in Seq(Commands) /\ inbox \in Seq(Messages) /\ game \in Games /\ game.sitting \in BOOLEAN
  BY GameType DEF TypeOK
<1>2. m \in Messages
  BY <1>1, ToldType
<1>3. game'.sitting = ~game.sitting
  BY <1>1 DEF ServeRest, Games
<1>4. inbox' = inbox \o <<m>>
  BY DEF Linked, ServeRest, Tell
<1>5. 1 \in Rests(cmds) /\ \A i \in Rests(cmds') : i + 1 \in Rests(cmds) /\ i + 1 # 1
  <2>1. Rests(cmds') \subseteq DOMAIN cmds'
    BY DEF Rests
  <2>2. cmds[1].op = "rest" /\ 1 \in DOMAIN cmds
    BY <1>1, RestsTail
  <2> QED BY <1>1, <2>1, <2>2, RestsTail DEF Rests
<1>6. Rests(cmds') = {} /\ Rests(inbox) = {}
  BY <1>5 DEF Toggling, AtMostOne
<1>7. Rests(inbox') = {Len(inbox) + 1} /\ inbox'[Len(inbox) + 1] = m
  BY <1>1, <1>2, <1>4, <1>6, RestsAppend
<1>8. Known = game.sitting /\ Known' = game.sitting
  <2>1. Known' = ~game'.sitting
    BY <1>7 DEF Known
  <2>2. ~~game.sitting <=> game.sitting
    OBVIOUS
  <2> QED BY <1>1, <1>3, <1>6, <2>1 DEF Known
<1>9. AtMostOne'
  BY <1>6, <1>7 DEF AtMostOne
<1>10. \A i \in Rests(inbox') : inbox'[i].sitting = game'.sitting
  BY <1>3, <1>7
<1>11. ASSUME NEW i \in DOMAIN inbox', inbox'[i].op = "pos"
       PROVE  inbox'[i].sitting = IF \E j \in Rests(inbox') : j < i THEN game'.sitting ELSE Known'
  <2>1. i \in DOMAIN inbox /\ inbox'[i] = inbox[i] /\ i < Len(inbox) + 1 /\ i \in Nat /\ Len(inbox) \in Nat
    <3>1. i # Len(inbox) + 1
      BY <1>7, <1>11
    <3>2. /\ DOMAIN inbox' = 1 .. Len(inbox) + 1 /\ DOMAIN inbox = 1 .. Len(inbox) /\ Len(inbox) \in Nat
          /\ \A k \in DOMAIN inbox : inbox'[k] = inbox[k]
      BY <1>1, <1>2, <1>4, RestsAppend
    <3>3. i \in DOMAIN inbox /\ i < Len(inbox) + 1 /\ i \in Nat
      BY <3>1, <3>2
    <3> QED BY <3>2, <3>3
  <2>2. ~(Len(inbox) + 1 < i)
    BY <2>1
  <2>3. ~ \E j \in Rests(inbox') : j < i
    BY <1>7, <2>2
  <2>4. inbox[i].sitting = Known
    BY <1>6, <1>11, <2>1 DEF Toggling, PostureTrue
  <2> QED BY <1>8, <2>1, <2>3, <2>4
<1>12. view'.resting \in {"unknown", Posture(Known')}
  BY <1>8 DEF Toggling, PostureTrue
<1>13. PostureTrue'
  BY <1>10, <1>11, <1>12 DEF PostureTrue
<1>14. Asked
  BY <1>5 DEF Asked
<1>15. DriverWaits'
  BY <1>8, <1>14 DEF Toggling, DriverWaits
<1> QED BY <1>9, <1>13, <1>15 DEF Toggling

-----------------------------------------------------------------------------
(* Which step is of which kind. *)

\* A step of the window or of time, as the rest packet has it: it sends none, or one that no
\* other is on its way with.
HostStep ==
  /\ UNCHANGED <<game, inbox, link>> /\ view'.resting = view.resting /\ mishaps \subseteq mishaps'
  /\ \/ /\ UNCHANGED cmds \/ \E S : \E s \in Seq(S) : Rests(s) = {} /\ Send(s)
        /\ mishaps' = {} /\ Asked => GoesOn
     \/ /\ Toggled
        /\ mishaps' = {} => /\ ~Asked
                            /\ bot'.running => ("stand" \in waits' /\ Known) \/ ("sit" \in waits' /\ ~Known)

LEMMA HostOnce ==
  ASSUME TypeOK, Linked, Once, HostStep
  PROVE  Linked' /\ Once'
<1>1. Linked'
  <2>1. link' = link /\ (cmds' = cmds \/ cmds' = IF link THEN cmds' ELSE cmds)
    BY DEF HostStep, Send, Toggled
  <2> QED BY <2>1 DEF Linked
<1>2. ASSUME mishaps' = {} PROVE Toggling'
  <2>1. Toggling
    BY <1>2 DEF HostStep, Once, Toggling
  <2>2. CASE UNCHANGED cmds /\ (Asked => GoesOn)
    BY <2>1, <2>2, PlainStep DEF HostStep
  <2>3. ASSUME NEW S, NEW s \in Seq(S), Rests(s) = {}, Send(s), Asked => GoesOn PROVE Toggling'
    <3>1. Commands \subseteq Commands \cup S /\ S \subseteq Commands \cup S /\ cmds \in Seq(Commands)
      BY DEF TypeOK
    <3>2. cmds \in Seq(Commands \cup S) /\ s \in Seq(Commands \cup S)
      BY <3>1, SeqMonotonic
    <3>3. Rests(cmds \o s) = Rests(cmds)
      BY <2>3, <3>2, RestsConcat
    <3>4. cmds' = cmds \/ cmds' = cmds \o s
      BY <2>3 DEF Send
    <3>5. Rests(cmds') = Rests(cmds)
      BY <3>3, <3>4
    <3> QED BY <2>1, <2>3, <3>5, PlainStep DEF HostStep
  <2>4. CASE Toggled /\ ~Asked /\ (bot'.running => ("stand" \in waits' /\ Known) \/ ("sit" \in waits' /\ ~Known))
    BY <2>1, <2>4, ToggleStep DEF HostStep
  <2> QED BY <1>2, <2>2, <2>3, <2>4 DEF HostStep
<1> QED BY <1>1, <1>2 DEF Once, Toggling

LEMMA NotAsked ==
  ASSUME TypeOK, NEW kind, Excused(kind)
  PROVE  mishaps \subseteq mishaps' /\ (mishaps' = {} => ~Asked)
  BY Counted DEF Excused

LEMMA PlainOne ==
  ASSUME NEW c, c.op # "rest"
  PROVE  \E S : \E s \in Seq(S) : s = <<c>> /\ Rests(s) = {}
<1>1. <<c>> \in Seq({c}) /\ DOMAIN <<c>> = {1} /\ <<c>>[1] = c
  OBVIOUS
<1>2. Rests(<<c>>) = {}
  BY <1>1 DEF Rests
<1> QED BY <1>1, <1>2

LEMMA PlainTwo ==
  ASSUME NEW c, NEW d, c.op # "rest", d.op # "rest"
  PROVE  \E S : \E s \in Seq(S) : s = <<c, d>> /\ Rests(s) = {}
<1>1. <<c, d>> \in Seq({c, d}) /\ DOMAIN <<c, d>> = {1, 2} /\ <<c, d>>[1] = c /\ <<c, d>>[2] = d
  OBVIOUS
<1>2. Rests(<<c, d>>) = {}
  BY <1>1 DEF Rests
<1> QED BY <1>1, <1>2

LEMMA StartBotHost ==
  ASSUME TypeOK, NEW b \in {bot, [bot EXCEPT !.located = FALSE]}, StartBot(b), mishaps \subseteq mishaps',
         mishaps' = {} => ~Asked, UNCHANGED <<game, inbox, link>>, view' = view
  PROVE  HostStep
<1>1. CASE UNCHANGED cmds
  BY <1>1 DEF HostStep
<1>2. CASE ~UNCHANGED cmds
  <2>1. ~b.running /\ bot' = [b EXCEPT !.located = FALSE] /\ StartTravel(ui.start, TRUE, later)
    BY <1>2 DEF StartBot
  <2>2. Toggled
    BY <1>2, <2>1 DEF StartTravel
  <2>3. b \in Bots
    BY BotType DEF TypeOK
  <2>4. ~bot'.running
    BY <2>1, <2>3 DEF Bots
  <2> QED BY <2>2, <2>4 DEF HostStep
<1> QED BY <1>1, <1>2

LEMMA ChangesToGoesOn ==
  ASSUME TypeOK, NEW m, ChangesTo(m)
  PROVE  GoesOn
<1>1. bot \in Bots
  BY DEF TypeOK
<1>2. \/ UNCHANGED <<bot, waits>>
      \/ bot' = [Stopped(bot) EXCEPT !.goals = <<>>, !.index = 1]
      \/ ~bot.running /\ bot' = [bot EXCEPT !.goals = <<>>, !.index = 1, !.pending = None, !.age = 0]
  BY DEF ChangesTo
<1>3. UNCHANGED <<bot, waits>> \/ ~bot'.running
  BY <1>1, <1>2 DEF Stopped, Bots
<1> QED BY <1>3 DEF GoesOn

LEMMA UserHost ==
  ASSUME TypeOK, User
  PROVE  HostStep
<1>1. bot \in Bots
  BY DEF TypeOK
<1>2. UNCHANGED <<game, inbox, link>> /\ view' = view
  BY DEF User, Click, Undo, DrawPath, ClearPath, Start, Stop, LoadConfig, Flip, Acts
<1>3. ASSUME GoesOn, UNCHANGED <<cmds, mishaps>> PROVE HostStep
  BY <1>2, <1>3 DEF HostStep
<1>4. CASE \E c \in Clicked : Click(c)
  <2>1. PICK c \in Clicked : Click(c)
    BY <1>4
  <2>2. CASE StartTravel(c, FALSE, later) /\ Excused("clicked") /\ UNCHANGED <<ui, bot>> /\ ~bot.running
    <3>1. UNCHANGED cmds \/ Toggled
      BY <2>2 DEF StartTravel
    <3> QED BY <1>2, <2>2, <3>1, NotAsked DEF HostStep
  <2>3. CASE ResetIndex /\ UNCHANGED <<trip, later, cmds, mishaps>>
    <3>1. bot'.running = bot.running /\ waits' = waits
      BY <1>1, <2>1, <2>3 DEF ResetIndex, Bots, Click
    <3> QED BY <1>3, <2>3, <3>1 DEF GoesOn
  <2> QED BY <2>1, <2>2, <2>3 DEF Click
<1>5. CASE Undo \/ DrawPath \/ ClearPath
  <2>1. /\ \/ bot' = bot \/ bot' = [bot EXCEPT !.index = 1]
           \/ bot' = [bot EXCEPT !.index = 1, !.pending = None, !.age = 0, !.seen = FALSE]
        /\ UNCHANGED <<waits, cmds, mishaps>>
    BY <1>5 DEF Undo, DrawPath, ClearPath, ResetIndex
  <2>2. bot'.running = bot.running
    BY <1>1, <2>1 DEF Bots
  <2> QED BY <1>3, <2>1, <2>2 DEF GoesOn
<1>6. CASE Start
  <2>1. StartBot(bot) /\ Excused("clicked")
    BY <1>6 DEF Start
  <2> QED BY <1>2, <2>1, NotAsked, StartBotHost
<1>7. CASE Stop \/ \E o \in Options : LoadConfig(o)
  <2>1. /\ UNCHANGED <<cmds, mishaps>>
        /\ \/ bot' = Stopped(bot)
           \/ ~bot.running /\ bot' = [bot EXCEPT !.pending = None, !.age = 0]
    BY <1>7 DEF Stop, StopBot, LoadConfig
  <2>2. ~bot'.running
    BY <1>1, <2>1 DEF Stopped, Bots
  <2> QED BY <1>3, <2>1, <2>2 DEF GoesOn
<1>8. CASE \E kind \in Flipped : Flip(kind)
  <2>1. UNCHANGED <<bot, waits, cmds, mishaps>>
    BY <1>8 DEF Flip, past
  <2> QED BY <1>3, <2>1 DEF GoesOn
<1> QED BY <1>4, <1>5, <1>6, <1>7, <1>8 DEF User

LEMMA GoesOnHost ==
  ASSUME TypeOK, StartLocated \/ StandUpOver \/ IdleStart \/ TravelTick
  PROVE  HostStep
<1>1. UNCHANGED <<game, inbox, link>> /\ view' = view
  BY DEF StartLocated, StandUpOver, IdleStart, TravelTick, Quiet
<1>2. CASE StartLocated
  <2>1. StartBot([bot EXCEPT !.located = FALSE]) /\ Excused("queued")
    BY <1>2 DEF StartLocated
  <2> QED BY <1>1, <2>1, NotAsked, StartBotHost
<1>3. CASE IdleStart
  <2>1. StartBot(bot) /\ Excused("queued")
    BY <1>3 DEF IdleStart
  <2> QED BY <1>1, <2>1, NotAsked, StartBotHost
<1>4. CASE StandUpOver
  <2>1. /\ UNCHANGED cmds \/ Toggled
        /\ mishaps \subseteq mishaps' /\ UNCHANGED bot
        /\ mishaps' = {} => ~(Unanswered > 0) /\ ~bot.running
    BY <1>4 DEF StandUpOver, StartTravel
  <2>2. mishaps' = {} => ~Asked
    BY <2>1, Counted
  <2> QED BY <1>1, <2>1, <2>2 DEF HostStep
<1>5. CASE TravelTick
  <2>1. UNCHANGED <<bot, waits, mishaps>>
    BY <1>5 DEF TravelTick
  <2>2. UNCHANGED cmds \/ \E cell : Send(<<Move(cell)>>)
    BY <1>5 DEF TravelTick, TravelWaits, TravelWalks, Arrived, NextLeg
  <2>3. UNCHANGED cmds \/ \E S : \E s \in Seq(S) : Rests(s) = {} /\ Send(s)
    <3>1. ASSUME NEW cell, Send(<<Move(cell)>>) PROVE \E S : \E s \in Seq(S) : Rests(s) = {} /\ Send(s)
      <4>1. Move(cell).op # "rest"
        BY DEF Move
      <4> QED BY <3>1, <4>1, PlainOne
    <3> QED BY <2>2, <3>1
  <2> QED BY <1>1, <2>1, <2>3 DEF HostStep, GoesOn
<1> QED BY <1>2, <1>3, <1>4, <1>5

\* The ticks that send no rest: the bot runs on with its deadlines, or stops.
LEMMA TickPlain ==
  ASSUME TypeOK, BotTick, ~TickResume, ~TickRecover, ~TickStand
  PROVE  /\ UNCHANGED mishaps /\ GoesOn
         /\ UNCHANGED cmds \/ \E S : \E s \in Seq(S) : Rests(s) = {} /\ Send(s)
<1>1. bot.running /\ bot \in Bots
  BY TickFrame DEF TypeOK
<1>2. ASSUME NEW b, Became(b) PROVE GoesOn
  BY <1>1, <1>2 DEF Became, GoesOn
<1>3. CASE TickUnlinked
  <2>1. ~bot'.running
    BY <1>1, <1>3, StoppedType DEF TickUnlinked, StopBot
  <2> QED BY <1>3, <2>1 DEF TickUnlinked, GoesOn
<1>4. CASE TickWalking
  <2>1. \E b : Became(b)
    BY <1>4, WalkingShape
  <2> QED BY <1>2, <1>4, <2>1 DEF TickWalking
<1>5. CASE TickPickup
  <2>1. Send(<<[op |-> "get"]>>) /\ waits \subseteq waits' /\ UNCHANGED mishaps
    BY <1>5 DEF TickPickup
  <2>2. [op |-> "get"].op # "rest"
    OBVIOUS
  <2> QED BY <1>1, <2>1, <2>2, PlainOne DEF GoesOn
<1>6. CASE TickFight
  <2>1. /\ UNCHANGED cmds \/ Send(Strike)
        /\ waits \subseteq waits' /\ UNCHANGED mishaps
    BY <1>6 DEF TickFight
  <2>2. Target.op # "rest" /\ [op |-> "attack"].op # "rest"
    BY DEF Target
  <2>3. UNCHANGED cmds \/ \E S : \E s \in Seq(S) : Rests(s) = {} /\ Send(s)
    BY <2>1, <2>2, PlainTwo DEF Strike
  <2> QED BY <1>1, <2>1, <2>3 DEF GoesOn
<1>7. CASE TickChase
  <2>1. /\ UNCHANGED cmds \/ \E leg : Send(<<Target, Move(leg)>>)
        /\ UNCHANGED <<waits, mishaps>>
    BY <1>7 DEF TickChase
  <2>2. ASSUME NEW leg, Send(<<Target, Move(leg)>>) PROVE \E S : \E s \in Seq(S) : Rests(s) = {} /\ Send(s)
    <3>1. Target.op # "rest" /\ Move(leg).op # "rest"
      BY DEF Target, Move
    <3> QED BY <2>2, <3>1, PlainTwo
  <2> QED BY <1>1, <2>1, <2>2 DEF GoesOn
<1>8. CASE TickStays
  <2>1. (\E b : Became(b)) /\ UNCHANGED <<cmds, mishaps>>
    BY <1>8 DEF TickStays
  <2> QED BY <1>2, <2>1
<1>9. CASE TickRoute
  <2>1. \E b : Became(b)
    BY <1>9, RouteShape
  <2>2. UNCHANGED cmds \/ \E cell : Send(<<Move(cell)>>)
    BY <1>9, RouteShape
  <2>3. ASSUME NEW cell, Send(<<Move(cell)>>) PROVE \E S : \E s \in Seq(S) : Rests(s) = {} /\ Send(s)
    <3>1. Move(cell).op # "rest"
      BY DEF Move
    <3> QED BY <2>3, <3>1, PlainOne
  <2>4. UNCHANGED mishaps
    BY <1>9 DEF TickRoute
  <2> QED BY <1>2, <2>1, <2>2, <2>3, <2>4
<1> QED BY <1>3, <1>4, <1>5, <1>6, <1>7, <1>8, <1>9 DEF BotTick, Stages

LEMMA BotTickHost ==
  ASSUME TypeOK, Once, BotTick
  PROVE  HostStep
<1>1. UNCHANGED <<game, inbox, link>> /\ view' = view /\ bot.running /\ bot \in Bots
  BY TickFrame DEF TypeOK
<1>2. game.sitting \in BOOLEAN /\ Known \in BOOLEAN
  BY DEF TypeOK, Games, Known
<1>3. (view.resting = "sitting" /\ view.resting \in {"unknown", Posture(Known)} => Known)
      /\ (view.resting = "standing" /\ view.resting \in {"unknown", Posture(Known)} => ~Known)
  BY <1>2 DEF Posture
<1>4. CASE TickResume
  <2>1. /\ bot' = [bot EXCEPT !.recovering = FALSE] /\ waits' = waits
        /\ \/ Toggled /\ mishaps' = mishaps \cup {"resumed"}
           \/ UNCHANGED <<cmds, mishaps>>
    BY <1>4 DEF TickResume
  <2>2. bot'.running = bot.running
    BY <1>1, <2>1 DEF Bots
  <2> QED BY <1>1, <2>1, <2>2 DEF HostStep, GoesOn
<1>5. CASE TickRecover
  <2>1. /\ \/ /\ Toggled /\ view.resting # "sitting" /\ "sit" \notin waits /\ "sit" \in waits'
              /\ mishaps' = mishaps \cup (IF view.resting = "unknown" THEN {"guessed"} ELSE {})
           \/ UNCHANGED <<cmds, mishaps>>
        /\ (waits \cap {"stand", "sit"}) \subseteq waits'
    BY <1>5 DEF TickRecover
  <2>2. CASE UNCHANGED <<cmds, mishaps>>
    BY <1>1, <2>1, <2>2 DEF HostStep, GoesOn
  <2>3. CASE /\ Toggled /\ view.resting # "sitting" /\ "sit" \notin waits /\ "sit" \in waits'
             /\ mishaps' = mishaps \cup (IF view.resting = "unknown" THEN {"guessed"} ELSE {})
    <3>1. ASSUME mishaps' = {} PROVE ~Asked /\ ~Known
      <4>1. mishaps = {} /\ view.resting # "unknown"
        BY <2>3, <3>1
      <4>2. view.resting = "standing"
        BY <2>3, <4>1 DEF TypeOK, Views
      <4>3. ~Known
        BY <1>3, <4>1, <4>2 DEF Once, PostureTrue
      <4> QED BY <1>1, <2>3, <4>1, <4>3 DEF Once, DriverWaits
    <3> QED BY <1>1, <2>3, <3>1 DEF HostStep
  <2> QED BY <2>1, <2>2, <2>3
<1>6. CASE TickStand
  <2>1. /\ Toggled /\ view.resting = "sitting" /\ "stand" \notin waits /\ "stand" \in waits' /\ UNCHANGED mishaps
    BY <1>6 DEF TickStand, MustStand
  <2>2. ASSUME mishaps' = {} PROVE ~Asked /\ Known
    <3>1. Known
      BY <1>3, <2>1, <2>2 DEF Once, PostureTrue
    <3> QED BY <1>1, <2>1, <2>2, <3>1 DEF Once, DriverWaits
  <2> QED BY <1>1, <2>1, <2>2 DEF HostStep
<1> QED BY <1>1, <1>4, <1>5, <1>6, TickPlain DEF HostStep

LEMMA TimeHost ==
  ASSUME TypeOK, Time
  PROVE  HostStep
<1>1. bot \in Bots /\ view \in Views
  BY DEF TypeOK
<1>2. ASSUME NEW t \in Timers, Elapse(t) PROVE HostStep
  <2>1. /\ waits' = waits \ {t} /\ UNCHANGED <<bot, game, view, cmds, inbox, link>> /\ mishaps \subseteq mishaps'
        /\ mishaps' = {} => ~(t \in {"stand", "sit"} /\ Unanswered > 0)
    BY <1>2 DEF Elapse, Passes, Late
  <2>2. mishaps' = {} /\ Asked => t \notin {"stand", "sit"}
    BY <2>1, Counted
  <2>3. mishaps' = {} /\ Asked => GoesOn
    BY <2>1, <2>2 DEF GoesOn
  <2> QED BY <2>1, <2>3 DEF HostStep
<1>3. CASE BotAges \/ TripAges
  <2>1. /\ UNCHANGED <<game, view, cmds, inbox, link, waits, mishaps>>
        /\ bot' = bot \/ bot' = [bot EXCEPT !.age = @ + 1]
    BY <1>3 DEF BotAges, TripAges, Passes
  <2>2. bot'.running = bot.running
    BY <1>1, <2>1 DEF Bots
  <2> QED BY <2>1, <2>2 DEF HostStep, GoesOn
<1>4. CASE PosGoesStale
  <2>1. view' = [view EXCEPT !.real = None] /\ UNCHANGED <<game, cmds, inbox, link, bot, waits, mishaps>>
    BY <1>4 DEF PosGoesStale, World
  <2>2. view'.resting = view.resting
    BY <1>1, <2>1 DEF Views
  <2> QED BY <2>1, <2>2 DEF HostStep, GoesOn
<1> QED BY <1>2, <1>3, <1>4 DEF Time

\* A change to another map, and what _drain reads.
LEMMA DrainOnce ==
  ASSUME TypeOK, Linked, Once, Drain \/ (\E m \in Maps : DetectMap(m))
  PROVE  Linked' /\ Once'
<1>1. bot \in Bots /\ view \in Views /\ inbox \in Seq(Messages)
  BY DEF TypeOK
<1>2. ASSUME NEW m \in Maps, DetectMap(m) PROVE HostStep
  <2>1. /\ view' = [view EXCEPT !.grid = m] /\ ChangesTo(m) /\ UNCHANGED <<game, cmds, inbox, link, mishaps>>
    BY <1>2 DEF DetectMap
  <2>2. view'.resting = view.resting
    BY <1>1, <2>1 DEF Views
  <2> QED BY <2>1, <2>2, ChangesToGoesOn DEF HostStep
<1>3. CASE Drain
  <2>1. Drained
    BY <1>3 DEF Drain, DrainMap, DrainOther
  <2>2. inbox # <<>> /\ inbox' = Tail(inbox) /\ UNCHANGED <<game, cmds, link, mishaps>>
    BY <2>1 DEF Drained
  <2>3. CASE DrainMap
    <3>1. Head(inbox).op = "at" /\ ChangesTo(Head(inbox).map)
      BY <2>3 DEF DrainMap
    <3>2. view'.resting = view.resting
      BY <1>1, <2>3 DEF DrainMap, Views
    <3>3. view'.resting = IF Head(inbox).op \in {"pos", "rest"} THEN Posture(Head(inbox).sitting) ELSE view.resting
      BY <3>1, <3>2
    <3>4. GoesOn
      BY <3>1, ChangesToGoesOn
    <3> QED BY <2>2, <3>3, <3>4, ReadStep DEF Linked, Once, Toggling
  <2>4. CASE DrainOther
    <3> DEFINE m == Head(inbox)
    <3>1. /\ view' = Seen(m) /\ m.op # "at" /\ waits \subseteq waits'
          /\ bot' = bot \/ bot' = [bot EXCEPT !.seen = m.cell = bot.pending]
      BY <2>4 DEF DrainOther
    <3>2. GoesOn
      BY <1>1, <3>1 DEF GoesOn, Bots
    <3>3. m \in Messages
      BY <1>1, <2>2, HeadTailProperties
    <3> HIDE DEF m
    <3>4. m.op \in {"pos", "rest", "walk", "tp", "mv", "stat", "st", "get", "err"}
      BY <3>1, <3>3, MessageType
    <3>5. view'.resting = IF m.op \in {"pos", "rest"} THEN Posture(m.sitting) ELSE view.resting
      <4>1. CASE m.op \in {"pos", "rest"}
        BY <1>1, <3>1, <4>1 DEF Seen, Views
      <4>2. CASE m.op \in {"walk", "tp", "mv", "stat", "st", "get", "err"}
        BY <1>1, <3>1, <4>2 DEF Seen, Refused, Views
      <4> QED BY <3>4, <4>1, <4>2
    <3> QED BY <2>2, <3>2, <3>5, ReadStep DEF Linked, Once, Toggling, m
  <2> QED BY <1>3, <2>3, <2>4 DEF Drain
<1> QED BY <1>2, <1>3, HostOnce

\* The game, the server and the network: a rest served turns the posture round, the others leave it.
LEMMA ServesOther ==
  ASSUME TypeOK, Serve, Head(cmds).op # "rest"
  PROVE  /\ game'.sitting = game.sitting
         /\ \E m \in Messages : m.op \notin {"rest", "pos"} /\ inbox' \in {inbox, inbox \o <<m>>}
<1>1. game \in Games /\ cmds \in Seq(Commands) /\ cmds # <<>> /\ link \in BOOLEAN
  BY DEF TypeOK, Serve
<1> DEFINE c == Head(cmds)
<1>2. c \in Commands
  BY <1>1, HeadTailProperties
<1>3. c.op = "move" => c.cell \in Cells
  BY <1>2 DEF Commands
<1>4. \/ c.op = "move" /\ ServeMove(c.cell)
      \/ ServeTarget \/ ServeAttack \/ ServeGet
  BY DEF Serve
<1>5. ASSUME NEW m \in Messages, m.op \notin {"rest", "pos"}, Tell(<<m>>) \/ UNCHANGED inbox
      PROVE  \E n \in Messages : n.op \notin {"rest", "pos"} /\ inbox' \in {inbox, inbox \o <<n>>}
  <2>1. inbox' \in {inbox, inbox \o <<m>>}
    BY <1>5 DEF Tell
  <2> QED BY <1>5, <2>1
<1>6. CASE c.op = "move" /\ ServeMove(c.cell)
  <2>1. [op |-> "walk", cell |-> c.cell] \in Messages /\ [op |-> "tp", cell |-> game.cell] \in Messages
    BY <1>1, <1>3, <1>6, GameType, ToldType
  <2>2. game' = game \/ game' = [game EXCEPT !.dest = c.cell]
    BY <1>6 DEF ServeMove
  <2>3. game'.sitting = game.sitting
    BY <1>1, <2>2 DEF Games
  <2>4. \/ Tell(<<[op |-> "walk", cell |-> c.cell]>>) \/ UNCHANGED inbox
        \/ Tell(<<[op |-> "tp", cell |-> game.cell]>>)
    BY <1>6 DEF ServeMove
  <2> HIDE DEF c
  <2> QED BY <1>5, <2>1, <2>3, <2>4
<1>7. CASE ServeTarget \/ ServeAttack \/ ServeGet
  <2>1. /\ [op |-> "err", gone |-> TRUE] \in Messages /\ [op |-> "err", gone |-> FALSE] \in Messages
        /\ [op |-> "st"] \in Messages /\ [op |-> "get"] \in Messages
    BY ToldType
  <2>2. game' \in {game, [game EXCEPT !.foe = FALSE], [game EXCEPT !.item = FALSE]}
    BY <1>7 DEF ServeTarget, ServeAttack, ServeGet
  <2>3. game'.sitting = game.sitting
    BY <1>1, <2>2 DEF Games
  <2>4. \/ Tell(<<[op |-> "err", gone |-> TRUE]>>) \/ Tell(<<[op |-> "err", gone |-> FALSE]>>)
        \/ Tell(<<[op |-> "st"]>>) \/ Tell(<<[op |-> "get"]>>) \/ UNCHANGED inbox
    BY <1>7 DEF ServeTarget, ServeAttack, ServeGet
  <2> QED BY <1>5, <2>1, <2>3, <2>4
<1> QED BY <1>4, <1>6, <1>7

\* The same for what happens without a command.
LEMMA TellsOther ==
  ASSUME TypeOK, Step \/ Heal \/ Hurt \/ (\E m \in Maps : Warp(m)) \/ LoseLink \/ Reconnect
                 \/ (\E c \in {Entry, bot.pending} \ {None} : OtherMoves(c))
  PROVE  /\ game'.sitting = game.sitting /\ cmds' \in {cmds, <<>>}
         /\ \E m \in Messages : m.op \notin {"rest", "pos"} /\ inbox' \in {inbox, inbox \o <<m>>}
<1>1. game \in Games /\ bot \in Bots
  BY DEF TypeOK
<1>2. ASSUME NEW m \in Messages, m.op \notin {"rest", "pos"}, Tell(<<m>>) \/ UNCHANGED inbox
      PROVE  \E n \in Messages : n.op \notin {"rest", "pos"} /\ inbox' \in {inbox, inbox \o <<n>>}
  <2>1. inbox' \in {inbox, inbox \o <<m>>}
    BY <1>2 DEF Tell
  <2> QED BY <1>2, <2>1
<1>3. CASE Step \/ LoseLink \/ Reconnect
  <2>1. UNCHANGED inbox /\ cmds' \in {cmds, <<>>} /\ [op |-> "st"] \in Messages
    BY <1>3, ToldType DEF Step, LoseLink, Reconnect
  <2>2. game'.sitting = game.sitting
    BY <1>1, <1>3 DEF Step, LoseLink, Reconnect, Games
  <2> QED BY <1>2, <2>1, <2>2
<1>4. CASE Heal \/ Hurt
  <2>1. [op |-> "stat", hp |-> "full"] \in Messages /\ [op |-> "stat", hp |-> "low"] \in Messages
    BY ToldType
  <2>2. game'.sitting = game.sitting
    BY <1>1, <1>4 DEF Heal, Hurt, Games
  <2> QED BY <1>2, <1>4, <2>1, <2>2 DEF Heal, Hurt
<1>5. ASSUME NEW m \in Maps, Warp(m)
      PROVE  /\ game'.sitting = game.sitting /\ cmds' = cmds
             /\ \E n \in Messages : n.op \notin {"rest", "pos"} /\ inbox' \in {inbox, inbox \o <<n>>}
  <2>1. [op |-> "at", map |-> m, cell |-> Entry] \in Messages
    BY BotAssumption, ToldType
  <2>2. game'.sitting = game.sitting
    BY <1>1, <1>5 DEF Warp, Games
  <2>3. Tell(<<[op |-> "at", map |-> m, cell |-> Entry]>>) /\ cmds' = cmds
    BY <1>5 DEF Warp
  <2> QED BY <1>2, <2>1, <2>2, <2>3
<1>6. ASSUME NEW c \in {Entry, bot.pending} \ {None}, OtherMoves(c)
      PROVE  /\ game'.sitting = game.sitting /\ cmds' = cmds
             /\ \E n \in Messages : n.op \notin {"rest", "pos"} /\ inbox' \in {inbox, inbox \o <<n>>}
  <2>1. c \in Cells
    BY <1>1, <1>6, BotAssumption DEF Bots, MaybeAt
  <2>2. [op |-> "mv", cell |-> c] \in Messages
    BY <2>1, ToldType
  <2> QED BY <1>2, <1>6, <2>2 DEF OtherMoves
<1> QED BY <1>3, <1>4, <1>5, <1>6

LEMMA WorldOnce ==
  ASSUME TypeOK, Linked, Once, Answer \/ Rules \/ Chance
  PROVE  Linked' /\ Once'
<1>1. cmds \in Seq(Commands) /\ inbox \in Seq(Messages) /\ game \in Games
  BY DEF TypeOK
<1>2. UNCHANGED <<view, bot, waits, mishaps>>
  BY WorldFrame
<1>3. Linked'
  <2>1. CASE Serve
    <3>1. cmds # <<>> /\ link' = link
      BY <2>1 DEF Serve
    <3> QED BY <3>1 DEF Linked
  <2>2. CASE Answer \/ Step \/ Heal \/ Chance
    <3>1. (link' = link /\ cmds' = cmds) \/ cmds' = <<>> \/ link' = TRUE
      BY <2>2 DEF Answer, Step, Heal, Chance, Hurt, Warp, OtherMoves, LoseLink, Reconnect
    <3> QED BY <3>1 DEF Linked
  <2> QED BY <2>1, <2>2 DEF Rules
<1>4. ASSUME mishaps = {} PROVE Toggling'
  <2>1. Toggling
    BY <1>4 DEF Once, Toggling
  <2>2. CASE Answer
    <3> DEFINE m == [op |-> "pos", cell |-> game.cell, sitting |-> game.sitting]
    <3>1. m \in Messages
      BY <1>1, GameType, ToldType
    <3>2. inbox = <<>> /\ UNCHANGED <<game, cmds>> /\ inbox' \in {inbox, inbox \o <<m>>}
      BY <2>2 DEF Answer, Tell
    <3>3. \A i, j \in Rests(cmds') : i = j
      BY <2>1, <3>2 DEF Toggling, AtMostOne
    <3>4. m.op = "pos" /\ m.sitting = game.sitting
      OBVIOUS
    <3> HIDE DEF m
    <3> QED BY <1>2, <2>1, <3>1, <3>2, <3>3, <3>4, TellStep
  <2>3. CASE Serve /\ Head(cmds).op = "rest"
    <3>1. cmds # <<>> /\ cmds' = Tail(cmds) /\ ServeRest
      BY <2>3 DEF Serve
    <3> QED BY <1>2, <2>1, <2>3, <3>1, RestStep
  <2>4. CASE Serve /\ Head(cmds).op # "rest"
    <3>1. cmds # <<>> /\ cmds' = Tail(cmds)
      BY <2>4 DEF Serve
    <3>2. \A i \in Rests(cmds') : i \in Nat /\ i + 1 \in Rests(cmds)
      <4>1. Rests(cmds') \subseteq DOMAIN cmds'
        BY DEF Rests
      <4> QED BY <1>1, <3>1, <4>1, RestsTail
    <3>3. \A i, j \in Nat : i + 1 = j + 1 => i = j
      OBVIOUS
    <3>4. \A i, j \in Rests(cmds') : i = j
      <4>1. ASSUME NEW i \in Rests(cmds'), NEW j \in Rests(cmds') PROVE i = j
        <5>1. i + 1 = j + 1
          BY <2>1, <3>2 DEF Toggling, AtMostOne
        <5> QED BY <3>2, <3>3, <5>1
      <4> QED BY <4>1
    <3>5. Rests(cmds') # {} => Rests(cmds) # {}
      BY <3>2
    <3>6. PICK m \in Messages : m.op \notin {"rest", "pos"} /\ inbox' \in {inbox, inbox \o <<m>>}
      BY <2>4, ServesOther
    <3>7. game'.sitting = game.sitting
      BY <2>4, ServesOther
    <3> QED BY <1>2, <2>1, <3>4, <3>5, <3>6, <3>7, TellStep
  <2>5. CASE Step \/ Heal \/ Chance
    <3>1. Step \/ Heal \/ Hurt \/ (\E m \in Maps : Warp(m)) \/ LoseLink \/ Reconnect
          \/ (\E c \in {Entry, bot.pending} \ {None} : OtherMoves(c))
      BY <2>5 DEF Chance
    <3>2. game'.sitting = game.sitting /\ cmds' \in {cmds, <<>>}
      BY <3>1, TellsOther
    <3>3. PICK m \in Messages : m.op \notin {"rest", "pos"} /\ inbox' \in {inbox, inbox \o <<m>>}
      BY <3>1, TellsOther
    <3>4. Rests(<<>>) = {}
      BY DEF Rests
    <3>5. (\A i, j \in Rests(cmds') : i = j) /\ (Rests(cmds') # {} => Rests(cmds) # {})
      BY <2>1, <3>2, <3>4 DEF Toggling, AtMostOne
    <3> QED BY <1>2, <2>1, <3>2, <3>3, <3>5, TellStep
  <2> QED BY <2>2, <2>3, <2>4, <2>5 DEF Rules
<1> QED BY <1>2, <1>3, <1>4 DEF Once, Toggling

LEMMA InitOnce == Init => Halted /\ Linked /\ Once
<1> SUFFICES ASSUME Init PROVE Halted /\ Linked /\ Once
  OBVIOUS
<1>1. cmds = <<>> /\ inbox = <<>> /\ link = TRUE /\ halt = "no"
  BY DEF Init
<1>2. Rests(<<>>) = {} /\ DOMAIN <<>> = {}
  BY DEF Rests
<1>3. ~Asked /\ AtMostOne /\ Known = game.sitting
  BY <1>1, <1>2 DEF Asked, AtMostOne, Known
<1>4. view.resting \in {"unknown", Posture(Known)}
  BY <1>3 DEF Init, Located, Unlocated, Posture
<1>5. PostureTrue
  BY <1>1, <1>2, <1>4 DEF PostureTrue
<1> QED BY <1>1, <1>3, <1>5 DEF Halted, Final, Linked, Once, DriverWaits

LEMMA OnceKept == TypeOK /\ Linked /\ Once /\ [Next]_vars => Linked' /\ Once'
<1> SUFFICES ASSUME TypeOK, Linked, Once, [Next]_vars PROVE Linked' /\ Once'
  OBVIOUS
<1>1. CASE UNCHANGED vars
  <2>1. HostStep
    BY <1>1 DEF vars, host, past, HostStep, GoesOn
  <2> QED BY <2>1, HostOnce
<1>2. CASE User \/ Time
  BY <1>2, UserHost, TimeHost, HostOnce
<1>3. CASE Drain \/ (\E m \in Maps : DetectMap(m))
  BY <1>3, DrainOnce
<1>4. CASE StartLocated \/ StandUpOver \/ IdleStart \/ TravelTick
  BY <1>4, GoesOnHost, HostOnce
<1>5. CASE BotTick
  BY <1>5, BotTickHost, HostOnce
<1>6. CASE Answer \/ Rules \/ Chance
  BY <1>6, WorldOnce
<1> QED BY <1>1, <1>2, <1>3, <1>4, <1>5, <1>6 DEF Next, Window

-----------------------------------------------------------------------------
(* The invariant, and what follows from it. *)

BotInv == TypeOK /\ Halted /\ Led /\ Linked /\ Once

LEMMA BotInvariant == Spec => []BotInv
<1>1. Init => BotInv
  BY InitType, InitLed, InitOnce DEF BotInv
<1>2. BotInv /\ [Next]_vars => BotInv'
  <2> SUFFICES ASSUME BotInv, [Next]_vars PROVE BotInv'
    OBVIOUS
  <2>1. TypeOK' /\ Halted'
    BY TypeKept, HaltedKept DEF BotInv
  <2>2. Led'
    BY LedKept DEF BotInv
  <2>3. Linked' /\ Once'
    BY OnceKept DEF BotInv
  <2> QED BY <2>1, <2>2, <2>3 DEF BotInv
<1> QED BY <1>1, <1>2, PTL DEF Spec

\* No queue of the window or the DLL passes its bound, no age its deadline, no item its three
\* tries, and every goal, leg, command and message stays on the map.
THEOREM BotTyped == Spec => []TypeOK
<1>1. BotInv => TypeOK
  BY DEF BotInv
<1> QED BY <1>1, BotInvariant, PTL

\* After Stop, unless a callback was waiting, nothing walks, fights or starts until the user
\* acts (_stop_bot).
THEOREM StopHolds == Spec => []StopIsFinal
<1>1. BotInv => StopIsFinal
  BY DEF BotInv, Halted, Final, Idle, StopIsFinal
<1> QED BY <1>1, BotInvariant, PTL

\* A change to a map with a grid stops the bot and the click-to-walk (_select_map).
THEOREM MapHolds == Spec => []MapStops
<1>1. BotInv => MapStops
  BY DEF BotInv, Halted, Final, Idle, MapStops
<1> QED BY <1>1, BotInvariant, PTL

\* While none of its excuses has occurred, no second rest is sent before the answer to the first
\* is read (_bot_tick, _start_travel): a message tells the window the posture of its own time,
\* and the deadline of the one it waits for is running.
THEOREM TogglesHold == Spec => []TogglesOnce
<1>1. BotInv => TogglesOnce
  BY Counted DEF BotInv, Once, TogglesOnce
<1> QED BY <1>1, BotInvariant, PTL

\* A running bot stops when it is interrupted (by the user, a lost link, a new grid or three walks that
\* timed out), at the end of a route that it has and has walked, without a route when nothing is left to
\* do, or after a leg of a chase without Loop (_bot_tick, _advance_path, _stop_bot).
THEOREM StopsHold == Spec => StopsForAReason
<1>1. BotInv /\ [Next]_vars => Reason
  BY LedKept DEF BotInv
<1>2. Reason <=> (bot.running /\ ~bot'.running =>
       Interrupted \/ RouteDone \/ NothingToDo \/ ChaseTakenForRoute)
  BY DEF Reason
<1> QED BY <1>1, <1>2, BotInvariant, PTL DEF Spec, StopsForAReason

=============================================================================
