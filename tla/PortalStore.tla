----------------------------- MODULE PortalStore -----------------------------
(***************************************************************************)
(* The portals a window knows of one map: mapdata.py and the tick that     *)
(* each second merges into them what the engine has learned, collapses     *)
(* what is close together, and saves them when that changed anything.      *)
(***************************************************************************)
EXTENDS Integers, FiniteSets, Sequences
LOCAL INSTANCE SequencesExt
LOCAL INSTANCE FiniteSetsExt
LOCAL INSTANCE Functions

CONSTANTS
  Places,    \* cells of the map, pairs, in the order of sorted()
  Targets,   \* maps its portals lead to
  MaxLearned, \* bound: gates and crossings the engine learns, and restarts of the window
  MaxSaved,  \* bound: portals saved by earlier runs
  MaxBusy    \* the ticks it takes to settle

ASSUME StoreAssumption == Places \in Seq(Nat \X Nat) /\ MaxLearned \in Nat /\ MaxBusy \in Nat

VARIABLE store   \* portals: place to target; gates and crossings of the engine;
                 \* busy: the ticks since something was learned, or since one that changed nothing

-----------------------------------------------------------------------------
(* The operations on the portals, functions of the places that have one. *)

Distance(n, m) == IF n < m THEN m - n ELSE n - m
Near(c, d, radius) == Distance(c[1], d[1]) <= radius /\ Distance(c[2], d[2]) <= radius

Put(portals, c, to) == [d \in DOMAIN portals \cup {c} |-> IF d = c THEN to ELSE portals[d]]

\* A mutant: what is one marker for normalize_portals is two here.
add_portalCloser(portals, c, to) ==
  IF \E d \in DOMAIN portals : portals[d] = to /\ Near(c, d, 1) THEN portals ELSE Put(portals, c, to)

add_portal(portals, c, to) ==
  IF \E d \in DOMAIN portals : portals[d] = to /\ Near(c, d, 2) THEN portals ELSE Put(portals, c, to)

set_gate(portals, c, to) ==
  LET keep == {d \in DOMAIN portals : portals[d] = to /\ Near(c, d, 3) => d = c}
  IN Put([d \in keep |-> portals[d]], c, to)

\* round(total / n), which takes the even neighbour of a half.
Round(total, n) ==
  LET q == total \div n
      r == 2 * (total % n)
  IN IF r < n \/ (r = n /\ q % 2 = 0) THEN q ELSE q + 1

Mean(cells) == <<Round(FoldLeft(LAMBDA sum, c : sum + c[1], 0, cells), Len(cells)),
                 Round(FoldLeft(LAMBDA sum, c : sum + c[2], 0, cells), Len(cells))>>

\* A place joins the first cluster of its target it is near to every member of.
Clusters(portals) ==
  LET keys == SelectSeq(Places, LAMBDA c : c \in DOMAIN portals)
      after[n \in Nat] ==
        IF n = 0 THEN <<>>
        ELSE LET clusters == after[n - 1]
                 c == keys[n]
                 fits == {i \in DOMAIN clusters : clusters[i].to = portals[c]
                            /\ \A j \in DOMAIN clusters[i].cells : Near(c, clusters[i].cells[j], 2)}
             IN IF fits = {} THEN Append(clusters, [to |-> portals[c], cells |-> <<c>>])
                ELSE [clusters EXCEPT ![Min(fits)].cells = Append(@, c)]
  IN after[Len(keys)]

\* Of clusters with the same mean the last one is kept.
normalize_portals(portals) ==
  LET clusters == Clusters(portals)
      means == [i \in DOMAIN clusters |-> Mean(clusters[i].cells)]
  IN [c \in Range(means) |-> clusters[Max({i \in DOMAIN clusters : means[i] = c})].to]

\* The gates first, then the crossings, each in the order they were learned in.  set_gate and
\* add_portal say whether they changed the portals, also when a later one undoes it.
Merge(portals, gates, crossings) ==
  LET after[n \in Nat] ==
        IF n = 0 THEN [portals |-> portals, merged |-> FALSE]
        ELSE LET m == after[n - 1]
                 new == IF n <= Len(gates)
                          THEN set_gate(m.portals, gates[n][1], gates[n][2])
                          ELSE add_portal(m.portals, crossings[n - Len(gates)][1], crossings[n - Len(gates)][2])
             IN [portals |-> new, merged |-> m.merged \/ new # m.portals]
      all == after[Len(gates) + Len(crossings)]
      new == normalize_portals(all.portals)
  IN [portals |-> new, merged |-> all.merged \/ new # all.portals]

-----------------------------------------------------------------------------
(* The window. *)

\* The file is of an earlier run, or was written by hand.
StoreInit ==
  \E saved \in {S \in SUBSET Range(Places) : Cardinality(S) <= MaxSaved} : \E portals \in [saved -> Targets] :
    store = [portals |-> normalize_portals(portals), gates |-> <<>>, crossings |-> <<>>, busy |-> 0, learned |-> 0]

\* A dict: a place learned again keeps its place in the order and leads where it was last said to.
Learned(list, c, to) ==
  IF \E i \in DOMAIN list : list[i][1] = c
    THEN [i \in DOMAIN list |-> IF list[i][1] = c THEN <<c, to>> ELSE list[i]]
    ELSE Append(list, <<c, to>>)

Learns ==
  /\ store.learned < MaxLearned
  /\ \E c \in Range(Places), to \in Targets, field \in {"gates", "crossings"} :
       store' = [store EXCEPT ![field] = Learned(@, c, to), !.learned = @ + 1, !.busy = 0]

\* _live_sidebar_tick; _ensure_spawns_loaded does the same with the log's.
Tick ==
  LET m == Merge(store.portals, store.gates, store.crossings)
  IN store' = [store EXCEPT !.portals = m.portals,
                             !.busy = IF m.merged THEN Min({@ + 1, MaxBusy + 1}) ELSE 0]

\* What was saved is what there was.
Restarts ==
  /\ store.learned < MaxLearned
  /\ store' = [portals |-> normalize_portals(store.portals), gates |-> <<>>, crossings |-> <<>>,
               busy |-> 0, learned |-> store.learned + 1]

StoreNext == Learns \/ Tick \/ Restarts

-----------------------------------------------------------------------------

\* Two gates to one map so close that each removes the other; a crossing at three cells from a gate,
\* which the gate removes and which adds itself again; two portals at one cell to different maps.
Clash ==
  \E x \in Range(store.gates) :
    \/ \E y \in Range(store.gates) \ {x} : x[2] = y[2] /\ Near(x[1], y[1], 3)
    \/ \E y \in Range(store.crossings) :
         IF x[2] = y[2] THEN Near(x[1], y[1], 3) /\ ~Near(x[1], y[1], 2) ELSE x[1] = y[1]

\* When nothing new is learned, MaxBusy ticks bring the portals to rest, and they are not saved again:
\* what set_gate puts, what add_portal puts and what normalize_portals makes of them agree, unless two
\* of what was learned clash (_live_sidebar_tick).
PortalsSettle == store.busy <= MaxBusy \/ Clash

=============================================================================
