---------------------------- MODULE MaglevTable ----------------------------
(***************************************************************************)
(* How Maglev fills its lookup table: build_weighted_entries, permutation  *)
(* and populate_table of src/balancer/maglev.rs, the pure part of          *)
(* rebuild_table(). A behaviour starts from any offsets and skips the      *)
(* hashes of the addresses may give and fails backends one after another,  *)
(* rebuilding the table after each failure as a lookup would.              *)
(***************************************************************************)
EXTENDS Naturals, FiniteSets, Sequences

CONSTANTS
  N,            \* number of backends
  TableSize,    \* 65537 in the code; prime, so that a skip visits every slot
  Weight        \* Weight[b], in a common quantum

Backends == 0 .. (N - 1)
Slots == 0 .. (TableSize - 1)
Unset == N      \* usize::MAX

ASSUME NAssumption == N \in Nat \ {0}
ASSUME SizeAssumption ==
  /\ TableSize \in Nat \ {0, 1}
  /\ \A d \in 2 .. (TableSize - 1) : TableSize % d # 0
ASSUME WeightAssumption == Weight \in [Backends -> Nat \ {0}]

VARIABLES
  offset,       \* offset[b] = h1 % TableSize
  skip,         \* skip[b] = h2 % (TableSize - 1) + 1
  up,           \* the backends that are up
  table         \* lookup_table

vars == <<offset, skip, up, table>>

MinWeight(S) ==
  CHOOSE m \in {Weight[b] : b \in S} : \A b \in S : m <= Weight[b]

(* (weight / min_weight).round(), half away from zero; at least 1. *)
Repetitions(b, S) ==
  (2 * Weight[b] + MinWeight(S)) \div (2 * MinWeight(S))

(* build_weighted_entries: the backends of S in order, each repeated; and  *)
(* the entries there are after the first n backends.                       *)
EntriesUpTo(S) ==
  LET upTo[n \in 0 .. N] ==
        IF n = 0 THEN << >>
        ELSE IF n - 1 \in S
             THEN upTo[n - 1] \o [i \in 1 .. Repetitions(n - 1, S) |-> n - 1]
             ELSE upTo[n - 1]
  IN  upTo

Entries(S) == EntriesUpTo(S)[N]

(* The j-th slot in the preference list of b. *)
Preference(b, j) == (offset[b] + j * skip[b]) % TableSize

(* Mutant: every turn goes to the first entry that may still move. *)
TurnOfLast(entries, t) == IF t >= Len(entries) THEN Len(entries) ELSE t + 1

(* The entry whose turn it is when t slots are filled. *)
TurnOf(entries, t) == (t % Len(entries)) + 1

(* One turn of the inner loop: entry e takes the first free slot of its    *)
(* preferences from next[e] on; fill.next is `next`, fill.table `table`.   *)
Take(entries, fill, e) ==
  LET b == entries[e]
      free == {j \in fill.next[e] .. (TableSize - 1) :
                 fill.table[Preference(b, j)] = Unset}
      j == CHOOSE i \in free : \A k \in free : i <= k
  IN  [table |-> [fill.table EXCEPT ![Preference(b, j)] = b],
       next  |-> [fill.next EXCEPT ![e] = j + 1]]

(* populate_table, for entries that are not empty: its variables after t   *)
(* turns, and the table in the end.                                        *)
Filling(entries) ==
  LET after[t \in 0 .. TableSize] ==
        IF t = 0
        THEN [table |-> [s \in Slots |-> Unset],
              next  |-> [e \in DOMAIN entries |-> 0]]
        ELSE Take(entries, after[t - 1], TurnOf(entries, t - 1))
  IN  after

Populate(entries) == Filling(entries)[TableSize].table

(* rebuild_table: the empty Vec when nothing is up. *)
TableOf(S) == IF S = {} THEN << >> ELSE Populate(Entries(S))

(* Maglev::new, with whatever permutations the addresses hash to. *)
Init ==
  /\ offset \in [Backends -> Slots]
  /\ skip \in [Backends -> 1 .. (TableSize - 1)]
  /\ up = Backends
  /\ table = TableOf(Backends)

(* Mutant: the table is rebuilt with the backend that failed. *)
FailUnseen(b) ==
  /\ b \in up
  /\ up' = up \ {b}
  /\ table' = TableOf(up)
  /\ UNCHANGED <<offset, skip>>

(* b goes down and a lookup of one of its keys rebuilds the table. *)
Fail(b) ==
  /\ b \in up
  /\ up' = up \ {b}
  /\ table' = TableOf(up')
  /\ UNCHANGED <<offset, skip>>

Next == \E b \in Backends : Fail(b)

Spec == Init /\ [][Next]_vars

-----------------------------------------------------------------------------
SlotsOf(b) == {s \in DOMAIN table : table[s] = b}

(* Types; the table is complete, and owned by backends that are up: the    *)
(* checks `== usize::MAX` and `>= len` of next() never answer None. This   *)
(* is what Maglev assumes of Owner.                                        *)
TypeOK ==
  /\ offset \in [Backends -> Slots]
  /\ skip \in [Backends -> 1 .. (TableSize - 1)]
  /\ up \subseteq Backends
  /\ table \in IF up = {} THEN {<< >>} ELSE [Slots -> up]

(* The turns are equal: a backend with r of the n entries owns r times the *)
(* slots of one entry, give or take the last, unfinished round. So weights *)
(* are respected as repetitions, and no backend that is up is left without *)
(* a slot while there are no more entries than slots.                      *)
Balanced ==
  LET n == Len(Entries(up)) IN
  \A b \in up :
    /\ Cardinality(SlotsOf(b)) >= Repetitions(b, up) * (TableSize \div n)
    /\ Cardinality(SlotsOf(b)) <= Repetitions(b, up) * (TableSize \div n + 1)
=============================================================================
