---------------------------- MODULE DiffEntries ----------------------------
(***************************************************************************)
(* The entries of a diff log and the pure conversions between the tiers of *)
(* containers-verus/src/vec.rs: the oldest-entry selection of the trail    *)
(* (trail_select.rs), the sort before compression (std_sort.rs), the index *)
(* runs of the cold tier (cold_encode.rs, cold_decode.rs), and the overlay *)
(* that replays a range of entries (DiffStoreOps::restore_overlay).        *)
(*                                                                         *)
(* Pool offsets keep the code's numbers: a range [start, end) of a pool is *)
(* SubSeq(pool, start + 1, end).  Cells are numbered from 1.               *)
(***************************************************************************)
EXTENDS Integers, SequencesExt

Entry(i, v) == [idx |-> i, val |-> v]
Indices(entries) == {entries[q].idx : q \in DOMAIN entries}

Range0(pool, start, end) == SubSeq(pool, start + 1, end)

(* Mutant: the newest entry of an index is kept. *)
KeepLast(kept, e) == Append(SelectSeq(kept, LAMBDA k : k.idx # e.idx), e)

(* The oldest entry of every index, in log order. *)
KeepFirst(kept, e) == IF e.idx \in Indices(kept) THEN kept ELSE Append(kept, e)
FirstWrites(entries) == FoldLeft(KeepFirst, <<>>, entries)

SortByIndex(entries) == SortSeq(entries, LAMBDA d, e : d.idx < e.idx)

(* Maximal runs of consecutive indices; values share one pool. *)
Run(base, start, len) == [base |-> base, start |-> start, len |-> len]

(* Mutants: a run grows across the boundary between two frames; the test   *)
(* for the next index is off by one.                                       *)
ExtendsAcross(runs, first, e) == Len(runs) > 0 /\ e.idx - Last(runs).base = Last(runs).len
ExtendsOffByOne(runs, first, e) == Len(runs) > first /\ e.idx - Last(runs).base = Last(runs).len - 1

Extends(runs, first, e) == /\ Len(runs) > first
                           /\ e.idx - Last(runs).base = Last(runs).len

AppendSorted(pools, entries) ==
  LET first == Len(pools.runs)
      Step(p, e) ==
        [runs   |-> IF Extends(p.runs, first, e)
                    THEN [p.runs EXCEPT ![Len(p.runs)].len = @ + 1]
                    ELSE Append(p.runs, Run(e.idx, Len(p.values), 1)),
         values |-> Append(p.values, e.val)]
  IN  FoldLeft(Step, pools, entries)

CountRuns(entries) == Len(AppendSorted([runs |-> <<>>, values |-> <<>>], entries).runs)

AppendRun(values, run) ==
  [q \in 1 .. run.len |-> Entry(run.base + q - 1, values[run.start + q])]

(* The entries of runs lo .. hi - 1. *)
DecodeInto(pools, lo, hi) ==
  FlattenSeq([r \in 1 .. hi - lo |-> AppendRun(pools.values, pools.runs[lo + r])])

(* Replays a range of entries from the last to the first: the oldest entry *)
(* of a cell wins, entries past the present length are skipped.            *)
FirstFor(entries, i) ==
  CHOOSE q \in DOMAIN entries : entries[q].idx = i /\ \A p \in 1 .. q - 1 : entries[p].idx # i

Overlay(data, entries) ==
  [i \in DOMAIN data |-> IF i \in Indices(entries)
                         THEN entries[FirstFor(entries, i)].val
                         ELSE data[i]]
=============================================================================
