----------------------------- MODULE ColdTier ------------------------------
(***************************************************************************)
(* The cold tier on its own, with frames wide enough for gaps: sorted      *)
(* frames are packed into index runs that share one run pool and one value *)
(* pool; a restore cuts the pools at a frame, and the surviving top frame  *)
(* is decoded and leaves the tier.                                         *)
(***************************************************************************)
EXTENDS DiffEntries, FiniteSetsExt

CONSTANTS Value, MaxLen, MaxCold

ASSUME ColdAssumption == MaxLen \in Nat /\ MaxCold \in Nat

VARIABLES pools, \* [runs, values]: cold_index_runs and cold_value_pool
          hdrs,  \* cold_stack
          kept   \* ghost: the frames as they were handed over

vars == <<pools, hdrs, kept>>

Init == pools = [runs |-> <<>>, values |-> <<>>] /\ hdrs = <<>> /\ kept = <<>>

(* A hot frame: unique indices in the order of their first writes. *)
HotFrames == {FirstWrites(s) : s \in UNION {[1 .. n -> [idx : 1 .. MaxLen, val : Value]] : n \in 0 .. MaxLen}}

(* hot_frame_sort, then hot_frame_encode. *)
Compress(frame) ==
  /\ Len(hdrs) < MaxCold
  /\ pools' = AppendSorted(pools, SortByIndex(frame))
  /\ hdrs' = Append(hdrs, [runs_start |-> Len(pools.runs),
                           runs_len |-> Len(pools'.runs) - Len(pools.runs)])
  /\ kept' = Append(kept, frame)

(* The first value of a run, or the end of the pool. *)
ValueCut(p, runs_start) == IF runs_start < Len(p.runs) THEN p.runs[runs_start + 1].start
                           ELSE Len(p.values)

(* Mutant: the value pool keeps the values of the runs cut off. *)
CutPoolsRuns(p, runs_cut) == [p EXCEPT !.runs = SubSeq(@, 1, runs_cut)]

CutPools(p, runs_cut) == [runs   |-> SubSeq(p.runs, 1, runs_cut),
                          values |-> SubSeq(p.values, 1, ValueCut(p, runs_cut))]

(* truncate_restored_history keeps the first t frames. *)
Truncate(t) ==
  /\ t \in 0 .. Len(hdrs) - 1
  /\ pools' = CutPools(pools, hdrs[t + 1].runs_start)
  /\ hdrs' = SubSeq(hdrs, 1, t)
  /\ kept' = SubSeq(kept, 1, t)

(* Mutant: the length of the frame is taken for its end. *)
PromotedByLength == DecodeInto(pools, Last(hdrs).runs_start, Last(hdrs).runs_len)

(* promote_cold_storage: the top frame, decoded. *)
Promoted == DecodeInto(pools, Last(hdrs).runs_start, Len(pools.runs))

Promote ==
  /\ Len(hdrs) > 0
  /\ pools' = CutPools(pools, Last(hdrs).runs_start)
  /\ hdrs' = Front(hdrs)
  /\ kept' = Front(kept)

Next == \/ \E f \in HotFrames : Compress(f)
        \/ \E t \in 0 .. MaxCold - 1 : Truncate(t)
        \/ Promote

Spec == Init /\ [][Next]_vars
-----------------------------------------------------------------------------
FrameRuns(k) == SubSeq(pools.runs, hdrs[k].runs_start + 1, hdrs[k].runs_start + hdrs[k].runs_len)

(* Every frame decodes to its sorted entries, whatever was compressed,     *)
(* truncated or promoted since (cold_encode.rs, cold_decode.rs).           *)
DecodesToItself ==
  \A k \in DOMAIN hdrs :
    DecodeInto(pools, hdrs[k].runs_start, hdrs[k].runs_start + hdrs[k].runs_len) = SortByIndex(kept[k])

(* Runs of one frame are ascending and maximal, so no two can be joined.   *)
RunsAreMaximal ==
  \A k \in DOMAIN hdrs : \A r \in 1 .. hdrs[k].runs_len - 1 :
    FrameRuns(k)[r].base + FrameRuns(k)[r].len < FrameRuns(k)[r + 1].base

(* The frames own consecutive slices of both pools and nothing is left     *)
(* behind by a cut: a later compression starts exactly at the end.         *)
PoolsAreTiled ==
  /\ \A k \in DOMAIN hdrs :
       hdrs[k].runs_start + hdrs[k].runs_len =
         IF k = Len(hdrs) THEN Len(pools.runs) ELSE hdrs[k + 1].runs_start
  /\ \A r \in DOMAIN pools.runs :
       pools.runs[r].start + pools.runs[r].len =
         IF r = Len(pools.runs) THEN Len(pools.values) ELSE pools.runs[r + 1].start
  /\ hdrs = <<>> => pools.runs = <<>> /\ pools.values = <<>>

(* The promoted entries are those of the survivor, whose range in the code *)
(* runs to the end of the run pool instead of its own header's length.     *)
PromotionIsTopFrame ==
  hdrs # <<>> => Promoted = SortByIndex(Last(kept))
=============================================================================
