----------------------------- MODULE FrameGrid -----------------------------
(***************************************************************************)
(* The diff-log discipline of the semi-persistent vector, common to the    *)
(* three tiers and the capture stores of containers-verus/src/vec.rs and   *)
(* to the single log of containers/src/vec.rs.  A frame keeps the length   *)
(* at its mark and, for every cell first overwritten or popped while it    *)
(* was the top frame, the value that cell had; nothing else is copied.     *)
(*                                                                         *)
(* Cells are numbered from 1, so "index < saved_len" in the code reads     *)
(* i <= saved[k] here.  A version is rebuilt from the data and the frames  *)
(* above it: the value of a cell is the one kept by the lowest frame that  *)
(* covers it, or the present one if none does.                             *)
(***************************************************************************)
EXTENDS Naturals, Sequences

CONSTANTS Value,    \* what a client stores
          Filler,   \* T::default(), what resize_default grows with
          MaxLen,   \* stands for the index type's maximum
          MaxDepth  \* stands for u32::MAX

ASSUME GridAssumption == /\ Filler \notin Value
                         /\ MaxLen \in Nat
                         /\ MaxDepth \in Nat

VARIABLES data,  \* the live cells
          saved, \* saved[k]: the length at the mark of frame k
          old    \* old[k]: the cells frame k covers, with their old values

vars == <<data, saved, old>>

Cell == 1 .. MaxLen
Diff == UNION {[S -> Value] : S \in SUBSET Cell}

GridTypeOK == /\ data \in Seq(Value)
              /\ Len(data) <= MaxLen
              /\ saved \in Seq(0 .. MaxLen)
              /\ old \in Seq(Diff)
              /\ Len(old) = Len(saved)
              /\ Len(saved) <= MaxDepth

Init == data = <<>> /\ saved = <<>> /\ old = <<>>

Depth == Len(saved)

(* A frame that covers nothing yet. *)
NoDiff == [j \in {} |-> Filler]

(* Mutants: cells past the mark are kept as well; a later write in the     *)
(* same frame is kept again.                                               *)
CapturesPastMark(i) == Depth > 0 /\ i \notin DOMAIN old[Depth]
CapturesAgain(i) == Depth > 0 /\ i <= saved[Depth]

(* The first write to a cell of the marked range keeps the old value;      *)
(* later writes in the same frame and cells past the mark do not.          *)
Captures(i) == /\ Depth > 0
               /\ i <= saved[Depth]
               /\ i \notin DOMAIN old[Depth]

WithCapture(i) == [j \in DOMAIN old[Depth] \cup {i} |->
                     IF j = i THEN data[i] ELSE old[Depth][j]]

Capture(i) == old' = IF Captures(i) THEN [old EXCEPT ![Depth] = WithCapture(i)] ELSE old

Push(v) == /\ Len(data) < MaxLen
           /\ data' = Append(data, v)
           /\ UNCHANGED <<saved, old>>

(* Mutant: a pop drops the cell without keeping its value. *)
PopCellUnlogged == /\ Len(data) > 0
                   /\ data' = SubSeq(data, 1, Len(data) - 1)
                   /\ UNCHANGED <<saved, old>>

PopCell == /\ Len(data) > 0
           /\ data' = SubSeq(data, 1, Len(data) - 1)
           /\ UNCHANGED saved
           /\ Capture(Len(data))

Set(i, v) == /\ i \in 1 .. Len(data)
             /\ data' = [data EXCEPT ![i] = v]
             /\ UNCHANGED saved
             /\ Capture(i)

Mark == /\ Depth < MaxDepth
        /\ UNCHANGED data
        /\ saved' = Append(saved, Len(data))
        /\ old' = Append(old, NoDiff)

(* Cell i of version k. *)
Covering(k, i) == {f \in k .. Depth : i \in DOMAIN old[f]}
Lowest(S) == CHOOSE f \in S : \A g \in S : f <= g
CellAt(k, i) == IF Covering(k, i) # {} THEN old[Lowest(Covering(k, i))][i]
                ELSE IF i <= Len(data) THEN data[i] ELSE Filler
Version(k) == [i \in 1 .. saved[k] |-> CellAt(k, i)]

(* Resize to the saved length, replay the frames from the newest down to   *)
(* k, drop them.                                                           *)
RestoreFrame(k) == /\ k \in 1 .. Depth
                   /\ saved' = SubSeq(saved, 1, k - 1)
                   /\ data' = Version(k)
                   /\ old' = SubSeq(old, 1, k - 1)

(* RestoreFrame followed by a fresh mark: the checkpoint stays open. *)
ResetFrame(k) == /\ k \in 1 .. Depth
                 /\ saved' = SubSeq(saved, 1, k)
                 /\ data' = Version(k)
                 /\ old' = Append(SubSeq(old, 1, k - 1), NoDiff)

Next == \/ \E v \in Value : Push(v) \/ \E i \in 1 .. Len(data) : Set(i, v)
        \/ PopCell
        \/ Mark
        \/ \E k \in 1 .. Depth : RestoreFrame(k) \/ ResetFrame(k)

Spec == Init /\ [][Next]_vars

(***************************************************************************)
(* Properties.                                                             *)
(***************************************************************************)
(* A frame covers only cells of the range it marked. *)
CoverInRange == \A f \in 1 .. Depth : DOMAIN old[f] \subseteq 1 .. saved[f]

(* Lengths may zigzag from frame to frame.  A cell of version k that no    *)
(* frame from k up to f covers has never been popped, so it is still       *)
(* inside every later marked range and inside the data.                    *)
UncoveredSurvive ==
  \A k \in 1 .. Depth : \A i \in 1 .. saved[k] :
    /\ \A f \in k .. Depth :
         (\A g \in k .. f - 1 : i \notin DOMAIN old[g]) => i <= saved[f]
    /\ (\A g \in k .. Depth : i \notin DOMAIN old[g]) => i <= Len(data)

(* The inductive invariant of the proofs. *)
GridInv == GridTypeOK /\ CoverInRange /\ UncoveredSurvive

(* No version contains a cell that resize_default made up: every such cell *)
(* is overwritten by the replay (vec.rs: reconstruct_target).              *)
FillerNeverObserved == \A k \in 1 .. Depth : Version(k) \in Seq(Value)

Versions == [k \in 1 .. Depth |-> Version(k)]

(* The vector is a stack of complete snapshots, although it stores none.   *)
Snapshots == INSTANCE SnapshotStack WITH
               Contents <- Seq(Value),
               contents <- data,
               snaps <- Versions

ImplementsSnapshots == Snapshots!Spec
=============================================================================
