--------------------------- MODULE SnapshotStack ---------------------------
(***************************************************************************)
(* What a semi-persistent container promises, with no diff log in sight:   *)
(* the current contents and a stack of complete copies, one per open mark. *)
(* containers-verus states the same promise on its ghost field `snapshots` *)
(* and on Member::archive.                                                 *)
(***************************************************************************)
EXTENDS Naturals, Sequences

CONSTANT Contents

VARIABLES contents, snaps

vars == <<contents, snaps>>

Init == contents \in Contents /\ snaps = <<>>

(* Any mutation between marks: the open snapshots are not disturbed. *)
Write == contents' \in Contents /\ snaps' = snaps

Mark == contents' = contents /\ snaps' = Append(snaps, contents)

(* Back to the k-th snapshot, dropping it and everything above it. *)
Restore(k) == contents' = snaps[k] /\ snaps' = SubSeq(snaps, 1, k - 1)

(* Back to the k-th snapshot, keeping it open. *)
Reset(k) == contents' = snaps[k] /\ snaps' = SubSeq(snaps, 1, k)

Next == \/ Write
        \/ Mark
        \/ \E k \in 1 .. Len(snaps) : Restore(k) \/ Reset(k)

Spec == Init /\ [][Next]_vars
=============================================================================
