------------------------------- MODULE RefVec -------------------------------
(***************************************************************************)
(* The reference vector of containers/src: one diff log, one stack of      *)
(* frames, a capture store, and tokens checked against the genealogy of    *)
(* branches (token.rs: ForkHistory).  Its restore consumes the frame it    *)
(* returns to, and opens a branch.                                         *)
(*                                                                         *)
(* The store is "inline" (tag bits, cleared by writing the cell's repr) or *)
(* "parallel" (bits of their own, which survive a pop).  Tokens of other   *)
(* containers, which restore refuses first of all, are not presented.      *)
(***************************************************************************)
EXTENDS DiffEntries, FiniteSets

CONSTANTS Stores,    \* the stores a vector is made with
          Value, Filler,
          MaxLen,    \* stands for the index type's maximum
          MaxDepth,  \* stands for u32::MAX nested marks
          MaxBranch, \* bound of the model on the number of restores
          MaxIssued  \* bound of the model on the number of marks

ASSUME RefAssumption == /\ Stores \subseteq {"inline", "parallel"}
                        /\ Filler \notin Value
                        /\ {MaxLen, MaxDepth, MaxBranch, MaxIssued} \subseteq Nat

VARIABLES store, data, captured, \* the kind of store, its cells and flags
          log, frames, active,
          origins,         \* ForkHistory; the current branch is Len(origins)
          issued           \* ghost: tokens handed out, what they were minted for

vars == <<store, data, captured, log, frames, active, origins, issued>>

VecToken(branch, d) == [branch |-> branch, depth |-> d]
Frame(n, start) == [saved_len |-> n, diff_start |-> start]

Init == /\ store \in Stores
        /\ data = <<>> /\ captured = {}
        /\ log = <<>> /\ frames = <<>> /\ active = 0
        /\ origins = <<>>
        /\ issued = {}

(***************************************************************************)
(* ForkHistory.                                                            *)
(***************************************************************************)
CurrentBranch == Len(origins)

(* Mutant: only the current branch and its parent are looked at. *)
IsValidParentOnly(t) ==
  \/ t.branch = CurrentBranch /\ t.depth <= Len(frames)
  \/ /\ CurrentBranch > 0
     /\ origins[CurrentBranch].parent = t.branch
     /\ t.depth <= origins[CurrentBranch].fork_depth

(* The walk from the current branch to the token's, parent by parent. *)
IsValid(t) ==
  LET Walk[b \in 0 .. CurrentBranch] ==
        IF b = t.branch THEN t.depth <= Len(frames)
        ELSE /\ b # 0
             /\ IF origins[b].parent = t.branch THEN t.depth <= origins[b].fork_depth
                ELSE Walk[origins[b].parent]
  IN  Walk[CurrentBranch]

(* Mutant: the new branch hangs off the current one, not the token's. *)
ForkFromCurrent(t) == origins' = Append(origins, [parent |-> CurrentBranch, fork_depth |-> t.depth])

Fork(t) == origins' = Append(origins, [parent |-> t.branch, fork_depth |-> t.depth])

(***************************************************************************)
(* The capture protocol of DiffStore.                                      *)
(***************************************************************************)
Tracked == frames # <<>>

Logs(i) == Tracked /\ i <= active /\ i \notin captured
LogAfter(i) == IF Logs(i) THEN Append(log, Entry(i, data[i])) ELSE log
FlagsAfter(i) == IF Logs(i) THEN captured \cup {i} ELSE captured

Stratum(k) == SubSeq(log, frames[k].diff_start + 1,
                     IF k < Len(frames) THEN frames[k + 1].diff_start ELSE Len(log))

(* Mutant: the flags of the frame that closes stay set. *)
PrepareMarkFlagged == UNCHANGED captured

PrepareMark ==
  captured' = IF store = "parallel" THEN {}
              ELSE IF Tracked THEN captured \ Indices(Stratum(Len(frames)))
              ELSE captured

ResizeDefault(n) == [i \in 1 .. n |-> IF i <= Len(data) THEN data[i] ELSE Filler]

(* Mutant: the old bits are not zeroed. *)
FinishRestoreUncleared(n, replayed, survivors) ==
  captured \cup {i \in Indices(survivors) : i <= n}

(* The flags once the entries replayed are written and the survivors'     *)
(* flags set: an inline cell loses its tag when it is written.            *)
FinishRestore(n, replayed, survivors) ==
  LET left == IF store = "parallel" THEN {} ELSE (captured \cap 1 .. n) \ Indices(replayed)
  IN  left \cup {i \in Indices(survivors) : i <= n}

(* Mutant: a cell pushed back below the mark is not flagged. *)
PushUnflagged(v) ==
  /\ Len(data) < MaxLen
  /\ data' = Append(data, v)
  /\ UNCHANGED <<store, captured, log, frames, active, origins, issued>>

(***************************************************************************)
(* Operations of Vec.                                                      *)
(***************************************************************************)
Push(v) ==
  /\ Len(data) < MaxLen
  /\ data' = Append(data, v)
  /\ captured' = IF Tracked /\ Len(data) < active
                 THEN captured \cup {Len(data) + 1} ELSE captured
  /\ UNCHANGED <<store, log, frames, active, origins, issued>>

(* Mutant: a pop logs nothing. *)
PopCellUnlogged ==
  /\ Len(data) > 0
  /\ data' = Front(data)
  /\ captured' = captured \ {Len(data)}
  /\ UNCHANGED <<store, log, frames, active, origins, issued>>

(* A popped inline cell takes its tag along; a bit of its own stays. *)
PopCell ==
  /\ Len(data) > 0
  /\ data' = Front(data)
  /\ log' = LogAfter(Len(data))
  /\ captured' = IF store = "inline" THEN FlagsAfter(Len(data)) \ {Len(data)}
                 ELSE FlagsAfter(Len(data))
  /\ UNCHANGED <<store, frames, active, origins, issued>>

Set(i, v) ==
  /\ i \in 1 .. Len(data)
  /\ data' = [data EXCEPT ![i] = v]
  /\ log' = LogAfter(i)
  /\ captured' = FlagsAfter(i)
  /\ UNCHANGED <<store, frames, active, origins, issued>>

Issue(t) == issued' = issued \cup {[token |-> t, contents |-> data, fate |-> "open"]}

Mark ==
  /\ Len(frames) < MaxDepth
  /\ PrepareMark
  /\ Issue(VecToken(CurrentBranch, Len(frames)))
  /\ frames' = Append(frames, Frame(Len(data), Len(log)))
  /\ active' = Len(data)
  /\ UNCHANGED <<store, data, log, origins>>

(* What becomes of a token when the frames from depth d are dropped. *)
Fate(d, r) == [r EXCEPT !.fate = IF r.token.depth > d THEN "abandoned"
                                 ELSE IF r.token.depth = d /\ @ = "open" THEN "consumed" ELSE @]

Accepts(t) == IsValid(t) /\ t.depth < Len(frames)

Restore(t) ==
  /\ Accepts(t)
  /\ LET target == frames[t.depth + 1]
         n == target.saved_len
         replayed == SubSeq(log, target.diff_start + 1, Len(log))
         kept == SubSeq(log, 1, target.diff_start)
         below == IF t.depth > 0 THEN frames[t.depth] ELSE Frame(0, 0)
         survivors == SubSeq(kept, below.diff_start + 1, Len(kept))
     IN  /\ data' = Overlay(ResizeDefault(n), replayed)
         /\ captured' = FinishRestore(n, replayed, survivors)
         /\ log' = kept
         /\ frames' = SubSeq(frames, 1, t.depth)
         /\ active' = below.saved_len
  /\ Fork(t)
  /\ UNCHANGED store
  /\ issued' = {Fate(t.depth, r) : r \in issued}

Next == \/ \E v \in Value : Push(v) \/ \E i \in 1 .. Len(data) : Set(i, v)
        \/ PopCell
        \/ Cardinality(issued) < MaxIssued /\ Mark
        \/ Len(origins) < MaxBranch /\ \E r \in issued : Restore(r.token)

Spec == Init /\ [][Next]_vars

(***************************************************************************)
(* Properties.                                                             *)
(***************************************************************************)
(* The fields stay in range, and active_saved_len is the top frame's. *)
RefTypeOK ==
  /\ data \in Seq(Value) /\ Len(data) <= MaxLen
  /\ captured \subseteq 1 .. MaxLen
  /\ \A q \in DOMAIN log : log[q].idx \in 1 .. MaxLen /\ log[q].val \in Value
  /\ Len(frames) <= MaxDepth
  /\ active = IF Tracked THEN Last(frames).saved_len ELSE 0

(* A frame logs a cell at most once and only cells of its marked range,    *)
(* however pops, pushes, writes and restores alternate (vec.rs, push and   *)
(* pop: "first-write-wins / <= saved_len bound").                          *)
StratumBounded ==
  \A k \in 1 .. Len(frames) :
    /\ Indices(Stratum(k)) \subseteq 1 .. frames[k].saved_len
    /\ Cardinality(Indices(Stratum(k))) = Len(Stratum(k))

(* The capture flag of a live cell says whether the open frame logged it,  *)
(* also for the frame that a restore makes writable again.                 *)
FlagsMatchStratum ==
  captured \cap DOMAIN data =
    (IF Tracked THEN Indices(Stratum(Len(frames))) ELSE {}) \cap DOMAIN data

DiffOf(entries) == [i \in Indices(entries) |-> entries[FirstFor(entries, i)].val]

Grid == INSTANCE FrameGrid WITH
          saved <- [k \in 1 .. Len(frames) |-> frames[k].saved_len],
          old <- [k \in 1 .. Len(frames) |-> DiffOf(Stratum(k))]

(* The reference vector follows the same diff discipline as the tiered     *)
(* one: every operation is the operation of FrameGrid of the same name.    *)
ImplementsGrid == Grid!Spec

(* A token whose frame is on the stack is accepted by restore, and leads   *)
(* to the contents it was minted for, whatever branches were left behind.  *)
OpenTokenLeadsHome ==
  \A r \in issued : r.fate = "open" =>
    Accepts(r.token) /\ Grid!Version(r.token.depth + 1) = r.contents

(* A token of a mark that some restore went below is rejected for good,    *)
(* whichever branches come later (restore panics with "invalid restore     *)
(* token (abandoned future)").                                             *)
AbandonedRejected ==
  \A r \in issued : r.fate = "abandoned" => ~IsValid(r.token)

(* No token that validates leads to a state other than its own mark's:     *)
(* what the crate's design document says of stale tokens.                  *)
StaleRejected ==
  \A r \in issued : Accepts(r.token) => Grid!Version(r.token.depth + 1) = r.contents
=============================================================================
