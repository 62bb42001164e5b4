----------------------------- MODULE TieredVec -----------------------------
(***************************************************************************)
(* The semi-persistent vector of containers-verus/src/vec.rs with its      *)
(* physical history: capture flags in the store, the chronological trail,  *)
(* the unique hot log, the packed cold runs, and the tier policy that      *)
(* moves closed frames downwards.  Frames from the oldest to the newest    *)
(* lie in the cold, the hot and the trail stack; the newest is open.       *)
(*                                                                         *)
(* One record holds the fields of Vec, so that an operation composes the   *)
(* same steps in the same order as the code.  Its store is the DiffStore:   *)
(* "inline" keeps the capture flag in the cell's tag bit, "parallel" in a  *)
(* bitmap, and "trail" keeps none and logs every write.                    *)
(***************************************************************************)
EXTENDS DiffEntries, FiniteSetsExt

CONSTANTS Stores,     \* the stores a vector is made with
          Value, Filler, MaxLen, MaxDepth,
          MaxLog,     \* bound of the model on the length of the trail
          Policies,   \* tier policies a client installs
          HotBuffer,  \* the closed frames with_store_mode lets accumulate
          EntryBytes  \* size_of::<(T, I)>()

Limits == {"unbounded", "frames", "entries", "bytes", "adaptive"}
TierLimit == [kind : Limits, keep : Nat]

ASSUME TieredAssumption ==
  /\ Stores \subseteq {"inline", "parallel", "trail"}
  /\ Filler \notin Value
  /\ MaxLen \in Nat /\ MaxDepth \in Nat /\ MaxLog \in Nat
  /\ HotBuffer \in Nat /\ EntryBytes \in Nat \ {0}
  /\ \A p \in Policies : p.trail \in TierLimit /\ p.hot \in TierLimit

VARIABLES vec,
          snapshots \* ghost field of Vec: the data at each open mark

vars == <<vec, snapshots>>

Unique(store) == store # "trail"
UniqueCapture(v) == Unique(v.store)
NoBuffer == -1
Unbounded == [kind |-> "unbounded", keep |-> 0]

ConfiguredRolloverCanRun(store, policy, buffer) ==
  \/ buffer # NoBuffer
  \/ policy.hot.kind # "unbounded"
  \/ ~Unique(store) /\ policy.trail.kind # "unbounded"

(* with_store_mode: a unique store starts without the legacy batch unless  *)
(* a compression mode is chosen.                                           *)
DefaultPolicy(store) ==
  [trail |-> IF Unique(store) THEN [kind |-> "frames", keep |-> 0] ELSE Unbounded,
   hot |-> Unbounded]

Fresh(store, policy, buffer) ==
  [store |-> store, data |-> <<>>, captured |-> {},
   trailPool |-> <<>>, trailStack |-> <<>>,
   hotPool |-> <<>>, hotStack |-> <<>>,
   coldStack |-> <<>>, cold |-> [runs |-> <<>>, values |-> <<>>],
   activeSaved |-> 0, policy |-> policy, buffer |-> buffer,
   auto |-> ConfiguredRolloverCanRun(store, policy, buffer)]

Init == /\ \E store \in Stores :
             \/ vec = Fresh(store, DefaultPolicy(store), HotBuffer)
             \/ Unique(store) /\ vec = Fresh(store, DefaultPolicy(store), NoBuffer)
             \/ \E p \in Policies : vec = Fresh(store, p, NoBuffer)
        /\ snapshots = <<>>

(***************************************************************************)
(* Frames.                                                                 *)
(***************************************************************************)
PairFrame(saved, start, end) == [saved |-> saved, start |-> start, end |-> end]
Depth(v) == Len(v.coldStack) + Len(v.hotStack) + Len(v.trailStack)

FrameSavedLen(v, k) ==
  LET c == Len(v.coldStack)
      h == Len(v.hotStack)
  IN  IF k < c THEN v.coldStack[k + 1].saved
      ELSE IF k < c + h THEN v.hotStack[k - c + 1].saved
      ELSE v.trailStack[k - c - h + 1].saved

(***************************************************************************)
(* Writes.                                                                 *)
(***************************************************************************)
(* DiffStore::capture behind runtime_capture's range test. *)
CaptureCell(v, i) ==
  IF i > v.activeSaved \/ (UniqueCapture(v) /\ i \in v.captured) THEN v
  ELSE IF UniqueCapture(v)
  THEN [v EXCEPT !.hotPool = Append(@, Entry(i, v.data[i])), !.captured = @ \cup {i}]
  ELSE [v EXCEPT !.trailPool = Append(@, Entry(i, v.data[i]))]

LogHasRoom == UniqueCapture(vec) \/ Len(vec.trailPool) < MaxLog

(* Mutant: a cell pushed back below the mark is not flagged. *)
PushUnflagged(x) ==
  /\ Len(vec.data) < MaxLen
  /\ vec' = [vec EXCEPT !.data = Append(@, x)]
  /\ UNCHANGED snapshots

(* A cell pushed back below the mark counts as captured: its marked value  *)
(* was logged when it was popped.                                          *)
Push(x) ==
  /\ Len(vec.data) < MaxLen
  /\ vec' = [vec EXCEPT !.data = Append(@, x),
                        !.captured = IF UniqueCapture(vec) /\ Len(vec.data) < vec.activeSaved
                                     THEN @ \cup {Len(vec.data) + 1} ELSE @]
  /\ UNCHANGED snapshots

(* Mutant: a pop logs nothing. *)
PopUnlogged ==
  /\ Len(vec.data) > 0
  /\ vec' = [vec EXCEPT !.data = Front(@), !.captured = @ \ {Len(vec.data)}]
  /\ UNCHANGED snapshots

Pop ==
  /\ Len(vec.data) > 0 /\ LogHasRoom
  /\ vec' = [CaptureCell(vec, Len(vec.data))
               EXCEPT !.data = Front(@), !.captured = @ \ {Len(vec.data)}]
  /\ UNCHANGED snapshots

SetIndex(i, x) ==
  /\ i \in DOMAIN vec.data /\ LogHasRoom
  /\ vec' = [CaptureCell(vec, i) EXCEPT !.data[i] = x]
  /\ UNCHANGED snapshots

(* Mutant: the frames that stay keep their old offsets. *)
RetireUnrebased(pool, stack, n) ==
  [pool  |-> SubSeq(pool, (IF n < Len(stack) THEN stack[n + 1].start ELSE Len(pool)) + 1, Len(pool)),
   stack |-> SubSeq(stack, n + 1, Len(stack))]

(***************************************************************************)
(* Moving closed frames down.                                              *)
(***************************************************************************)
Retire(pool, stack, n) ==
  LET cut == IF n < Len(stack) THEN stack[n + 1].start ELSE Len(pool)
  IN  [pool  |-> SubSeq(pool, cut + 1, Len(pool)),
       stack |-> [q \in 1 .. Len(stack) - n |->
                    [stack[n + q] EXCEPT !.start = @ - cut, !.end = @ - cut]]]

(* The newest closed frames that fit the limit stay. *)
EntriesFrom(stack, closed, kept) ==
  IF kept = 0 THEN 0 ELSE stack[closed].end - stack[closed - kept + 1].start

RetainedClosedPrefix(stack, closed, limit) ==
  LET unit == IF limit.kind = "bytes" THEN EntryBytes ELSE 1
      fits == {r \in 0 .. closed : unit * EntriesFrom(stack, closed, r) <= limit.keep}
  IN  CASE limit.kind \in {"unbounded", "adaptive"} -> 0
        [] limit.kind = "frames" -> IF closed > limit.keep THEN closed - limit.keep ELSE 0
        [] OTHER -> closed - Max(fits)

TrailClosed(v) == IF v.trailStack = <<>> THEN 0 ELSE Len(v.trailStack) - 1
HotClosed(v) == IF UniqueCapture(v) /\ v.hotStack # <<>> THEN Len(v.hotStack) - 1 ELSE Len(v.hotStack)

(* Mutant: the repeated writes of a trail frame are moved too. *)
TrailUniquesAll(v, q) == Range0(v.trailPool, v.trailStack[q].start, v.trailStack[q].end)

TrailUniques(v, q) ==
  FirstWrites(Range0(v.trailPool, v.trailStack[q].start, v.trailStack[q].end))
TrailWrites(v, q) == v.trailStack[q].end - v.trailStack[q].start

(* trail_frame_tentative and trail_frame_commit. *)
TrailFrameToHot(v, q) ==
  LET start == Len(v.hotPool)
      uniques == TrailUniques(v, q)
  IN  [v EXCEPT !.hotPool = @ \o uniques,
                !.hotStack = Append(@, PairFrame(v.trailStack[q].saved, start, start + Len(uniques)))]

MigrateTrailCount(v, n) ==
  LET filled == FoldLeft(TrailFrameToHot, v, [q \in 1 .. n |-> q])
      left == Retire(v.trailPool, v.trailStack, n)
  IN  IF n = 0 THEN v ELSE [filled EXCEPT !.trailPool = left.pool, !.trailStack = left.stack]

(* Adaptive trail: from the oldest, as long as a frame has two writes per  *)
(* unique cell.                                                            *)
AdaptiveTrailCount(v) ==
  Max({n \in 0 .. TrailClosed(v) :
         \A q \in 1 .. n : TrailWrites(v, q) >= 2 * Len(TrailUniques(v, q))})

MigrateTrail(v, flushAll) ==
  LET closed == TrailClosed(v)
  IN  MigrateTrailCount(v, IF flushAll THEN closed
                           ELSE IF v.policy.trail.kind = "adaptive" THEN AdaptiveTrailCount(v)
                           ELSE RetainedClosedPrefix(v.trailStack, closed, v.policy.trail))

HotEntries(v, q) == Range0(v.hotPool, v.hotStack[q].start, v.hotStack[q].end)

SortHotFrame(v, q) ==
  LET f == v.hotStack[q]
      sorted == SortByIndex(HotEntries(v, q))
  IN  [v EXCEPT !.hotPool = [p \in DOMAIN @ |->
         IF p \in f.start + 1 .. f.end THEN sorted[p - f.start] ELSE @[p]]]

EncodeHotFrame(v, q) ==
  LET packed == AppendSorted(v.cold, HotEntries(v, q))
  IN  [v EXCEPT !.cold = packed,
                !.coldStack = Append(@, [saved |-> v.hotStack[q].saved,
                                         runs_start |-> Len(v.cold.runs),
                                         runs_len |-> Len(packed.runs) - Len(v.cold.runs)])]

(* Sorts the frames up to inspected, moves the first n of them. *)
MigrateHotCount(v, n, inspected) ==
  LET sorted == FoldLeft(SortHotFrame, v, [q \in 1 .. inspected |-> q])
      filled == FoldLeft(EncodeHotFrame, sorted, [q \in 1 .. n |-> q])
      left == Retire(sorted.hotPool, sorted.hotStack, n)
  IN  [filled EXCEPT !.hotPool = left.pool, !.hotStack = left.stack]

(* Adaptive hot: from the oldest, as long as a frame has two entries per   *)
(* run; the first frame that has not stays in the pool, sorted.            *)
AdaptiveHotCount(v) ==
  Max({n \in 0 .. HotClosed(v) :
         \A q \in 1 .. n : LET entries == SortByIndex(HotEntries(v, q))
                           IN  entries # <<>> /\ 2 * CountRuns(entries) <= Len(entries)})

MigrateHot(v, compressAll) ==
  LET closed == HotClosed(v)
      n == IF compressAll THEN closed
           ELSE IF v.policy.hot.kind = "adaptive" THEN AdaptiveHotCount(v)
           ELSE RetainedClosedPrefix(v.hotStack, closed, v.policy.hot)
      inspected == IF ~compressAll /\ v.policy.hot.kind = "adaptive" /\ n < closed THEN n + 1 ELSE n
  IN  MigrateHotCount(v, n, inspected)

ApplyPolicy(v) == MigrateHot(MigrateTrail(v, FALSE), FALSE)

(* The legacy batch, else the policy unless both limits are unbounded. *)
ApplyConfiguredRollover(v) ==
  LET closed == IF UniqueCapture(v) THEN HotClosed(v) ELSE TrailClosed(v)
  IN  IF v.buffer # NoBuffer /\ closed > v.buffer
      THEN MigrateHot(IF UniqueCapture(v) THEN v ELSE MigrateTrail(v, TRUE), TRUE)
      ELSE IF \/ v.policy.hot.kind # "unbounded"
              \/ ~UniqueCapture(v) /\ v.policy.trail.kind # "unbounded"
      THEN ApplyPolicy(v)
      ELSE v

(* apply_adaptive under some byte budget and ratios.  A trail frame moves  *)
(* only when that saves entries, a hot frame when the byte sizes of the    *)
(* types allow it, which the model leaves open; the hot frame at which the *)
(* stage stops has been sorted.                                            *)
AdaptiveTrailMost(v) ==
  Max({n \in 0 .. TrailClosed(v) :
         \A q \in 1 .. n : \/ TrailWrites(v, q) = 0
                           \/ Len(TrailUniques(v, q)) < TrailWrites(v, q)})

AdaptiveOutcomes(v) ==
  UNION {LET w == MigrateTrailCount(v, nt)
         IN  {MigrateHotCount(w, n, n) : n \in 0 .. HotClosed(w)} \cup
             {MigrateHotCount(w, n, n + 1) : n \in 0 .. HotClosed(w) - 1}
         : nt \in 0 .. AdaptiveTrailMost(v)}

(***************************************************************************)
(* Marks.                                                                  *)
(***************************************************************************)
(* The entries of the open frame, whose end is the end of its pool. *)
OpenEntries(v) ==
  IF UniqueCapture(v)
  THEN IF v.hotStack = <<>> THEN <<>> ELSE Range0(v.hotPool, Last(v.hotStack).start, Len(v.hotPool))
  ELSE IF v.trailStack = <<>> THEN <<>> ELSE Range0(v.trailPool, Last(v.trailStack).start, Len(v.trailPool))

(* The inline store untags the cells of the frame it closes, the parallel  *)
(* store zeroes its bitmap.                                                *)
PrepareMark(v) ==
  [v EXCEPT !.captured = IF v.store = "inline" THEN @ \ Indices(OpenEntries(v)) ELSE {}]

CloseAndOpen(pool, stack, saved) ==
  LET closed == IF stack = <<>> THEN stack ELSE [stack EXCEPT ![Len(stack)].end = Len(pool)]
  IN  Append(closed, PairFrame(saved, Len(pool), Len(pool)))

OpenMark(v) ==
  LET w == PrepareMark(v)
      saved == Len(v.data)
  IN  IF UniqueCapture(v)
      THEN [w EXCEPT !.hotStack = CloseAndOpen(w.hotPool, @, saved), !.activeSaved = saved]
      ELSE [w EXCEPT !.trailStack = CloseAndOpen(w.trailPool, @, saved), !.activeSaved = saved]

Marks == Depth(vec) < MaxDepth /\ snapshots' = Append(snapshots, vec.data)

(* Vec::push_frame: the configured rollover, skipped when the flag cached  *)
(* with the policy says that it cannot do anything.                        *)
PushFrame ==
  /\ Marks
  /\ vec' = LET w == OpenMark(vec) IN IF w.auto THEN ApplyConfiguredRollover(w) ELSE w

(* Vec::push_frame_with_options. *)
PushFrameDefer == Marks /\ vec' = OpenMark(vec)
PushFrameConfigured == Marks /\ vec' = ApplyConfiguredRollover(OpenMark(vec))
PushFrameForced(trailToHot, hotToCold) ==
  /\ Marks
  /\ vec' = LET w == OpenMark(vec)
                x == IF trailToHot THEN MigrateTrail(w, TRUE) ELSE w
            IN  IF hotToCold THEN MigrateHot(x, TRUE) ELSE x

(* Vec::try_push_frame_adaptive. *)
PushFrameAdaptive == Marks /\ vec' \in AdaptiveOutcomes(OpenMark(vec))

(***************************************************************************)
(* Restores.  Targets are counted from 0, as in the code.                  *)
(***************************************************************************)
Resize(v, n) ==
  [v EXCEPT !.data = [i \in 1 .. n |-> IF i <= Len(v.data) THEN v.data[i] ELSE Filler],
            !.captured = @ \cap 1 .. n]

(* The inline store clears a flag when it restores the cell, the parallel  *)
(* store clears all of them first.                                         *)
BeginRestore(v) == IF v.store = "parallel" THEN [v EXCEPT !.captured = {}] ELSE v

ReplayPairs(v, entries) ==
  [v EXCEPT !.data = Overlay(@, entries),
            !.captured = IF v.store = "inline" THEN @ \ Indices(entries) ELSE @]

(* restore_run writes values and leaves flags alone. *)
ReplayRuns(v, entries) == [v EXCEPT !.data = Overlay(@, entries)]

Clamp(n, most) == IF n < 0 THEN 0 ELSE IF n > most THEN most ELSE n

ReplayTrail(v, target) ==
  LET first == Clamp(target - Len(v.coldStack) - Len(v.hotStack), Len(v.trailStack))
  IN  IF first < Len(v.trailStack)
      THEN ReplayPairs(v, Range0(v.trailPool, v.trailStack[first + 1].start, Len(v.trailPool)))
      ELSE v

ReplayHot(v, target) ==
  LET hot == Len(v.hotStack)
      first == Clamp(target - Len(v.coldStack), hot)
      hi == IF v.trailStack = <<>> THEN Len(v.hotPool) ELSE v.hotStack[hot].end
  IN  IF target < Len(v.coldStack) + hot /\ first < hot
      THEN ReplayPairs(v, Range0(v.hotPool, v.hotStack[first + 1].start, hi))
      ELSE v

ReplayCold(v, target) ==
  IF target < Len(v.coldStack)
  THEN ReplayRuns(v, DecodeInto(v.cold, v.coldStack[target + 1].runs_start, Len(v.cold.runs)))
  ELSE v

(* Mutant: the oldest tier is replayed first, so the newest entry wins. *)
ReplayOldestFirst(v, target) == ReplayTrail(ReplayHot(ReplayCold(v, target), target), target)

ReplayAllTiers(v, target) == ReplayCold(ReplayHot(ReplayTrail(v, target), target), target)

ReconstructTarget(v, target) ==
  ReplayAllTiers(BeginRestore(Resize(v, FrameSavedLen(v, target))), target)

ValueCut(cold, runs_start) ==
  IF runs_start < Len(cold.runs) THEN cold.runs[runs_start + 1].start ELSE Len(cold.values)
CutCold(v, keep, runs_cut) ==
  [v EXCEPT !.coldStack = SubSeq(@, 1, keep),
            !.cold = [runs |-> SubSeq(@.runs, 1, runs_cut),
                      values |-> SubSeq(@.values, 1, ValueCut(@, runs_cut))]]

StartOr(stack, keep, pool) == IF keep < Len(stack) THEN stack[keep + 1].start ELSE Len(pool)
CutTrail(v, keep) == [v EXCEPT !.trailPool = SubSeq(@, 1, StartOr(v.trailStack, keep, @)),
                               !.trailStack = SubSeq(@, 1, keep)]
CutHot(v, keep) == [v EXCEPT !.hotPool = SubSeq(@, 1, StartOr(v.hotStack, keep, @)),
                             !.hotStack = SubSeq(@, 1, keep)]

TruncateHistory(v, target) ==
  LET c == Len(v.coldStack)
      h == Len(v.hotStack)
      emptied == [v EXCEPT !.trailStack = <<>>, !.trailPool = <<>>]
  IN  IF target >= c + h THEN CutTrail(v, target - c - h)
      ELSE IF target >= c THEN CutHot(emptied, target - c)
      ELSE CutCold([emptied EXCEPT !.hotStack = <<>>, !.hotPool = <<>>],
                   target, v.coldStack[target + 1].runs_start)

(* The survivor becomes the open frame again, so it moves back to the tier *)
(* that the store writes to.                                               *)
PromoteHot(v) ==
  LET f == Last(v.hotStack)
      start == Len(v.trailPool)
  IN  [v EXCEPT !.hotStack = Front(@),
                !.hotPool = SubSeq(@, 1, f.start),
                !.trailPool = @ \o Range0(v.hotPool, f.start, f.end),
                !.trailStack = Append(@, PairFrame(f.saved, start, start + f.end - f.start))]

PromoteCold(v) ==
  LET f == Last(v.coldStack)
      entries == DecodeInto(v.cold, f.runs_start, Len(v.cold.runs))
      w == CutCold(v, Len(v.coldStack) - 1, f.runs_start)
  IN  IF UniqueCapture(v)
      THEN [w EXCEPT !.hotPool = @ \o entries,
                     !.hotStack = Append(@, PairFrame(f.saved, 0, Len(w.hotPool) + Len(entries)))]
      ELSE [w EXCEPT !.trailPool = @ \o entries,
                     !.trailStack = Append(@, PairFrame(f.saved, 0, Len(w.trailPool) + Len(entries)))]

(* Mutant: the capture limit of the dropped frame stays in force. *)
FinishSurvivorStale(v) ==
  [v EXCEPT !.captured = IF UniqueCapture(v) THEN @ \cup (Indices(OpenEntries(v)) \cap DOMAIN v.data) ELSE @]

(* The survivor's cells are flagged again. *)
FinishSurvivor(v) ==
  [v EXCEPT !.activeSaved = Last(IF UniqueCapture(v) THEN v.hotStack ELSE v.trailStack).saved,
            !.captured = IF UniqueCapture(v) THEN @ \cup (Indices(OpenEntries(v)) \cap DOMAIN v.data) ELSE @]

KeepsIngress(v, target) ==
  target > Len(v.coldStack) + (IF UniqueCapture(v) THEN 0 ELSE Len(v.hotStack))

RestoreAllTiers(v, target) ==
  LET w == TruncateHistory(ReconstructTarget(v, target), target)
  IN  IF target = 0 THEN [w EXCEPT !.activeSaved = 0]
      ELSE IF KeepsIngress(v, target) THEN FinishSurvivor(w)
      ELSE IF ~UniqueCapture(v) /\ target > Len(v.coldStack) THEN FinishSurvivor(PromoteHot(w))
      ELSE FinishSurvivor(PromoteCold(w))

(* The fast path for a history that is all in the hot tier. *)
HotDeferScope(v) == UniqueCapture(v) /\ v.coldStack = <<>> /\ v.trailStack = <<>>

HotDeferRestoreZero(v) ==
  LET w == ReplayPairs(BeginRestore(Resize(v, v.hotStack[1].saved)), v.hotPool)
  IN  [w EXCEPT !.hotStack = <<>>, !.hotPool = <<>>, !.activeSaved = 0]

(* Mutant: the fast path does not flag the survivor's cells again. *)
HotDeferRestoreUnflagged(v, target) ==
  LET f == v.hotStack[target + 1]
      w == ReplayPairs(BeginRestore(Resize(v, f.saved)), Range0(v.hotPool, f.start, Len(v.hotPool)))
  IN  [w EXCEPT !.hotStack = SubSeq(@, 1, target),
                !.hotPool = SubSeq(v.hotPool, 1, f.start),
                !.activeSaved = v.hotStack[target].saved]

HotDeferRestoreNonzero(v, target) ==
  LET f == v.hotStack[target + 1]
      w == ReplayPairs(BeginRestore(Resize(v, f.saved)), Range0(v.hotPool, f.start, Len(v.hotPool)))
      top == v.hotStack[target]
      pool == SubSeq(v.hotPool, 1, f.start)
  IN  [w EXCEPT !.hotStack = SubSeq(@, 1, target),
                !.hotPool = pool,
                !.activeSaved = top.saved,
                !.captured = @ \cup (Indices(Range0(pool, top.start, f.start)) \cap DOMAIN w.data)]

RestoreTarget(v, target) ==
  IF HotDeferScope(v)
  THEN IF target = 0 THEN HotDeferRestoreZero(v) ELSE HotDeferRestoreNonzero(v, target)
  ELSE RestoreAllTiers(v, target)

RestoreFrame(target) ==
  /\ target \in 0 .. Depth(vec) - 1
  /\ vec' = RestoreTarget(vec, target)
  /\ snapshots' = SubSeq(snapshots, 1, target)

(* Vec::reset_frame: restore, then a mark that defers the rollover. *)
ResetFrame(target) ==
  /\ target \in 0 .. Depth(vec) - 1
  /\ vec' = OpenMark(RestoreTarget(vec, target))
  /\ snapshots' = SubSeq(snapshots, 1, target + 1)

PopFrame == Depth(vec) >= 1 /\ RestoreFrame(Depth(vec) - 1)

(* Mutant: the cached flag is not recomputed. *)
SetTierPolicyStale(p) == /\ vec' = [vec EXCEPT !.policy = p, !.buffer = NoBuffer]
                         /\ UNCHANGED snapshots

(***************************************************************************)
(* Maintenance.                                                            *)
(***************************************************************************)
SetTierPolicy(p) ==
  /\ vec' = [vec EXCEPT !.policy = p, !.buffer = NoBuffer,
                        !.auto = ConfiguredRolloverCanRun(vec.store, p, NoBuffer)]
  /\ UNCHANGED snapshots

ApplyTierPolicy == vec' = ApplyPolicy(vec) /\ UNCHANGED snapshots
FlushTrail == vec' = MigrateTrail(vec, TRUE) /\ UNCHANGED snapshots
CompressHot == vec' = MigrateHot(vec, TRUE) /\ UNCHANGED snapshots
ApplyAdaptive == vec' \in AdaptiveOutcomes(vec) /\ UNCHANGED snapshots

Next == \/ \E x \in Value : Push(x) \/ \E i \in 1 .. MaxLen : SetIndex(i, x)
        \/ Pop
        \/ PushFrame \/ PushFrameDefer \/ PushFrameConfigured \/ PushFrameAdaptive
        \/ \E trailToHot, hotToCold \in BOOLEAN : PushFrameForced(trailToHot, hotToCold)
        \/ \E target \in 0 .. MaxDepth - 1 : RestoreFrame(target) \/ ResetFrame(target)
        \/ PopFrame
        \/ \E p \in Policies : SetTierPolicy(p)
        \/ ApplyTierPolicy \/ FlushTrail \/ CompressHot \/ ApplyAdaptive

Spec == Init /\ [][Next]_vars

(***************************************************************************)
(* Properties.                                                             *)
(***************************************************************************)
Entries == [idx : 1 .. MaxLen, val : Value]
PairFrames == [saved : 0 .. MaxLen, start : Nat, end : Nat]

(* The fields have their types; in particular no live cell and no logged   *)
(* entry holds a default that resize_default made up.                      *)
TieredTypeOK ==
  /\ vec.data \in Seq(Value) /\ Len(vec.data) <= MaxLen
  /\ vec.captured \subseteq DOMAIN vec.data
  /\ vec.trailPool \in Seq(Entries) /\ vec.hotPool \in Seq(Entries)
  /\ vec.trailStack \in Seq(PairFrames) /\ vec.hotStack \in Seq(PairFrames)
  /\ vec.coldStack \in Seq([saved : 0 .. MaxLen, runs_start : Nat, runs_len : Nat])
  /\ vec.cold.runs \in Seq([base : 1 .. MaxLen, start : Nat, len : Nat \ {0}])
  /\ vec.cold.values \in Seq(Value)
  /\ vec.activeSaved \in 0 .. MaxLen

(* The frames of a pair tier own consecutive ranges of its pool.  The end  *)
(* field of the open frame is stale and is not part of this.               *)
Tiled(pool, stack, closed) ==
  /\ stack = <<>> => pool = <<>>
  /\ stack # <<>> => Head(stack).start = 0 /\ Last(stack).start <= Len(pool)
  /\ \A q \in 1 .. closed :
       stack[q].end = IF q < Len(stack) THEN stack[q + 1].start ELSE Len(pool)

(* Migrations, cuts and promotions leave no hole, overlap or orphan entry  *)
(* in the trail, the hot and the cold pools.                               *)
PoolsTiled ==
  /\ Tiled(vec.trailPool, vec.trailStack, TrailClosed(vec))
  /\ Tiled(vec.hotPool, vec.hotStack, HotClosed(vec))
  /\ \A k \in DOMAIN vec.coldStack :
       vec.coldStack[k].runs_start + vec.coldStack[k].runs_len =
         IF k < Len(vec.coldStack) THEN vec.coldStack[k + 1].runs_start ELSE Len(vec.cold.runs)
  /\ \A r \in DOMAIN vec.cold.runs :
       vec.cold.runs[r].start + vec.cold.runs[r].len =
         IF r < Len(vec.cold.runs) THEN vec.cold.runs[r + 1].start ELSE Len(vec.cold.values)

(* The open frame is in the tier that the store logs to, with the length   *)
(* that the capture test compares against.                                 *)
OpenFrameInPlace ==
  IF Depth(vec) = 0 THEN vec.activeSaved = 0
  ELSE /\ (IF UniqueCapture(vec) THEN vec.hotStack ELSE vec.trailStack) # <<>>
       /\ vec.activeSaved = FrameSavedLen(vec, Depth(vec) - 1)

(* A cell is flagged as captured exactly when the open frame has logged    *)
(* it, through pushes, pops, marks, migrations and every kind of restore.  *)
FlagsMatchLog ==
  UniqueCapture(vec) => vec.captured = Indices(OpenEntries(vec)) \cap DOMAIN vec.data

(* When the cached flag lets push_frame skip the rollover, running it      *)
(* would have changed nothing.                                             *)
SkippedRolloverIsNoOp ==
  ~vec.auto => ApplyConfiguredRollover(vec) = vec

(* The fast path of runtime_restore_frame leaves the same vector as the    *)
(* general one.                                                            *)
FastPathAgrees ==
  HotDeferScope(vec) =>
    \A target \in 0 .. Depth(vec) - 1 : RestoreTarget(vec, target) = RestoreAllTiers(vec, target)

(* Whatever tier a frame has been moved to and back, restoring it brings   *)
(* back the data at its mark; there is one frame per open mark.            *)
SnapshotsRestored ==
  /\ Depth(vec) = Len(snapshots)
  /\ \A target \in 0 .. Depth(vec) - 1 :
       RestoreTarget(vec, target).data = snapshots[target + 1]

(* The history as the diff discipline of FrameGrid sees it. *)
FrameEntries(v, k) ==
  LET c == Len(v.coldStack)
      h == Len(v.hotStack)
      Upto(pool, stack, q) == Range0(pool, stack[q].start,
                                     IF q < Len(stack) THEN stack[q + 1].start ELSE Len(pool))
  IN  IF k < c THEN DecodeInto(v.cold, v.coldStack[k + 1].runs_start,
                               v.coldStack[k + 1].runs_start + v.coldStack[k + 1].runs_len)
      ELSE IF k < c + h THEN Upto(v.hotPool, v.hotStack, k - c + 1)
      ELSE Upto(v.trailPool, v.trailStack, k - c - h + 1)

(* Hot and cold frames hold one entry per cell, so that a promoted frame   *)
(* is a valid unique log again; trail frames may repeat a cell.            *)
LoggedOnce ==
  \A k \in 0 .. Len(vec.coldStack) + Len(vec.hotStack) - 1 :
    LET entries == FrameEntries(vec, k) IN FirstWrites(entries) = entries

DiffOf(entries) == [i \in Indices(entries) |-> entries[FirstFor(entries, i)].val]

Grid == INSTANCE FrameGrid WITH
          data <- vec.data,
          saved <- [k \in 1 .. Depth(vec) |-> FrameSavedLen(vec, k - 1)],
          old <- [k \in 1 .. Depth(vec) |-> DiffOf(FrameEntries(vec, k - 1))]

(* Whatever the store, the policy and the migrations, the vector follows   *)
(* the diff discipline: migrations and policy changes are invisible, and   *)
(* every other operation is the operation of FrameGrid of the same name.   *)
ImplementsGrid == Grid!Spec
=============================================================================
