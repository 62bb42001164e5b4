# Verification of the semi-persistent containers

TLA+ models, TLC runs and TLAPS proofs for the mark / restore machinery of this
repository: the containers that keep cheap snapshots through sparse diffs, the
authority that hands out snapshot tokens, and the group that keeps the columns
of the e-graph in step.

## 1. The system and its parts

| Part | Source | State | Operations |
|---|---|---|---|
| Token authority | `containers-verus/src/gen_stamps.rs`, `history.rs` | stamp per depth, live length, stamp counter, depth | mark, restore_to, pop, restore_and_pop, is_valid |
| Group | `containers-verus/src/group.rs`, `egraph/src/group_members.rs` | one history, nine member columns | mark_member, restore_member, restore_and_pop_member, pop_member, mint_pushed_member; fan-out of each over a `rayon::scope` |
| Tiered vector | `containers-verus/src/vec.rs`, `tier_policy.rs`, `frame.rs` | cells, capture flags, trail / hot / cold pools and frame stacks, policy, cached rollover flag | push, pop, set, four kinds of mark, migrations, restore, reset, pop_frame, policy changes |
| Capture stores | `inline_store.rs`, `parallel_store.rs`, `trail_store.rs`, `capture_bits.rs` | the cells and the flag of each | capture, mark_captured, prepare_mark, resize_default, begin_restore, restore_overlay, restore_run, finish_restore |
| Cold codec | `trail_select.rs`, `std_sort.rs`, `cold_encode.rs`, `cold_decode.rs` | run pool, value pool, frame headers | select, sort, encode, decode, cut, promote |
| Reference vector | `containers/src/vec.rs`, `diff_store.rs`, `token.rs` | one diff log, frames, branch genealogy | push, pop, set, mark, restore |
| Derived containers | append-only vector, map, list, circular list, sparse set, union-find, e-classes, B+ tree, span maps, arenas | several vectors each | their own operations plus the group's |
| E-graph | `egraph/src` | registries, classes, nodes, worklists, caches | add, merge, rebuild, match, saturate, push / pop scopes |
| Clients | `satcore`, `traversals`, `abstract-domains`, `au-verus`, `containers-conformance` | | |

How they interact: the e-graph owns one `History` and nine members. `mark`
rebuilds, mints one token, and pushes one frame on every member; a restore
checks the token once, resets every member to the token's depth, in parallel
when the graph is large, and cuts the history. A member is a composition of
vectors; each vector rebuilds its contents by replaying the old values that its
frames kept.

What makes it hard:

- *stale tokens*: a depth is cut and marked again, and the old token still
  carries that depth;
- *two orders in one operation*: a mark touches the history before the members,
  a restore after them, and the members step in parallel;
- *zigzag lengths*: the marked lengths of successive frames go up and down, and
  a restore regrows cells with defaults that must never be seen;
- *first write wins*: a cell is logged once per frame, although it may be
  popped, pushed again and written, and although the frame may be closed,
  migrated and reopened in between;
- *three tiers*: a closed frame is deduplicated, sorted and packed, the frames
  that stay are rebased, and the frame that a restore reopens comes back;
- *caches*: the flag that lets a mark skip the rollover, the stale `end` of the
  open frame, and a fast path for histories that lie in one tier.

The correctness properties wanted of each part: a token validates exactly as
long as its own frame is open; a group operation is atomic and finishes; a
vector is a stack of complete snapshots; a migration is invisible; a frame
decodes to itself.

## 2. Modules

```
SnapshotStack            what a semi-persistent container promises
   ^        ^
   |        | proved (FrameGridProofs) and checked
   |     FrameGrid       diff frames, first-write-wins, replay
   |        ^      ^
   |        |      | checked (ImplementsGrid)
   |   TieredVec  RefVec
   |        |      |
   |        DiffEntries <- ColdTier     entries, runs, overlay
   | checked (FanOutIsAtomic)
 Group  -- EXTENDS --> History
```

- `History`: `levels`, `len`, `next` are the fields of `GenStamps`, `depth` that
  of `History`. One action per operation. A call that the code refuses (panic,
  `None`, `false`) is an action that is not enabled.
- `Group`: a member is the contract of `trait Member`, its contents and the
  archive of its open frames. `op` is the group operation under way and the set
  of members that have not done their part. `MarkMember` marks the history and
  begins; `RestoreMember`, `RestoreAndPopMember` and `PopMember` begin;
  `MemberStep` is one member's part; `Finish` is the code after the join.
  `PushOwnFrame` and `MintPushed` are the frames that are pushed first and get
  their token later; `PopOwnFrame` is a frame popped behind the history's back.
  `issued` is a history variable with every token and the contents at its mark.
  See below for what a caller may do to the frames.
- `FrameGrid`: the logical vector. `saved[k]` is a frame's length at its mark,
  `old[k]` the old values it kept. `Version(k)` is what a restore rebuilds.
- `TieredVec`: one record with the fields of `Vec`; each operator is a function
  of the code from record to record, composed in the same order, and each
  public operation is an action. `store` is the capture store; `snapshots` is
  the ghost field of the code.
- `DiffEntries`, `ColdTier`: the pure conversions, and the cold tier alone with
  frames wide enough for gaps and adjacent runs.
- `RefVec`: the reference crate. Restoring consumes the frame and opens a
  branch; `IsValid` walks the branch chain.

*Frames pushed and popped behind the group's back.* The field `member` of a group
is public, so a caller can push and pop frames without the history. In `Group`
both happen on all members at once: a push or pop on one column alone breaks the
well-formedness of the forwarding member, which every operation requires. With
`DirectPops = FALSE` a caller pops only frames above the history's depth, which
is the repair that `tests/typed_group.rs` performs. `TokenNamesItsMark`,
`RestoredContents` and the half `depth <= MemberDepth` of `Lockstep` are checked
under this discipline, and hold only under it. With `DirectPops = TRUE` the
caller may also pop a frame that the history counts; section 5 shows what
follows.

Cells are numbered from 1 where the code counts from 0; pool offsets and frame
targets keep the code's numbers.

Values are opaque: no property depends on what is stored. The byte sizes that
`apply_adaptive` compares are left open: any number of closed frames that its
stopping rule allows may move. Shrinking changes capacities only and is left
out. In `RefVec` the tokens of other containers are not presented, since
`restore` refuses them before anything else; in `Group` they are.

## 3. Runs

| Run | Bounds | States | Shows |
|---|---|---|---|
| `group` | 2 members (one map), depth 3, 3 stamps, 2 values | 276,358 | token validity, exact cuts |
| `group_fanout` | 3 members (one map), depth 2, 2 stamps | 365,240 | atomic fan-out in all interleavings of the parallel scope; completion |
| `group_tampered` | 2 members, depth 2, 1 stamp, direct pops | violation | the realigned depths described in section 5 |
| `grid` | 2 cells, 3 frames, 2 values | 5,938 | snapshots from diffs, no filler |
| `cold` | 3 indices, 2 frames, 2 values | 6,321 | the codec, its cuts and promotions |
| `tiered_unique` | 2 cells, 3 frames, inline and parallel store, legacy batch of 1 | 142,168 | pools, flags, snapshots, fast path |
| `tiered_trail` | the same, trail store, at most 3 trail entries | 296,218 | deduplication, promotion to the trail |
| `tiered_policy` | 2 frames, four tier policies, legacy batch of 0, entries of 2 bytes, inline and trail store | 71,150 | refinement of `FrameGrid` under changing policies |
| `reference` | 2 cells, 2 frames, 2 restores, 3 marks, both stores | 72,336 | refinement, strata, tokens across branches |
| `ref_stale` | 1 cell, 1 frame, 1 restore | violation | the alias described in section 5 |

Why the bounds are enough. A stale token needs a depth that is marked, cut and
marked again: three stamps. A zigzag needs two marks with a pop between them;
two cells give one that is covered and one that is not. Three frames put one in
each tier, or one that is dropped, one that survives and one below it. Two
values tell an old value from a new one. A walk over the branch chain that
passes a branch needs two restores. Frames of three indices contain adjacent
and separate runs, and a run that starts where the last run of the frame below
ended. Two frames leave one closed frame for a policy to move; a legacy batch of
0 makes that one enough for the batch to fire, and with entries of two bytes a
limit in bytes differs from the same limit in entries.

Stamps are words: `MaxGen` stands for the largest one, and the counter wraps
there. The check of `push_fresh` is what keeps it from doing so; without it the
counter reaches 0, and from there a dead token comes back (`DeadStaysDead`).

Values are interchangeable, so the runs that check only safety properties use
symmetry over them; `group_fanout`, which checks a liveness property, does not.
Deadlock is checked in every run.

Fairness is assumed in `Group` only: weak fairness of `Finish` and of the
members' steps. `rayon::scope` returns after all spawned closures have run, and
each of them is a terminating loop; the caller then runs on to the end of the
call. Nothing is assumed of clients: no mark, write or restore ever has to come.

## 4. Proofs

`FrameGridProofs` proves, for every set of values and every bound on length and
depth:

- `GridInvariant`: `Spec => []GridInv`. `GridInv` is inductive. Its conjunct
  `UncoveredSurvive` is the reason the fillers are never seen: a cell of
  version k that no frame from k on covers was never popped, so it lies inside
  every later marked range and inside the data. `CoverInRange` alone is not
  inductive enough, because a restore makes an older length the present one.
- `NoFillerInAnyVersion`: `Spec => []FillerNeverObserved`.
- `GridImplementsSnapshots`: `Spec => ImplementsSnapshots`. A write changes no
  version (lemmas on `CellAt` under `Captures`), a mark appends the present
  data, a restore or reset truncates. The lowest frame that covers a cell is
  taken with a well-founded minimum.

Assumptions: `Filler \notin Value`, the bounds are natural numbers. Restore and
reset are proved through one common step, `Rewound`.

Only model-checked: liveness (`OperationCompletes`), the properties of `Group`,
`TieredVec` and `RefVec`, and the codec, whose definitions fold over sequences.

## 5. What disagrees with the documentation

`containers-verus/src/group.rs` says that a frame pushed or popped behind the
group's back "is refused at the next group operation", because the depths
disagree. The operations compare the depths and nothing else. After
`t = mark(); member.pop_frame(); write; member.push_frame()` the depths agree
again, `restore(t)` is accepted, and it leads to the contents at that push
instead of those at the mark. Run `group_tampered` shows the trace. One push or
one pop alone is refused, as documented.

`containers/doc/design/02-semi-persistent-vectors.md` says of the reference
crate that old tokens "must be rejected" once the client has restored past a
mark and marked again. `ForkHistory::is_valid` compares depths inclusively, and
`restore` removes the frame it returns to. After `t = mark(); restore(t);
mark()`, the token `t` validates again and leads to the second mark's state.
Run `ref_stale` shows the trace. `containers-verus/doc/design/08` knows of it,
and the production crate is not affected: `group` checks the same property
(`TokenNamesItsMark`) there, for callers that pop no frame the history counts.

## 6. Not modelled, and the plan

1. E-graph scopes: state kept outside the members (`worklist`, `merged_log`,
   `completion_outcome`, `repair_state`) across mark, restore,
   `restore_and_pop` and `pop_scope`.
2. Union-find and e-classes: union with justifications, splice of the circular
   lists, in lockstep under one frame.
3. Append-only vector, map, list, sparse set: length-only frames, transient
   indexes rebuilt on restore, free ids.
4. Congruence closure: hash-cons, use lists, worklist, `rebuild` to a fixed
   point; the e-graph as a composition of the above.
5. The matching round, which collects before it applies, and the scheduler.
6. `satcore/src/euf.rs`: assertions and backjumps.
7. Proofs: the token theorems of `Group` (stamps strictly increasing and below
   the counter), then the composite containers.

Left out for good: value compression and memory layout (byte encodings of
opaque payloads), parsing and printing, cost models and search heuristics of
extraction and anti-unification, the numeric domains. They are sequential
computations on data outside the snapshot machinery.
