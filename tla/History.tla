------------------------------ MODULE History ------------------------------
(***************************************************************************)
(* The token authority of the production containers: generation stamps     *)
(* (containers-verus/src/gen_stamps.rs) under a History                    *)
(* (containers-verus/src/history.rs).  A mark mints a token from a counter *)
(* that is never rewound; a cut shortens the live prefix of the stamp      *)
(* stack and leaves the dead stamps in place, to be overwritten by the     *)
(* next mint at that depth.                                                *)
(*                                                                         *)
(* The operations are actions without a Next: every user of a History      *)
(* drives it together with members (module Group).  A call that the code   *)
(* answers with a panic (guard::refuse) or with None / false is an action  *)
(* that is not enabled.                                                    *)
(***************************************************************************)
EXTENDS Naturals, Sequences

CONSTANTS Id,        \* ContainerId of this history
          ForeignId, \* ContainerId of some other history
          MaxDepth,  \* stands for u32::MAX, the frame-depth ceiling
          MaxGen     \* stands for u64::MAX, the stamp-counter ceiling

ASSUME HistoryAssumption == /\ Id # ForeignId
                            /\ MaxDepth \in Nat
                            /\ MaxGen \in Nat \ {0}

VARIABLES levels, \* GenStamps::levels, the stamp written at each depth
          len,    \* GenStamps::len, how many of them are live
          next,   \* GenStamps::next, the next stamp
          depth   \* History::depth

historyVars == <<levels, len, next, depth>>

GroupToken == [history : {Id, ForeignId}, generation : Nat, depth : Nat]

HistoryTypeOK == /\ levels \in Seq(Nat)
                 /\ len \in Nat
                 /\ next \in Nat
                 /\ depth \in Nat

NewHistory == /\ levels = <<>>
              /\ len = 0
              /\ next = 1
              /\ depth = 0

(* Mutant: the depth alone decides, the stamp is not compared. *)
IsValidByDepth(t) == t.history = Id /\ t.depth < len

(* GenStamps::is_valid under Genealogy::is_valid. *)
IsValid(t) == /\ t.history = Id
              /\ t.depth < len
              /\ t.depth < Len(levels)
              /\ levels[t.depth + 1] = t.generation

(* GenStamps::mint_at(d) with its loop of push_fresh in closed form: the   *)
(* positions len .. d receive next, next + 1, ...; the last one is the     *)
(* stamp of the token.  Stamps are u64 words.                              *)
Word(n) == n % (MaxGen + 1)
StampAt(d) == Word(next + (d - len))

(* Mutant: the counter ceiling is not checked. *)
MintAtUnchecked(d) ==
  /\ len <= d
  /\ len <= Len(levels)
  /\ levels' = [k \in 1 .. (IF d + 1 > Len(levels) THEN d + 1 ELSE Len(levels)) |->
                  IF len < k /\ k <= d + 1 THEN StampAt(k - 1) ELSE levels[k]]
  /\ len' = d + 1
  /\ next' = Word(StampAt(d) + 1)

MintAt(d) ==
  /\ len <= d
  /\ len <= Len(levels)
  /\ next + (d - len) < MaxGen
  /\ levels' = [k \in 1 .. (IF d + 1 > Len(levels) THEN d + 1 ELSE Len(levels)) |->
                  IF len < k /\ k <= d + 1 THEN StampAt(k - 1) ELSE levels[k]]
  /\ len' = d + 1
  /\ next' = Word(StampAt(d) + 1)

(* Mutants: the counter goes back with the cut; the cut is one too high. *)
CutFromRewinds(d) == /\ len' = IF d < len THEN d ELSE len
                     /\ next' = IF d < len THEN levels[d + 1] ELSE next
                     /\ UNCHANGED levels
CutFromTooHigh(d) == /\ len' = IF d + 1 < len THEN d + 1 ELSE len
                     /\ UNCHANGED <<levels, next>>

CutFrom(d) == /\ len' = IF d < len THEN d ELSE len
              /\ UNCHANGED <<levels, next>>

(* The token that the next Mark returns. *)
NextToken == [history |-> Id, generation |-> StampAt(depth), depth |-> depth]

Mark == /\ depth < MaxDepth
        /\ MintAt(depth)
        /\ depth' = depth + 1

(* restore_to keeps the checkpoint's own frame: t stays valid. *)
RestoreTo(t) == /\ IsValid(t)
                /\ t.depth < depth
                /\ CutFrom(t.depth + 1)
                /\ depth' = t.depth + 1

Pop == /\ depth >= 1
       /\ CutFrom(depth - 1)
       /\ depth' = depth - 1

RestoreAndPop(t) == /\ IsValid(t)
                    /\ t.depth < depth
                    /\ CutFrom(t.depth)
                    /\ depth' = t.depth
=============================================================================
