------------------------------- MODULE Group -------------------------------
(***************************************************************************)
(* A group of containers under one History: History::mark_member,          *)
(* restore_member, restore_and_pop_member, pop_member and                  *)
(* mint_pushed_member (containers-verus/src/group.rs), with the members    *)
(* fanned out the way the e-graph does it (egraph/src/group_members.rs):   *)
(* the wide members in any order, in parallel, then the two small maps,    *)
(* then the join.                                                          *)
(*                                                                         *)
(* A member is the contract of trait Member: its contents and the archive  *)
(* of its open frames.  How a vector keeps that contract with a diff log   *)
(* is the subject of FrameGrid and TieredVec.                              *)
(***************************************************************************)
EXTENDS History

CONSTANTS Member,    \* the member columns
          MapMember, \* the members stepped after the parallel scope has joined
          Lead,      \* the member whose depth stands for all (depth_exec)
          Value,     \* the contents a member can have
          DirectPops \* may a caller pop frames that the history counts

ASSUME GroupAssumption == /\ MapMember \subseteq Member
                          /\ Lead \in Member \ MapMember
                          /\ DirectPops \in BOOLEAN

VARIABLES contents, \* [Member -> Value]
          archive,  \* [Member -> Seq(Value)], the contents at each open frame
          op,       \* the group operation under way
          issued    \* history variable: every token handed out, and the
                    \* contents of all members at the mark it names

memberVars == <<contents, archive>>
vars == <<historyVars, memberVars, op, issued>>

NoToken == [history |-> Id, generation |-> 0, depth |-> 0]
Idle == [kind |-> "idle", token |-> NoToken, todo |-> {}]
Kinds == {"idle", "push", "reset", "restore", "pop", "drop"}

(* Types and ceilings: depths stay within u32, and the stamp counter of    *)
(* push_fresh stops at its ceiling and never wraps to 0.                   *)
GroupTypeOK == /\ HistoryTypeOK
               /\ depth <= MaxDepth
               /\ next \in 1 .. MaxGen
               /\ contents \in [Member -> Value]
               /\ archive \in [Member -> Seq(Value)]
               /\ op \in [kind : Kinds, token : GroupToken, todo : SUBSET Member]
               /\ DOMAIN issued \subseteq GroupToken
               /\ issued \in [DOMAIN issued -> [Member -> Value]]

Init == /\ NewHistory
        /\ contents \in [Member -> Value]
        /\ archive = [m \in Member |-> <<>>]
        /\ op = Idle
        /\ issued = <<>>

IsIdle == op.kind = "idle"
MemberDepth(m) == Len(archive[m])
InStep == MemberDepth(Lead) = depth
CanPushNow == \A m \in Member : MemberDepth(m) < MaxDepth

(***************************************************************************)
(* What one member does in the operation under way.                        *)
(***************************************************************************)
TargetFrame(m) == IF op.kind \in {"pop", "drop"} THEN MemberDepth(m) - 1 ELSE op.token.depth

(* Mutant: a member returns to its newest frame, not to the target. *)
ContentsAfterTop(m) == IF op.kind = "push" THEN contents[m]
                       ELSE archive[m][MemberDepth(m)]

ContentsAfter(m) == IF op.kind = "push" THEN contents[m]
                    ELSE archive[m][TargetFrame(m) + 1]

ArchiveAfter(m) ==
  CASE op.kind = "push"  -> Append(archive[m], contents[m])
    [] op.kind = "reset" -> Append(SubSeq(archive[m], 1, TargetFrame(m)), ContentsAfter(m))
    [] OTHER             -> SubSeq(archive[m], 1, TargetFrame(m))

(* Mutant: the maps wait for the maps as well. *)
MayStepNever(m) == m \in op.todo /\ (m \in MapMember => op.todo = {})

(* Whose turn it is: the maps wait for the join of the parallel scope. *)
MayStep(m) == m \in op.todo /\ (m \in MapMember => op.todo \subseteq MapMember)

MemberStep(m) == /\ MayStep(m)
                 /\ contents' = [contents EXCEPT ![m] = ContentsAfter(m)]
                 /\ archive' = [archive EXCEPT ![m] = ArchiveAfter(m)]
                 /\ op' = [op EXCEPT !.todo = @ \ {m}]
                 /\ UNCHANGED <<historyVars, issued>>

(***************************************************************************)
(* The group operations.                                                   *)
(***************************************************************************)
Begin(kind, t) == op' = [kind |-> kind, token |-> t, todo |-> Member]

Issue(t, snapshot) ==
  issued' = [u \in DOMAIN issued \cup {t} |-> IF u = t THEN snapshot ELSE issued[u]]

(* mark_member: the history marks first, the members push afterwards. *)
MarkMember == /\ IsIdle
              /\ InStep
              /\ CanPushNow
              /\ Mark
              /\ Issue(NextToken, contents)
              /\ Begin("push", NoToken)
              /\ UNCHANGED memberVars

(* restore_member: the members reset first, the history cuts at the end.   *)
(* At the depth ceiling the call is refused.                               *)
RestoreMember(t) == /\ IsIdle
                    /\ InStep
                    /\ IsValid(t)
                    /\ t.depth < depth
                    /\ depth < MaxDepth
                    /\ Begin("reset", t)
                    /\ UNCHANGED <<historyVars, memberVars, issued>>

RestoreAndPopMember(t) == /\ IsIdle
                          /\ InStep
                          /\ IsValid(t)
                          /\ t.depth < depth
                          /\ Begin("restore", t)
                          /\ UNCHANGED <<historyVars, memberVars, issued>>

PopMember == /\ IsIdle
             /\ InStep
             /\ depth >= 1
             /\ Begin("pop", NoToken)
             /\ UNCHANGED <<historyVars, memberVars, issued>>

(* All members are done: the history side of the operation. *)
FinishHistory == CASE op.kind = "reset"   -> RestoreTo(op.token)
                   [] op.kind = "restore" -> RestoreAndPop(op.token)
                   [] op.kind = "pop"     -> Pop
                   [] OTHER               -> UNCHANGED historyVars

(* Mutant: the call returns when the parallel scope has joined. *)
FinishEarly == /\ ~IsIdle
               /\ op.todo \subseteq MapMember
               /\ FinishHistory
               /\ op' = Idle
               /\ UNCHANGED <<memberVars, issued>>

Finish == /\ ~IsIdle
          /\ op.todo = {}
          /\ FinishHistory
          /\ op' = Idle
          /\ UNCHANGED <<memberVars, issued>>

(* A frame pushed on the members behind the history's back                 *)
(* (try_push_frame_with, try_push_frame_adaptive): no token yet.           *)
PushOwnFrame == /\ IsIdle
                /\ CanPushNow
                /\ Begin("push", NoToken)
                /\ UNCHANGED <<historyVars, memberVars, issued>>

(* A frame popped from the members behind the history's back (pop_frame on *)
(* the public field member): no token dies.  Popping a frame that was      *)
(* pushed the same way repairs the drift; popping one that the history     *)
(* counts is misuse.                                                       *)
PopOwnFrame == /\ IsIdle
               /\ MemberDepth(Lead) >= 1
               /\ DirectPops \/ MemberDepth(Lead) > depth
               /\ Begin("drop", NoToken)
               /\ UNCHANGED <<historyVars, memberVars, issued>>

(* mint_pushed_member: a token for a frame that is already there. *)
MintPushed == /\ IsIdle
              /\ MemberDepth(Lead) = depth + 1
              /\ Mark
              /\ Issue(NextToken, [m \in Member |-> archive[m][depth + 1]])
              /\ UNCHANGED <<memberVars, op>>

Write(m) == /\ IsIdle
            /\ \E v \in Value : contents' = [contents EXCEPT ![m] = v]
            /\ UNCHANGED <<historyVars, archive, op, issued>>

(* The tokens a caller can present: its own, dead or alive, and those of   *)
(* another history, which may carry the same numbers.                      *)
Presented == DOMAIN issued \cup {[u EXCEPT !.history = ForeignId] : u \in DOMAIN issued}

Next == \/ MarkMember
        \/ \E t \in Presented : RestoreMember(t) \/ RestoreAndPopMember(t)
        \/ PopMember
        \/ \E m \in Member : MemberStep(m) \/ Write(m)
        \/ Finish
        \/ PushOwnFrame
        \/ PopOwnFrame
        \/ MintPushed

(* rayon::scope returns only after every spawned closure has run, and the  *)
(* caller then runs on to the end of the call.                             *)
Fairness == WF_vars(Finish) /\ WF_vars(\E m \in Member : MemberStep(m))

Spec == Init /\ [][Next]_vars /\ Fairness

(***************************************************************************)
(* Properties.                                                             *)
(***************************************************************************)
(* A member as it will be once it has done its part of the operation.      *)
FinalContents(m) == IF m \in op.todo THEN ContentsAfter(m) ELSE contents[m]
FinalArchive(m) == IF m \in op.todo THEN ArchiveAfter(m) ELSE archive[m]

(* Between operations every member has the same number of open frames, and *)
(* at least as many as the history counts: a fan-out never leaves a member *)
(* behind (group.rs: "the lockstep theorem", group_members.rs: each).  The *)
(* second half needs a caller that pops no frame the history counts.       *)
Lockstep == IsIdle => \A m \in Member : /\ MemberDepth(m) = MemberDepth(Lead)
                                        /\ depth <= MemberDepth(m)

(* A token that validates names the frame its own mark opened: in every    *)
(* member the archived contents are those of the moment of that mark.  A   *)
(* stale token whose depth has been reused by a later mark must not        *)
(* validate (gen_stamps.rs: is_valid, cut_from, mint_at).  The caller may  *)
(* push frames of its own and pop them again, but no others.               *)
TokenNamesItsMark ==
  IsIdle => \A t \in DOMAIN issued :
    IsValid(t) => /\ t.depth < depth
                  /\ \A m \in Member : archive[m][t.depth + 1] = issued[t][m]

(* A frame pushed or popped on the member behind the group's back is       *)
(* refused at the next group operation (group.rs, on the field member): so *)
(* whenever the depths agree and the group answers, a token it accepts     *)
(* still leads to the contents of its mark.                                *)
TamperingRefused ==
  IsIdle /\ InStep => \A t \in DOMAIN issued : \A m \in Member :
    IsValid(t) => archive[m][t.depth + 1] = issued[t][m]

(* When the members of a restore have all done their part, the group holds *)
(* exactly the contents it had at the mark of the presented token          *)
(* (restore_member, restore_and_pop_member).                               *)
RestoredContents ==
  op.kind \in {"reset", "restore"} /\ op.todo = {} =>
    /\ op.token \in DOMAIN issued
    /\ contents = issued[op.token]

(* A token that has died never validates again, whatever marks and cuts    *)
(* follow: the stamp counter is never rewound (gen_stamps.rs).             *)
DeadStaysDead ==
  [][\A t \in DOMAIN issued : IsValid(t)' => IsValid(t)]_vars

(* A restore cuts the abandoned future and nothing else: the checkpoint    *)
(* and the tokens below it keep their validity, everything above dies      *)
(* (history.rs: restore_to; a restore_and_pop also kills the checkpoint).  *)
CutIsExact ==
  [][\A t \in DOMAIN issued :
       LET kept == CASE op.kind = "reset"   -> t.depth <= op.token.depth
                     [] op.kind = "restore" -> t.depth < op.token.depth
                     [] op.kind = "pop"     -> t.depth < depth - 1
                     [] OTHER               -> TRUE
       IN Finish => (IsValid(t)' <=> (IsValid(t) /\ kept))]_vars

(* The fan-out is atomic to an observer: seen at the states in which every *)
(* member has or will have done its part, the group is a SnapshotStack of  *)
(* whole-group contents.                                                   *)
Atomic == INSTANCE SnapshotStack WITH
            Contents <- [Member -> Value],
            contents <- [m \in Member |-> FinalContents(m)],
            snaps <- [k \in 1 .. Len(FinalArchive(Lead)) |->
                        [m \in Member |-> FinalArchive(m)[k]]]

FanOutIsAtomic == Atomic!Spec

(* A group operation that has begun is carried through.                    *)
OperationCompletes == ~IsIdle ~> IsIdle
=============================================================================
