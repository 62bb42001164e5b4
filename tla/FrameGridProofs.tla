-------------------------- MODULE FrameGridProofs --------------------------
(***************************************************************************)
(* The diff-log discipline of FrameGrid keeps complete snapshots: its      *)
(* invariants, and the refinement of SnapshotStack, for every value type,  *)
(* length bound and depth bound.                                           *)
(***************************************************************************)
EXTENDS FrameGrid, SequenceTheorems, WellFoundedInduction, TLAPS

(* A non-empty set of naturals has a lowest element, which Lowest returns. *)
LEMMA LowestIsMinimum ==
  ASSUME NEW S \in SUBSET Nat, S # {}
  PROVE  /\ Lowest(S) \in S
         /\ \A g \in S : Lowest(S) <= g
<1>1. PICK x \in S : \A y \in S : ~(<<y, x>> \in OpToRel(<, Nat))
  BY NatLessThanWellFounded, WFMin
<1>2. ASSUME NEW y \in S, y < x PROVE FALSE
  <2>1. x \in Nat /\ y \in Nat
    OBVIOUS
  <2>2. <<y, x>> \in OpToRel(<, Nat)
    BY <1>2, <2>1 DEF OpToRel
  <2>. QED
    BY <1>1, <2>2
<1>3. \A y \in S : x \in Nat /\ y \in Nat /\ ~(y < x)
  BY <1>2
<1>4. \A y \in S : x <= y
  BY <1>3
<1>. QED
  BY <1>1, <1>4 DEF Lowest

(* It is the only element with that property. *)
LEMMA LowestIsUnique ==
  ASSUME NEW S \in SUBSET Nat, NEW f \in S, \A g \in S : f <= g
  PROVE  Lowest(S) = f
<1>1. Lowest(S) \in S /\ \A g \in S : Lowest(S) <= g
  BY LowestIsMinimum
<1>2. Lowest(S) <= f /\ f <= Lowest(S) /\ f \in Nat /\ Lowest(S) \in Nat
  BY <1>1
<1>. QED
  BY <1>2

(* A prefix of a sequence. *)
LEMMA PrefixProperties ==
  ASSUME NEW S, NEW s \in Seq(S), NEW n \in 0 .. Len(s)
  PROVE  /\ SubSeq(s, 1, n) \in Seq(S)
         /\ Len(SubSeq(s, 1, n)) = n
         /\ \A j \in 1 .. n : SubSeq(s, 1, n)[j] = s[j]
<1>1. Len(s) \in Nat /\ n \in Int /\ 1 \in Int
  BY LenProperties
<1>2. \A j \in 1 .. n : s[j] \in S
  BY <1>1, ElementOfSeq
<1>. QED
  BY <1>1, <1>2, SubSeqProperties

(* A function on an initial segment is a sequence. *)
LEMMA SegmentIsSeq ==
  ASSUME NEW S, NEW n \in Nat, NEW f \in [1 .. n -> S]
  PROVE  f \in Seq(S) /\ Len(f) = n
<1>1. f \in Seq(S)
  BY SeqDef
<1>. QED
  BY <1>1, LenProperties

(***************************************************************************)
(* What the capture of a cell does to the frames.                          *)
(***************************************************************************)
LEMMA CaptureEffect ==
  ASSUME GridTypeOK, NEW i \in 1 .. Len(data), Capture(i)
  PROVE  /\ old' \in Seq(Diff)
         /\ Len(old') = Len(old)
         /\ \A k \in 1 .. Depth : \A j \in DOMAIN old[k] :
              j \in DOMAIN old'[k] /\ old'[k][j] = old[k][j]
         /\ \A k \in 1 .. Depth : \A j \in DOMAIN old'[k] :
              \/ j \in DOMAIN old[k]
              \/ k = Depth /\ j = i /\ old'[k][j] = data[i] /\ i <= saved[Depth]
         /\ Depth > 0 /\ i <= saved[Depth] => i \in DOMAIN old'[Depth]
<1>. USE DEF GridTypeOK, Depth
<1>1. CASE ~Captures(i)
  <2>1. old' = old
    BY <1>1 DEF Capture
  <2>. QED
    BY <1>1, <2>1 DEF Captures
<1>2. CASE Captures(i)
  <2>. DEFINE W == WithCapture(i)
  <2>1. Depth \in 1 .. Len(old) /\ i \in Cell /\ data[i] \in Value /\ i <= saved[Depth]
    <3>1. Len(data) \in Nat /\ Len(saved) \in Nat /\ Len(old) \in Nat
      BY LenProperties
    <3>. QED
      BY <1>2, <3>1, ElementOfSeq, GridAssumption DEF Captures, Cell
  <2>2. old[Depth] \in Diff
    BY <2>1, ElementOfSeq
  <2>3. PICK S \in SUBSET Cell : old[Depth] \in [S -> Value]
    BY <2>2 DEF Diff
  <2>4. /\ W \in [S \cup {i} -> Value]
        /\ W[i] = data[i]
        /\ \A j \in S : j # i => W[j] = old[Depth][j]
    BY <2>1, <2>3 DEF WithCapture
  <2>5. W \in Diff
    BY <2>1, <2>4 DEF Diff
  <2>6. old' = [old EXCEPT ![Depth] = W]
    BY <1>2 DEF Capture
  <2>. HIDE DEF W
  <2>7. old' \in Seq(Diff) /\ Len(old') = Len(old)
    BY <2>1, <2>5, <2>6, ExceptSeq
  <2>8. old'[Depth] = W /\ \A k \in 1 .. Len(old) : k # Depth => old'[k] = old[k]
    BY <2>1, <2>6
  <2>9. i \notin S
    BY <1>2, <2>3 DEF Captures
  <2>10. DOMAIN old[Depth] = S /\ DOMAIN W = S \cup {i}
    BY <2>3, <2>4
  <2>. QED
    BY <2>1, <2>4, <2>7, <2>8, <2>9, <2>10
<1>. QED
  BY <1>1, <1>2

(***************************************************************************)
(* The invariant, one lemma per operation.  The frames only gain cells     *)
(* while they are on the stack, and what they gain is in the marked range. *)
(***************************************************************************)
(* The empty vector satisfies the invariant. *)
LEMMA InitInv == Init => GridInv
<1>. SUFFICES ASSUME Init PROVE GridInv
  OBVIOUS
<1>1. Len(data) = 0 /\ Len(saved) = 0 /\ Len(old) = 0
  BY DEF Init
<1>2. GridTypeOK
  BY <1>1, GridAssumption, EmptySeq DEF Init, GridTypeOK
<1>. QED
  BY <1>1, <1>2 DEF GridInv, CoverInRange, UncoveredSurvive, Depth

(* A step that only adds coverage keeps the uncovered cells alive, provided *)
(* the cells it leaves uncovered are still in the data.                    *)
LEMMA MoreCoverage ==
  ASSUME GridInv, saved' = saved,
         \A g \in 1 .. Depth : DOMAIN old[g] \subseteq DOMAIN old'[g],
         \A k \in 1 .. Depth : \A j \in 1 .. saved[k] :
           (\A g \in k .. Depth : j \notin DOMAIN old'[g]) => j <= Len(data')
  PROVE  UncoveredSurvive'
<1>0. Depth \in Nat /\ Depth' = Depth
  BY LenProperties DEF GridInv, GridTypeOK, Depth
<1>. SUFFICES ASSUME NEW k \in 1 .. Depth, NEW j \in 1 .. saved[k],
                     NEW f \in k .. Depth,
                     \A g \in k .. f - 1 : j \notin DOMAIN old'[g]
              PROVE  j <= saved[f]
  BY <1>0 DEF UncoveredSurvive
<1>1. \A g \in k .. f - 1 : j \notin DOMAIN old[g]
  <2>1. \A g \in k .. f - 1 : g \in 1 .. Depth
    BY <1>0
  <2>. QED
    BY <2>1
<1>. QED
  BY <1>1 DEF GridInv, UncoveredSurvive

(* A cell no frame from k up covers is in the data, and in every marked    *)
(* range up to the top one.                                                *)
LEMMA UncoveredCell ==
  ASSUME GridInv, NEW k \in 1 .. Depth, NEW j \in 1 .. saved[k],
         \A g \in k .. Depth : j \notin DOMAIN old[g]
  PROVE  j \in 1 .. Len(data) /\ j <= saved[Depth]
<1>1. Depth \in Nat /\ Len(data) \in Nat /\ saved[k] \in Nat
  BY LenProperties, ElementOfSeq, GridAssumption DEF GridInv, GridTypeOK, Depth
<1>2. j <= Len(data)
  BY DEF GridInv, UncoveredSurvive
<1>3. Depth \in k .. Depth /\ \A g \in k .. Depth - 1 : g \in k .. Depth
  BY <1>1
<1>4. j <= saved[Depth]
  BY <1>3 DEF GridInv, UncoveredSurvive
<1>. QED
  BY <1>1, <1>2, <1>4

(* Vec::push keeps the invariant. *)
LEMMA PushInv ==
  ASSUME GridInv, NEW v \in Value, Push(v)
  PROVE  GridInv'
<1>. USE DEF GridInv, GridTypeOK, Depth
<1>1. data' \in Seq(Value) /\ Len(data') = Len(data) + 1
  BY AppendProperties DEF Push
<1>2. GridTypeOK'
  BY <1>1, LenProperties, GridAssumption DEF Push
<1>3. CoverInRange'
  BY DEF Push, CoverInRange
<1>4. UncoveredSurvive'
  <2>1. \A k \in 1 .. Depth : \A j \in 1 .. saved[k] :
          (\A g \in k .. Depth : j \notin DOMAIN old[g]) => j <= Len(data)
    BY DEF UncoveredSurvive
  <2>2. \A k \in 1 .. Depth : \A j \in 1 .. saved[k] :
          (\A g \in k .. Depth : j \notin DOMAIN old'[g]) => j <= Len(data')
    BY <1>1, <2>1, LenProperties DEF Push
  <2>. QED
    BY <2>2, MoreCoverage DEF Push
<1>. QED
  BY <1>2, <1>3, <1>4

(* Vec::set_index keeps the invariant. *)
LEMMA SetInv ==
  ASSUME GridInv, NEW v \in Value, NEW i \in 1 .. Len(data), Set(i, v)
  PROVE  GridInv'
<1>. USE DEF GridInv, GridTypeOK, Depth
<1>1. data' \in Seq(Value) /\ Len(data') = Len(data) /\ saved' = saved
  BY ExceptSeq DEF Set
<1>2. /\ old' \in Seq(Diff) /\ Len(old') = Len(old)
      /\ \A k \in 1 .. Len(saved) : DOMAIN old[k] \subseteq DOMAIN old'[k]
      /\ \A k \in 1 .. Len(saved) : \A j \in DOMAIN old'[k] :
           j \in DOMAIN old[k] \/ (j = i /\ j <= saved[k])
  BY CaptureEffect DEF Set
<1>3. GridTypeOK'
  BY <1>1, <1>2
<1>4. CoverInRange'
  BY <1>1, <1>2, LenProperties, ElementOfSeq DEF CoverInRange
<1>5. UncoveredSurvive'
  <2>1. ASSUME NEW k \in 1 .. Depth, NEW j \in 1 .. saved[k],
               \A g \in k .. Depth : j \notin DOMAIN old'[g]
        PROVE  j <= Len(data')
    <3>1. \A g \in k .. Depth : g \in 1 .. Depth
      BY LenProperties
    <3>2. \A g \in k .. Depth : j \notin DOMAIN old[g]
      BY <1>2, <2>1, <3>1
    <3>. QED
      BY <1>1, <3>2, UncoveredCell
  <2>. QED
    BY <1>1, <1>2, <2>1, MoreCoverage
<1>. QED
  BY <1>3, <1>4, <1>5

(* Vec::pop keeps it: the popped cell is captured or past the mark. *)
LEMMA PopInv ==
  ASSUME GridInv, PopCell
  PROVE  GridInv'
<1>. DEFINE i == Len(data)
<1>. USE DEF GridInv, GridTypeOK, Depth
<1>0. i \in 1 .. Len(data) /\ Capture(i) /\ Len(saved) \in Nat
  BY LenProperties DEF PopCell
<1>1. data' \in Seq(Value) /\ Len(data') = Len(data) - 1 /\ saved' = saved
  <2>1. Len(data) - 1 \in 0 .. Len(data)
    BY <1>0
  <2>. QED
    BY <2>1, PrefixProperties DEF PopCell
<1>2. /\ old' \in Seq(Diff) /\ Len(old') = Len(old)
      /\ \A k \in 1 .. Len(saved) : DOMAIN old[k] \subseteq DOMAIN old'[k]
      /\ \A k \in 1 .. Len(saved) : \A j \in DOMAIN old'[k] :
           j \in DOMAIN old[k] \/ (j = i /\ j <= saved[k])
      /\ Len(saved) > 0 /\ i <= saved[Len(saved)] => i \in DOMAIN old'[Len(saved)]
  BY <1>0, CaptureEffect
<1>3. GridTypeOK'
  BY <1>0, <1>1, <1>2, GridAssumption
<1>4. CoverInRange'
  BY <1>0, <1>1, <1>2, LenProperties, ElementOfSeq DEF CoverInRange
<1>5. UncoveredSurvive'
  <2>1. ASSUME NEW k \in 1 .. Depth, NEW j \in 1 .. saved[k],
               \A g \in k .. Depth : j \notin DOMAIN old'[g]
        PROVE  j <= Len(data')
    <3>1. /\ \A g \in k .. Depth : g \in 1 .. Depth
          /\ Depth \in k .. Depth
      BY <1>0
    <3>2. \A g \in k .. Depth : j \notin DOMAIN old[g]
      BY <1>2, <2>1, <3>1
    <3>3. j \in 1 .. Len(data) /\ j <= saved[Depth]
      BY <3>2, UncoveredCell
    <3>4. j # i
      BY <1>0, <1>2, <2>1, <3>1, <3>3
    <3>. QED
      BY <1>0, <1>1, <3>3, <3>4
  <2>. QED
    BY <1>1, <1>2, <2>1, MoreCoverage
<1>. QED
  BY <1>3, <1>4, <1>5

(* A fresh frame covers nothing. *)
LEMMA FreshFrame == NoDiff \in Diff /\ DOMAIN NoDiff = {}
<1>1. NoDiff \in [{} -> Value] /\ DOMAIN NoDiff = {}
  BY DEF NoDiff
<1>2. {} \in SUBSET Cell
  OBVIOUS
<1>. QED
  BY <1>1, <1>2 DEF Diff

(* Vec::push_frame keeps the invariant. *)
LEMMA MarkInv ==
  ASSUME GridInv, Mark
  PROVE  GridInv'
<1>. DEFINE d == Len(saved)
<1>. USE DEF GridInv, GridTypeOK, Depth
<1>0. d \in Nat /\ Len(data) \in 0 .. MaxLen /\ NoDiff \in Diff /\ DOMAIN NoDiff = {}
  BY LenProperties, GridAssumption, FreshFrame
<1>1. /\ saved' \in Seq(0 .. MaxLen) /\ Len(saved') = d + 1
      /\ saved'[d + 1] = Len(data) /\ \A k \in 1 .. d : saved'[k] = saved[k]
  BY <1>0, AppendProperties DEF Mark
<1>2. /\ old' \in Seq(Diff) /\ Len(old') = d + 1
      /\ old'[d + 1] = NoDiff /\ \A k \in 1 .. d : old'[k] = old[k]
  BY <1>0, AppendProperties DEF Mark
<1>3. GridTypeOK'
  BY <1>0, <1>1, <1>2, GridAssumption DEF Mark
<1>. HIDE DEF NoDiff
<1>4. CoverInRange'
  <2>. SUFFICES ASSUME NEW k \in 1 .. d + 1
                PROVE  DOMAIN old'[k] \subseteq 1 .. saved'[k]
    BY <1>1 DEF CoverInRange
  <2>1. CASE k = d + 1
    BY <2>1, <1>0, <1>2
  <2>2. CASE k \in 1 .. d
    BY <2>2, <1>1, <1>2 DEF CoverInRange
  <2>. QED
    BY <1>0, <2>1, <2>2
<1>5. UncoveredSurvive'
  <2>. SUFFICES ASSUME NEW k \in 1 .. d + 1, NEW j \in 1 .. saved'[k]
                PROVE  /\ \A f \in k .. d + 1 :
                            (\A g \in k .. f - 1 : j \notin DOMAIN old'[g]) => j <= saved'[f]
                       /\ (\A g \in k .. d + 1 : j \notin DOMAIN old'[g]) => j <= Len(data)
    BY <1>1 DEF UncoveredSurvive, Mark
  <2>1. CASE k = d + 1
    BY <2>1, <1>0, <1>1
  <2>2. CASE k \in 1 .. d
    <3>1. \A g \in k .. d : g \in 1 .. d
      BY <1>0, <2>2
    <3>2. (\A g \in k .. d : j \notin DOMAIN old'[g]) => j <= Len(data)
      BY <1>1, <1>2, <2>2, <3>1 DEF UncoveredSurvive
    <3>3. ASSUME NEW f \in k .. d, \A g \in k .. f - 1 : j \notin DOMAIN old'[g]
          PROVE  j <= saved'[f]
      <4>1. \A g \in k .. f - 1 : g \in 1 .. d
        BY <1>0, <2>2
      <4>2. \A g \in k .. f - 1 : j \notin DOMAIN old[g]
        BY <1>2, <3>3, <4>1
      <4>3. j <= saved[f]
        BY <1>1, <2>2, <4>2 DEF UncoveredSurvive
      <4>. QED
        BY <1>1, <3>1, <4>3
    <3>4. ASSUME \A g \in k .. (d + 1) - 1 : j \notin DOMAIN old'[g]
          PROVE  j <= saved'[d + 1]
      <4>1. (d + 1) - 1 = d
        BY <1>0
      <4>. QED
        BY <1>1, <3>2, <3>4, <4>1
    <3>5. \A f \in k .. d + 1 : f \in k .. d \/ f = d + 1
      BY <1>0, <2>2
    <3>6. \A g \in k .. d : g \in k .. d + 1
      BY <1>0, <2>2
    <3>7. \A f \in k .. d + 1 :
            (\A g \in k .. f - 1 : j \notin DOMAIN old'[g]) => j <= saved'[f]
      BY <3>3, <3>4, <3>5
    <3>. QED
      BY <3>2, <3>6, <3>7
  <2>. QED
    BY <1>0, <2>1, <2>2
<1>. QED
  BY <1>3, <1>4, <1>5

(***************************************************************************)
(* Versions.                                                               *)
(***************************************************************************)
(* The lowest covering frame, when some frame covers the cell. *)
LEMMA LowestCovering ==
  ASSUME GridInv, NEW k \in 1 .. Depth, NEW j, Covering(k, j) # {}
  PROVE  /\ Lowest(Covering(k, j)) \in Covering(k, j)
         /\ \A g \in Covering(k, j) : Lowest(Covering(k, j)) <= g
<1>1. Covering(k, j) \in SUBSET Nat
  BY LenProperties DEF GridInv, GridTypeOK, Depth, Covering
<1>. QED
  BY <1>1, LowestIsMinimum

(* Every cell of a version holds a value a client stored. *)
LEMMA CellAtIsValue ==
  ASSUME GridInv, NEW k \in 1 .. Depth, NEW j \in 1 .. saved[k]
  PROVE  CellAt(k, j) \in Value
<1>0. Depth \in Nat /\ Depth = Len(old)
  BY LenProperties DEF GridInv, GridTypeOK, Depth
<1>1. CASE Covering(k, j) # {}
  <2> DEFINE m == Lowest(Covering(k, j))
  <2>1. m \in Covering(k, j)
    BY <1>1, LowestCovering
  <2>4. m \in 1 .. Depth /\ j \in DOMAIN old[m]
    BY <1>0, <2>1 DEF Covering
  <2>5. CellAt(k, j) = old[m][j]
    BY <1>1 DEF CellAt
  <2> HIDE DEF m
  <2>2. old[m] \in Diff
    BY <1>0, <2>4, ElementOfSeq DEF GridInv, GridTypeOK
  <2>3. PICK S \in SUBSET Cell : old[m] \in [S -> Value]
    BY <2>2 DEF Diff
  <2>. QED
    BY <2>3, <2>4, <2>5
<1>2. CASE Covering(k, j) = {}
  <2>1. j \in 1 .. Len(data)
    BY <1>2, UncoveredCell DEF Covering
  <2>. QED
    BY <1>2, <2>1, ElementOfSeq, LenProperties DEF CellAt, GridInv, GridTypeOK
<1>. QED
  BY <1>1, <1>2

(* A version is a sequence of values of the marked length. *)
LEMMA VersionIsSeq ==
  ASSUME GridInv, NEW k \in 1 .. Depth
  PROVE  /\ Version(k) \in Seq(Value)
         /\ Len(Version(k)) = saved[k]
         /\ saved[k] \in 0 .. MaxLen
         /\ \A j \in 1 .. saved[k] : Version(k)[j] = CellAt(k, j)
<1>1. saved[k] \in 0 .. MaxLen /\ saved[k] \in Nat
  BY ElementOfSeq, GridAssumption DEF GridInv, GridTypeOK, Depth
<1>2. Version(k) \in [1 .. saved[k] -> Value]
  BY CellAtIsValue DEF Version
<1>. QED
  BY <1>1, <1>2, SegmentIsSeq DEF Version

(* Writing or popping a cell after its capture leaves every version as it  *)
(* was.                                                                    *)
LEMMA CaptureKeepsVersions ==
  ASSUME GridInv, NEW i \in 1 .. Len(data), Capture(i), saved' = saved,
         \A j \in 1 .. Len(data) : j # i => j <= Len(data') /\ data'[j] = data[j],
         NEW k \in 1 .. Depth
  PROVE  Version(k)' = Version(k)
<1>0. Depth \in Nat /\ Depth' = Depth /\ Depth \in k .. Depth
  BY LenProperties DEF GridInv, GridTypeOK, Depth
<1>e. /\ \A g \in 1 .. Depth : \A j \in DOMAIN old[g] :
            j \in DOMAIN old'[g] /\ old'[g][j] = old[g][j]
      /\ \A g \in 1 .. Depth : \A j \in DOMAIN old'[g] :
            \/ j \in DOMAIN old[g]
            \/ g = Depth /\ j = i /\ old'[g][j] = data[i]
      /\ i <= saved[Depth] => i \in DOMAIN old'[Depth]
  BY <1>0, CaptureEffect DEF GridInv
<1>. SUFFICES ASSUME NEW j \in 1 .. saved[k]
              PROVE  CellAt(k, j)' = CellAt(k, j)
  BY DEF Version
<1>k. \A g \in k .. Depth : g \in 1 .. Depth /\ g <= Depth
  BY <1>0
<1>1. CASE Covering(k, j) # {}
  <2>. DEFINE m == Lowest(Covering(k, j))
  <2>1. m \in Covering(k, j) /\ \A g \in Covering(k, j) : m <= g
    BY <1>1, LowestCovering
  <2>2. m \in Covering(k, j)'
    BY <1>0, <1>e, <1>k, <2>1 DEF Covering
  <2>3. \A g \in Covering(k, j)' : m <= g
    BY <1>0, <1>e, <1>k, <2>1 DEF Covering
  <2>4. Covering(k, j)' \in SUBSET Nat
    BY <1>0 DEF Covering
  <2>5. Lowest(Covering(k, j)') = m
    <3>. HIDE DEF m
    <3>. QED BY <2>2, <2>3, <2>4, LowestIsUnique
  <2>6. CellAt(k, j)' = old'[m][j]
    BY <2>2, <2>5 DEF CellAt, Lowest
  <2>7. CellAt(k, j) = old[m][j]
    BY <1>1 DEF CellAt
  <2>. QED
    BY <1>e, <1>k, <2>1, <2>6, <2>7 DEF Covering
<1>2. CASE Covering(k, j) = {}
  <2>1. j \in 1 .. Len(data) /\ j <= saved[Depth]
    BY <1>2, UncoveredCell DEF Covering
  <2>2. CellAt(k, j) = data[j]
    BY <1>2, <2>1, LenProperties DEF CellAt, GridInv, GridTypeOK
  <2>3. CASE j = i
    <3>1. Depth \in Covering(k, j)' /\ \A g \in Covering(k, j)' : g = Depth
      BY <1>0, <1>e, <1>k, <1>2, <2>1, <2>3 DEF Covering
    <3>2. Lowest(Covering(k, j)') = Depth
      BY <3>1 DEF Lowest
    <3>3. old'[Depth][j] = data[i]
      BY <1>0, <1>e, <1>k, <1>2, <2>1, <2>3 DEF Covering
    <3>. QED
      BY <2>2, <2>3, <3>1, <3>2, <3>3 DEF CellAt, Lowest
  <2>4. CASE j # i
    <3>1. Covering(k, j)' = {}
      BY <1>0, <1>e, <1>k, <1>2, <2>4 DEF Covering
    <3>. QED
      BY <2>1, <2>2, <2>4, <3>1 DEF CellAt
  <2>. QED
    BY <2>3, <2>4
<1>. QED
  BY <1>1, <1>2

(* Pushing leaves every version as it was. *)
LEMMA PushKeepsVersions ==
  ASSUME GridInv, NEW v \in Value, Push(v), NEW k \in 1 .. Depth
  PROVE  Version(k)' = Version(k)
<1>0. saved' = saved /\ old' = old /\ Depth' = Depth
  BY DEF Push, Depth
<1>1. \A j \in 1 .. Len(data) : j <= Len(data') /\ data'[j] = data[j]
  BY AppendProperties, LenProperties DEF Push, GridInv, GridTypeOK
<1>. SUFFICES ASSUME NEW j \in 1 .. saved[k]
              PROVE  CellAt(k, j)' = CellAt(k, j)
  BY <1>0 DEF Version
<1>2. Covering(k, j)' = Covering(k, j)
  BY <1>0 DEF Covering
<1>3. CASE Covering(k, j) = {}
  <2>1. j \in 1 .. Len(data)
    BY <1>3, UncoveredCell DEF Covering
  <2>2. j <= Len(data)
    BY <2>1, LenProperties DEF GridInv, GridTypeOK
  <2>. QED
    BY <1>1, <1>2, <1>3, <2>1, <2>2 DEF CellAt
<1>4. CASE Covering(k, j) # {}
  BY <1>0, <1>2, <1>4 DEF CellAt, Lowest
<1>. QED
  BY <1>3, <1>4

(* Marking leaves every version as it was, and the new version is the      *)
(* present data.                                                           *)
LEMMA MarkVersions ==
  ASSUME GridInv, Mark, NEW d, d = Depth
  PROVE  /\ \A k \in 1 .. d : Version(k)' = Version(k)
         /\ Version(d + 1)' = data
<1>0. d \in Nat /\ d = Len(saved) /\ d = Len(old) /\ Len(data) \in 0 .. MaxLen
  BY LenProperties, GridAssumption DEF GridInv, GridTypeOK, Depth
<1>1. /\ Depth' = d + 1
      /\ saved'[d + 1] = Len(data) /\ \A k \in 1 .. d : saved'[k] = saved[k]
  BY <1>0, AppendProperties DEF Mark, GridInv, GridTypeOK, Depth
<1>2. /\ DOMAIN old'[d + 1] = {} /\ \A k \in 1 .. d : old'[k] = old[k]
  BY <1>0, AppendProperties, FreshFrame DEF Mark, GridInv, GridTypeOK
<1>3. data' = data
  BY DEF Mark
<1>4. ASSUME NEW k \in 1 .. d, NEW j
      PROVE  CellAt(k, j)' = CellAt(k, j)
  <2>1. \A g : g \in k .. d + 1 <=> g \in k .. d \/ g = d + 1
    BY <1>0
  <2>2. \A g \in k .. d : g \in 1 .. d
    BY <1>0
  <2>3. Covering(k, j)' = Covering(k, j)
    BY <1>1, <1>2, <2>1, <2>2 DEF Covering
  <2>4. CASE Covering(k, j) = {}
    BY <1>3, <2>3, <2>4 DEF CellAt
  <2>5. CASE Covering(k, j) # {}
    <3>1. Lowest(Covering(k, j)) \in 1 .. d
      BY <2>2, <2>5, LowestCovering DEF Covering
    <3>. QED
      BY <1>2, <2>3, <2>5, <3>1 DEF CellAt, Lowest
  <2>. QED
    BY <2>4, <2>5
<1>5. \A k \in 1 .. d : Version(k)' = Version(k)
  BY <1>1, <1>4 DEF Version
<1>6. Version(d + 1)' = data
  <2>1. ASSUME NEW j \in 1 .. Len(data) PROVE CellAt(d + 1, j)' = data[j]
    <3>1. Covering(d + 1, j)' = {}
      BY <1>0, <1>1, <1>2 DEF Covering
    <3>2. j <= Len(data)
      BY <1>0
    <3>. QED
      BY <1>3, <3>1, <3>2 DEF CellAt
  <2>2. Version(d + 1)' = [j \in 1 .. Len(data) |-> data[j]]
    BY <1>1, <2>1 DEF Version
  <2>3. data = [j \in 1 .. Len(data) |-> data[j]]
    BY LenProperties DEF GridInv, GridTypeOK
  <2>. QED
    BY <2>2, <2>3
<1>. QED
  BY <1>5, <1>6

(***************************************************************************)
(* Restoring version t with t - 1 frames left, or with frame t reopened    *)
(* empty.                                                                  *)
(***************************************************************************)
Rewound(t) == /\ data' = Version(t)
              /\ Depth' \in {t - 1, t}
              /\ \A f \in 1 .. Depth' : saved'[f] = saved[f]
              /\ \A f \in 1 .. t - 1 : old'[f] = old[f]
              /\ Depth' = t => DOMAIN old'[t] = {}

(* A cell that the surviving frames do not cover has its restored value in *)
(* the data, so the versions below t are as they were.                     *)
LEMMA RewoundVersions ==
  ASSUME GridInv, NEW t \in 1 .. Depth, Rewound(t), NEW k \in 1 .. Depth'
  PROVE  Version(k)' = Version(k)
<1>0. Depth \in Nat /\ t \in Nat /\ k \in 1 .. t /\ Depth' \in Nat
  BY LenProperties DEF GridInv, GridTypeOK, Depth, Rewound
<1>1. /\ Len(data') = saved[t] /\ saved[t] \in Nat
      /\ \A j \in 1 .. saved[t] : data'[j] = CellAt(t, j)
  BY VersionIsSeq, GridAssumption DEF Rewound
<1>2. k \in 1 .. Depth /\ saved'[k] = saved[k] /\ saved[k] \in Nat
  BY <1>0, VersionIsSeq, GridAssumption DEF Rewound
<1>. SUFFICES ASSUME NEW j \in 1 .. saved[k]
              PROVE  CellAt(k, j)' = CellAt(k, j)
  BY <1>2 DEF Version
<1>3. ASSUME NEW g
      PROVE  g \in Covering(k, j)' <=> g \in Covering(k, j) /\ g < t
  <2>1. g \in k .. Depth' <=> g \in k .. t - 1 \/ (g = t /\ Depth' = t)
    BY <1>0 DEF Rewound
  <2>2. g \in k .. t - 1 <=> g \in k .. Depth /\ g < t
    BY <1>0
  <2>3. g \in k .. t - 1 => g \in 1 .. t - 1
    BY <1>0
  <2>4. ~(t < t)
    BY <1>0
  <2>. QED
    BY <2>1, <2>2, <2>3, <2>4 DEF Covering, Rewound
<1>4. CASE Covering(k, j)' # {}
  <2>. DEFINE m == Lowest(Covering(k, j)')
  <2>1. Covering(k, j)' \in SUBSET Nat /\ Covering(k, j) \in SUBSET Nat
    BY <1>0 DEF Covering
  <2>2. m \in Covering(k, j)' /\ \A g \in Covering(k, j)' : m <= g
    BY <1>4, <2>1, LowestIsMinimum
  <2>3. m \in Covering(k, j) /\ m < t /\ m \in 1 .. t - 1
    BY <1>0, <1>3, <2>2 DEF Covering
  <2>4. \A g \in Covering(k, j) : m <= g
    BY <1>0, <1>3, <2>1, <2>2, <2>3
  <2>5. Lowest(Covering(k, j)) = m
    <3>. HIDE DEF m
    <3>. QED BY <2>1, <2>3, <2>4, LowestIsUnique
  <2>6. CellAt(k, j)' = old'[m][j]
    BY <1>4 DEF CellAt, Lowest
  <2>7. CellAt(k, j) = old[m][j]
    BY <2>3, <2>5 DEF CellAt
  <2>. QED
    BY <2>3, <2>6, <2>7 DEF Rewound
<1>5. CASE Covering(k, j)' = {}
  <2>1. \A g \in k .. t - 1 : j \notin DOMAIN old[g]
    <3>1. \A g \in k .. t - 1 : g \in k .. Depth /\ g < t
      BY <1>0
    <3>. QED
      BY <1>3, <1>5, <3>1 DEF Covering
  <2>2. t \in k .. Depth
    BY <1>0
  <2>3. j <= saved[t] /\ j \in 1 .. saved[t]
    BY <1>1, <1>2, <2>1, <2>2 DEF GridInv, UncoveredSurvive
  <2>4. CellAt(k, j)' = CellAt(t, j)
    BY <1>1, <1>5, <2>3 DEF CellAt
  <2>5. Covering(k, j) = Covering(t, j)
    <3>1. \A g \in k .. Depth : g \in k .. t - 1 \/ g \in t .. Depth
      BY <1>0
    <3>2. \A g \in t .. Depth : g \in k .. Depth
      BY <1>0
    <3>. QED
      BY <2>1, <3>1, <3>2 DEF Covering
  <2>. QED
    BY <2>4, <2>5 DEF CellAt
<1>. QED
  BY <1>4, <1>5

(* A rewind keeps the invariant. *)
LEMMA RewoundInv ==
  ASSUME GridInv, NEW t \in 1 .. Depth, Rewound(t),
         saved' \in Seq(0 .. MaxLen), old' \in Seq(Diff), Len(old') = Depth'
  PROVE  GridInv'
<1>0. Depth \in Nat /\ t \in Nat /\ Depth' \in Nat /\ Depth' <= t /\ Depth <= MaxDepth
  BY LenProperties DEF GridInv, GridTypeOK, Depth, Rewound
<1>1. /\ data' \in Seq(Value) /\ Len(data') = saved[t] /\ saved[t] \in 0 .. MaxLen
  BY VersionIsSeq DEF Rewound
<1>2. GridTypeOK'
  BY <1>0, <1>1, GridAssumption DEF GridTypeOK, Depth
<1>3. \A f \in 1 .. Depth' : f \in 1 .. Depth /\ saved'[f] = saved[f]
  BY <1>0 DEF Rewound
<1>4. \A f \in 1 .. Depth' :
        \/ f \in 1 .. t - 1 /\ old'[f] = old[f]
        \/ f = t /\ DOMAIN old'[f] = {}
  <2>. SUFFICES ASSUME NEW f \in 1 .. Depth'
                PROVE  \/ f \in 1 .. t - 1 /\ old'[f] = old[f]
                       \/ f = t /\ DOMAIN old'[f] = {}
    OBVIOUS
  <2>1. Depth' = t - 1 \/ Depth' = t
    BY DEF Rewound
  <2>2. f \in 1 .. t - 1 \/ (f = t /\ Depth' = t)
    BY <1>0, <2>1
  <2>. QED
    BY <2>2 DEF Rewound
<1>5. CoverInRange'
  BY <1>3, <1>4 DEF GridInv, CoverInRange
<1>6. UncoveredSurvive'
  <2>. SUFFICES ASSUME NEW k \in 1 .. Depth', NEW j \in 1 .. saved[k]
                PROVE  /\ \A f \in k .. Depth' :
                            (\A g \in k .. f - 1 : j \notin DOMAIN old'[g]) => j <= saved'[f]
                       /\ (\A g \in k .. Depth' : j \notin DOMAIN old'[g]) => j <= Len(data')
    BY <1>3 DEF UncoveredSurvive
  <2>1. ASSUME NEW f \in k .. t, \A g \in k .. f - 1 : j \notin DOMAIN old'[g]
        PROVE  j <= saved[f]
    <3>1. \A g \in k .. f - 1 : g \in 1 .. t - 1
      BY <1>0
    <3>2. \A g \in k .. f - 1 : j \notin DOMAIN old[g]
      BY <2>1, <3>1 DEF Rewound
    <3>3. f \in k .. Depth /\ k \in 1 .. Depth
      BY <1>0
    <3>. QED
      BY <3>2, <3>3 DEF GridInv, UncoveredSurvive
  <2>2. \A f \in k .. Depth' : f \in k .. t /\ f \in 1 .. Depth'
    BY <1>0
  <2>3. t \in k .. t /\ \A g \in k .. t - 1 : g \in k .. Depth'
    BY <1>0 DEF Rewound
  <2>4. (\A g \in k .. Depth' : j \notin DOMAIN old'[g]) => j <= Len(data')
    BY <1>1, <2>1, <2>3
  <2>. QED
    BY <1>3, <2>1, <2>2, <2>4
<1>. QED
  BY <1>2, <1>5, <1>6 DEF GridInv

(* Both forms of restore rewind. *)
LEMMA RestoreRewinds ==
  ASSUME GridInv, NEW t \in 1 .. Depth, RestoreFrame(t)
  PROVE  /\ Rewound(t) /\ Depth' = t - 1
         /\ saved' \in Seq(0 .. MaxLen) /\ old' \in Seq(Diff) /\ Len(old') = Depth'
<1>0. t - 1 \in 0 .. Len(saved) /\ t - 1 \in 0 .. Len(old) /\ t \in Nat
  BY LenProperties DEF GridInv, GridTypeOK, Depth
<1>1. /\ saved' \in Seq(0 .. MaxLen) /\ Len(saved') = t - 1
      /\ \A f \in 1 .. t - 1 : saved'[f] = saved[f]
  BY <1>0, PrefixProperties DEF GridInv, GridTypeOK, RestoreFrame
<1>2. /\ old' \in Seq(Diff) /\ Len(old') = t - 1
      /\ \A f \in 1 .. t - 1 : old'[f] = old[f]
  BY <1>0, PrefixProperties DEF GridInv, GridTypeOK, RestoreFrame
<1>. QED
  BY <1>0, <1>1, <1>2 DEF RestoreFrame, Rewound, Depth

(* So does the form that reopens the frame. *)
LEMMA ResetRewinds ==
  ASSUME GridInv, NEW t \in 1 .. Depth, ResetFrame(t)
  PROVE  /\ Rewound(t) /\ Depth' = t
         /\ saved' \in Seq(0 .. MaxLen) /\ old' \in Seq(Diff) /\ Len(old') = Depth'
<1>0. t - 1 \in 0 .. Len(old) /\ t \in 0 .. Len(saved) /\ t \in Nat /\ (t - 1) + 1 = t
  BY LenProperties DEF GridInv, GridTypeOK, Depth
<1>1. /\ saved' \in Seq(0 .. MaxLen) /\ Len(saved') = t
      /\ \A f \in 1 .. t : saved'[f] = saved[f]
  BY <1>0, PrefixProperties DEF GridInv, GridTypeOK, ResetFrame
<1>. DEFINE low == SubSeq(old, 1, t - 1)
<1>2. /\ low \in Seq(Diff) /\ Len(low) = t - 1
      /\ \A f \in 1 .. t - 1 : low[f] = old[f]
  BY <1>0, PrefixProperties DEF GridInv, GridTypeOK
<1>3. old' = Append(low, NoDiff)
  BY DEF ResetFrame
<1>. HIDE DEF low
<1>4. /\ old' \in Seq(Diff) /\ Len(old') = t /\ old'[t] = NoDiff
      /\ \A f \in 1 .. t - 1 : old'[f] = old[f]
  BY <1>0, <1>2, <1>3, FreshFrame, AppendProperties
<1>. QED
  BY <1>0, <1>1, <1>4, FreshFrame DEF ResetFrame, Rewound, Depth

(***************************************************************************)
(* The theorems.                                                           *)
(***************************************************************************)
(* Every operation keeps the invariant. *)
LEMMA NextInv == GridInv /\ [Next]_vars => GridInv'
<1>. SUFFICES ASSUME GridInv, [Next]_vars PROVE GridInv'
  OBVIOUS
<1>1. CASE \E v \in Value : Push(v)
  BY <1>1, PushInv
<1>2. CASE \E v \in Value : \E i \in 1 .. Len(data) : Set(i, v)
  BY <1>2, SetInv
<1>3. CASE PopCell
  BY <1>3, PopInv
<1>4. CASE Mark
  BY <1>4, MarkInv
<1>5. ASSUME NEW k \in 1 .. Depth, RestoreFrame(k) PROVE GridInv'
  BY <1>5, RestoreRewinds, RewoundInv
<1>6. ASSUME NEW k \in 1 .. Depth, ResetFrame(k) PROVE GridInv'
  BY <1>6, ResetRewinds, RewoundInv
<1>7. CASE UNCHANGED vars
  BY <1>7 DEF vars, GridInv, GridTypeOK, CoverInRange, UncoveredSurvive, Depth
<1>. QED
  BY <1>1, <1>2, <1>3, <1>4, <1>5, <1>6, <1>7 DEF Next

(* The frames of the vector always cover cells of their own marked range,  *)
(* and a cell that no later frame kept is still in the data.               *)
THEOREM GridInvariant == Spec => []GridInv
<1>. QED
  BY InitInv, NextInv, PTL DEF Spec

(* A restore to any open mark never exposes a default value that           *)
(* resize_default put into a regrown cell.                                 *)
THEOREM NoFillerInAnyVersion == Spec => []FillerNeverObserved
<1>1. GridInv => FillerNeverObserved
  BY VersionIsSeq DEF FillerNeverObserved
<1>. QED
  BY <1>1, GridInvariant, PTL

(* The versions form a stack of sequences of values. *)
LEMMA VersionsIsSeq ==
  ASSUME GridInv
  PROVE  /\ Versions \in Seq(Seq(Value)) /\ Len(Versions) = Depth
         /\ Depth \in Nat
         /\ \A k \in 1 .. Depth : Versions[k] = Version(k)
<1>1. Depth \in Nat
  BY LenProperties DEF GridInv, GridTypeOK, Depth
<1>2. Versions \in [1 .. Depth -> Seq(Value)]
  BY VersionIsSeq DEF Versions
<1>. QED
  BY <1>1, <1>2, SegmentIsSeq DEF Versions

VersionsOK == /\ Versions \in Seq(Seq(Value)) /\ Len(Versions) = Depth
              /\ Depth \in Nat

(* The same after a step. *)
LEMMA VersionsIsSeqNext == GridInv' => VersionsOK'
<1>1. GridInv => VersionsOK
  BY VersionsIsSeq DEF VersionsOK
<1>. QED
  BY <1>1, PTL

(* A write between marks is a Write of the snapshot stack. *)
LEMMA WriteRefines ==
  ASSUME GridInv, GridInv', Depth' = Depth,
         \A k \in 1 .. Depth : Version(k)' = Version(k)
  PROVE  Snapshots!Write
<1>1. Versions' = Versions
  BY DEF Versions
<1>. QED
  BY <1>1 DEF Snapshots!Write, GridInv, GridTypeOK

(* A mark pushes the present data on the snapshot stack. *)
LEMMA MarkRefines ==
  ASSUME GridInv, GridInv', Mark
  PROVE  Snapshots!Mark
<1>1. PICK d \in Nat : d = Depth
  BY VersionsIsSeq
<1>2. Depth' = d + 1 /\ data' = data
  BY <1>1, AppendProperties, LenProperties, GridAssumption
     DEF Mark, Depth, GridInv, GridTypeOK
<1>3. /\ \A k \in 1 .. d : Version(k)' = Version(k)
      /\ Version(d + 1)' = data
  BY <1>1, MarkVersions
<1>4. /\ Versions' \in Seq(Seq(Value)) /\ Len(Versions') = d + 1
      /\ \A k \in 1 .. d + 1 : Versions'[k] = Version(k)'
  BY <1>2, VersionsIsSeqNext DEF VersionsOK, Versions
<1>5. /\ Versions \in Seq(Seq(Value)) /\ Len(Versions) = d /\ data \in Seq(Value)
      /\ \A k \in 1 .. d : Versions[k] = Version(k)
  BY <1>1, VersionsIsSeq DEF GridInv, GridTypeOK
<1>6. Versions' = Append(Versions, data)
  <2>1. /\ Append(Versions, data) \in Seq(Seq(Value)) /\ Len(Append(Versions, data)) = d + 1
        /\ \A k \in 1 .. d : Append(Versions, data)[k] = Versions[k]
        /\ Append(Versions, data)[d + 1] = data
    BY <1>5, AppendProperties
  <2>2. \A k \in 1 .. d + 1 : k \in 1 .. d \/ k = d + 1
    OBVIOUS
  <2>3. \A k \in 1 .. d + 1 : Versions'[k] = Append(Versions, data)[k]
    BY <1>3, <1>4, <1>5, <2>1, <2>2
  <2>. QED
    BY <1>4, <2>1, <2>3, SeqEqual
<1>. QED
  BY <1>2, <1>6 DEF Snapshots!Mark

(* What is left of the stack after a rewind. *)
LEMMA RewoundRefines ==
  ASSUME GridInv, GridInv', NEW t \in 1 .. Depth, Rewound(t), NEW n, n = Depth'
  PROVE  Versions' = SubSeq(Versions, 1, n) /\ data' = Versions[t]
<1>0. n \in 0 .. Depth /\ n \in Nat
  BY VersionsIsSeq DEF Rewound
<1>1. /\ Versions \in Seq(Seq(Value)) /\ Len(Versions) = Depth
      /\ \A k \in 1 .. Depth : Versions[k] = Version(k)
  BY VersionsIsSeq
<1>2. /\ Versions' \in Seq(Seq(Value)) /\ Len(Versions') = n
      /\ \A k \in 1 .. n : Versions'[k] = Version(k)'
  BY VersionsIsSeqNext DEF VersionsOK, Versions
<1>3. /\ SubSeq(Versions, 1, n) \in Seq(Seq(Value)) /\ Len(SubSeq(Versions, 1, n)) = n
      /\ \A k \in 1 .. n : SubSeq(Versions, 1, n)[k] = Versions[k]
  BY <1>0, <1>1, PrefixProperties
<1>4. \A k \in 1 .. n : k \in 1 .. Depth /\ Version(k)' = Version(k)
  BY <1>0, RewoundVersions, VersionsIsSeq
<1>5. \A k \in 1 .. n : Versions'[k] = SubSeq(Versions, 1, n)[k]
  BY <1>1, <1>2, <1>3, <1>4
<1>. QED
  BY <1>1, <1>2, <1>3, <1>5, SeqEqual DEF Rewound

(* The sparse frames of the vector implement a stack of complete           *)
(* snapshots: every operation is a step of the promise or changes nothing. *)
THEOREM GridImplementsSnapshots == Spec => ImplementsSnapshots
<1>1. Init => Snapshots!Init
  <2>. SUFFICES ASSUME Init PROVE Snapshots!Init
    OBVIOUS
  <2>1. GridInv /\ Depth = 0 /\ data = <<>>
    BY InitInv DEF Init, Depth
  <2>2. Versions \in Seq(Seq(Value)) /\ Len(Versions) = 0
    BY <2>1, VersionsIsSeq
  <2>. QED
    BY <2>1, <2>2, EmptySeq DEF Snapshots!Init
<1>2. GridInv /\ GridInv' /\ [Next]_vars => [Snapshots!Next]_(Snapshots!vars)
  <2>. SUFFICES ASSUME GridInv, GridInv', [Next]_vars
                PROVE  Snapshots!Next \/ UNCHANGED <<data, Versions>>
    BY DEF Snapshots!vars
  <2>1. ASSUME NEW v \in Value, Push(v) PROVE Snapshots!Write
    BY <2>1, PushKeepsVersions, WriteRefines DEF Push, Depth
  <2>2. ASSUME NEW v \in Value, NEW i \in 1 .. Len(data), Set(i, v) PROVE Snapshots!Write
    <3>1. \A j \in 1 .. Len(data) : j # i => j <= Len(data') /\ data'[j] = data[j]
      BY <2>2, ExceptSeq, LenProperties DEF Set, GridInv, GridTypeOK
    <3>. QED
      BY <2>2, <3>1, CaptureKeepsVersions, WriteRefines DEF Set, Depth
  <2>3. CASE PopCell
    <3>0. Len(data) \in 1 .. Len(data) /\ Len(data) - 1 \in 0 .. Len(data)
      BY <2>3, LenProperties DEF PopCell, GridInv, GridTypeOK
    <3>1. \A j \in 1 .. Len(data) : j # Len(data) => j <= Len(data') /\ data'[j] = data[j]
      BY <2>3, <3>0, PrefixProperties DEF PopCell, GridInv, GridTypeOK
    <3>. QED
      BY <2>3, <3>0, <3>1, CaptureKeepsVersions, WriteRefines DEF PopCell, Depth, Snapshots!Next
  <2>4. CASE Mark
    BY <2>4, MarkRefines DEF Snapshots!Next
  <2>5. ASSUME NEW k \in 1 .. Depth, RestoreFrame(k) PROVE Snapshots!Next
    <3>1. Snapshots!Restore(k)
      BY <2>5, RestoreRewinds, RewoundRefines DEF Snapshots!Restore
    <3>. QED
      BY <3>1, VersionsIsSeq DEF Snapshots!Next
  <2>6. ASSUME NEW k \in 1 .. Depth, ResetFrame(k) PROVE Snapshots!Next
    <3>1. Snapshots!Reset(k)
      BY <2>6, ResetRewinds, RewoundRefines DEF Snapshots!Reset
    <3>. QED
      BY <3>1, VersionsIsSeq DEF Snapshots!Next
  <2>7. CASE UNCHANGED vars
    BY <2>7 DEF vars, Versions, Version, CellAt, Covering, Depth
  <2>. QED
    BY <2>1, <2>2, <2>3, <2>4, <2>5, <2>6, <2>7 DEF Next, Snapshots!Next
<1>. QED
  BY <1>1, <1>2, GridInvariant, PTL DEF Spec, ImplementsSnapshots, Snapshots!Spec
=============================================================================
