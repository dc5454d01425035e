-------------------------- MODULE FrameBuilderProofs --------------------------
(***************************************************************************)
(* Fragmentation is correct for messages of every length and for every      *)
(* limit above zero.  SplitInv is inductive; what TLC checks of the frames   *)
(* on small messages is part of it.                                         *)
(***************************************************************************)
EXTENDS FrameBuilder, SequenceTheorems, TLAPS

(* Nothing is cut off at the start. *)
LEMMA SplitInit == Init => SplitInv
<1> SUFFICES ASSUME Init PROVE SplitInv
  OBVIOUS
<1>1. TypeOK
  BY FrameBuilderAssumption DEF Init, TypeOK
<1>2. Chained /\ Fitting
  BY DEF Init, Chained, Fitting
<1>3. QED
  BY <1>1, <1>2, FrameBuilderAssumption
  DEF Init, SplitInv, TypeOK, Reassembles, FramesFit, WellFramed

(* The first, and only, slice of a message that fits. *)
LEMMA WholeSlice ==
    ASSUME SplitInv, SplitWhole
    PROVE  SplitInv'
<1>1. length \in Nat /\ limit \in Nat
  BY FrameBuilderAssumption DEF SplitInv, TypeOK
<1>2. /\ chunks' \in Seq([from : Nat, to : Nat])
      /\ Len(chunks') = 1 /\ chunks'[1] = Slice(0, length) /\ chunks' # <<>>
  BY <1>1 DEF SplitWhole, Slice
<1>3. TypeOK'
  BY <1>2 DEF SplitInv, TypeOK, SplitWhole
<1>4. Chained' /\ Fitting'
  BY <1>1, <1>2 DEF Chained, Fitting, SplitWhole, Slice
<1>5. QED
  BY <1>2, <1>3, <1>4
  DEF SplitInv, SplitWhole, Slice, Reassembles, FramesFit, WellFramed

(* The next slice begins at start, where the last one ended. *)
LEMMA NextSlice ==
    ASSUME SplitInv, SplitNext
    PROVE  SplitInv'
<1>1. length \in Nat /\ limit \in Nat \ {0} /\ start \in Nat
  BY FrameBuilderAssumption DEF SplitInv, TypeOK
<1>2. End \in Nat /\ start < End /\ End <= start + limit /\ End <= length
  BY <1>1 DEF End, SplitNext
<1>3. Slice(start, End) \in [from : Nat, to : Nat]
  BY <1>1, <1>2 DEF Slice
<1>4. /\ chunks' \in Seq([from : Nat, to : Nat])
      /\ Len(chunks') = Len(chunks) + 1 /\ Len(chunks) \in Nat
      /\ \A i \in 1 .. Len(chunks) : chunks'[i] = chunks[i]
      /\ chunks'[Len(chunks) + 1] = Slice(start, End)
  BY <1>3, AppendProperties, LenProperties DEF SplitInv, TypeOK, SplitNext
<1>5. chunks = <<>> <=> Len(chunks) = 0
  BY EmptySeq DEF SplitInv, TypeOK
<1>6. TypeOK'
  BY <1>2, <1>4 DEF SplitInv, TypeOK, SplitNext, Splitting
<1>7. Chained'
  <2> SUFFICES ASSUME NEW i \in 1 .. Len(chunks')
               PROVE  chunks'[i].from = IF i = 1 THEN 0 ELSE chunks'[i - 1].to
    BY DEF Chained
  <2>1. CASE i <= Len(chunks)
    <3>a. i \in 1 .. Len(chunks) /\ (i # 1 => i - 1 \in 1 .. Len(chunks))
      BY <2>1, <1>4
    <3>1. chunks'[i] = chunks[i] /\ (i # 1 => chunks'[i - 1] = chunks[i - 1])
      BY <3>a, <1>4
    <3>2. chunks[i].from = IF i = 1 THEN 0 ELSE chunks[i - 1].to
      BY <2>1, <1>4 DEF SplitInv, Chained
    <3>3. QED
      BY <3>1, <3>2
  <2>2. CASE i = Len(chunks) + 1
    BY <2>2, <1>4, <1>5 DEF SplitInv, SplitNext, Splitting, Slice
  <2>3. QED
    BY <2>1, <2>2, <1>4
<1>8. Fitting'
  <2> SUFFICES ASSUME NEW i \in 1 .. Len(chunks')
               PROVE  /\ chunks'[i].to <= chunks'[i].from + limit
                      /\ chunks'[i].from < chunks'[i].to
    BY DEF Fitting, SplitNext
  <2>1. CASE i <= Len(chunks)
    BY <2>1, <1>1, <1>4 DEF SplitInv, Fitting, SplitNext, Splitting
  <2>2. CASE i = Len(chunks) + 1
    BY <2>2, <1>2, <1>4 DEF Slice
  <2>3. QED
    BY <2>1, <2>2, <1>4
<1>9. chunks' # <<>> /\ chunks'[Len(chunks')].to = End
  BY <1>4 DEF Slice
<1>10. QED
  BY <1>2, <1>6, <1>7, <1>8, <1>9
  DEF SplitInv, SplitNext, Splitting, Reassembles, FramesFit, WellFramed

(* The loop ends where the message does. *)
LEMMA LoopEnds ==
    ASSUME SplitInv, SplitDone
    PROVE  SplitInv'
<1>1. length \in Nat /\ limit \in Nat /\ start \in Nat
  BY FrameBuilderAssumption DEF SplitInv, TypeOK
<1>2. start = length /\ length > 0
  BY <1>1 DEF SplitInv, SplitDone, Splitting
<1>3. chunks # <<>> /\ chunks[Len(chunks)].to = length
  BY <1>2 DEF SplitInv, SplitDone, Splitting
<1>4. TypeOK' /\ Chained' /\ Fitting'
  BY DEF SplitInv, TypeOK, Chained, Fitting, SplitDone, Splitting
<1>5. QED
  BY <1>3, <1>4
  DEF SplitInv, SplitDone, Splitting, Reassembles, FramesFit, WellFramed

(* The frames carry the slices, in their order. *)
LEMMA FramesOfSlices ==
    ASSUME SplitInv, Build
    PROVE  SplitInv'
<1>1. chunks \in Seq([from : Nat, to : Nat]) /\ Len(chunks) \in Nat \ {0}
  BY LenProperties, EmptySeq DEF SplitInv, TypeOK, Build
<1>2. /\ frames' = [i \in 1 .. Len(chunks) |-> Frame(i)]
      /\ Len(frames') = Len(chunks) /\ frames' # <<>>
      /\ \A i \in 1 .. Len(chunks) : frames'[i] = Frame(i)
  BY <1>1 DEF Build
<1>3. \A i \in 1 .. Len(chunks) : frames'[i].data = chunks[i]
  BY <1>2 DEF Frame
<1>4. Reassembles'
  <2>1. frames'[1].data.from = 0
    BY <1>1, <1>3 DEF SplitInv, Chained
  <2>2. ASSUME NEW i \in 1 .. Len(frames') - 1
        PROVE  frames'[i + 1].data.from = frames'[i].data.to
    <3>1. i \in 1 .. Len(chunks) /\ i + 1 \in 1 .. Len(chunks)
          /\ i + 1 # 1 /\ (i + 1) - 1 = i
      BY <1>1, <1>2
    <3>2. chunks[i + 1].from = chunks[i].to
      BY <3>1 DEF SplitInv, Chained
    <3>3. QED
      BY <1>3, <3>1, <3>2
  <2>3. frames'[Len(frames')].data.to = length'
    <3>1. Len(frames') \in 1 .. Len(chunks) /\ Len(frames') = Len(chunks)
      BY <1>1, <1>2
    <3>2. frames'[Len(frames')].data = chunks[Len(chunks)]
      BY <1>3, <3>1
    <3>3. QED
      BY <3>2 DEF SplitInv, Build
  <2>4. QED
    BY <1>2, <2>1, <2>2, <2>3 DEF Reassembles
<1>5. FramesFit'
  BY <1>1, <1>2, <1>3 DEF FramesFit, SplitInv, Fitting, Build
<1>6. WellFramed'
  <2>1. kind # "Continuation"
    BY DEF SplitInv, TypeOK, Kinds
  <2>2. ASSUME NEW i \in 1 .. Len(frames')
        PROVE  /\ frames'[i].fin <=> i = Len(frames')
               /\ frames'[i].opcode = "Continuation" <=> i # 1
    <3>1. frames'[i] = Frame(i) /\ Len(frames') = Len(chunks)
      BY <1>2
    <3>2. (Frame(i).opcode = "Continuation") <=> i # 1
      BY <2>1 DEF Frame
    <3>3. Frame(i).fin = (i = Len(chunks))
      BY DEF Frame
    <3>4. QED
      BY <3>1, <3>2, <3>3
  <2>3. QED
    BY <2>2 DEF WellFramed
<1>7. TypeOK' /\ Chained' /\ Fitting'
  BY DEF SplitInv, TypeOK, Chained, Fitting, Build
<1>8. QED
  BY <1>4, <1>5, <1>6, <1>7 DEF SplitInv, Build

(* The frame of an empty event. *)
LEMMA EmptyFrame ==
    ASSUME SplitInv, BuildEmpty
    PROVE  SplitInv'
<1>1. /\ Len(frames') = 1 /\ frames' # <<>>
      /\ frames'[1] = [opcode |-> "Binary", fin |-> TRUE, data |-> Slice(0, 0)]
  BY DEF BuildEmpty
<1>2. limit \in Nat /\ length = 0
  BY FrameBuilderAssumption DEF SplitInv, TypeOK, BuildEmpty
<1>3. Reassembles' /\ FramesFit' /\ WellFramed'
  BY <1>1, <1>2 DEF Reassembles, FramesFit, WellFramed, Slice, BuildEmpty
<1>4. TypeOK' /\ Chained' /\ Fitting'
  BY DEF SplitInv, TypeOK, Chained, Fitting, BuildEmpty
<1>5. QED
  BY <1>3, <1>4 DEF SplitInv, BuildEmpty

(* SplitInv holds throughout: whatever the message and the limit, the slices *)
(* chain up from its beginning and fit (websocket.rs:403-443).               *)
THEOREM FragmentInvariant == FairSpec => []SplitInv
<1>1. SplitInv /\ [Next]_vars => SplitInv'
  <2> SUFFICES ASSUME SplitInv, [Next]_vars PROVE SplitInv'
    OBVIOUS
  <2>1. CASE BuildEmpty
    BY <2>1, EmptyFrame
  <2>2. CASE SplitWhole
    BY <2>2, WholeSlice
  <2>3. CASE SplitNext
    BY <2>3, NextSlice
  <2>4. CASE SplitDone
    BY <2>4, LoopEnds
  <2>5. CASE Build
    BY <2>5, FramesOfSlices
  <2>6. CASE UNCHANGED vars
    BY <2>6 DEF vars, SplitInv, TypeOK, Chained, Fitting,
                Reassembles, FramesFit, WellFramed
  <2>7. QED
    BY <2>1, <2>2, <2>3, <2>4, <2>5, <2>6 DEF Next
<1>2. QED
  BY SplitInit, <1>1, PTL DEF FairSpec, Spec

(* The frames put together are the message and each fits the limit, for      *)
(* every length and every limit above zero (websocket.rs:403-443).           *)
THEOREM FragmentationCorrect == FairSpec => [](Reassembles /\ FramesFit)
<1>1. SplitInv => Reassembles /\ FramesFit
  BY DEF SplitInv
<1>2. QED
  BY <1>1, FragmentInvariant, PTL

(* The peer can tell where the message begins and ends, for every length     *)
(* and every limit above zero: its opcode on the first frame only, fin on    *)
(* the last only (websocket.rs:418-428).                                     *)
THEOREM FramesAreDelimited == FairSpec => []WellFramed
<1>1. SplitInv => WellFramed
  BY DEF SplitInv
<1>2. QED
  BY <1>1, FragmentInvariant, PTL

-----------------------------------------------------------------------------
(* No more frames than it takes: every one but the last is full.            *)
FullFrames ==
    pc = "done" =>
        \A i \in 1 .. Len(frames) - 1 : frames[i].data.to = frames[i].data.from + limit

(* A slice that is cut short is the last: the loop ends there.              *)
Full(i) == chunks[i].to = chunks[i].from + limit

FullInv ==
    /\ \A i \in 1 .. Len(chunks) - 1 : Full(i)
    /\ pc = "split" /\ start < length /\ chunks # <<>> => Full(Len(chunks))
    /\ FullFrames

(* The slice before the next one was not cut short, or the loop had ended.  *)
LEMMA NextSliceFull ==
    ASSUME SplitInv, FullInv, SplitNext
    PROVE  FullInv'
<1>1. length \in Nat /\ limit \in Nat \ {0} /\ start \in Nat
  BY FrameBuilderAssumption DEF SplitInv, TypeOK
<1>2. Slice(start, End) \in [from : Nat, to : Nat]
  BY <1>1 DEF Slice, End
<1>3. /\ Len(chunks') = Len(chunks) + 1 /\ Len(chunks) \in Nat
      /\ \A i \in 1 .. Len(chunks) : chunks'[i] = chunks[i]
      /\ chunks'[Len(chunks) + 1] = Slice(start, End)
  BY <1>2, AppendProperties, LenProperties DEF SplitInv, TypeOK, SplitNext
<1>4. chunks = <<>> <=> Len(chunks) = 0
  BY EmptySeq DEF SplitInv, TypeOK
<1>5. ASSUME NEW i \in 1 .. Len(chunks') - 1
      PROVE  Full(i)'
  <2>1. Full(i)
    <3>1. CASE i = Len(chunks)
      BY <3>1, <1>3, <1>4 DEF FullInv, SplitNext, Splitting
    <3>2. CASE i # Len(chunks)
      BY <3>2, <1>3 DEF FullInv
    <3>. QED BY <3>1, <3>2
  <2>2. chunks'[i] = chunks[i] /\ limit' = limit
    BY <1>3 DEF SplitNext
  <2>. QED BY <2>1, <2>2 DEF Full
<1>6. ASSUME start' < length'
      PROVE  Full(Len(chunks))'
  <2>1. End = start + limit
    BY <1>1, <1>6 DEF SplitNext, End
  <2>. QED BY <2>1, <1>3 DEF Full, Slice, SplitNext
<1>7. FullFrames'
  BY DEF FullFrames, SplitNext, Splitting
<1>. QED BY <1>5, <1>6, <1>7 DEF FullInv

(* The other steps: one slice, the same slices, or frames that carry them.  *)
LEMMA FullStep ==
    ASSUME SplitInv, FullInv, [Next]_vars
    PROVE  FullInv'
<1>1. CASE BuildEmpty
  <2>1. Len(frames') = 1 /\ pc' = "done" /\ chunks' = chunks /\ limit' = limit
    BY <1>1 DEF BuildEmpty
  <2>. QED BY <2>1 DEF FullInv, FullFrames, Full
<1>2. CASE SplitWhole
  <2>1. Len(chunks') = 1 /\ pc' = "frame"
    BY <1>2 DEF SplitWhole
  <2>. QED BY <2>1 DEF FullInv, FullFrames
<1>3. CASE SplitNext
  BY <1>3, NextSliceFull
<1>4. CASE SplitDone
  BY <1>4 DEF SplitDone, FullInv, FullFrames, Full
<1>5. CASE Build
  <2>1. chunks \in Seq([from : Nat, to : Nat]) /\ Len(chunks) \in Nat
    BY LenProperties DEF SplitInv, TypeOK
  <2>2. /\ frames' = [i \in 1 .. Len(chunks) |-> Frame(i)]
        /\ pc' = "done" /\ chunks' = chunks /\ limit' = limit
    BY <1>5 DEF Build
  <2>3. Len(frames') = Len(chunks)
    BY <2>1, <2>2
  <2>4. \A i \in 1 .. Len(chunks) : frames'[i].data = chunks[i]
    BY <2>2 DEF Frame
  <2>. QED BY <2>1, <2>2, <2>3, <2>4 DEF FullInv, FullFrames, Full
<1>6. CASE UNCHANGED vars
  BY <1>6 DEF vars, FullInv, FullFrames, Full
<1>. QED BY <1>1, <1>2, <1>3, <1>4, <1>5, <1>6 DEF Next

(* For every length and every limit above zero, each frame but the last is   *)
(* exactly max_frame_size long: with Reassembles, there are no more frames   *)
(* than the message needs (websocket.rs:437-441).                            *)
THEOREM NoMoreFramesThanNeeded == FairSpec => []FullFrames
<1>1. Init => FullInv
  <2> SUFFICES ASSUME Init PROVE FullInv
    OBVIOUS
  <2>1. Len(chunks) = 0 /\ chunks = <<>> /\ pc = "split"
    BY DEF Init
  <2>. QED BY <2>1 DEF FullInv, FullFrames
<1>2. SplitInv /\ FullInv /\ [Next]_vars => FullInv'
  BY FullStep
<1>3. FullInv => FullFrames
  BY DEF FullInv
<1>. QED BY <1>1, <1>2, <1>3, FragmentInvariant, PTL DEF FairSpec, Spec
=============================================================================
