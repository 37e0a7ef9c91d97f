----------------------- MODULE SliceQueuesRefinement -----------------------
(***************************************************************************)
(* The proof that the queues implement the per-slice streams: on the       *)
(* executions the hand-over is made for, every step of SliceQueues is a    *)
(* step of SliceStreams or changes nothing that is visible there.  The     *)
(* producer's Push sends, the end of a slice ends its stream, a clone's    *)
(* Read shadows and its end reports; all other steps only move buffers.    *)
(***************************************************************************)
EXTENDS SliceQueuesStreamProofs

(* The values of the two variables of SliceStreams that SliceQueues has no *)
(* variable for.                                                           *)
Sent == [s \in Slices |-> IF s < slice THEN Total(s)
                          ELSE IF s = slice THEN ValuesUpTo(s, opIdx) ELSE 0]
EndedSlices == IF Sending THEN 1 .. slice - 1 ELSE 1 .. slice

LEMMA StreamsVars ==
  ASSUME Sent' = Sent, EndedSlices' = EndedSlices, UNCHANGED <<shadowed, reported>>
  PROVE  UNCHANGED Streams!vars
BY DEF Streams!vars, Sent, EndedSlices, Sending, Total

(* A slice that has ended has sent all its values.                         *)
LEMMA SentAll ==
  ASSUME Safe, NEW s \in Slices
  PROVE  /\ Ended(s) <=> s \in EndedSlices
         /\ Ended(s) => Sent[s] = Total(s)
         /\ s = slice => Sent[s] = ValuesUpTo(s, opIdx)
<1>1. slice \in Nat /\ s \in Nat /\ s > 0 /\ Producing
  BY CountersType, SliceType DEF Safe, IInv, StreamInv
<1>2. Ended(s) <=> s \in EndedSlices
  BY <1>1 DEF Ended, EndedSlices
<1>3. s = slice => Sent[s] = ValuesUpTo(s, opIdx)
  BY <1>1 DEF Sent
<1>4. Ended(s) => Sent[s] = Total(s)
  BY <1>1 DEF Ended, Sent, Producing, BetweenSlices, Total
<1> QED
  BY <1>2, <1>3, <1>4

(* Steps after which the streams are what they were.                       *)
LEMMA NothingSent ==
  ASSUME UNCHANGED <<program, slice, opIdx, shadowed, reported>>, Sending' <=> Sending
  PROVE  UNCHANGED Streams!vars
<1>1. Sent' = Sent /\ EndedSlices' = EndedSlices
  BY DEF Sent, EndedSlices, Slices, Total, ValuesUpTo
<1> QED
  BY <1>1, StreamsVars

LEMMA SliceStartRefines == ASSUME Safe, SliceStart PROVE UNCHANGED Streams!vars
<1>1. /\ TypeOK /\ slice \in Nat /\ opIdx \in Nat /\ ~Sending /\ BetweenSlices
      /\ slice' = slice + 1 /\ opIdx' = 0 /\ pc' = "slice" /\ slice < Len(program)
      /\ UNCHANGED <<program, shadowed, reported>>
  BY CountersType DEF Safe, IInv, StreamInv, Producing, SliceStart, Sending
<1>2. EndedSlices' = EndedSlices
  BY <1>1 DEF EndedSlices, Sending
<1>3. Slices' = Slices /\ \A s, n : ValuesUpTo(s, n)' = ValuesUpTo(s, n')
  BY <1>1 DEF Slices, ValuesUpTo
<1>4. ASSUME NEW s \in Slices PROVE Sent'[s] = Sent[s]
  <2>1. s \in Nat /\ s > 0 /\ Total(s)' = Total(s)
    BY <1>1, SliceType DEF Total, ValuesUpTo
  <2>2. Sent'[s] = IF s < slice + 1 THEN Total(s)
                   ELSE IF s = slice + 1 THEN Count(program[s], 0) ELSE 0
    BY <1>1, <1>3, <2>1 DEF Sent, ValuesUpTo
  <2>3. s = slice => ValuesUpTo(s, opIdx) = Total(s)
    BY <1>1, <2>1 DEF BetweenSlices, Total
  <2>4. Sent[s] = IF s < slice + 1 THEN Total(s) ELSE 0
    BY <1>1, <2>1, <2>3 DEF Sent
  <2> QED
    BY <2>2, <2>4, CountZero
<1>5. Sent' = Sent
  <2>1. Sent = [s \in Slices |-> Sent[s]] /\ Sent' = [s \in Slices |-> Sent'[s]]
    BY <1>3 DEF Sent
  <2> QED
    BY <1>4, <2>1
<1> QED
  BY <1>1, <1>2, <1>5, StreamsVars

LEMMA EnterCalleeRefines == ASSUME Safe, EnterCallee PROVE UNCHANGED Streams!vars
<1>1. /\ TypeOK /\ Supported /\ slice \in Slices /\ slice \in Nat /\ opIdx \in Nat
      /\ opIdx < Len(program[slice]) /\ program[slice][opIdx + 1] # "val"
      /\ opIdx' = opIdx + 1 /\ UNCHANGED <<program, pc, slice, shadowed, reported>>
  BY CountersType DEF Safe, IInv, Control, EnterCallee, AtOp
<1>2. ValuesUpTo(slice, opIdx') = ValuesUpTo(slice, opIdx)
  BY <1>1, CalleeAt
<1>3. Sent' = Sent
  BY <1>1, <1>2 DEF Sent, Slices, Total, ValuesUpTo
<1>4. EndedSlices' = EndedSlices
  BY <1>1 DEF EndedSlices, Sending
<1> QED
  BY <1>1, <1>3, <1>4, StreamsVars

-----------------------------------------------------------------------------
(* The steps that are visible in SliceStreams.                             *)

LEMMA StreamsSlices == Streams!Slices = Slices
BY DEF Streams!Slices

(* The slice that sends is the current one.                                *)
LEMMA IsCurrent == ASSUME Safe, Sending PROVE slice \in Slices /\ Streams!Current(slice)
<1>1. slice \in Slices /\ slice \in Nat /\ \A r \in Slices : r \in Nat /\ r > 0
  BY SliceType DEF Safe, IInv, Control, Sending
<1>2. slice \notin EndedSlices /\ \A r \in Slices : r < slice => r \in EndedSlices
  BY <1>1 DEF EndedSlices
<1> QED
  BY <1>1, <1>2, StreamsSlices DEF Streams!Current, EndedSlices, Sending

LEMMA PushRefines ==
  ASSUME Safe, Push, NEW c, c = slice
  PROVE  c \in Slices /\ Streams!Send(c)
<1>1. /\ TypeOK /\ slice \in Nat /\ opIdx \in Nat /\ Sending
      /\ opIdx < Len(program[slice]) /\ program[slice][opIdx + 1] = "val"
      /\ opIdx' = opIdx + 1 /\ UNCHANGED <<program, pc, slice, shadowed, reported>>
  BY CountersType DEF Safe, IInv, Push, AtOp, Sending
<1>2. slice \in Slices /\ Streams!Current(slice)
  BY <1>1, IsCurrent
<1>3. ValuesUpTo(slice, opIdx') = ValuesUpTo(slice, opIdx) + 1
  BY <1>1, <1>2, OneMore
<1>4. Sent' = [Sent EXCEPT ![slice] = @ + 1]
  <2>1. Slices' = Slices /\ \A s, n : ValuesUpTo(s, n)' = ValuesUpTo(s, n')
    BY <1>1 DEF Slices, ValuesUpTo
  <2>2. \A s \in Slices : Total(s)' = Total(s)
    BY <1>1 DEF Total, ValuesUpTo
  <2>3. Sent' = [s \in Slices |-> IF s < slice THEN Total(s)
                                 ELSE IF s = slice THEN ValuesUpTo(s, opIdx') ELSE 0]
    BY <1>1, <2>1, <2>2 DEF Sent
  <2>4. Sent[slice] = ValuesUpTo(slice, opIdx) /\ ~(slice < slice)
    BY <1>1, <1>2 DEF Sent
  <2>5. [Sent EXCEPT ![slice] = @ + 1]
           = [s \in Slices |-> IF s = slice THEN Sent[slice] + 1 ELSE Sent[s]]
    BY DEF Sent
  <2>6. \A s \in Slices : s # slice => Sent[s] = IF s < slice THEN Total(s) ELSE 0
    BY DEF Sent
  <2> QED
    BY <1>2, <1>3, <2>3, <2>4, <2>5, <2>6
<1>5. EndedSlices' = EndedSlices
  BY <1>1 DEF EndedSlices, Sending
<1>6. Sent' = [Sent EXCEPT ![c] = @ + 1] /\ c \in Slices /\ Streams!Current(c)
  BY <1>2, <1>4
<1> QED
  BY <1>1, <1>5, <1>6 DEF Streams!Send, Sent, EndedSlices, Sending, Total

LEMMA EndRefines ==
  ASSUME Safe, SliceEnd \/ SliceEndSync
  PROVE  Streams!End(slice)
<1>1. /\ pc = "slice" /\ Sending /\ ~Sending' /\ slice \in Nat
      /\ UNCHANGED <<program, slice, opIdx, shadowed, reported>>
  BY CountersType DEF Safe, IInv, SliceEnd, SliceEndSync, Reset, Sending
<1>2. slice \in Slices /\ Streams!Current(slice) /\ slice > 0
  BY <1>1, IsCurrent, SliceType DEF Safe, IInv
<1>3. Sent' = Sent
  BY <1>1 DEF Sent, Slices, Total, ValuesUpTo
<1>4. EndedSlices' = EndedSlices \cup {slice}
  BY <1>1, <1>2 DEF EndedSlices
<1> QED
  BY <1>1, <1>2, <1>3, <1>4 DEF Streams!End, Sent, EndedSlices, Sending, Total

LEMMA ReadRefines ==
  ASSUME Safe, NEW w \in Consumers, Read(w), NEW r, r = task[w]
  PROVE  r \in Slices /\ Streams!Shadow(r)
<1>1. /\ Running(w) /\ wpc[w] = "run" /\ r \in Slices /\ CQIdx[w] \in 0 .. BufSize - 1
      /\ BufSize \in Nat /\ Len(shadowed[r]) \in Nat
      /\ Len(shadowed[r]) < Total(r) /\ Total(r) \in Nat
      /\ shadowed' = [shadowed EXCEPT ![r] = Append(@, <<r, Len(shadowed[r]) + 1>>)]
  BY ReadsOwn
<1>2. /\ TypeOK /\ Replays(w, r) /\ UNCHANGED <<program, pc, slice, opIdx, reported>>
      /\ Producing /\ shadowed \in [Slices -> Seq(Values)]
  BY <1>1, Follower DEF Safe, IInv, StreamInv, Read, producerVars, TypeOK, TypeHistory
<1>3. Len(shadowed[r]) < Sent[r]
  <2>1. CASE Ended(r)
    BY <1>1, <2>1, SentAll
  <2>2. CASE ~Ended(r)
    <3>1. r = slice /\ Sending
      BY <1>2, <2>2 DEF Replays, Given, Producing, BetweenSlices
    <3>2. /\ HandedOver(r) = ValuesUpTo(r, opIdx) - QIdx /\ ValuesUpTo(r, opIdx) \in Nat
          /\ QIdx \in 0 .. BufSize
      BY <3>1, InRun
    <3>3. Position(w) <= HandedOver(r)
      BY <1>2, <2>2 DEF Replays, Await
    <3>4. Position(w) = Len(shadowed[r]) + (BufSize - CQIdx[w])
      BY <1>1 DEF Position
    <3> QED
      BY <1>1, <3>1, <3>2, <3>3, <3>4, SentAll
  <2> QED
    BY <2>1, <2>2
<1>4. reported[r] = 0
  BY <1>2 DEF Replays
<1>5. shadowed' = [shadowed EXCEPT ![r] = Append(@, <<r, Len(@) + 1>>)]
  BY <1>1
<1>6. Sent' = Sent /\ EndedSlices' = EndedSlices
  BY <1>2 DEF Sent, EndedSlices, Sending, Slices, Total, ValuesUpTo
<1> QED
  BY <1>1, <1>2, <1>3, <1>4, <1>5, <1>6
  DEF Streams!Shadow, Sent, EndedSlices, Sending, Total

LEMMA ReportRefines ==
  ASSUME Safe, NEW w \in Consumers, ShadowEnd(w) \/ ShadowEndSync(w), NEW r, r = task[w]
  PROVE  r \in Slices /\ Streams!Report(r)
<1>1. /\ MayDo(w, "end") /\ reported' = [reported EXCEPT ![r] = @ + 1]
      /\ UNCHANGED <<program, slice, opIdx, shadowed>>
  BY DEF ShadowEnd, ShadowEndSync, EndClone
<1>2. /\ Running(w) /\ r \in Slices /\ reported[r] = 0 /\ Ended(r)
      /\ Len(shadowed[r]) = Total(r)
  BY <1>1, Ending
<1>3. r \in EndedSlices /\ Len(shadowed[r]) = Sent[r]
  BY <1>2, SentAll
<1>4. reported' = [reported EXCEPT ![r] = 1]
  BY <1>1, <1>2 DEF Safe, IInv, TypeOK, TypeHistory
<1>5. Sending' <=> Sending
  BY <1>2 DEF ShadowEnd, ShadowEndSync, Safe, IInv, Control, Sending, StreamInv, Producing
<1>6. Sent' = Sent /\ EndedSlices' = EndedSlices
  BY <1>1, <1>5 DEF Sent, EndedSlices, Slices, Total, ValuesUpTo
<1> QED
  BY <1>1, <1>2, <1>3, <1>4, <1>6
  DEF Streams!Report, Sent, EndedSlices, Sending, Total

-----------------------------------------------------------------------------
LEMMA ProducerRefines == ASSUME Safe, Producer PROVE [Streams!Next]_(Streams!vars)
<1>1. CASE GetBufAddr
  BY <1>1, NothingSent DEF GetBufAddr, Sending
<1>2. CASE SliceStart
  BY <1>2, SliceStartRefines
<1>3. CASE Push
  <2>1. PICK c : c = slice
    OBVIOUS
  <2>2. c \in Slices /\ Streams!Send(c)
    BY <1>3, <2>1, PushRefines
  <2> QED
    BY <2>2, StreamsSlices DEF Streams!Next
<1>4. CASE InterimHandOver
  BY <1>4, NothingSent DEF InterimHandOver, Sending
<1>5. CASE InterimTake
  BY <1>5, NothingSent DEF InterimTake, Sending
<1>6. CASE EnterCallee
  BY <1>6, EnterCalleeRefines
<1>7. CASE SliceEnd \/ SliceEndSync
  BY <1>7, EndRefines, IsCurrent, StreamsSlices
  DEF Streams!Next, SliceEnd, SliceEndSync, Sending
<1>8. CASE Finish \/ Join
  BY <1>8, NothingSent DEF Finish, Join, Sending
<1> QED
  BY <1>1, <1>2, <1>3, <1>4, <1>5, <1>6, <1>7, <1>8 DEF Producer

LEMMA ConsumerRefines ==
  ASSUME Safe, NEW w \in Consumers, Consumer(w)
  PROVE  [Streams!Next]_(Streams!vars)
<1>1. CASE Exit(w) \/ Steal(w) \/ ReadFromNext(w) \/ TakeNext(w) \/ EnterClone(w)
  BY <1>1, NothingSent
  DEF Exit, Steal, ReadFromNext, TakeNext, EnterClone, producerVars, Sending
<1>2. CASE Read(w)
  BY <1>2, ReadRefines, StreamsSlices DEF Streams!Next
<1>3. CASE ShadowEnd(w) \/ ShadowEndSync(w)
  BY <1>3, ReportRefines, StreamsSlices DEF Streams!Next
<1> QED
  BY <1>1, <1>2, <1>3, NoDummy, NoCrash DEF Consumer

LEMMA InitRefines == ASSUME Init PROVE Streams!Init
<1>1. \A s \in Slices : s # 0 /\ ~(s < 0)
  BY ProgramsAssumption DEF Init, Slices
<1>2. Sent = [s \in Slices |-> 0] /\ EndedSlices = {}
  BY <1>1 DEF Init, Sent, EndedSlices, Sending
<1> QED
  BY <1>2, StreamsSlices DEF Init, Streams!Init, Sent, EndedSlices, Sending, Total

(* On the executions the hand-over is made for, buffers, queues and        *)
(* threads cannot be told from one stream of values per slice: the shadow  *)
(* of a slice reads the values of its own slice, each once and in order,   *)
(* and a slice is reported once, when all its values have been read.       *)
THEOREM QueuesImplementStreams == Spec => StreamsSpec
<1>1. Init => (Supported => Streams!Init)
  BY InitRefines
<1>2. ASSUME IInv, SInv, [Next]_vars
      PROVE  [Supported => Streams!Next]_(Streams!vars)
  <2>1. SUFFICES ASSUME Supported PROVE [Streams!Next]_(Streams!vars)
    OBVIOUS
  <2>2. Safe
    BY <1>2, <2>1, AllSafe
  <2>3. CASE UNCHANGED vars
    BY <2>3, NothingSent DEF vars, producerVars, Sending
  <2> QED
    BY <1>2, <2>2, <2>3, ProducerRefines, ConsumerRefines DEF Next, Terminated
<1> QED
  BY Inductive, StreamsInductive, <1>1, <1>2, PTL DEF Spec, StreamsSpec
=============================================================================
