-------------------------- MODULE SliceQueuesProofs ------------------------
(***************************************************************************)
(* Proofs about SliceQueues: the type invariant, and that every buffer is  *)
(* in exactly one place, for any number of workers (none included), any    *)
(* buffer size and any execution.                                          *)
(***************************************************************************)
EXTENDS SliceQueuesInv, TLAPS, FiniteSetTheorems, SequenceTheorems

-----------------------------------------------------------------------------
(* Lists without repetitions.                                              *)

(* Appending adds the new element and nothing else.                        *)
LEMMA AppendElems ==
  ASSUME NEW S, NEW s \in Seq(S), NEW e \in S
  PROVE  Elems(Append(s, e)) = Elems(s) \cup {e}
<1>1. Len(Append(s, e)) = Len(s) + 1 /\ Len(s) \in Nat
  OBVIOUS
<1>2. \A i \in 1 .. Len(s) : Append(s, e)[i] = s[i]
  OBVIOUS
<1>3. Append(s, e)[Len(s) + 1] = e
  OBVIOUS
<1>4. \A i \in 1 .. Len(s) + 1 : i \in 1 .. Len(s) \/ i = Len(s) + 1
  BY <1>1
<1>5. Len(s) + 1 \in 1 .. Len(s) + 1 /\ \A i \in 1 .. Len(s) : i \in 1 .. Len(s) + 1
  BY <1>1
<1> QED
  BY <1>1, <1>2, <1>3, <1>4, <1>5 DEF Elems

(* Appending a new element introduces no repetition.                       *)
LEMMA AppendNoRepeat ==
  ASSUME NEW S, NEW s \in Seq(S), NEW e \in S, NoRepeat(s), e \notin Elems(s)
  PROVE  NoRepeat(Append(s, e))
<1>1. Len(Append(s, e)) = Len(s) + 1 /\ Len(s) \in Nat
  OBVIOUS
<1>2. \A i \in 1 .. Len(s) : Append(s, e)[i] = s[i] /\ s[i] # e
  BY DEF Elems
<1>3. Append(s, e)[Len(s) + 1] = e
  OBVIOUS
<1>4. \A i \in 1 .. Len(s) + 1 : i \in 1 .. Len(s) \/ i = Len(s) + 1
  BY <1>1
<1> QED
  BY <1>1, <1>2, <1>3, <1>4 DEF NoRepeat

(* Taking the head of a list without repetitions removes that element and  *)
(* nothing else.                                                           *)
LEMMA TailElems ==
  ASSUME NEW S, NEW s \in Seq(S), s # << >>, NoRepeat(s)
  PROVE  /\ Head(s) \in S /\ Head(s) \in Elems(s) /\ Tail(s) \in Seq(S)
         /\ Elems(Tail(s)) = Elems(s) \ {Head(s)} /\ NoRepeat(Tail(s))
<1>1. Len(s) \in Nat /\ Len(s) >= 1 /\ Len(Tail(s)) = Len(s) - 1 /\ Head(s) = s[1]
  OBVIOUS
<1>2. Tail(s) \in Seq(S) /\ Head(s) \in S
  OBVIOUS
<1>3. \A i \in 1 .. Len(s) - 1 : Tail(s)[i] = s[i + 1] /\ i + 1 \in 1 .. Len(s)
  BY <1>1
<1>4. \A i \in 1 .. Len(s) : i = 1 \/ (i - 1 \in 1 .. Len(s) - 1 /\ (i - 1) + 1 = i)
  BY <1>1
<1>5. 1 \in 1 .. Len(s) /\ \A i \in 1 .. Len(s) - 1 : i + 1 # 1
  BY <1>1
<1>6. Head(s) \in Elems(s)
  BY <1>1, <1>5 DEF Elems
<1>7. Elems(Tail(s)) \subseteq Elems(s) \ {Head(s)}
  BY <1>1, <1>3, <1>5 DEF Elems, NoRepeat
<1>8. Elems(s) \ {Head(s)} \subseteq Elems(Tail(s))
  <2>1. SUFFICES ASSUME NEW i \in 1 .. Len(s), s[i] # Head(s)
                 PROVE  s[i] \in Elems(Tail(s))
    BY DEF Elems
  <2>2. i - 1 \in 1 .. Len(s) - 1 /\ (i - 1) + 1 = i
    BY <1>1, <1>4, <2>1
  <2>3. Tail(s)[i - 1] = s[i]
    BY <1>3, <2>2
  <2> QED
    BY <1>1, <2>2, <2>3 DEF Elems
<1>9. NoRepeat(Tail(s))
  <2>1. SUFFICES ASSUME NEW i \in 1 .. Len(s) - 1, NEW j \in 1 .. Len(s) - 1,
                        Tail(s)[i] = Tail(s)[j]
                 PROVE  i = j
    BY <1>1 DEF NoRepeat
  <2>2. i + 1 = j + 1
    BY <1>3, <2>1 DEF NoRepeat
  <2> QED
    BY <1>1, <2>2
<1> QED
  BY <1>2, <1>6, <1>7, <1>8, <1>9

(* The buffers of a queue of tasks, seen as a list.                        *)
LEMMA BufsOfType ==
  ASSUME NEW q \in Seq([task : Slices, buf : Buffers])
  PROVE  BufsOf(q) \in Seq(Buffers) /\ Len(BufsOf(q)) = Len(q)
<1>1. Len(q) \in Nat /\ \A i \in 1 .. Len(q) : q[i] \in [task : Slices, buf : Buffers]
  BY ElementOfSeq, LenProperties
<1>2. \A i \in 1 .. Len(q) : q[i].buf \in Buffers
  BY <1>1
<1> QED
  BY <1>1, <1>2 DEF BufsOf

(* Pushing a task appends its buffer.                                      *)
LEMMA BufsOfAppend ==
  ASSUME NEW q \in Seq([task : Slices, buf : Buffers]), NEW s \in Slices,
         NEW b \in Buffers
  PROVE  BufsOf(Append(q, [task |-> s, buf |-> b])) = Append(BufsOf(q), b)
<1> DEFINE r == [task |-> s, buf |-> b]
           A == Append(q, r)
<1>1. Len(q) \in Nat /\ Len(A) = Len(q) + 1 /\ r \in [task : Slices, buf : Buffers]
  OBVIOUS
<1>2. \A i \in 1 .. Len(q) : A[i] = q[i]
  OBVIOUS
<1>3. A[Len(q) + 1] = r
  OBVIOUS
<1>4. BufsOf(q) \in Seq(Buffers) /\ Len(BufsOf(q)) = Len(q)
  BY BufsOfType
<1>5. Append(BufsOf(q), b) = [i \in 1 .. Len(q) + 1 |-> IF i \in 1 .. Len(q)
                                                       THEN q[i].buf ELSE b]
  BY <1>1, <1>4 DEF BufsOf
<1>6. BufsOf(A) = [i \in 1 .. Len(q) + 1 |-> A[i].buf]
  BY <1>1 DEF BufsOf
<1>7. \A i \in 1 .. Len(q) + 1 :
        A[i].buf = IF i \in 1 .. Len(q) THEN q[i].buf ELSE b
  BY <1>1, <1>2, <1>3
<1> QED
  BY <1>5, <1>6, <1>7

(* Stealing a task removes the first buffer.                               *)
LEMMA BufsOfTail ==
  ASSUME NEW q \in Seq([task : Slices, buf : Buffers]), q # << >>
  PROVE  /\ BufsOf(q) # << >> /\ BufsOf(Tail(q)) = Tail(BufsOf(q))
         /\ Head(q).buf = Head(BufsOf(q))
         /\ Head(q) \in [task : Slices, buf : Buffers]
         /\ Tail(q) \in Seq([task : Slices, buf : Buffers])
<1>1. Len(q) \in Nat /\ Len(q) >= 1 /\ Len(Tail(q)) = Len(q) - 1 /\ Head(q) = q[1]
  OBVIOUS
<1>2. BufsOf(q) \in Seq(Buffers) /\ Len(BufsOf(q)) = Len(q)
  BY BufsOfType
<1>3. \A i \in 1 .. Len(q) - 1 : Tail(q)[i] = q[i + 1] /\ i + 1 \in 1 .. Len(q)
  BY <1>1
<1>4. BufsOf(Tail(q)) = [i \in 1 .. Len(q) - 1 |-> q[i + 1].buf]
  BY <1>1, <1>3 DEF BufsOf
<1>5. /\ Tail(BufsOf(q)) \in Seq(Buffers) /\ Len(Tail(BufsOf(q))) = Len(q) - 1
      /\ \A i \in 1 .. Len(q) - 1 : Tail(BufsOf(q))[i] = BufsOf(q)[i + 1]
  BY <1>1, <1>2, HeadTailProperties
<1>6. BufsOf(q) # << >> /\ Head(BufsOf(q)) = q[1].buf
  BY <1>1, <1>2 DEF BufsOf
<1>7. \A i \in 1 .. Len(q) - 1 : BufsOf(q)[i + 1] = q[i + 1].buf
  BY <1>1, <1>3 DEF BufsOf
<1>8. Head(q) \in [task : Slices, buf : Buffers] /\ Tail(q) \in Seq([task : Slices, buf : Buffers])
  BY HeadTailProperties
<1>9. BufsOf(Tail(q)) \in Seq(Buffers) /\ Len(BufsOf(Tail(q))) = Len(q) - 1
  BY <1>1, <1>8, BufsOfType
<1>10. BufsOf(Tail(q)) = Tail(BufsOf(q))
  BY <1>1, <1>4, <1>5, <1>7, <1>9, SeqEqual
<1> QED
  BY <1>1, <1>6, <1>8, <1>10

-----------------------------------------------------------------------------
(* Types and control states.                                               *)

LEMMA ConstantTypes ==
  /\ NumQueues \in Nat /\ 0 \in Buffers /\ NoBuf \notin Buffers
  /\ BufSize \in Nat /\ BufSize > 0
  /\ \A b \in Buffers : b # NoBuf
<1>1. Cardinality(Workers) \in Nat
  BY WorkersAssumption, FS_CardinalityType
<1> QED
  BY <1>1, BufSizeAssumption DEF NumQueues, Buffers, NoBuf

(* What the initial state and every step must re-establish.                *)
Typed == TypeOK /\ Control

LEMMA InitTyped == Init => Typed
<1> SUFFICES ASSUME Init PROVE TypeOK /\ Control
  BY DEF Typed
<1> USE ConstantTypes
<1>1. program \in Seq(Seq(Ops)) /\ Len(program) \in Nat
  BY ProgramsAssumption DEF Init
<1>2. [i \in 1 .. NumQueues |-> i - 1] \in Seq(Buffers)
  BY DEF Buffers
<1>3. [b \in Buffers |-> [i \in 0 .. BufSize - 1 |-> <<0, 0>>]]
         \in [Buffers -> [0 .. BufSize - 1 -> Values]]
  BY <1>1 DEF Values
<1>4. TypeOK
  <2>1. program \in Programs /\ TypeProducer
    BY <1>1 DEF Init, TypeProducer
  <2>2. TypeFlags
    BY Zenon DEF Init, TypeFlags
  <2>3. TypeLists
    BY <1>2, EmptySeq DEF Init, TypeLists
  <2>4. TypeQueue
    BY <1>3 DEF Init, TypeQueue
  <2>5. TypeConsumers
    BY <1>1 DEF Init, TypeConsumers
  <2>6. TypeShadow
    BY DEF Init, TypeShadow
  <2>7. TypeHistory
    BY EmptySeq DEF Init, TypeHistory
  <2> QED
    BY <2>1, <2>2, <2>3, <2>4, <2>5, <2>6, <2>7 DEF TypeOK
<1>5. Control
  BY DEF Init, Control, Running, Consumers
<1> QED
  BY <1>4, <1>5

(* One operation at a time: the pieces the actions are made of.            *)

LEMMA PopEmptyTyped ==
  ASSUME TypeLists, PopEmpty
  PROVE  p_queue_idx' \in Buffers /\ empty_list' \in Seq(Buffers)
BY HeadTailProperties DEF TypeLists, PopEmpty

LEMMA PushEmptyTyped ==
  ASSUME TypeLists, NEW b \in Buffers, PushEmpty(b)
  PROVE  empty_list' \in Seq(Buffers)
BY AppendProperties DEF TypeLists, PushEmpty

LEMMA HandOverTyped ==
  ASSUME TypeLists, NEW t \in Slices, p_queue_idx \in Buffers, HandOver(t)
  PROVE  /\ full_list' \in Seq(Buffers)
         /\ task_queue' \in Seq([task : Slices, buf : Buffers])
<1>1. CASE startSlice
  BY <1>1, AppendProperties DEF TypeLists, HandOver
<1>2. CASE ~startSlice
  <2>1. [task |-> t, buf |-> p_queue_idx] \in [task : Slices, buf : Buffers]
    OBVIOUS
  <2>2. task_queue' = Append(task_queue, [task |-> t, buf |-> p_queue_idx])
        /\ full_list' = full_list
    BY <1>2 DEF HandOver
  <2>3. task_queue \in Seq([task : Slices, buf : Buffers]) /\ full_list \in Seq(Buffers)
    BY DEF TypeLists
  <2>4. Append(task_queue, [task |-> t, buf |-> p_queue_idx])
          \in Seq([task : Slices, buf : Buffers])
    BY <2>1, <2>3, AppendProperties
  <2> QED
    BY <2>2, <2>3, <2>4
<1> QED
  BY <1>1, <1>2

LEMMA AdvanceTyped ==
  ASSUME TypeConsumers, NEW w \in Consumers, Advance(w)
  PROVE  wop' \in [Consumers -> Nat]
<1>1. CASE Lost(w)
  BY <1>1 DEF Advance, TypeConsumers
<1>2. CASE ~Lost(w)
  BY <1>2 DEF Advance, TypeConsumers
<1> QED
  BY <1>1, <1>2

LEMMA ValuesUpToNat ==
  ASSUME NEW s, NEW n \in Nat
  PROVE  ValuesUpTo(s, n) \in Nat
<1>1. IsFiniteSet(1 .. n)
  BY FS_Interval
<1>2. IsFiniteSet({i \in 1 .. n : program[s][i] = "val"})
  BY <1>1, FS_Subset
<1> QED
  BY <1>2, FS_CardinalityType DEF ValuesUpTo, Count

(* A stolen task names a slice and a buffer.                               *)
LEMMA HeadTask ==
  ASSUME TypeLists, task_queue # << >>
  PROVE  /\ Head(task_queue).task \in Slices /\ Head(task_queue).buf \in Buffers
         /\ Tail(task_queue) \in Seq([task : Slices, buf : Buffers])
BY BufsOfTail DEF TypeLists

-----------------------------------------------------------------------------
(* Each action keeps the types and the control facts.                      *)

LEMMA GetBufAddrTyped ==
  ASSUME Typed, GetBufAddr
  PROVE  Typed'
<1> USE ConstantTypes
<1>1. p_queue_idx' \in Buffers /\ empty_list' \in Seq(Buffers)
  BY PopEmptyTyped DEF GetBufAddr, Typed, TypeOK
<1>2. TypeProducer'
  BY <1>1 DEF GetBufAddr, consumerVars, Typed, TypeOK, TypeProducer, Control,
     Slices
<1>3. TypeLists'
  BY <1>1 DEF GetBufAddr, consumerVars, Typed, TypeOK, TypeLists, Slices
<1>4. Control'
  BY <1>1 DEF GetBufAddr, consumerVars, Typed, TypeOK, TypeProducer,
     TypeConsumers, Control, Running, Slices
<1>5. program' \in Programs /\ TypeFlags' /\ TypeQueue' /\ TypeConsumers' /\ TypeShadow' /\ TypeHistory'
  BY DEF GetBufAddr, consumerVars, Typed, TypeOK, Slices, TypeConsumers,
     TypeFlags, TypeHistory, TypeQueue, TypeShadow, Values
<1> QED
  BY <1>2, <1>3, <1>4, <1>5 DEF Typed, TypeOK

LEMMA SliceStartTyped ==
  ASSUME Typed, SliceStart
  PROVE  Typed'
<1> USE ConstantTypes
<1>1. TypeProducer'
  BY DEF SliceStart, consumerVars, Typed, TypeOK, TypeProducer, Control, Slices
<1>2. Control'
  BY DEF SliceStart, consumerVars, Typed, TypeOK, TypeProducer, TypeConsumers,
     Control, Running, Slices
<1>3. program' \in Programs /\ TypeFlags' /\ TypeLists' /\ TypeQueue' /\ TypeConsumers' /\ TypeShadow' /\ TypeHistory'
  BY DEF SliceStart, consumerVars, Typed, TypeOK, Slices, TypeConsumers,
     TypeFlags, TypeHistory, TypeLists, TypeQueue, TypeShadow, Values
<1> QED
  BY <1>1, <1>2, <1>3 DEF Typed, TypeOK

LEMMA PushTyped ==
  ASSUME Typed, Push
  PROVE  Typed'
<1> USE ConstantTypes
<1>1. ValuesUpTo(slice, opIdx) + 1 \in Nat /\ slice \in 0 .. Len(program)
  BY ValuesUpToNat DEF Typed, TypeOK, TypeProducer
<1>2. <<slice, ValuesUpTo(slice, opIdx) + 1>> \in Values
  BY <1>1 DEF Values
<1>3. p_queue_idx \in Buffers /\ QIdx \in 0 .. BufSize - 1
  BY DEF Push, Room, Typed, TypeOK, TypeProducer, Control
<1>4. TypeProducer'
  BY DEF Push, Room, AtOp, consumerVars, Typed, TypeOK, TypeProducer, Control,
     Slices
<1>5. TypeQueue'
  BY <1>2, <1>3 DEF Push, Typed, TypeOK, TypeQueue, Values
<1>6. Control'
  BY DEF Push, Room, AtOp, consumerVars, Typed, TypeOK, TypeProducer,
     TypeConsumers, Control, Running, Slices
<1>7. program' \in Programs /\ TypeFlags' /\ TypeLists' /\ TypeConsumers' /\ TypeShadow' /\ TypeHistory'
  BY DEF Push, Room, AtOp, consumerVars, Typed, TypeOK, Slices, TypeConsumers,
     TypeFlags, TypeHistory, TypeLists, TypeShadow, Values
<1> QED
  BY <1>4, <1>5, <1>6, <1>7 DEF Typed, TypeOK

LEMMA InterimHandOverTyped ==
  ASSUME Typed, InterimHandOver
  PROVE  Typed'
<1> USE ConstantTypes
<1>1. p_queue_idx \in Buffers /\ cur_task \in Slices
  BY DEF InterimHandOver, Typed, TypeOK, Control
<1>2. full_list' \in Seq(Buffers) /\ task_queue' \in Seq([task : Slices, buf : Buffers])
  BY <1>1, HandOverTyped DEF InterimHandOver, Typed, TypeOK
<1>3. TypeProducer'
  BY DEF InterimHandOver, Room, consumerVars, Typed, TypeOK, TypeProducer,
     Control, Slices
<1>4. TypeFlags'
  BY DEF InterimHandOver, Room, consumerVars, Typed, TypeOK, TypeFlags
<1>5. TypeLists'
  BY <1>2 DEF InterimHandOver, Room, consumerVars, Typed, TypeOK, TypeLists,
     Slices
<1>6. Control'
  BY DEF InterimHandOver, Room, consumerVars, Typed, TypeOK, TypeProducer,
     TypeConsumers, Control, Running, Slices
<1>7. program' \in Programs /\ TypeQueue' /\ TypeConsumers' /\ TypeShadow' /\ TypeHistory'
  BY DEF InterimHandOver, Room, consumerVars, Typed, TypeOK, Slices,
     TypeConsumers, TypeHistory, TypeQueue, TypeShadow, Values
<1> QED
  BY <1>3, <1>4, <1>5, <1>6, <1>7 DEF Typed, TypeOK

LEMMA InterimTakeTyped ==
  ASSUME Typed, InterimTake
  PROVE  Typed'
<1> USE ConstantTypes
<1>1. p_queue_idx' \in Buffers /\ empty_list' \in Seq(Buffers)
  BY PopEmptyTyped DEF InterimTake, Typed, TypeOK
<1>2. TypeProducer'
  BY <1>1 DEF InterimTake, consumerVars, Typed, TypeOK, TypeProducer, Control,
     Slices
<1>3. TypeLists'
  BY <1>1 DEF InterimTake, consumerVars, Typed, TypeOK, TypeLists, Slices
<1>4. Control'
  BY <1>1 DEF InterimTake, consumerVars, Typed, TypeOK, TypeProducer,
     TypeConsumers, Control, Running, Slices
<1>5. program' \in Programs /\ TypeFlags' /\ TypeQueue' /\ TypeConsumers' /\ TypeShadow' /\ TypeHistory'
  BY DEF InterimTake, consumerVars, Typed, TypeOK, Slices, TypeConsumers,
     TypeFlags, TypeHistory, TypeQueue, TypeShadow, Values
<1> QED
  BY <1>2, <1>3, <1>4, <1>5 DEF Typed, TypeOK

LEMMA EnterCalleeTyped ==
  ASSUME Typed, EnterCallee
  PROVE  Typed'
<1> USE ConstantTypes
<1>1. TypeProducer'
  BY DEF EnterCallee, AtOp, consumerVars, Typed, TypeOK, TypeProducer, Control,
     Slices
<1>2. TypeShadow'
  BY DEF EnterCallee, AtOp, consumerVars, Typed, TypeOK, TypeShadow, Control
<1>3. Control'
  BY DEF EnterCallee, AtOp, consumerVars, Typed, TypeOK, TypeProducer,
     TypeConsumers, Control, Running, Slices
<1>4. program' \in Programs /\ TypeFlags' /\ TypeLists' /\ TypeQueue' /\ TypeConsumers' /\ TypeHistory'
  BY DEF EnterCallee, AtOp, consumerVars, Typed, TypeOK, Slices, TypeConsumers,
     TypeFlags, TypeHistory, TypeLists, TypeQueue, Values
<1> QED
  BY <1>1, <1>2, <1>3, <1>4 DEF Typed, TypeOK

LEMMA SliceEndTyped ==
  ASSUME Typed, SliceEnd
  PROVE  Typed'
<1> USE ConstantTypes
<1>1. p_queue_idx \in Buffers /\ slice \in Slices
  BY DEF SliceEnd, Typed, TypeOK, Control
<1>2. full_list' \in Seq(Buffers) /\ task_queue' \in Seq([task : Slices, buf : Buffers])
  BY <1>1, HandOverTyped DEF SliceEnd, Typed, TypeOK
<1>3. TypeProducer'
  BY DEF SliceEnd, Reset, consumerVars, Typed, TypeOK, TypeProducer, Control,
     Slices
<1>4. TypeFlags'
  BY DEF SliceEnd, Reset, consumerVars, Typed, TypeOK, TypeFlags
<1>5. TypeLists'
  BY <1>2 DEF SliceEnd, Reset, consumerVars, Typed, TypeOK, TypeLists, Slices
<1>6. Control'
  BY DEF SliceEnd, Reset, consumerVars, Typed, TypeOK, TypeProducer,
     TypeConsumers, Control, Running, Slices
<1>7. program' \in Programs /\ TypeQueue' /\ TypeConsumers' /\ TypeShadow' /\ TypeHistory'
  BY DEF SliceEnd, Reset, consumerVars, Typed, TypeOK, Slices, TypeConsumers,
     TypeHistory, TypeQueue, TypeShadow, Values
<1> QED
  BY <1>3, <1>4, <1>5, <1>6, <1>7 DEF Typed, TypeOK

LEMMA SliceEndSyncTyped ==
  ASSUME Typed, SliceEndSync
  PROVE  Typed'
<1> USE ConstantTypes
<1>1. p_queue_idx \in Buffers /\ slice \in Slices /\ slice \in 0 .. Len(program)
  BY DEF SliceEndSync, Typed, TypeOK, TypeProducer, Control
<1>2. TypeProducer'
  BY DEF SliceEndSync, StartClone, Typed, TypeOK, TypeProducer, Control, Slices
<1>3. TypeConsumers'
  BY <1>1 DEF SliceEndSync, StartClone, Typed, TypeOK, TypeConsumers
<1>4. TypeShadow'
  BY <1>1 DEF SliceEndSync, StartClone, Typed, TypeOK, TypeShadow
<1>5. Control'
  BY DEF SliceEndSync, StartClone, Typed, TypeOK, TypeProducer, TypeConsumers,
     Control, Running, Slices
<1>6. program' \in Programs /\ TypeFlags' /\ TypeLists' /\ TypeQueue' /\ TypeHistory'
  BY DEF SliceEndSync, StartClone, Typed, TypeOK, Slices, TypeFlags,
     TypeHistory, TypeLists, TypeQueue, Values
<1> QED
  BY <1>2, <1>3, <1>4, <1>5, <1>6 DEF Typed, TypeOK

LEMMA FinishTyped ==
  ASSUME Typed, Finish
  PROVE  Typed'
<1> USE ConstantTypes
<1>1. TypeProducer'
  BY DEF Finish, consumerVars, Typed, TypeOK, TypeProducer, Control, Slices
<1>2. TypeFlags'
  BY DEF Finish, consumerVars, Typed, TypeOK, TypeFlags
<1>3. Control'
  BY DEF Finish, consumerVars, Typed, TypeOK, TypeProducer, TypeConsumers,
     Control, Running, Slices
<1>4. program' \in Programs /\ TypeLists' /\ TypeQueue' /\ TypeConsumers' /\ TypeShadow' /\ TypeHistory'
  BY DEF Finish, consumerVars, Typed, TypeOK, Slices, TypeConsumers,
     TypeHistory, TypeLists, TypeQueue, TypeShadow, Values
<1> QED
  BY <1>1, <1>2, <1>3, <1>4 DEF Typed, TypeOK

LEMMA JoinTyped ==
  ASSUME Typed, Join
  PROVE  Typed'
<1> USE ConstantTypes
<1>1. TypeProducer'
  BY DEF Join, consumerVars, Typed, TypeOK, TypeProducer, Control, Slices
<1>2. Control'
  BY DEF Join, consumerVars, Typed, TypeOK, TypeProducer, TypeConsumers,
     Control, Running, Slices
<1>3. program' \in Programs /\ TypeFlags' /\ TypeLists' /\ TypeQueue' /\ TypeConsumers' /\ TypeShadow' /\ TypeHistory'
  BY DEF Join, consumerVars, Typed, TypeOK, Slices, TypeConsumers, TypeFlags,
     TypeHistory, TypeLists, TypeQueue, TypeShadow, Values
<1> QED
  BY <1>1, <1>2, <1>3 DEF Typed, TypeOK

LEMMA ExitTyped ==
  ASSUME Typed, NEW w \in Consumers, Exit(w)
  PROVE  Typed'
<1> USE ConstantTypes
<1>1. TypeConsumers'
  BY DEF Exit, producerVars, Typed, TypeOK, TypeConsumers
<1>2. Control'
  BY DEF Exit, producerVars, Typed, TypeOK, TypeProducer, TypeConsumers,
     Control, Running, Slices
<1>3. program' \in Programs /\ TypeProducer' /\ TypeFlags' /\ TypeLists' /\ TypeQueue' /\ TypeShadow' /\ TypeHistory'
  BY DEF Exit, producerVars, Typed, TypeOK, Slices, TypeFlags, TypeHistory,
     TypeLists, TypeProducer, TypeQueue, TypeShadow, Values
<1> QED
  BY <1>1, <1>2, <1>3 DEF Typed, TypeOK

LEMMA StealTyped ==
  ASSUME Typed, NEW w \in Consumers, Steal(w)
  PROVE  Typed'
<1> USE ConstantTypes
<1>1. Head(task_queue).task \in Slices /\ Head(task_queue).buf \in Buffers
  BY HeadTask DEF Steal, Typed, TypeOK
<1>2. Tail(task_queue) \in Seq([task : Slices, buf : Buffers])
  BY HeadTask DEF Steal, Typed, TypeOK
<1>3. Head(task_queue).task \in 0 .. Len(program)
  BY <1>1 DEF Slices
<1>4. TypeLists'
  BY <1>2 DEF Steal, StartClone, producerVars, Typed, TypeOK, TypeLists, Slices
<1>5. TypeConsumers'
  BY <1>1, <1>3 DEF Steal, StartClone, producerVars, Typed, TypeOK,
     TypeConsumers
<1>6. TypeShadow'
  BY <1>1 DEF Steal, StartClone, producerVars, Typed, TypeOK, TypeShadow
<1>7. Control'
  BY <1>1 DEF Steal, StartClone, producerVars, Typed, TypeOK, TypeProducer,
     TypeConsumers, Control, Running, Slices
<1>8. program' \in Programs /\ TypeProducer' /\ TypeFlags' /\ TypeQueue' /\ TypeHistory'
  BY DEF Steal, StartClone, producerVars, Typed, TypeOK, Slices, TypeFlags,
     TypeHistory, TypeProducer, TypeQueue, Values
<1> QED
  BY <1>4, <1>5, <1>6, <1>7, <1>8 DEF Typed, TypeOK

LEMMA ReadTyped ==
  ASSUME Typed, NEW w \in Consumers, Read(w)
  PROVE  Typed'
<1> USE ConstantTypes
<1>1. wop' \in [Consumers -> Nat]
  BY AdvanceTyped DEF Read, Typed, TypeOK
<1>2. wpc[w] = "run" /\ task[w] \in Slices /\ CQIdx[w] \in 0 .. BufSize - 1
  BY DEF Read, MayDo, Typed, TypeOK, TypeConsumers, Control
<1>3. queue[buf_idx[w]][CQIdx[w]] \in Values
  BY <1>2 DEF Typed, TypeOK, TypeQueue, TypeConsumers
<1>4. Append(shadowed[task[w]], queue[buf_idx[w]][CQIdx[w]]) \in Seq(Values)
  BY <1>2, <1>3, AppendProperties DEF Typed, TypeOK, TypeHistory
<1>5. TypeConsumers'
  <2>1. CQIdx' = [CQIdx EXCEPT ![w] = @ + 1] /\ UNCHANGED <<wpc, task, buf_id, buf_idx, program>>
    BY DEF Read
  <2>2. TypeConsumers
    BY DEF Typed, TypeOK
  <2>3. CQIdx' \in [Consumers -> 0 .. BufSize]
    BY <1>2, <2>1, <2>2 DEF TypeConsumers
  <2> QED
    BY <1>1, <2>1, <2>2, <2>3 DEF TypeConsumers
<1>6. TypeHistory'
  BY <1>4 DEF Read, producerVars, Typed, TypeOK, TypeHistory, Slices, Values
<1>7. Control'
  BY DEF Read, MayDo, producerVars, Typed, TypeOK, TypeProducer, TypeConsumers,
     Control, Running, Slices
<1>8. program' \in Programs /\ TypeProducer' /\ TypeFlags' /\ TypeLists' /\ TypeQueue' /\ TypeShadow'
  BY DEF Read, MayDo, producerVars, Typed, TypeOK, Slices, TypeFlags,
     TypeLists, TypeProducer, TypeQueue, TypeShadow, Values
<1> QED
  BY <1>5, <1>6, <1>7, <1>8 DEF Typed, TypeOK

LEMMA ReadFromNextTyped ==
  ASSUME Typed, NEW w \in Consumers, ReadFromNext(w)
  PROVE  Typed'
<1> USE ConstantTypes
<1>1. empty_list' \in Seq(Buffers)
  BY PushEmptyTyped DEF ReadFromNext, Release, Typed, TypeOK, TypeConsumers
<1>2. TypeLists'
  BY <1>1 DEF ReadFromNext, MayDo, Release, Rewind, producerVars, Typed,
     TypeOK, TypeLists, Slices
<1>3. TypeConsumers'
  BY DEF ReadFromNext, MayDo, Release, Rewind, producerVars, Typed, TypeOK,
     TypeConsumers
<1>4. Control'
  BY DEF ReadFromNext, MayDo, Release, Rewind, producerVars, Typed, TypeOK,
     TypeProducer, TypeConsumers, Control, Running, Slices
<1>5. program' \in Programs /\ TypeProducer' /\ TypeFlags' /\ TypeQueue' /\ TypeShadow' /\ TypeHistory'
  BY DEF ReadFromNext, MayDo, Release, Rewind, producerVars, Typed, TypeOK,
     Slices, TypeFlags, TypeHistory, TypeProducer, TypeQueue, TypeShadow,
     Values
<1> QED
  BY <1>2, <1>3, <1>4, <1>5 DEF Typed, TypeOK

LEMMA TakeNextTyped ==
  ASSUME Typed, NEW w \in Consumers, TakeNext(w)
  PROVE  Typed'
<1> USE ConstantTypes
<1>1. Head(full_list) \in Buffers /\ Tail(full_list) \in Seq(Buffers)
  BY HeadTailProperties DEF TakeNext, Typed, TypeOK, TypeLists
<1>2. TypeLists'
  BY <1>1 DEF TakeNext, producerVars, Typed, TypeOK, TypeLists, Slices
<1>3. TypeConsumers'
  BY <1>1 DEF TakeNext, producerVars, Typed, TypeOK, TypeConsumers
<1>4. Control'
  BY DEF TakeNext, producerVars, Typed, TypeOK, TypeProducer, TypeConsumers,
     Control, Running, Slices
<1>5. program' \in Programs /\ TypeProducer' /\ TypeFlags' /\ TypeQueue' /\ TypeShadow' /\ TypeHistory'
  BY DEF TakeNext, producerVars, Typed, TypeOK, Slices, TypeFlags, TypeHistory,
     TypeProducer, TypeQueue, TypeShadow, Values
<1> QED
  BY <1>2, <1>3, <1>4, <1>5 DEF Typed, TypeOK

LEMMA EnterCloneTyped ==
  ASSUME Typed, NEW w \in Consumers, EnterClone(w)
  PROVE  Typed'
<1> USE ConstantTypes
<1>1. wop' \in [Consumers -> Nat]
  BY AdvanceTyped DEF EnterClone, Typed, TypeOK
<1>2. empty_list' \in Seq(Buffers)
  BY PushEmptyTyped DEF EnterClone, Release, Typed, TypeOK, TypeConsumers,
     TypeLists
<1>3. TypeLists'
  BY <1>2 DEF EnterClone, RunsCallee, MayDo, Release, Rewind, producerVars,
     Typed, TypeOK, TypeLists, Slices
<1>4. TypeConsumers'
  <2>1. UNCHANGED <<task, buf_id, buf_idx, program>>
    BY DEF EnterClone
  <2>2. TypeConsumers
    BY DEF Typed, TypeOK
  <2>3. CASE CQIdx[w] < BufSize
    <3>1. UNCHANGED <<CQIdx, wpc>>
      BY <2>3 DEF EnterClone
    <3> QED
      BY <1>1, <2>1, <2>2, <3>1 DEF TypeConsumers
  <2>4. CASE ~(CQIdx[w] < BufSize)
    <3>1. /\ CQIdx' = [CQIdx EXCEPT ![w] = 0]
          /\ wpc' = [wpc EXCEPT ![w] = "interim"]
      BY <2>4 DEF EnterClone, Release, Rewind
    <3>2. CQIdx' \in [Consumers -> 0 .. BufSize]
      BY <2>2, <3>1 DEF TypeConsumers
    <3> QED
      BY <1>1, <2>1, <2>2, <3>1, <3>2 DEF TypeConsumers
  <2> QED
    BY <2>3, <2>4
<1>5. Control'
  BY DEF EnterClone, RunsCallee, MayDo, Release, Rewind, producerVars, Typed,
     TypeOK, TypeProducer, TypeConsumers, Control, Running, Slices
<1>6. program' \in Programs /\ TypeProducer' /\ TypeFlags' /\ TypeQueue' /\ TypeShadow' /\ TypeHistory'
  BY DEF EnterClone, RunsCallee, MayDo, Release, Rewind, producerVars, Typed,
     TypeOK, Slices, TypeFlags, TypeHistory, TypeProducer, TypeQueue,
     TypeShadow, Values
<1> QED
  BY <1>3, <1>4, <1>5, <1>6 DEF Typed, TypeOK

LEMMA DummyTyped ==
  ASSUME Typed, NEW w \in Consumers, Dummy(w)
  PROVE  Typed'
<1> USE ConstantTypes
<1>1. wop' \in [Consumers -> Nat]
  BY AdvanceTyped DEF Dummy, Typed, TypeOK
<1>2. TypeConsumers'
  BY <1>1 DEF Dummy, MayDo, producerVars, Typed, TypeOK, TypeConsumers
<1>3. Control'
  BY DEF Dummy, MayDo, producerVars, Typed, TypeOK, TypeProducer,
     TypeConsumers, Control, Running, Slices
<1>4. program' \in Programs /\ TypeProducer' /\ TypeFlags' /\ TypeLists' /\ TypeQueue' /\ TypeShadow' /\ TypeHistory'
  BY DEF Dummy, MayDo, producerVars, Typed, TypeOK, Slices, TypeFlags,
     TypeHistory, TypeLists, TypeProducer, TypeQueue, TypeShadow, Values
<1> QED
  BY <1>2, <1>3, <1>4 DEF Typed, TypeOK

LEMMA CrashTyped ==
  ASSUME Typed, NEW w \in Consumers, Crash(w)
  PROVE  Typed'
<1> USE ConstantTypes
<1>1. TypeProducer'
  BY DEF Crash, consumerVars, Typed, TypeOK, TypeProducer, Control, Slices
<1>2. Control'
  BY DEF Crash, consumerVars, Typed, TypeOK, TypeProducer, TypeConsumers,
     Control, Running, Slices
<1>3. program' \in Programs /\ TypeFlags' /\ TypeLists' /\ TypeQueue' /\ TypeConsumers' /\ TypeShadow' /\ TypeHistory'
  BY DEF Crash, consumerVars, Typed, TypeOK, Slices, TypeConsumers, TypeFlags,
     TypeHistory, TypeLists, TypeQueue, TypeShadow, Values
<1> QED
  BY <1>1, <1>2, <1>3 DEF Typed, TypeOK

LEMMA ShadowEndTyped ==
  ASSUME Typed, NEW w \in Consumers, ShadowEnd(w)
  PROVE  Typed'
<1> USE ConstantTypes
<1>1. wpc[w] = "run" /\ task[w] \in Slices
  BY DEF ShadowEnd, EndClone, MayDo, Typed, TypeOK, Control
<1>2. empty_list' \in Seq(Buffers)
  BY PushEmptyTyped DEF ShadowEnd, Typed, TypeOK, TypeConsumers
<1>3. TypeProducer'
  BY DEF ShadowEnd, EndClone, MayDo, Rewind, Typed, TypeOK, TypeProducer,
     Control, Slices
<1>4. TypeLists'
  BY <1>2 DEF ShadowEnd, EndClone, MayDo, Rewind, Typed, TypeOK, TypeLists,
     Slices
<1>5. TypeConsumers'
  BY DEF ShadowEnd, EndClone, MayDo, Rewind, Typed, TypeOK, TypeConsumers
<1>6. TypeHistory'
  BY <1>1 DEF ShadowEnd, EndClone, MayDo, Rewind, Typed, TypeOK, TypeHistory,
     Slices, Values
<1>7. Control'
  BY DEF ShadowEnd, EndClone, MayDo, Rewind, Typed, TypeOK, TypeProducer,
     TypeConsumers, Control, Running, Slices
<1>8. program' \in Programs /\ TypeFlags' /\ TypeQueue' /\ TypeShadow'
  BY DEF ShadowEnd, EndClone, MayDo, Rewind, Typed, TypeOK, Slices, TypeFlags,
     TypeQueue, TypeShadow, Values
<1> QED
  BY <1>3, <1>4, <1>5, <1>6, <1>7, <1>8 DEF Typed, TypeOK

LEMMA ShadowEndSyncTyped ==
  ASSUME Typed, NEW w \in Consumers, ShadowEndSync(w)
  PROVE  Typed'
<1> USE ConstantTypes
<1>1. wpc[w] = "run" /\ task[w] \in Slices
  BY DEF ShadowEndSync, EndClone, MayDo, Typed, TypeOK, Control
<1>2. pc = "calling" /\ p_queue_idx \in Buffers
  BY DEF ShadowEndSync, EndClone, MayDo, Running, Typed, TypeOK, Control
<1>3. empty_list' \in Seq(Buffers)
  BY <1>2, PushEmptyTyped DEF ShadowEndSync, Typed, TypeOK
<1>4. TypeProducer'
  BY DEF ShadowEndSync, EndClone, MayDo, Rewind, Typed, TypeOK, TypeProducer,
     Control, Slices
<1>5. TypeLists'
  BY <1>3 DEF ShadowEndSync, EndClone, MayDo, Rewind, Typed, TypeOK, TypeLists,
     Slices
<1>6. TypeConsumers'
  BY DEF ShadowEndSync, EndClone, MayDo, Rewind, Typed, TypeOK, TypeConsumers
<1>7. TypeHistory'
  BY <1>1 DEF ShadowEndSync, EndClone, MayDo, Rewind, Typed, TypeOK,
     TypeHistory, Slices, Values
<1>8. Control'
  BY DEF ShadowEndSync, EndClone, MayDo, Rewind, Typed, TypeOK, TypeProducer,
     TypeConsumers, Control, Running, Slices
<1>9. program' \in Programs /\ TypeFlags' /\ TypeQueue' /\ TypeShadow'
  BY DEF ShadowEndSync, EndClone, MayDo, Rewind, Typed, TypeOK, Slices,
     TypeFlags, TypeQueue, TypeShadow, Values
<1> QED
  BY <1>4, <1>5, <1>6, <1>7, <1>8, <1>9 DEF Typed, TypeOK

(* A step that changes nothing keeps everything.                           *)
LEMMA StutterTyped == ASSUME Typed, UNCHANGED vars PROVE Typed'
BY DEF vars, producerVars, consumerVars, Typed, TypeOK, TypeProducer,
   TypeFlags,
       TypeLists, TypeQueue, TypeConsumers, TypeShadow, TypeHistory, Control,
       Running, Slices, Values

LEMMA NextTyped == ASSUME Typed, [Next]_vars PROVE Typed'
<1>1. CASE Producer
  BY <1>1, GetBufAddrTyped, SliceStartTyped, PushTyped, InterimHandOverTyped,
     InterimTakeTyped, EnterCalleeTyped, SliceEndTyped, SliceEndSyncTyped,
     FinishTyped, JoinTyped DEF Producer
<1>2. ASSUME NEW w \in Consumers, Consumer(w)
      PROVE  Typed'
  BY <1>2, ExitTyped, StealTyped, ReadTyped, ReadFromNextTyped, TakeNextTyped,
     EnterCloneTyped, DummyTyped, CrashTyped, ShadowEndTyped,
     ShadowEndSyncTyped DEF Consumer
<1>3. CASE Terminated
  BY <1>3, StutterTyped DEF Terminated
<1>4. CASE UNCHANGED vars
  BY <1>4, StutterTyped
<1> QED
  BY <1>1, <1>2, <1>3, <1>4 DEF Next

(* In every reachable state each variable has its type: in particular the  *)
(* cursors QIdx and CQIdx never pass the end of a buffer, and a pushed     *)
(* value always has a buffer to go to, whatever the slices do.             *)
THEOREM TypeCorrect == Spec => []TypeOK
<1>1. Typed => TypeOK
  BY DEF Typed
<1> QED
  BY InitTyped, NextTyped, <1>1, PTL DEF Spec

-----------------------------------------------------------------------------
(* Ownership of the buffers: how each kind of hand-over preserves it.      *)

(* Nothing changes hands.                                                  *)
LEMMA SameOwners ==
  ASSUME Ownership, UNCHANGED <<empty_list, task_queue, full_list, buf_idx>>,
         \A w \in Consumers : Reading(w)' = Reading(w),
         Filling' = Filling, Filling => p_queue_idx' = p_queue_idx
  PROVE  Ownership'
<1>1. Empty' = Empty /\ Tasked' = Tasked /\ Full' = Full
  BY DEF Empty, Tasked, Full
<1>2. NoRepeats'
  BY DEF Ownership, NoRepeats
<1>3. Apart'
  BY <1>1 DEF Ownership, Apart, Listed
<1>4. Covered'
  BY <1>1 DEF Ownership, Covered, Listed
<1> QED
  BY <1>2, <1>3, <1>4 DEF Ownership

(* The producer takes an empty buffer.                                     *)
LEMMA ProducerTakes ==
  ASSUME Ownership, TypeLists, PopEmpty,
         UNCHANGED <<task_queue, full_list, buf_idx>>,
         \A w \in Consumers : Reading(w)' = Reading(w), ~Filling, Filling'
  PROVE  Ownership'
<1>1. /\ p_queue_idx' \in Empty /\ Empty' = Empty \ {p_queue_idx'}
      /\ NoRepeat(empty_list)'
  BY TailElems DEF TypeLists, PopEmpty, Ownership, NoRepeats, Empty
<1>2. Tasked' = Tasked /\ Full' = Full
  BY DEF Tasked, Full
<1>3. NoRepeats'
  BY <1>1 DEF Ownership, NoRepeats
<1>4. Apart'
  BY <1>1, <1>2 DEF Ownership, Apart, Listed
<1>5. Covered'
  BY <1>1, <1>2 DEF Ownership, Covered, Listed
<1> QED
  BY <1>3, <1>4, <1>5 DEF Ownership

(* The producer hands its buffer over, as a task or as a continuation.     *)
LEMMA ProducerGives ==
  ASSUME Ownership, TypeLists, NEW t \in Slices, p_queue_idx \in Buffers,
         HandOver(t), UNCHANGED <<empty_list, buf_idx>>,
         \A w \in Consumers : Reading(w)' = Reading(w), Filling, ~Filling'
  PROVE  Ownership'
<1>1. Empty' = Empty /\ NoRepeat(empty_list)'
  BY DEF Empty, Ownership, NoRepeats
<1>2. p_queue_idx \notin Listed
  BY DEF Ownership, Apart
<1>3. \/ /\ Full' = Full \cup {p_queue_idx} /\ NoRepeat(full_list)'
         /\ Tasked' = Tasked /\ NoRepeat(BufsOf(task_queue))'
      \/ /\ Full' = Full /\ NoRepeat(full_list)'
         /\ Tasked' = Tasked \cup {p_queue_idx} /\ NoRepeat(BufsOf(task_queue))'
  <2>1. CASE startSlice
    <3>1. full_list' = Append(full_list, p_queue_idx) /\ task_queue' = task_queue
      BY <2>1 DEF HandOver
    <3>2. full_list \in Seq(Buffers) /\ NoRepeat(full_list) /\ p_queue_idx \notin Elems(full_list)
      BY <1>2 DEF TypeLists, Ownership, NoRepeats, Listed, Full
    <3>3. Full' = Full \cup {p_queue_idx} /\ NoRepeat(full_list)'
      BY <3>1, <3>2, AppendElems, AppendNoRepeat DEF Full
    <3>4. Tasked' = Tasked /\ NoRepeat(BufsOf(task_queue))'
      BY <3>1 DEF Tasked, Ownership, NoRepeats
    <3> QED
      BY <3>3, <3>4
  <2>2. CASE ~startSlice
    <3>1. task_queue' = Append(task_queue, [task |-> t, buf |-> p_queue_idx])
          /\ full_list' = full_list
      BY <2>2 DEF HandOver
    <3>2. task_queue \in Seq([task : Slices, buf : Buffers])
      BY DEF TypeLists
    <3>3. BufsOf(task_queue)' = Append(BufsOf(task_queue), p_queue_idx)
      BY <3>1, <3>2, BufsOfAppend
    <3>4. /\ BufsOf(task_queue) \in Seq(Buffers) /\ NoRepeat(BufsOf(task_queue))
          /\ p_queue_idx \notin Elems(BufsOf(task_queue))
      BY <1>2, <3>2, BufsOfType DEF Ownership, NoRepeats, Listed, Tasked
    <3>5. Tasked' = Tasked \cup {p_queue_idx} /\ NoRepeat(BufsOf(task_queue))'
      BY <3>3, <3>4, AppendElems, AppendNoRepeat DEF Tasked
    <3>6. Full' = Full /\ NoRepeat(full_list)'
      BY <3>1 DEF Full, Ownership, NoRepeats
    <3> QED
      BY <3>5, <3>6
  <2> QED
    BY <2>1, <2>2
<1>4. NoRepeats'
  BY <1>1, <1>3 DEF NoRepeats
<1>5. Apart'
  BY <1>1, <1>2, <1>3 DEF Ownership, Apart, Listed
<1>6. Covered'
  BY <1>1, <1>3 DEF Ownership, Covered, Listed
<1> QED
  BY <1>4, <1>5, <1>6 DEF Ownership

(* A worker steals the first task and reads its buffer.                    *)
LEMMA ConsumerSteals ==
  ASSUME Ownership, TypeLists, TypeConsumers, NEW w \in Consumers, Steal(w),
         ~Reading(w), Filling' = Filling
  PROVE  Ownership'
<1> DEFINE b == Head(task_queue).buf
<1>1. /\ task_queue' = Tail(task_queue) /\ task_queue # << >>
      /\ UNCHANGED <<empty_list, full_list, p_queue_idx>>
      /\ wpc' = [wpc EXCEPT ![w] = "run"] /\ buf_idx' = [buf_idx EXCEPT ![w] = b]
  BY DEF Steal, StartClone, producerVars
<1>2. b \in Tasked /\ Tasked' = Tasked \ {b} /\ NoRepeat(BufsOf(task_queue))'
  <2>1. /\ BufsOf(task_queue) # << >> /\ BufsOf(task_queue)' = Tail(BufsOf(task_queue))
        /\ b = Head(BufsOf(task_queue))
    BY <1>1, BufsOfTail DEF TypeLists
  <2>2. BufsOf(task_queue) \in Seq(Buffers) /\ NoRepeat(BufsOf(task_queue))
    BY BufsOfType DEF TypeLists, Ownership, NoRepeats
  <2> QED
    BY <2>1, <2>2, TailElems DEF Tasked
<1>3. Empty' = Empty /\ Full' = Full
  BY <1>1 DEF Empty, Full
<1>4. /\ Reading(w)' /\ buf_idx'[w] = b
      /\ \A v \in Consumers : v # w => Reading(v)' = Reading(v) /\ buf_idx'[v] = buf_idx[v]
  BY <1>1 DEF Reading, TypeConsumers
<1>5. NoRepeats'
  BY <1>1, <1>2 DEF Ownership, NoRepeats
<1> HIDE DEF b
<1>6. Apart'
  BY <1>1, <1>2, <1>3, <1>4 DEF Ownership, Apart, Listed
<1>7. Covered'
  BY <1>1, <1>2, <1>3, <1>4 DEF Ownership, Covered, Listed
<1> QED
  BY <1>5, <1>6, <1>7 DEF Ownership

(* A clone takes the first continuation.                                   *)
LEMMA ConsumerTakes ==
  ASSUME Ownership, TypeLists, TypeConsumers, NEW w \in Consumers, TakeNext(w),
         ~Reading(w), Filling' = Filling
  PROVE  Ownership'
<1> DEFINE b == Head(full_list)
<1>1. /\ full_list' = Tail(full_list) /\ full_list # << >>
      /\ UNCHANGED <<empty_list, task_queue, p_queue_idx>>
      /\ wpc' = [wpc EXCEPT ![w] = "run"] /\ buf_idx' = [buf_idx EXCEPT ![w] = b]
  BY DEF TakeNext, producerVars
<1>2. b \in Full /\ Full' = Full \ {b} /\ NoRepeat(full_list)'
  BY <1>1, TailElems DEF TypeLists, Ownership, NoRepeats, Full
<1>3. Empty' = Empty /\ Tasked' = Tasked
  BY <1>1 DEF Empty, Tasked
<1>4. /\ Reading(w)' /\ buf_idx'[w] = b
      /\ \A v \in Consumers : v # w => Reading(v)' = Reading(v) /\ buf_idx'[v] = buf_idx[v]
  BY <1>1 DEF Reading, TypeConsumers
<1>5. NoRepeats'
  BY <1>1, <1>2 DEF Ownership, NoRepeats
<1> HIDE DEF b
<1>6. Apart'
  BY <1>1, <1>2, <1>3, <1>4 DEF Ownership, Apart, Listed
<1>7. Covered'
  BY <1>1, <1>2, <1>3, <1>4 DEF Ownership, Covered, Listed
<1> QED
  BY <1>5, <1>6, <1>7 DEF Ownership

(* A clone gives the buffer it reads back to empty_list.                   *)
LEMMA ConsumerGives ==
  ASSUME Ownership, TypeLists, TypeConsumers, NEW w \in Consumers,
         NEW x \in {"interim", "poll", "idle"},
         Reading(w), PushEmpty(buf_idx[w]), wpc' = [wpc EXCEPT ![w] = x],
         UNCHANGED <<task_queue, full_list, buf_idx>>,
         Filling' = Filling, Filling => p_queue_idx' = p_queue_idx
  PROVE  Ownership'
<1> DEFINE b == buf_idx[w]
<1>1. b \in Buffers /\ b \notin Listed /\ (Filling => b # p_queue_idx)
  BY DEF Ownership, Apart, TypeConsumers
<1>2. Empty' = Empty \cup {b} /\ NoRepeat(empty_list)'
  BY <1>1, AppendElems, AppendNoRepeat
     DEF PushEmpty, TypeLists, Ownership, NoRepeats, Listed, Empty
<1>3. Tasked' = Tasked /\ Full' = Full
  BY DEF Tasked, Full
<1>4. ~Reading(w)' /\ \A v \in Consumers : v # w => Reading(v)' = Reading(v)
  BY DEF Reading, TypeConsumers
<1>5. NoRepeats'
  BY <1>2 DEF Ownership, NoRepeats
<1>6. Apart'
  BY <1>1, <1>2, <1>3, <1>4 DEF Ownership, Apart, Listed
<1>7. Covered'
  BY <1>1, <1>2, <1>3, <1>4 DEF Ownership, Covered, Listed
<1> QED
  BY <1>5, <1>6, <1>7 DEF Ownership

(* end_slice without workers: the producer's buffer becomes the clone's.   *)
LEMMA ProducerReads ==
  ASSUME Ownership, TypeConsumers, NEW w \in Consumers, ~Reading(w),
         wpc' = [wpc EXCEPT ![w] = "run"],
         buf_idx' = [buf_idx EXCEPT ![w] = p_queue_idx],
         UNCHANGED <<empty_list, task_queue, full_list, p_queue_idx>>,
         Filling, ~Filling'
  PROVE  Ownership'
<1>1. Empty' = Empty /\ Tasked' = Tasked /\ Full' = Full
  BY DEF Empty, Tasked, Full
<1>2. /\ Reading(w)' /\ buf_idx'[w] = p_queue_idx
      /\ \A v \in Consumers : v # w => Reading(v)' = Reading(v) /\ buf_idx'[v] = buf_idx[v]
  BY DEF Reading, TypeConsumers
<1>3. NoRepeats'
  BY DEF Ownership, NoRepeats
<1>4. Apart'
  BY <1>1, <1>2 DEF Ownership, Apart, Listed
<1>5. Covered'
  BY <1>1, <1>2 DEF Ownership, Covered, Listed
<1> QED
  BY <1>3, <1>4, <1>5 DEF Ownership

-----------------------------------------------------------------------------
(* Each action keeps the ownership of the buffers.                         *)

(* The build without workers: the producer is the only consumer, and there *)
(* is one buffer.                                                          *)
LEMMA WithoutWorkers ==
  ASSUME Workers = {}
  PROVE  Consumers = {Main} /\ Buffers = {0}
BY FS_EmptySet DEF Consumers, Buffers, NumQueues

LEMMA InitOwned == Init => Owned
<1> SUFFICES ASSUME Init PROVE Alone /\ Ownership
  BY DEF Owned
<1>1. Alone
  BY WithoutWorkers DEF Init, Alone
<1>2. NumQueues \in Nat /\ Len(empty_list) = NumQueues /\ \A i \in 1 .. NumQueues : empty_list[i] = i - 1
  BY ConstantTypes DEF Init
<1>3. Empty = Buffers
  <2>1. \A b \in Buffers : b + 1 \in 1 .. NumQueues /\ (b + 1) - 1 = b
    BY <1>2 DEF Buffers
  <2>2. \A i \in 1 .. NumQueues : i - 1 \in Buffers
    BY <1>2 DEF Buffers
  <2> QED
    BY <1>2, <2>1, <2>2 DEF Empty, Elems
<1>4. Tasked = {} /\ Full = {}
  BY DEF Init, Tasked, Full, BufsOf, Elems
<1>5. NoRepeats
  <2>1. NoRepeat(empty_list)
    BY <1>2 DEF NoRepeat
  <2>2. Len(BufsOf(task_queue)) = 0 /\ Len(full_list) = 0
    BY BufsOfType, EmptySeq DEF Init
  <2>3. \A i \in 1 .. 0 : FALSE
    OBVIOUS
  <2> QED
    BY <2>1, <2>2, <2>3 DEF NoRepeats, NoRepeat
<1>6. ~Filling /\ \A w \in Consumers : ~Reading(w)
  BY DEF Init, Filling, Reading
<1>7. Apart /\ Covered
  BY <1>3, <1>4, <1>6 DEF Apart, Covered, Listed
<1> QED
  BY <1>1, <1>5, <1>7 DEF Ownership

LEMMA GetBufAddrOwned == ASSUME IInv, GetBufAddr PROVE Owned'
<1>1. /\ PopEmpty /\ pc = "idle" /\ p_queue_idx = NoBuf /\ ~Filling
      /\ UNCHANGED <<pc, startSlice, task_queue, full_list, buf_idx, wpc>>
  BY DEF GetBufAddr, consumerVars, Filling
<1>2. TypeLists /\ Typed /\ Alone /\ Ownership /\ Control
  BY <1>1 DEF IInv, Typed, TypeOK, Owned
<1>3. Filling'
  BY <1>1, <1>2, PopEmptyTyped, ConstantTypes DEF Filling
<1>4. Ownership'
  BY <1>1, <1>2, <1>3, ProducerTakes DEF Reading
<1>5. Alone'
  BY <1>1, <1>2, WithoutWorkers DEF Alone, Control, Running
<1> QED
  BY <1>4, <1>5 DEF Owned

LEMMA InterimTakeOwned == ASSUME IInv, InterimTake PROVE Owned'
<1>1. /\ PopEmpty /\ pc = "interim" /\ pc' = "slice" /\ ~Filling
      /\ UNCHANGED <<startSlice, task_queue, full_list, buf_idx, wpc>>
  BY DEF InterimTake, consumerVars, Filling
<1>2. TypeLists /\ Typed /\ Alone /\ Ownership /\ Control
  BY <1>1 DEF IInv, Typed, TypeOK, Owned
<1>3. Filling'
  BY <1>1, <1>2, PopEmptyTyped, ConstantTypes DEF Filling
<1>4. Ownership'
  BY <1>1, <1>2, <1>3, ProducerTakes DEF Reading
<1>5. Alone'
  BY <1>1, <1>2, WithoutWorkers DEF Alone, Control, Running, PopEmpty
<1> QED
  BY <1>4, <1>5 DEF Owned

LEMMA InterimHandOverOwned == ASSUME IInv, InterimHandOver PROVE Owned'
<1>1. /\ HandOver(cur_task) /\ pc = "slice" /\ pc' = "interim" /\ ~Filling'
      /\ startSlice' = TRUE /\ UNCHANGED <<empty_list, p_queue_idx, buf_idx, wpc>>
  BY DEF InterimHandOver, consumerVars, Filling
<1>2. TypeLists /\ Typed /\ Alone /\ Ownership /\ Control
  BY <1>1 DEF IInv, Typed, TypeOK, Owned
<1>3. p_queue_idx \in Buffers /\ cur_task \in Slices /\ Filling
  BY <1>1, <1>2, ConstantTypes DEF Control, Filling
<1>4. Ownership'
  BY <1>1, <1>2, <1>3, ProducerGives DEF Reading
<1>5. ASSUME Workers = {} PROVE full_list' = << >> /\ empty_list' = << >> /\ wpc[Main] # "run"
  <2>1. ~startSlice /\ full_list = << >> /\ Consumers = {Main} /\ Buffers = {0}
    BY <1>1, <1>2, <1>5, WithoutWorkers DEF Alone
  <2>2. full_list' = << >>
    BY <1>1, <2>1 DEF HandOver
  <2>3. Empty = {}
    <3>1. 0 \notin Empty /\ Empty \subseteq {0}
      BY <1>2, <1>3, <2>1, ElementOfSeq DEF Ownership, Apart, Listed, Empty, Elems, TypeLists
    <3> QED
      BY <3>1
  <2>4. empty_list = << >>
    BY <1>2, <2>3, TailElems DEF Empty, TypeLists, Ownership, NoRepeats
  <2>5. wpc[Main] # "run"
    BY <1>1, <1>2, <2>1 DEF Control, Running
  <2> QED
    BY <1>1, <2>2, <2>4, <2>5
<1>6. Alone'
  BY <1>1, <1>5 DEF Alone
<1> QED
  BY <1>4, <1>6 DEF Owned

LEMMA SliceEndOwned == ASSUME IInv, SliceEnd PROVE Owned'
<1>1. /\ HandOver(slice) /\ pc = "slice" /\ Workers # {} /\ p_queue_idx' = NoBuf
      /\ UNCHANGED <<empty_list, buf_idx, wpc>>
  BY DEF SliceEnd, Reset, consumerVars
<1>2. TypeLists /\ Typed /\ Alone /\ Ownership /\ Control
  BY <1>1 DEF IInv, Typed, TypeOK, Owned
<1>3. p_queue_idx \in Buffers /\ slice \in Slices /\ Filling /\ ~Filling'
  BY <1>1, <1>2, ConstantTypes DEF Control, Filling
<1>4. Ownership'
  BY <1>1, <1>2, <1>3, ProducerGives DEF Reading
<1>5. Alone'
  BY <1>1 DEF Alone
<1> QED
  BY <1>4, <1>5 DEF Owned

LEMMA SliceEndSyncOwned == ASSUME IInv, SliceEndSync PROVE Owned'
<1>1. /\ pc = "slice" /\ pc' = "calling" /\ Workers = {}
      /\ wpc' = [wpc EXCEPT ![Main] = "run"]
      /\ buf_idx' = [buf_idx EXCEPT ![Main] = p_queue_idx]
      /\ UNCHANGED <<empty_list, task_queue, full_list, p_queue_idx, startSlice>>
  BY DEF SliceEndSync, StartClone
<1>2. TypeConsumers /\ Alone /\ Ownership /\ Control
  BY <1>1 DEF IInv, TypeOK, Owned
<1>3. Main \in Consumers /\ ~Reading(Main) /\ ~startSlice /\ full_list = << >>
  BY <1>1, <1>2, WithoutWorkers DEF Control, Running, Reading, Alone
<1>4. Filling /\ ~Filling'
  BY <1>1, <1>2, ConstantTypes DEF Control, Filling
<1>5. Ownership'
  BY <1>1, <1>2, <1>3, <1>4, ProducerReads
<1>6. Alone'
  BY <1>1, <1>2, <1>3 DEF Alone, TypeConsumers
<1> QED
  BY <1>5, <1>6 DEF Owned

LEMMA SliceStartOwned == ASSUME IInv, SliceStart PROVE Owned'
<1>1. /\ pc = "idle" /\ pc' \notin {"interim", "calling", "crashed"}
      /\ UNCHANGED <<empty_list, task_queue, full_list, buf_idx, p_queue_idx, wpc, startSlice>>
  BY DEF SliceStart, consumerVars
<1>2. Alone /\ Ownership
  BY <1>1 DEF IInv, Owned
<1>3. Ownership'
  BY <1>1, <1>2, SameOwners DEF Reading, Filling
<1>4. Alone'
  BY <1>1, <1>2 DEF Alone
<1> QED
  BY <1>3, <1>4 DEF Owned

LEMMA PushOwned == ASSUME IInv, Push PROVE Owned'
<1>1. /\ pc = "slice" /\ pc' \notin {"interim", "calling", "crashed"}
      /\ UNCHANGED <<empty_list, task_queue, full_list, buf_idx, p_queue_idx, wpc, startSlice>>
  BY DEF Push, consumerVars
<1>2. Alone /\ Ownership
  BY <1>1 DEF IInv, Owned
<1>3. Ownership'
  BY <1>1, <1>2, SameOwners DEF Reading, Filling
<1>4. Alone'
  BY <1>1, <1>2 DEF Alone
<1> QED
  BY <1>3, <1>4 DEF Owned

LEMMA EnterCalleeOwned == ASSUME IInv, EnterCallee PROVE Owned'
<1>1. /\ pc = "slice" /\ pc' \notin {"interim", "calling", "crashed"}
      /\ UNCHANGED <<empty_list, task_queue, full_list, buf_idx, p_queue_idx, wpc, startSlice>>
  BY DEF EnterCallee, consumerVars
<1>2. Alone /\ Ownership
  BY <1>1 DEF IInv, Owned
<1>3. Ownership'
  BY <1>1, <1>2, SameOwners DEF Reading, Filling
<1>4. Alone'
  BY <1>1, <1>2 DEF Alone
<1> QED
  BY <1>3, <1>4 DEF Owned

LEMMA FinishOwned == ASSUME IInv, Finish PROVE Owned'
<1>1. /\ pc = "idle" /\ pc' \notin {"interim", "calling", "crashed"}
      /\ UNCHANGED <<empty_list, task_queue, full_list, buf_idx, p_queue_idx, wpc, startSlice>>
  BY DEF Finish, consumerVars
<1>2. Alone /\ Ownership
  BY <1>1 DEF IInv, Owned
<1>3. Ownership'
  BY <1>1, <1>2, SameOwners DEF Reading, Filling
<1>4. Alone'
  BY <1>1, <1>2 DEF Alone
<1> QED
  BY <1>3, <1>4 DEF Owned

LEMMA JoinOwned == ASSUME IInv, Join PROVE Owned'
<1>1. /\ pc = "joining" /\ pc' \notin {"interim", "calling", "crashed"}
      /\ UNCHANGED <<empty_list, task_queue, full_list, buf_idx, p_queue_idx, wpc, startSlice>>
  BY DEF Join, consumerVars
<1>2. Alone /\ Ownership
  BY <1>1 DEF IInv, Owned
<1>3. Ownership'
  BY <1>1, <1>2, SameOwners DEF Reading, Filling
<1>4. Alone'
  BY <1>1, <1>2 DEF Alone
<1> QED
  BY <1>3, <1>4 DEF Owned

LEMMA ExitOwned == ASSUME IInv, NEW w \in Consumers, Exit(w) PROVE Owned'
<1>1. /\ pc # "crashed" /\ wpc[w] = "poll" /\ wpc' = [wpc EXCEPT ![w] = "exited"]
      /\ UNCHANGED <<empty_list, task_queue, full_list, buf_idx, p_queue_idx, pc, startSlice>>
  BY DEF Exit, producerVars
<1>2. Alone /\ Ownership /\ TypeConsumers
  BY <1>1 DEF IInv, Owned, TypeOK
<1>3. \A u \in Consumers : Reading(u)' = Reading(u)
  BY <1>1, <1>2 DEF Reading, TypeConsumers
<1>4. Ownership'
  BY <1>1, <1>2, <1>3, SameOwners DEF Filling
<1>5. Alone'
  BY <1>1, <1>2, <1>3, WithoutWorkers DEF Alone, Reading
<1> QED
  BY <1>4, <1>5 DEF Owned

LEMMA StealOwned == ASSUME IInv, NEW w \in Consumers, Steal(w) PROVE Owned'
<1>1. /\ pc # "crashed" /\ wpc[w] = "poll" /\ ~Reading(w)
      /\ UNCHANGED <<p_queue_idx, pc>>
  BY DEF Steal, producerVars, Reading
<1>2. Ownership /\ TypeConsumers /\ TypeLists /\ Control
  BY <1>1 DEF IInv, Owned, TypeOK
<1>3. Ownership'
  BY <1>1, <1>2, ConsumerSteals DEF Filling
<1>4. Workers # {}
  BY <1>1, <1>2, WithoutWorkers DEF Control
<1> QED
  BY <1>3, <1>4 DEF Owned, Alone

LEMMA TakeNextOwned == ASSUME IInv, NEW w \in Consumers, TakeNext(w) PROVE Owned'
<1>1. /\ pc # "crashed" /\ ~Reading(w) /\ full_list # << >>
      /\ UNCHANGED <<p_queue_idx, pc>>
  BY DEF TakeNext, producerVars, Reading
<1>2. Ownership /\ TypeConsumers /\ TypeLists /\ Alone
  BY <1>1 DEF IInv, Owned, TypeOK
<1>3. Ownership'
  BY <1>1, <1>2, ConsumerTakes DEF Filling
<1>4. Workers # {}
  BY <1>1, <1>2 DEF Alone
<1> QED
  BY <1>3, <1>4 DEF Owned, Alone

(* What Read, Dummy and EnterClone within a buffer have in common.         *)
LEMMA StaysOwned ==
  ASSUME IInv, pc # "crashed",
         UNCHANGED <<empty_list, task_queue, full_list, buf_idx, p_queue_idx,
                     pc, startSlice, wpc>>
  PROVE  Owned'
<1>1. Alone /\ Ownership
  BY DEF IInv, Owned
<1>2. Ownership'
  BY <1>1, SameOwners DEF Reading, Filling
<1>3. Alone'
  BY <1>1 DEF Alone
<1> QED
  BY <1>2, <1>3 DEF Owned

LEMMA ReadOwned == ASSUME IInv, NEW w \in Consumers, Read(w) PROVE Owned'
BY StaysOwned DEF Read, MayDo, producerVars

LEMMA DummyOwned == ASSUME IInv, NEW w \in Consumers, Dummy(w) PROVE Owned'
BY StaysOwned DEF Dummy, MayDo, producerVars

(* A clone that has used up its buffer gives it back.                      *)
LEMMA ReleaseOwned ==
  ASSUME IInv, NEW w \in Consumers, pc # "crashed", Reading(w), Release(w),
         UNCHANGED <<task_queue, full_list, buf_idx, p_queue_idx, pc, startSlice>>
  PROVE  Owned'
<1>1. PushEmpty(buf_idx[w]) /\ wpc' = [wpc EXCEPT ![w] = "interim"]
  BY DEF Release
<1>2. Ownership /\ TypeConsumers /\ TypeLists /\ Alone /\ Control
  BY DEF IInv, Owned, TypeOK
<1>3. Ownership'
  BY <1>1, <1>2, ConsumerGives DEF Filling
<1>4. ASSUME Workers = {} PROVE ~startSlice /\ wpc'[Main] = "interim"
  BY <1>1, <1>2, <1>4, WithoutWorkers DEF Control, Running, Reading, Alone, TypeConsumers
<1>5. Alone'
  BY <1>2, <1>4 DEF Alone
<1> QED
  BY <1>3, <1>5 DEF Owned

LEMMA ReadFromNextOwned ==
  ASSUME IInv, NEW w \in Consumers, ReadFromNext(w) PROVE Owned'
BY ReleaseOwned DEF ReadFromNext, MayDo, Reading, producerVars

LEMMA EnterCloneOwned ==
  ASSUME IInv, NEW w \in Consumers, EnterClone(w) PROVE Owned'
<1>1. /\ pc # "crashed" /\ Reading(w)
      /\ UNCHANGED <<task_queue, full_list, buf_idx, p_queue_idx, pc, startSlice>>
  BY DEF EnterClone, RunsCallee, MayDo, Reading, producerVars
<1>2. CASE CQIdx[w] < BufSize
  BY <1>1, <1>2, StaysOwned DEF EnterClone
<1>3. CASE ~(CQIdx[w] < BufSize)
  BY <1>1, <1>3, ReleaseOwned DEF EnterClone
<1> QED
  BY <1>2, <1>3

LEMMA ShadowEndOwned ==
  ASSUME IInv, NEW w \in Consumers, ShadowEnd(w) PROVE Owned'
<1>1. /\ pc # "crashed" /\ Reading(w) /\ w # Main /\ PushEmpty(buf_idx[w])
      /\ wpc' = [wpc EXCEPT ![w] = "poll"]
      /\ UNCHANGED <<task_queue, full_list, buf_idx, p_queue_idx, pc, startSlice>>
  BY DEF ShadowEnd, EndClone, MayDo, Reading
<1>2. Ownership /\ TypeConsumers /\ TypeLists
  BY <1>1 DEF IInv, Owned, TypeOK
<1>3. Ownership'
  BY <1>1, <1>2, ConsumerGives DEF Filling
<1>4. Workers # {}
  BY <1>1, WithoutWorkers
<1> QED
  BY <1>3, <1>4 DEF Owned, Alone

LEMMA ShadowEndSyncOwned ==
  ASSUME IInv, NEW w \in Consumers, ShadowEndSync(w) PROVE Owned'
<1>1. /\ pc # "crashed" /\ Reading(w) /\ w = Main /\ PushEmpty(p_queue_idx)
      /\ wpc' = [wpc EXCEPT ![w] = "idle"] /\ pc' = "idle" /\ p_queue_idx' = NoBuf
      /\ UNCHANGED <<task_queue, full_list, buf_idx, startSlice>>
  BY DEF ShadowEndSync, EndClone, MayDo, Reading
<1>2. Ownership /\ TypeConsumers /\ TypeLists /\ Alone /\ Control
  BY <1>1 DEF IInv, Owned, TypeOK
<1>3. pc = "calling" /\ Workers = {} /\ buf_idx[w] = p_queue_idx /\ full_list = << >> /\ ~startSlice
  BY <1>1, <1>2 DEF Control, Running, Reading, Alone
<1>4. ~Filling /\ ~Filling'
  BY <1>1, <1>3 DEF Filling
<1>5. Ownership'
  <2>1. PushEmpty(buf_idx[w]) /\ "idle" \in {"interim", "poll", "idle"}
    BY <1>1, <1>3
  <2>2. /\ wpc' = [wpc EXCEPT ![w] = "idle"] /\ UNCHANGED <<task_queue, full_list, buf_idx>>
        /\ Filling' = Filling /\ (Filling => p_queue_idx' = p_queue_idx) /\ Reading(w)
    BY <1>1, <1>4 DEF Filling
  <2> QED
    BY <1>2, <2>1, <2>2, ConsumerGives
<1>6. Alone'
  BY <1>1, <1>2, <1>3 DEF Alone, TypeConsumers
<1> QED
  BY <1>5, <1>6 DEF Owned

LEMMA NextOwned == ASSUME IInv, [Next]_vars PROVE Owned'
<1>1. CASE Producer
  BY <1>1, GetBufAddrOwned, SliceStartOwned, PushOwned, InterimHandOverOwned,
     InterimTakeOwned, EnterCalleeOwned, SliceEndOwned, SliceEndSyncOwned,
     FinishOwned, JoinOwned DEF Producer
<1>2. ASSUME NEW w \in Consumers, Consumer(w) PROVE Owned'
  <2>1. CASE Crash(w)
    BY <2>1 DEF Crash, Owned
  <2> QED
    BY <1>2, <2>1, ExitOwned, StealOwned, ReadOwned, ReadFromNextOwned, TakeNextOwned,
       EnterCloneOwned, DummyOwned, ShadowEndOwned, ShadowEndSyncOwned DEF Consumer
<1>3. CASE UNCHANGED vars
  <2>1. CASE pc = "crashed"
    BY <1>3, <2>1 DEF Owned, vars, producerVars
  <2>2. CASE pc # "crashed"
    BY <1>3, <2>2, StaysOwned DEF vars, producerVars, consumerVars
  <2> QED
    BY <2>1, <2>2
<1> QED
  BY <1>1, <1>2, <1>3 DEF Next, Terminated

(* The invariant is inductive.                                             *)
THEOREM Inductive == Spec => []IInv
<1>1. Init => IInv
  BY InitTyped, InitOwned DEF IInv, Typed
<1>2. IInv /\ [Next]_vars => IInv'
  BY NextTyped, NextOwned DEF IInv, Typed
<1> QED
  BY <1>1, <1>2, PTL DEF Spec

-----------------------------------------------------------------------------
(* From the invariant to the property: a list without repetitions holds a  *)
(* buffer at one place at most.                                            *)
Places(name, s, b) == {<<name, i>> : i \in {j \in 1 .. Len(s) : s[j] = b}}

LEMMA PlaceIn ==
  ASSUME NEW name, NEW s, NEW b \in Elems(s), NoRepeat(s)
  PROVE  \E x : Places(name, s, b) = {x}
<1>1. PICK i \in 1 .. Len(s) : s[i] = b
  BY DEF Elems
<1>2. {j \in 1 .. Len(s) : s[j] = b} = {i}
  BY <1>1 DEF NoRepeat
<1>3. Places(name, s, b) = {<<name, i>>}
  BY <1>2 DEF Places
<1> QED
  BY <1>3

LEMMA NoPlaceIn ==
  ASSUME NEW name, NEW s, NEW b, b \notin Elems(s)
  PROVE  Places(name, s, b) = {}
BY DEF Places, Elems

LEMMA OwnersParts ==
  ASSUME TypeLists, NEW b \in Buffers
  PROVE  Owners(b) =
           Places("empty_list", empty_list, b)
           \cup Places("task_queue", BufsOf(task_queue), b)
           \cup Places("full_list", full_list, b)
           \cup (IF Filling /\ p_queue_idx = b THEN {<<"producer", 0>>} ELSE {})
           \cup {<<"consumer", w>> : w \in {v \in Consumers : ConsumerHolds(v, b)}}
<1>1. Len(BufsOf(task_queue)) = Len(task_queue)
  BY BufsOfType DEF TypeLists
<1>2. \A j \in 1 .. Len(task_queue) : BufsOf(task_queue)[j] = task_queue[j].buf
  BY DEF BufsOf
<1>3. {j \in 1 .. Len(task_queue) : task_queue[j].buf = b}
        = {j \in 1 .. Len(BufsOf(task_queue)) : BufsOf(task_queue)[j] = b}
  BY <1>1, <1>2
<1>4. ProducerHolds(b) <=> Filling /\ p_queue_idx = b
  BY ConstantTypes DEF ProducerHolds, Filling
<1>5. {<<"producer", 0>> : i \in {j \in {0} : ProducerHolds(b)}}
        = IF Filling /\ p_queue_idx = b THEN {<<"producer", 0>>} ELSE {}
  BY <1>4
<1> QED
  BY <1>3, <1>5 DEF Owners, Places

LEMMA OneOwnerOfAll == ASSUME IInv PROVE OneOwner
<1> SUFFICES ASSUME pc # "crashed", NEW b \in Buffers
             PROVE  Cardinality(Owners(b)) = 1
  BY DEF OneOwner
<1>1. Ownership /\ TypeLists
  BY DEF IInv, Owned, TypeOK
<1> DEFINE E == Places("empty_list", empty_list, b)
           T == Places("task_queue", BufsOf(task_queue), b)
           F == Places("full_list", full_list, b)
           P == IF Filling /\ p_queue_idx = b THEN {<<"producer", 0>>} ELSE {}
           C == {<<"consumer", w>> : w \in {v \in Consumers : ConsumerHolds(v, b)}}
<1>2. Owners(b) = E \cup T \cup F \cup P \cup C
  BY <1>1, OwnersParts
<1>3. /\ b \in Empty => \E x : E = {x}
      /\ b \notin Empty => E = {}
  BY <1>1, PlaceIn, NoPlaceIn DEF Empty, Ownership, NoRepeats
<1>4. /\ b \in Tasked => \E x : T = {x}
      /\ b \notin Tasked => T = {}
  BY <1>1, PlaceIn, NoPlaceIn DEF Tasked, Ownership, NoRepeats
<1>5. /\ b \in Full => \E x : F = {x}
      /\ b \notin Full => F = {}
  <2>1. NoRepeat(full_list) /\ Full = Elems(full_list)
    BY <1>1 DEF Full, Ownership, NoRepeats
  <2>2. CASE b \in Full
    BY <2>1, <2>2, PlaceIn
  <2>3. CASE b \notin Full
    BY <2>1, <2>3, NoPlaceIn
  <2> QED
    BY <2>2, <2>3
<1>6. ASSUME NEW w \in Consumers, Reading(w), buf_idx[w] = b
      PROVE  C = {<<"consumer", w>>}
  <2>1. {v \in Consumers : ConsumerHolds(v, b)} = {w}
    BY <1>1, <1>6 DEF Ownership, Apart, ConsumerHolds, Reading
  <2> QED
    BY <2>1
<1>7. (\A w \in Consumers : ~(Reading(w) /\ buf_idx[w] = b)) => C = {}
  BY DEF ConsumerHolds, Reading
<1>8. /\ Filling /\ p_queue_idx = b => P = {<<"producer", 0>>}
      /\ ~(Filling /\ p_queue_idx = b) => P = {}
  OBVIOUS
<1> HIDE DEF E, T, F, P, C
<1>9. \E x : E \cup T \cup F \cup P \cup C = {x}
  <2>1. \/ b \in Empty \/ b \in Tasked \/ b \in Full
        \/ Filling /\ p_queue_idx = b
        \/ \E w \in Consumers : Reading(w) /\ buf_idx[w] = b
    BY <1>1 DEF Ownership, Covered, Listed
  <2>2. CASE b \in Listed
    <3>1. P = {} /\ C = {}
      BY <1>1, <1>7, <1>8, <2>2 DEF Ownership, Apart
    <3>2. \/ (\E x : E = {x}) /\ T = {} /\ F = {}
          \/ E = {} /\ (\E x : T = {x}) /\ F = {}
          \/ E = {} /\ T = {} /\ \E x : F = {x}
      BY <1>1, <1>3, <1>4, <1>5, <2>2 DEF Ownership, Apart, Listed
    <3> QED
      BY <3>1, <3>2
  <2>3. CASE b \notin Listed
    <3>1. E = {} /\ T = {} /\ F = {}
      BY <1>3, <1>4, <1>5, <2>3 DEF Listed
    <3>2. CASE Filling /\ p_queue_idx = b
      <4>1. P = {<<"producer", 0>>} /\ C = {}
        BY <1>1, <1>7, <1>8, <3>2 DEF Ownership, Apart
      <4> QED
        BY <3>1, <4>1
    <3>3. CASE ~(Filling /\ p_queue_idx = b)
      <4>1. PICK w \in Consumers : Reading(w) /\ buf_idx[w] = b
        BY <2>1, <2>3, <3>3 DEF Listed
      <4>2. P = {} /\ C = {<<"consumer", w>>}
        BY <1>6, <1>8, <3>3, <4>1
      <4> QED
        BY <3>1, <4>2
    <3> QED
      BY <3>2, <3>3
  <2> QED
    BY <2>2, <2>3
<1>10. PICK x : Owners(b) = {x}
  BY <1>2, <1>9
<1> QED
  BY <1>10, FS_Singleton

(* Whatever the slices do and however many workers there are, a buffer is  *)
(* always in exactly one place: in empty_list, task_queue or full_list,    *)
(* being filled by the producer or being read by one clone.                *)
THEOREM BufferOwnership == Spec => []OneOwner
<1>1. IInv => OneOwner
  BY OneOwnerOfAll
<1> QED
  BY Inductive, <1>1, PTL

-----------------------------------------------------------------------------
(* A list of buffers without repetitions that lacks a buffer is shorter    *)
(* than the number of buffers.                                             *)
LEMMA ShortList ==
  ASSUME NEW s \in Seq(Buffers), NoRepeat(s), NEW b \in Buffers, b \notin Elems(s)
  PROVE  Len(s) < NumQueues
<1> DEFINE others == Buffers \ {b}
<1>1. NumQueues \in Nat /\ Len(s) \in Nat
  BY ConstantTypes
<1>2. 0 - 1 < NumQueues /\ 0 \in Int /\ NumQueues - 1 \in Int
  BY <1>1
<1>3. IsFiniteSet(Buffers) /\ Cardinality(Buffers) = NumQueues
  <2>1. IsFiniteSet(0 .. NumQueues - 1)
    BY <1>2, FS_Interval
  <2>2. Cardinality(0 .. NumQueues - 1) = IF 0 > NumQueues - 1 THEN 0 ELSE (NumQueues - 1) - 0 + 1
    BY <1>2, FS_Interval
  <2> QED
    BY <1>1, <2>1, <2>2 DEF Buffers
<1>4. IsFiniteSet(others) /\ Cardinality(others) = NumQueues - 1
  BY <1>3, FS_RemoveElement
<1>5. IsFiniteSet(1 .. Len(s)) /\ Cardinality(1 .. Len(s)) = Len(s)
  <2>1. Cardinality(1 .. Len(s)) = IF 1 > Len(s) THEN 0 ELSE Len(s) - 1 + 1
    BY <1>1, FS_Interval
  <2> QED
    BY <1>1, <2>1, FS_Interval
<1>6. s \in [1 .. Len(s) -> others]
  BY DEF Elems
<1>7. ASSUME Cardinality(others) < Cardinality(1 .. Len(s))
      PROVE  FALSE
  <2> HIDE DEF others
  <2>1. \E i, j \in 1 .. Len(s) : i # j /\ s[i] = s[j]
    BY <1>4, <1>5, <1>6, <1>7, FS_PigeonHole
  <2> QED
    BY <2>1 DEF NoRepeat
<1> HIDE DEF others
<1> QED
  BY <1>1, <1>4, <1>5, <1>7

LEMMA RoomToPush == ASSUME IInv PROVE PushesDoNotBlock
<1> SUFFICES ASSUME pc # "crashed" PROVE
      /\ pc = "slice" => Len(task_queue) < NumQueues
      /\ \A w \in Consumers : wpc[w] = "run" => Len(empty_list) < NumQueues
  BY DEF PushesDoNotBlock
<1>1. TypeLists /\ TypeConsumers /\ Control /\ Ownership
  BY DEF IInv, Owned, TypeOK
<1>2. ASSUME pc = "slice" PROVE Len(task_queue) < NumQueues
  <2>1. Filling /\ p_queue_idx \in Buffers
    BY <1>1, <1>2, ConstantTypes DEF Control, Filling
  <2>2. p_queue_idx \notin Elems(BufsOf(task_queue)) /\ NoRepeat(BufsOf(task_queue))
    BY <1>1, <2>1 DEF Ownership, Apart, NoRepeats, Listed, Tasked
  <2>3. BufsOf(task_queue) \in Seq(Buffers) /\ Len(BufsOf(task_queue)) = Len(task_queue)
    BY <1>1, BufsOfType DEF TypeLists
  <2> QED
    BY <2>1, <2>2, <2>3, ShortList
<1>3. ASSUME NEW w \in Consumers, wpc[w] = "run" PROVE Len(empty_list) < NumQueues
  <2>1. buf_idx[w] \in Buffers /\ empty_list \in Seq(Buffers)
    BY <1>1 DEF TypeConsumers, TypeLists
  <2>2. buf_idx[w] \notin Elems(empty_list) /\ NoRepeat(empty_list)
    BY <1>1, <1>3 DEF Ownership, Apart, NoRepeats, Listed, Empty, Reading
  <2> QED
    BY <2>1, <2>2, ShortList
<1> QED
  BY <1>2, <1>3

(* Whatever the slices do and however many workers there are, no thread    *)
(* ever waits to push: the producer finds room in task_queue, and a clone  *)
(* that gives its buffer back finds room in empty_list.                    *)
THEOREM RoomForPushes == Spec => []PushesDoNotBlock
<1>1. IInv => PushesDoNotBlock
  BY RoomToPush
<1> QED
  BY Inductive, <1>1, PTL

=============================================================================
