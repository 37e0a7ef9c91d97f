---------------------- MODULE SliceQueuesStreamProofs ----------------------
(***************************************************************************)
(* Proofs about SliceQueues on the executions the hand-over is made for:   *)
(* that SInv is inductive, and from it that the queues implement the       *)
(* per-slice streams of SliceStreams and the properties that follow, for   *)
(* any number of workers, any buffer size and any execution.               *)
(***************************************************************************)
EXTENDS SliceQueuesStreamInv, SliceQueuesProofs

-----------------------------------------------------------------------------
(* Counting the values of a slice.                                         *)

LEMMA CountFinite ==
  ASSUME NEW ops, NEW n \in Nat
  PROVE  IsFiniteSet({i \in 1 .. n : ops[i] = "val"})
<1>1. IsFiniteSet(1 .. n) /\ {i \in 1 .. n : ops[i] = "val"} \in SUBSET (1 .. n)
  BY FS_Interval
<1> QED
  BY <1>1, FS_Subset

LEMMA CountType == ASSUME NEW ops, NEW n \in Nat PROVE Count(ops, n) \in Nat
BY CountFinite, FS_CardinalityType DEF Count

LEMMA CountZero == ASSUME NEW ops PROVE Count(ops, 0) = 0
<1>1. {i \in 1 .. 0 : ops[i] = "val"} = {}
  OBVIOUS
<1> QED
  BY <1>1, FS_EmptySet DEF Count

LEMMA CountStep ==
  ASSUME NEW ops, NEW n \in Nat
  PROVE  Count(ops, n + 1) = Count(ops, n) + IF ops[n + 1] = "val" THEN 1 ELSE 0
<1> DEFINE S == {i \in 1 .. n : ops[i] = "val"}
           T == {i \in 1 .. n + 1 : ops[i] = "val"}
<1>1. IsFiniteSet(S) /\ n + 1 \notin S
  BY CountFinite
<1>2. CASE ops[n + 1] = "val"
  <2>1. T = S \cup {n + 1}
    BY <1>2
  <2>2. Cardinality(S \cup {n + 1}) = Cardinality(S) + 1
    BY <1>1, FS_AddElement
  <2> QED
    BY <1>2, <2>1, <2>2 DEF Count
<1>3. CASE ops[n + 1] # "val"
  <2>1. T = S
    BY <1>3
  <2>2. Cardinality(S) \in Nat
    BY <1>1, FS_CardinalityType
  <2> QED
    BY <1>3, <2>1, <2>2 DEF Count
<1> QED
  BY <1>2, <1>3

LEMMA CountGrows ==
  ASSUME NEW ops, NEW m \in Nat, NEW n \in Nat, m <= n
  PROVE  Count(ops, m) <= Count(ops, n)
<1> DEFINE S == {i \in 1 .. m : ops[i] = "val"}
           T == {i \in 1 .. n : ops[i] = "val"}
<1>1. IsFiniteSet(T) /\ S \in SUBSET T
  BY CountFinite
<1> QED
  BY <1>1, FS_Subset DEF Count

-----------------------------------------------------------------------------
(* What the inductive invariant says of a running program, in the form the *)
(* steps need it.                                                          *)

Safe == IInv /\ Supported /\ StreamInv

(* The slices of the execution and what they do.                           *)
LEMMA CountersType ==
  ASSUME TypeOK
  PROVE  Len(program) \in Nat /\ slice \in Nat /\ opIdx \in Nat
BY ProgramsAssumption DEF TypeOK, TypeProducer

LEMMA SliceType ==
  ASSUME TypeOK, NEW s \in Slices
  PROVE  /\ s \in Nat /\ s > 0 /\ s <= Len(program)
         /\ program[s] \in Seq(Ops) /\ Len(program[s]) \in Nat
         /\ Total(s) \in Nat
<1>1. program \in Seq(Seq(Ops)) /\ Len(program) \in Nat
  BY ProgramsAssumption DEF TypeOK
<1>2. s \in Nat /\ s > 0 /\ s <= Len(program)
  BY <1>1 DEF Slices
<1>3. program[s] \in Seq(Ops) /\ Len(program[s]) \in Nat
  BY <1>1 DEF Slices
<1> QED
  BY <1>2, <1>3, CountType DEF ValuesUpTo, Total

(* One more operation.                                                     *)
LEMMA OneMore ==
  ASSUME TypeOK, NEW s \in Slices, NEW n \in Nat, n < Len(program[s])
  PROVE  /\ program[s][n + 1] \in Ops
         /\ ValuesUpTo(s, n + 1)
              = ValuesUpTo(s, n) + IF program[s][n + 1] = "val" THEN 1 ELSE 0
         /\ ValuesUpTo(s, n + 1) <= Total(s)
<1>1. program[s] \in Seq(Ops) /\ Len(program[s]) \in Nat /\ n + 1 \in 1 .. Len(program[s])
  BY SliceType
<1>2. program[s][n + 1] \in Ops
  BY <1>1
<1>3. Count(program[s], n + 1) <= Count(program[s], Len(program[s]))
  BY <1>1, CountGrows
<1> QED
  BY <1>2, <1>3, CountStep DEF ValuesUpTo, Total

LEMMA UpToTotal ==
  ASSUME TypeOK, NEW s \in Slices, NEW n \in Nat, n <= Len(program[s])
  PROVE  ValuesUpTo(s, n) <= Total(s)
BY SliceType, CountGrows DEF ValuesUpTo, Total

(* Where a callee is entered.                                              *)
LEMMA CalleeAt ==
  ASSUME TypeOK, Supported, NEW s \in Slices, NEW n \in Nat, n < Len(program[s]),
         program[s][n + 1] # "val"
  PROVE  /\ ValuesUpTo(s, n + 1) = ValuesUpTo(s, n)
         /\ \/ ValuesUpTo(s, n) < BufSize
            \/ /\ ValuesUpTo(s, n) = BufSize
               /\ n + 1 < Len(program[s]) /\ program[s][n + 2] = "val"
         /\ AllCalls(s)
<1>1. n + 1 \in 1 .. Len(program[s]) /\ Len(program[s]) \in Nat /\ ValuesUpTo(s, n) \in Nat
  BY SliceType, ValuesUpToNat
<1>2. ValuesUpTo(s, n + 1) = ValuesUpTo(s, n)
  BY <1>1, OneMore
<1>3. CalleesFirst(s)
  BY DEF Supported
<1>4. (n + 1) + 1 = n + 2
  OBVIOUS
<1> QED
  BY <1>1, <1>2, <1>3, <1>4 DEF CalleesFirst, AllCalls, Calls

(* The places in the queues.                                               *)
LEMMA InTasked ==
  ASSUME TypeLists, NEW j \in 1 .. Len(task_queue)
  PROVE  /\ task_queue[j].buf \in Tasked /\ task_queue[j].buf \in Buffers
         /\ task_queue[j].task \in Slices
<1>1. task_queue[j] \in [task : Slices, buf : Buffers] /\ Len(task_queue) \in Nat
  BY ElementOfSeq, LenProperties DEF TypeLists
<1>2. Len(BufsOf(task_queue)) = Len(task_queue) /\ BufsOf(task_queue)[j] = task_queue[j].buf
  BY BufsOfType DEF TypeLists, BufsOf
<1> QED
  BY <1>1, <1>2 DEF Tasked, Elems

LEMMA InFull ==
  ASSUME TypeLists, NEW j \in 1 .. Len(full_list)
  PROVE  full_list[j] \in Full /\ full_list[j] \in Buffers
<1>1. full_list[j] \in Buffers /\ Len(full_list) \in Nat
  BY ElementOfSeq, LenProperties DEF TypeLists
<1> QED
  BY <1>1 DEF Full, Elems

(* No clone is lost, so each does what its slice did next.                 *)
LEMMA Follower ==
  ASSUME Safe, NEW w \in Consumers, Running(w)
  PROVE  /\ task[w] \in Slices /\ Replays(w, task[w]) /\ ~Lost(w)
         /\ Len(shadowed[task[w]]) \in Nat /\ wop[w] \in Nat
         /\ CQIdx[w] \in 0 .. BufSize /\ buf_idx[w] \in Buffers
         /\ wpc[w] \in {"run", "interim"}
         /\ Advance(w) => wop' = [wop EXCEPT ![w] = @ + 1]
<1>1. task[w] \in Slices /\ Replays(w, task[w])
  BY DEF Safe, IInv, Control, Running, StreamInv, Replaying
<1>2. ~Lost(w)
  BY <1>1 DEF Safe, StreamInv, Recorded, Lost
<1>3. shadowed[task[w]] \in Seq(Values)
  BY <1>1 DEF Safe, IInv, TypeOK, TypeHistory
<1> QED
  BY <1>1, <1>2, <1>3 DEF Advance, Safe, IInv, TypeOK, TypeConsumers, Running

(* Its next operation.                                                     *)
LEMMA NextOfSlice ==
  ASSUME Safe, NEW w \in Consumers, Running(w)
  PROVE  /\ NextOp(w) # "end" =>
              /\ wop[w] < Len(program[task[w]])
              /\ NextOp(w) = program[task[w]][wop[w] + 1]
         /\ NextOp(w) = "val" =>
              /\ ValuesUpTo(task[w], wop[w] + 1) = Len(shadowed[task[w]]) + 1
              /\ Len(shadowed[task[w]]) < Total(task[w])
         /\ NextOp(w) = "end" => Len(shadowed[task[w]]) = Total(task[w])
         /\ \A op : MayDo(w, op) => NextOp(w) = op /\ wpc[w] = "run"
<1> DEFINE s == task[w]
<1>1. s \in Slices /\ Replays(w, s) /\ ~Lost(w) /\ wop[w] \in Nat /\ TypeOK
  BY Follower DEF Safe, IInv
<1>2. wop[w] <= Len(program[s]) /\ Len(shadowed[s]) = ValuesUpTo(s, wop[w])
  BY <1>1 DEF Replays
<1>3. Len(program[s]) \in Nat /\ Total(s) \in Nat /\ ValuesUpTo(s, wop[w]) \in Nat
  BY <1>1, SliceType, ValuesUpToNat
<1>4. CASE wop[w] < Len(program[s])
  <2>1. NextOp(w) = program[s][wop[w] + 1] /\ NextOp(w) \in Ops
    BY <1>1, <1>4, OneMore DEF NextOp
  <2>2. NextOp(w) # "end"
    BY <2>1 DEF Ops
  <2>3. NextOp(w) = "val" => ValuesUpTo(s, wop[w] + 1) = Len(shadowed[s]) + 1
                             /\ Len(shadowed[s]) < Total(s)
    <3>1. /\ ValuesUpTo(s, wop[w] + 1)
               = ValuesUpTo(s, wop[w]) + IF program[s][wop[w] + 1] = "val" THEN 1 ELSE 0
          /\ ValuesUpTo(s, wop[w] + 1) <= Total(s)
      BY <1>1, <1>4, OneMore
    <3> QED
      BY <1>2, <1>3, <2>1, <3>1
  <2> QED
    BY <1>1, <1>4, <2>1, <2>2, <2>3 DEF MayDo
<1>5. CASE ~(wop[w] < Len(program[s]))
  <2>1. NextOp(w) = "end" /\ wop[w] = Len(program[s])
    BY <1>1, <1>2, <1>3, <1>5 DEF NextOp
  <2> QED
    BY <1>1, <1>2, <2>1 DEF MayDo, Total
<1> QED
  BY <1>4, <1>5

-----------------------------------------------------------------------------
(* What one part of the invariant needs from a step to survive it.         *)

LEMMA AwaitKept ==
  ASSUME NEW s, NEW n, Await(s, n), Ended(s) => Ended(s)',
         HandedOver(s)' = HandedOver(s), full_list' = full_list,
         \A i \in 1 .. Len(full_list) : queue'[full_list[i]] = queue[full_list[i]]
  PROVE  Await(s, n)'
BY DEF Await, IsContinuation, SliceOf, Base

LEMMA TaskKept ==
  ASSUME NEW t, IsTask(t), Given(t.task)', Await(t.task, BufSize)',
         shadowed'[t.task] = shadowed[t.task], reported'[t.task] = reported[t.task],
         program' = program, queue'[t.buf] = queue[t.buf], clone_map \subseteq clone_map'
  PROVE  IsTask(t)'
BY DEF IsTask, IsPart, Has, Total, ValuesUpTo, AllCalls, Calls

LEMMA ReplaysKept ==
  ASSUME NEW w, NEW s, Replays(w, s), task[w] = s, Given(s)', Await(s, Position(w))',
         wpc'[w] = wpc[w], task'[w] = task[w], buf_id'[w] = buf_id[w],
         wop'[w] = wop[w], buf_idx'[w] = buf_idx[w], CQIdx'[w] = CQIdx[w],
         shadowed'[s] = shadowed[s], reported'[s] = reported[s],
         program' = program, clone_map \subseteq clone_map', init_flag \subseteq init_flag',
         wpc[w] = "run" => queue'[buf_idx[w]] = queue[buf_idx[w]],
         \A j \in 1 .. Len(task_queue') : s < task_queue'[j].task
  PROVE  Replays(w, s)'
<1>1. (OnFirst(w) \/ OnLater(w))'
  BY DEF Replays, OnFirst, OnLater, NextOp
<1>2. wpc'[w] = "run" => IsPart(buf_idx[w], s, Len(shadowed[s]) - CQIdx[w])'
  BY DEF Replays, IsPart, Has, Total, ValuesUpTo
<1>3. AllCalls(s)' <=> AllCalls(s)
  BY DEF AllCalls, Calls
<1>4. ValuesUpTo(s, wop[w])' = ValuesUpTo(s, wop[w])
  BY DEF ValuesUpTo
<1> QED
  BY <1>1, <1>2, <1>3, <1>4 DEF Replays

LEMMA FollowsKept ==
  ASSUME NEW b, NEW s, NEW n, Follows(b, s, n), Given(s)', Await(s, n + BufSize)',
         reported'[s] = reported[s], program' = program, queue'[b] = queue[b],
         \A w \in Consumers : Running(w)' /\ task'[w] = s => Position(w)' <= n
  PROVE  Follows(b, s, n)'
BY DEF Follows, IsPart, Has, Total, ValuesUpTo

LEMMA ContinuationKept ==
  ASSUME NEW b, queue'[b] = queue[b]
  PROVE  SliceOf(b)' = SliceOf(b) /\ Base(b)' = Base(b)
BY DEF SliceOf, Base

(* The buffers that somebody else than the producer has keep their         *)
(* contents: the producer writes to the one it holds only.                 *)
WritesOwn == \A b \in Buffers : ~(Filling /\ p_queue_idx = b) => queue'[b] = queue[b]

LEMMA OthersKept ==
  ASSUME IInv, pc # "crashed", WritesOwn
  PROVE  /\ \A j \in 1 .. Len(task_queue) : queue'[task_queue[j].buf] = queue[task_queue[j].buf]
         /\ \A i \in 1 .. Len(full_list) : queue'[full_list[i]] = queue[full_list[i]]
         /\ \A w \in Consumers : wpc[w] = "run" => queue'[buf_idx[w]] = queue[buf_idx[w]]
<1>1. TypeLists /\ TypeConsumers /\ Apart
  BY DEF IInv, TypeOK, Owned, Ownership
<1>2. \A b \in Listed : b \in Buffers => queue'[b] = queue[b]
  BY <1>1 DEF Apart, WritesOwn
<1>3. \A w \in Consumers : wpc[w] = "run" => queue'[buf_idx[w]] = queue[buf_idx[w]]
  BY <1>1 DEF Apart, Reading, TypeConsumers, WritesOwn
<1> QED
  BY <1>1, <1>2, <1>3, InTasked, InFull DEF Listed

(* A step after which every slice that was given is still where it was.    *)
SameStreams ==
  /\ \A s \in Slices : Given(s)' <=> Given(s)
  /\ \A s \in Slices : Given(s) => (Ended(s) => Ended(s)') /\ HandedOver(s)' = HandedOver(s)

(* The producer's steps that hand nothing over.                            *)
LEMMA ProducerKeeps ==
  ASSUME Safe, WritesOwn, SameStreams,
         UNCHANGED <<program, task_queue, full_list, consumerVars, init_flag,
                     shadowed, reported>>,
         clone_map \subseteq clone_map', fini => fini',
         pc' = "done" => \A w \in Workers : wpc[w] = "exited"
  PROVE  Queued' /\ Replaying' /\ Continuing' /\ Recorded'
<1>1. /\ IInv /\ TypeLists /\ pc # "crashed"
      /\ Queued /\ Replaying /\ Continuing /\ Recorded
  BY DEF Safe, IInv, TypeOK, StreamInv, Producing
<1>2. /\ \A j \in 1 .. Len(task_queue) : queue'[task_queue[j].buf] = queue[task_queue[j].buf]
      /\ \A i \in 1 .. Len(full_list) : queue'[full_list[i]] = queue[full_list[i]]
      /\ \A w \in Consumers : wpc[w] = "run" => queue'[buf_idx[w]] = queue[buf_idx[w]]
  BY <1>1, OthersKept
<1>3. \A s, n : Given(s) /\ Await(s, n) => Given(s)' /\ Await(s, n)'
  <2> SUFFICES ASSUME NEW s, NEW n, Given(s), Await(s, n)
               PROVE  Given(s)' /\ Await(s, n)'
    OBVIOUS
  <2>1. s \in Slices
    BY DEF Given
  <2>2. Given(s)' /\ (Ended(s) => Ended(s)') /\ HandedOver(s)' = HandedOver(s)
    BY <2>1 DEF SameStreams
  <2> QED
    BY <1>2, <2>2, AwaitKept
<1>4. Queued'
  <2>1. ASSUME NEW j \in 1 .. Len(task_queue)
        PROVE  IsTask(task_queue[j])'
    <3>1. IsTask(task_queue[j])
      BY <1>1 DEF Queued
    <3>2. Given(task_queue[j].task)' /\ Await(task_queue[j].task, BufSize)'
      BY <1>3, <3>1 DEF IsTask
    <3> QED
      BY <1>2, <3>1, <3>2, TaskKept
  <2> QED
    BY <1>1, <2>1 DEF Queued
<1>5. \A w : Position(w)' = Position(w)
  BY DEF Position, consumerVars
<1>6. \A w : Running(w)' <=> Running(w)
  BY DEF Running, consumerVars
<1>7. Replaying'
  <2>1. ASSUME NEW w \in Consumers, Running(w)
        PROVE  Replays(w, task[w])'
    <3>1. Replays(w, task[w])
      BY <1>1, <2>1 DEF Replaying
    <3>2. Given(task[w])' /\ Await(task[w], Position(w))'
      BY <1>3, <1>5, <3>1 DEF Replays, consumerVars
    <3>3. \A j \in 1 .. Len(task_queue') : task[w] < task_queue'[j].task
      BY <3>1 DEF Replays
    <3> QED
      BY <1>2, <3>1, <3>2, <3>3, ReplaysKept DEF consumerVars
  <2> QED
    BY <1>1, <1>6, <2>1 DEF Replaying, consumerVars
<1>8. Continuing'
  <2>1. ASSUME NEW i \in 1 .. Len(full_list)
        PROVE  Follows(full_list[i], SliceOf(full_list[i]), Base(full_list[i]))'
    <3>0. PICK b, s, n : b = full_list[i] /\ s = SliceOf(b) /\ n = Base(b)
      OBVIOUS
    <3>1. Follows(b, s, n)
      BY <1>1, <3>0 DEF Continuing
    <3>2. Given(s)' /\ Await(s, n + BufSize)'
      BY <1>3, <3>1 DEF Follows
    <3>3. \A w \in Consumers : Running(w)' /\ task'[w] = s => Position(w)' <= n
      BY <1>5, <1>6, <3>1 DEF Follows, consumerVars
    <3>4. Follows(b, s, n)'
      BY <1>2, <3>0, <3>1, <3>2, <3>3, FollowsKept
    <3> QED
      BY <1>2, <3>0, <3>4, ContinuationKept
  <2>2. ASSUME NEW i \in 1 .. Len(full_list), NEW j \in 1 .. Len(full_list), i < j
        PROVE  InOrder(full_list[i], full_list[j])'
    <3>1. InOrder(full_list[i], full_list[j])
      BY <1>1, <2>2 DEF Continuing
    <3> QED
      BY <1>2, <3>1, ContinuationKept DEF InOrder
  <2> QED
    BY <2>1, <2>2 DEF Continuing
<1>9. Recorded'
  <2>1. \A s : FollowedUp(s)' <=> FollowedUp(s)
    BY <1>6 DEF FollowedUp, consumerVars
  <2>2. \A s \in Slices : Ended(s) => Ended(s)'
    BY DEF SameStreams, Given
  <2> QED
    BY <1>1, <2>1, <2>2 DEF Recorded, SameStreams, Slices, Own, Total, ValuesUpTo, consumerVars
<1> QED
  BY <1>4, <1>7, <1>8, <1>9

-----------------------------------------------------------------------------
(* The producer's steps that hand nothing over.                            *)

LEMMA GetBufAddrStreams == ASSUME Safe, GetBufAddr PROVE StreamInv'
<1>1. WritesOwn
  BY DEF GetBufAddr, WritesOwn
<1>2. SameStreams
  BY DEF GetBufAddr, SameStreams, Given, Ended, HandedOver, Sending, Slices, Total,
     ValuesUpTo
<1>3. Producing'
  BY DEF GetBufAddr, Safe, StreamInv, Producing, Sending, BetweenSlices
<1> QED
  BY <1>1, <1>2, <1>3, ProducerKeeps DEF GetBufAddr, StreamInv

LEMMA SliceStartStreams == ASSUME Safe, SliceStart PROVE StreamInv'
<1>1. WritesOwn
  BY DEF SliceStart, WritesOwn
<1>2. /\ TypeOK /\ Producing /\ slice \in Nat /\ Len(program) \in Nat
      /\ pc = "idle" /\ startSlice = FALSE /\ QIdx = 0
  BY CountersType DEF Safe, IInv, SliceStart, StreamInv, Producing, Sending,
     BetweenSlices
<1>3. SameStreams
  BY <1>2, SliceType DEF SliceStart, SameStreams, Given, Ended, HandedOver, Sending,
     Slices, Total, ValuesUpTo
<1>4. Producing'
  <2>1. slice + 1 \in Slices /\ slice' = slice + 1 /\ opIdx' = 0 /\ program' = program
    BY <1>2 DEF SliceStart, Slices
  <2>2. Len(program[slice + 1]) \in Nat
    BY <1>2, <2>1, SliceType
  <2>3. ValuesUpTo(slice, opIdx)' = 0
    BY <2>1, CountZero DEF ValuesUpTo
  <2>4. HandedOver(slice)' = 0
    BY <1>2, <2>1, <2>3 DEF SliceStart, HandedOver, Ended, Sending
  <2>5. ~Calls(program[slice], opIdx)'
    BY <2>1 DEF Calls
  <2>6. InSlice'
    BY <1>2, <2>1, <2>2, <2>3, <2>4, <2>5 DEF SliceStart, InSlice
  <2> QED
    BY <1>2, <2>6 DEF SliceStart, Producing, Sending
<1> QED
  BY <1>1, <1>3, <1>4, ProducerKeeps DEF SliceStart, StreamInv

(* While a slice is running.                                               *)
LEMMA InRun ==
  ASSUME Safe, Sending
  PROVE  /\ TypeOK /\ slice \in Slices /\ slice \in Nat /\ opIdx \in Nat
         /\ InSlice /\ Len(program[slice]) \in Nat
         /\ QIdx \in 0 .. BufSize /\ p_queue_idx \in Buffers
         /\ ValuesUpTo(slice, opIdx) \in Nat
         /\ ~Ended(slice) /\ HandedOver(slice) = ValuesUpTo(slice, opIdx) - QIdx
         /\ fini = FALSE /\ BufSize \in Nat /\ BufSize > 0 /\ cur_task = slice
         /\ \A s \in Slices : Given(s) /\ s # slice => s < slice
<1>1. /\ TypeOK /\ slice \in Slices /\ InSlice /\ fini = FALSE
      /\ QIdx \in 0 .. BufSize /\ p_queue_idx \in Buffers
  BY Zenon DEF Safe, IInv, StreamInv, Producing, Sending, Control, TypeOK, TypeProducer, TypeFlags
<1>2. slice \in Nat /\ opIdx \in Nat /\ Len(program[slice]) \in Nat
  BY <1>1, CountersType, SliceType
<1>3. ~Ended(slice)
  BY <1>2 DEF Ended
<1>4. \A s \in Slices : Given(s) /\ s # slice => s < slice
  BY DEF Given, Ended
<1> QED
  BY <1>1, <1>2, <1>3, <1>4, ValuesUpToNat, ConstantTypes DEF HandedOver, InSlice

(* A step of the running slice that keeps how much was handed over.        *)
LEMMA RunKeeps ==
  ASSUME Safe, Sending, Sending', UNCHANGED <<program, slice, startSlice>>,
         HandedOver(slice)' = HandedOver(slice)
  PROVE  SameStreams
<1>1. slice \in Nat /\ \A s \in Slices : Given(s) /\ s # slice => s < slice
  BY InRun
<1>2. \A s \in Slices : Given(s)' <=> Given(s)
  BY DEF Given, Ended, Slices
<1>3. \A s \in Slices : Ended(s)' <=> Ended(s)
  BY DEF Ended
<1>4. \A s \in Slices : s < slice => HandedOver(s)' = HandedOver(s)
  BY DEF HandedOver, Ended, Total, ValuesUpTo
<1> QED
  BY <1>1, <1>2, <1>3, <1>4 DEF SameStreams

LEMMA PushStreams == ASSUME Safe, Push PROVE StreamInv'
<1>1. /\ Sending /\ Sending' /\ AtOp("val") /\ QIdx < BufSize
      /\ queue' = [queue EXCEPT ![p_queue_idx][QIdx] =
                      <<slice, ValuesUpTo(slice, opIdx) + 1>>]
      /\ QIdx' = QIdx + 1 /\ opIdx' = opIdx + 1
      /\ UNCHANGED <<program, pc, slice, p_queue_idx, startSlice, cur_task, fini,
                     clone_map>>
  BY DEF Push, Sending, Room
<1>2. /\ TypeOK /\ slice \in Slices /\ InSlice /\ opIdx \in Nat /\ slice \in Nat
      /\ Len(program[slice]) \in Nat /\ QIdx \in 0 .. BufSize
      /\ p_queue_idx \in Buffers /\ ValuesUpTo(slice, opIdx) \in Nat
      /\ HandedOver(slice) = ValuesUpTo(slice, opIdx) - QIdx /\ BufSize \in Nat
  BY <1>1, InRun
<1>3. TypeQueue
  BY <1>2 DEF TypeOK
<1>4. ValuesUpTo(slice, opIdx)' = ValuesUpTo(slice, opIdx) + 1
  <2>1. ValuesUpTo(slice, opIdx + 1) = ValuesUpTo(slice, opIdx) + 1
    BY <1>1, <1>2, OneMore DEF AtOp
  <2> QED
    BY <1>1, <2>1 DEF ValuesUpTo
<1>5. HandedOver(slice)' = HandedOver(slice)
  BY <1>1, <1>2, <1>4 DEF HandedOver, Ended
<1>6. WritesOwn
  BY <1>1, <1>2, <1>3 DEF WritesOwn, Filling, TypeQueue, Sending, Push, NoBuf, Buffers
<1>7. SameStreams
  BY <1>1, <1>5, RunKeeps
<1>8. Producing'
  <2>1. \A j \in 0 .. QIdx : queue'[p_queue_idx][j] = <<slice, HandedOver(slice) + j + 1>>
    <3>1. queue'[p_queue_idx][QIdx] = <<slice, HandedOver(slice) + QIdx + 1>>
      BY <1>1, <1>2, <1>3 DEF TypeQueue
    <3>2. \A j \in 0 .. QIdx - 1 : queue'[p_queue_idx][j] = queue[p_queue_idx][j]
      BY <1>1, <1>2, <1>3 DEF TypeQueue
    <3>3. \A j \in 0 .. QIdx - 1 : queue[p_queue_idx][j] = <<slice, HandedOver(slice) + j + 1>>
      BY <1>2 DEF InSlice, Push
    <3>4. \A j \in 0 .. QIdx : j = QIdx \/ j \in 0 .. QIdx - 1
      BY <1>2
    <3> QED
      BY <3>1, <3>2, <3>3, <3>4
  <2>2. Calls(program[slice], opIdx)' => Calls(program[slice], opIdx)
    BY <1>1, <1>2 DEF Calls, AtOp
  <2>3. opIdx' <= Len(program'[slice']) /\ QIdx' # 0 /\ QIdx' - 1 = QIdx /\ pc = "slice"
    BY <1>1, <1>2 DEF AtOp, Push
  <2>4. InSlice'
    BY <1>1, <1>2, <1>4, <1>5, <2>1, <2>2, <2>3 DEF InSlice
  <2> QED
    BY <1>1, <2>4 DEF Safe, StreamInv, Producing
<1> QED
  BY <1>6, <1>7, <1>8, ProducerKeeps DEF Push, StreamInv

LEMMA InterimTakeStreams == ASSUME Safe, InterimTake PROVE StreamInv'
<1>1. /\ Sending /\ Sending' /\ pc = "interim" /\ pc' = "slice"
      /\ UNCHANGED <<program, slice, opIdx, QIdx, startSlice, cur_task, fini>>
  BY DEF InterimTake, Sending
<1>2. WritesOwn
  BY DEF InterimTake, WritesOwn
<1>3. HandedOver(slice)' = HandedOver(slice)
  BY <1>1 DEF HandedOver, Ended, Total, ValuesUpTo
<1>4. SameStreams
  BY <1>1, <1>3, RunKeeps
<1>5. Producing'
  <2>1. InSlice /\ startSlice /\ QIdx = 0
    BY <1>1, InRun DEF InSlice
  <2>2. AtOp("val")' <=> AtOp("val")
    BY <1>1 DEF AtOp
  <2>3. ValuesUpTo(slice, opIdx)' = ValuesUpTo(slice, opIdx)
    BY <1>1 DEF ValuesUpTo
  <2>4. 0 .. QIdx - 1 = {}
    BY <2>1
  <2>5. InSlice'
    BY <1>1, <1>3, <2>1, <2>2, <2>3, <2>4 DEF InSlice
  <2> QED
    BY <1>1, <2>5 DEF Safe, StreamInv, Producing
<1> QED
  BY <1>2, <1>4, <1>5, ProducerKeeps DEF InterimTake, StreamInv

LEMMA EnterCalleeStreams == ASSUME Safe, EnterCallee PROVE StreamInv'
<1>1. /\ Sending /\ Sending' /\ pc = "slice" /\ pc' = "slice"
      /\ opIdx < Len(program[slice]) /\ program[slice][opIdx + 1] # "val"
      /\ opIdx' = opIdx + 1 /\ clone_map' = clone_map \cup {p_queue_idx}
      /\ UNCHANGED <<program, slice, p_queue_idx, QIdx, startSlice, cur_task,
                     queue, fini>>
  BY DEF EnterCallee, Sending, AtOp
<1>2. /\ TypeOK /\ slice \in Slices /\ InSlice /\ opIdx \in Nat
      /\ Len(program[slice]) \in Nat /\ HandedOver(slice) = ValuesUpTo(slice, opIdx) - QIdx
      /\ slice \in Nat
  BY <1>1, InRun
<1>3. WritesOwn
  BY <1>1 DEF WritesOwn
<1>4. ValuesUpTo(slice, opIdx)' = ValuesUpTo(slice, opIdx)
  <2>1. ValuesUpTo(slice, opIdx + 1) = ValuesUpTo(slice, opIdx)
    BY <1>1, <1>2, CalleeAt DEF Safe
  <2> QED
    BY <1>1, <2>1 DEF ValuesUpTo
<1>5. HandedOver(slice)' = HandedOver(slice)
  BY <1>1, <1>2, <1>4 DEF HandedOver, Ended
<1>6. SameStreams
  BY <1>1, <1>5, RunKeeps
<1>7. Producing'
  <2>1. ~(startSlice /\ QIdx = 0)
    BY <1>1, <1>2 DEF InSlice, AtOp
  <2>2. opIdx + 1 <= Len(program[slice])
    BY <1>1, <1>2
  <2>3. InSlice'
    BY <1>1, <1>2, <1>4, <1>5, <2>1, <2>2 DEF InSlice
  <2> QED
    BY <1>1, <2>3 DEF Safe, StreamInv, Producing
<1> QED
  BY <1>3, <1>6, <1>7, ProducerKeeps DEF EnterCallee, StreamInv

LEMMA FinishStreams == ASSUME Safe, Finish PROVE StreamInv'
<1>1. WritesOwn
  BY DEF Finish, WritesOwn
<1>2. SameStreams
  BY DEF Finish, SameStreams, Given, Ended, HandedOver, Sending, Slices, Total,
     ValuesUpTo
<1>3. Producing'
  BY DEF Finish, Safe, StreamInv, Producing, Sending, BetweenSlices
<1> QED
  BY <1>1, <1>2, <1>3, ProducerKeeps DEF Finish, StreamInv

LEMMA JoinStreams == ASSUME Safe, Join PROVE StreamInv'
<1>1. WritesOwn
  BY DEF Join, WritesOwn
<1>2. SameStreams
  BY DEF Join, SameStreams, Given, Ended, HandedOver, Sending, Slices, Total,
     ValuesUpTo
<1>3. Producing'
  BY DEF Join, Safe, StreamInv, Producing, Sending, BetweenSlices
<1> QED
  BY <1>1, <1>2, <1>3, ProducerKeeps DEF Join, StreamInv

-----------------------------------------------------------------------------
(* The producer's steps that hand over a buffer.                           *)

(* The calls of a slice that are still to come once a buffer is full.      *)
LEMMA NoLaterCalls ==
  ASSUME TypeOK, Supported, NEW s \in Slices, NEW n \in Nat, n < Len(program[s]),
         program[s][n + 1] = "val", ValuesUpTo(s, n) >= BufSize
  PROVE  AllCalls(s) => Calls(program[s], n)
<1>1. Len(program[s]) \in Nat /\ BufSize \in Nat /\ ValuesUpTo(s, n) \in Nat
  BY SliceType, ConstantTypes, ValuesUpToNat
<1>2. ValuesUpTo(s, n + 1) = ValuesUpTo(s, n) + 1
  BY OneMore
<1>3. SUFFICES ASSUME NEW i \in 1 .. Len(program[s]), program[s][i] # "val", ~(i <= n)
               PROVE  FALSE
  BY <1>1 DEF AllCalls, Calls
<1>4. n + 1 <= i
  BY <1>1, <1>3
<1>5. Count(program[s], n + 1) <= Count(program[s], i)
  BY <1>1, <1>4, CountGrows
<1>6. ValuesUpTo(s, n + 1) <= ValuesUpTo(s, i) /\ ValuesUpTo(s, i) \in Nat
  BY <1>5, ValuesUpToNat DEF ValuesUpTo
<1>7. ValuesUpTo(s, i) > BufSize
  BY <1>1, <1>2, <1>6
<1>8. CalleesFirst(s)
  BY DEF Supported
<1> QED
  BY <1>1, <1>3, <1>6, <1>7, <1>8 DEF CalleesFirst

(* What the two steps have in common.                                      *)
Handing ==
  /\ pc = "slice" /\ pc' \in {"interim", "idle"}
  /\ HandOver(slice) /\ Given(slice)' /\ p_queue_idx \in Buffers
  /\ UNCHANGED <<program, slice, queue, fini, consumerVars, init_flag,
                 clone_map, shadowed, reported>>
  /\ HandedOver(slice)' = HandedOver(slice) + QIdx
  /\ HandedOver(slice)' <= Total(slice)
  /\ Ended(slice)' => HandedOver(slice)' = Total(slice)
  /\ Ended(slice)' \/ QIdx = BufSize
  /\ \A s \in Slices : s # slice => (Given(s)' <=> Given(s))
  /\ \A s \in Slices : s # slice /\ Given(s) => Ended(s)' /\ HandedOver(s)' = HandedOver(s)
  /\ startSlice => QIdx > 0
  /\ ~startSlice /\ AllCalls(slice) => p_queue_idx \in clone_map

LEMMA BeforeSlice ==
  ASSUME Safe, Sending, UNCHANGED <<program, slice>>
  PROVE  \A s \in Slices : s # slice =>
           /\ Given(s)' <=> Given(s)
           /\ Given(s) => Ended(s)' /\ HandedOver(s)' = HandedOver(s)
<1> SUFFICES ASSUME NEW s \in Slices, s # slice
             PROVE  /\ Given(s)' <=> Given(s)
                    /\ Given(s) => Ended(s)' /\ HandedOver(s)' = HandedOver(s)
  OBVIOUS
<1>1. Given(s) <=> s < slice
  BY InRun DEF Given, Ended
<1>2. Given(s)' <=> s < slice
  BY DEF Given, Ended, Slices
<1>3. s < slice => Ended(s) /\ Ended(s)'
  BY DEF Ended
<1> QED
  BY <1>1, <1>2, <1>3 DEF HandedOver, Total, ValuesUpTo

LEMMA InterimHands == ASSUME Safe, InterimHandOver PROVE Handing /\ Producing'
<1>1. /\ Sending /\ pc = "slice" /\ pc' = "interim" /\ AtOp("val") /\ ~(QIdx < BufSize)
      /\ HandOver(cur_task) /\ QIdx' = 0 /\ startSlice' = TRUE /\ Sending'
      /\ UNCHANGED <<program, slice, opIdx, p_queue_idx, cur_task, queue, fini,
                     consumerVars, init_flag, clone_map, shadowed, reported>>
  BY DEF InterimHandOver, Sending, Room
<1>2. /\ TypeOK /\ slice \in Slices /\ InSlice /\ opIdx \in Nat /\ cur_task = slice
      /\ Len(program[slice]) \in Nat /\ QIdx \in 0 .. BufSize /\ BufSize \in Nat
      /\ HandedOver(slice) = ValuesUpTo(slice, opIdx) - QIdx /\ BufSize > 0
      /\ slice \in Nat /\ p_queue_idx \in Buffers
  BY <1>1, InRun
<1>3. QIdx = BufSize /\ QIdx <= ValuesUpTo(slice, opIdx)
  BY <1>1, <1>2 DEF InSlice
<1>4. ValuesUpTo(slice, opIdx) \in Nat /\ ValuesUpTo(slice, opIdx) <= Total(slice)
  BY <1>2, ValuesUpToNat, UpToTotal DEF InSlice
<1>5. ValuesUpTo(slice, opIdx)' = ValuesUpTo(slice, opIdx)
  BY <1>1 DEF ValuesUpTo
<1>6. HandedOver(slice)' = ValuesUpTo(slice, opIdx) /\ ~Ended(slice)'
  BY <1>1, <1>2, <1>4, <1>5 DEF HandedOver, Ended
<1>7. ~startSlice /\ AllCalls(slice) => p_queue_idx \in clone_map
  <2>1. opIdx < Len(program[slice]) /\ program[slice][opIdx + 1] = "val"
    BY <1>1 DEF AtOp
  <2>2. AllCalls(slice) => Calls(program[slice], opIdx)
    BY <1>2, <1>3, <1>4, <2>1, NoLaterCalls DEF Safe
  <2> QED
    BY <1>2, <2>2 DEF InSlice
<1>8. Handing
  <2>1. HandOver(slice) /\ Given(slice)'
    BY <1>1, <1>2 DEF Given, Slices
  <2> QED
    BY <1>1, <1>2, <1>3, <1>4, <1>6, <1>7, <2>1, BeforeSlice DEF Handing
<1>9. InSlice'
  <2>1. AtOp("val")'
    BY <1>1 DEF AtOp
  <2> QED
    BY <1>1, <1>2, <1>3, <1>4, <1>5, <1>6, <2>1 DEF InSlice
<1> QED
  BY <1>1, <1>8, <1>9 DEF Producing, Safe, StreamInv

LEMMA EndHands == ASSUME Safe, SliceEnd PROVE Handing /\ Producing'
<1>1. /\ Sending /\ pc = "slice" /\ pc' = "idle" /\ opIdx = Len(program[slice])
      /\ HandOver(slice) /\ QIdx' = 0 /\ startSlice' = FALSE /\ ~Sending'
      /\ UNCHANGED <<program, slice, opIdx, cur_task, queue, fini,
                     consumerVars, init_flag, clone_map, shadowed, reported>>
  BY DEF SliceEnd, Sending, AtSliceEnd, Reset
<1>2. /\ TypeOK /\ slice \in Slices /\ InSlice /\ opIdx \in Nat /\ slice \in Nat
      /\ Len(program[slice]) \in Nat /\ QIdx \in 0 .. BufSize /\ BufSize \in Nat
      /\ HandedOver(slice) = ValuesUpTo(slice, opIdx) - QIdx
      /\ ValuesUpTo(slice, opIdx) \in Nat /\ p_queue_idx \in Buffers
  BY <1>1, InRun
<1>3. ValuesUpTo(slice, opIdx) = Total(slice)
  BY <1>1 DEF Total
<1>4. HandedOver(slice)' = Total(slice) /\ Ended(slice)'
  BY <1>1 DEF HandedOver, Ended, Total, ValuesUpTo
<1>5. startSlice => QIdx > 0
  BY <1>1, <1>2 DEF InSlice, AtOp
<1>6. ~startSlice /\ AllCalls(slice) => p_queue_idx \in clone_map
  BY <1>1, <1>2 DEF InSlice, AllCalls
<1>7. Handing
  <2>1. Given(slice)'
    BY <1>1, <1>2, <1>4 DEF Given, Slices
  <2>2. HandedOver(slice)' = HandedOver(slice) + QIdx
    BY <1>2, <1>3, <1>4
  <2>3. HandedOver(slice)' <= Total(slice)
    BY <1>2, <1>3, <1>4
  <2> QED
    BY <1>1, <1>2, <1>4, <1>5, <1>6, <2>1, <2>2, <2>3, BeforeSlice DEF Handing
<1> QED
  BY <1>1, <1>7 DEF Producing, BetweenSlices, Safe, StreamInv

LEMMA HandTask ==
  ASSUME Safe, Handing, ~startSlice
  PROVE  Queued' /\ Replaying' /\ Continuing' /\ Recorded'
<1>0. PICK c, b, t : c = slice /\ b = p_queue_idx /\ t = [task |-> c, buf |-> b]
  OBVIOUS
<1>1. /\ IInv /\ TypeOK /\ TypeLists /\ pc # "crashed"
      /\ Queued /\ Replaying /\ Continuing /\ Recorded
  BY DEF Safe, IInv, TypeOK, StreamInv, Producing
<1>2. /\ pc = "slice" /\ pc' \in {"interim", "idle"} /\ full_list' = full_list
      /\ task_queue' = Append(task_queue, t) /\ b \in Buffers
      /\ UNCHANGED <<program, slice, queue, fini, consumerVars, init_flag,
                     clone_map, shadowed, reported>>
  BY <1>0 DEF Handing, HandOver
<1>3. /\ c \in Slices /\ c \in Nat /\ InSlice /\ QIdx \in 0 .. BufSize
      /\ BufSize \in Nat /\ Total(c) \in Nat /\ ~Given(c)
      /\ HandedOver(c) = 0
      /\ \A s \in Slices : Given(s) => s < c
  BY <1>0, <1>1, <1>2, InRun, SliceType DEF Sending, InSlice, Given
<1>4. \A s, n : Given(s) /\ Await(s, n) => Given(s)' /\ Await(s, n)'
  <2> SUFFICES ASSUME NEW s, NEW n, Given(s), Await(s, n)
               PROVE  Given(s)' /\ Await(s, n)'
    OBVIOUS
  <2>1. s \in Slices /\ s # c
    BY <1>3 DEF Given
  <2>2. Ended(s)' /\ HandedOver(s)' = HandedOver(s) /\ Given(s)'
    BY <1>0, <2>1 DEF Handing
  <2> QED
    BY <1>2, <2>2, AwaitKept
<1>5. /\ Len(task_queue) \in Nat /\ Len(task_queue') = Len(task_queue) + 1
      /\ task_queue'[Len(task_queue) + 1] = t
      /\ \A j \in 1 .. Len(task_queue) : task_queue'[j] = task_queue[j]
      /\ \A j \in 1 .. Len(task_queue') : j \in 1 .. Len(task_queue) \/ j = Len(task_queue) + 1
  <2>1. t \in [task : Slices, buf : Buffers] /\ task_queue \in Seq([task : Slices, buf : Buffers])
    BY <1>0, <1>1, <1>2, <1>3 DEF TypeLists
  <2> QED
    BY <1>2, <2>1
<1>6. IsTask(t)'
  <2>1. /\ Given(c)' /\ HandedOver(c)' = QIdx
        /\ Ended(c)' \/ QIdx = BufSize
        /\ Ended(c)' => QIdx = Total(c)
        /\ AllCalls(c) => b \in clone_map
    BY <1>0, <1>2, <1>3 DEF Handing
  <2>2. Await(c, BufSize)'
    BY <1>3, <2>1 DEF Await
  <2>3. IsPart(b, c, 0)
    BY <1>0, <1>2, <1>3, <2>1 DEF InSlice, IsPart, Has
  <2>4. IsPart(b, c, 0)' /\ (AllCalls(c)' => b \in clone_map')
    BY <1>2, <2>1, <2>3 DEF IsPart, Has, Total, ValuesUpTo, AllCalls, Calls
  <2>5. shadowed'[c] = << >> /\ reported'[c] = 0
    BY <1>1, <1>2, <1>3 DEF Recorded
  <2> QED
    BY <1>0, <2>1, <2>2, <2>4, <2>5 DEF IsTask
<1>7. Queued'
  <2>1. ASSUME NEW j \in 1 .. Len(task_queue)
        PROVE  IsTask(task_queue[j])' /\ task_queue[j].task < c
    <3>1. PICK r : r = task_queue[j]
      OBVIOUS
    <3>2. IsTask(r) /\ r.task \in Slices /\ r.buf \in Buffers
      BY <1>1, <3>1, InTasked DEF Queued
    <3>3. Given(r.task)' /\ Await(r.task, BufSize)' /\ Given(r.task)
      BY <1>4, <3>2 DEF IsTask
    <3>4. IsTask(r)'
      BY <1>2, <3>2, <3>3, TaskKept
    <3> QED
      BY <1>3, <1>5, <3>1, <3>2, <3>3, <3>4
  <2>2. \A j \in 1 .. Len(task_queue') : IsTask(task_queue[j])'
    BY <1>5, <1>6, <2>1
  <2>3. \A i, j \in 1 .. Len(task_queue') : i < j => task_queue'[i].task < task_queue'[j].task
    <3>1. ASSUME NEW i \in 1 .. Len(task_queue'), NEW j \in 1 .. Len(task_queue'), i < j
          PROVE  task_queue'[i].task < task_queue'[j].task
      <4>1. i \in 1 .. Len(task_queue) /\ task_queue'[i] = task_queue[i]
        BY <1>5, <3>1
      <4>2. CASE j \in 1 .. Len(task_queue)
        BY <1>1, <1>5, <3>1, <4>1, <4>2 DEF Queued
      <4>3. CASE j = Len(task_queue) + 1
        BY <1>0, <1>5, <2>1, <4>1, <4>3
      <4> QED
        BY <1>5, <4>2, <4>3
    <3> QED
      BY <3>1
  <2> QED
    BY <2>2, <2>3 DEF Queued
<1>8. \A w : Position(w)' = Position(w) /\ (Running(w)' <=> Running(w))
  BY <1>2 DEF Position, Running, consumerVars
<1>9. Replaying'
  <2>1. ASSUME NEW w \in Consumers, Running(w)
        PROVE  Replays(w, task[w])'
    <3>1. Replays(w, task[w]) /\ task[w] \in Slices
      BY <1>1, <2>1, Follower DEF Safe
    <3>2. Given(task[w])' /\ Await(task[w], Position(w))'
      BY <1>2, <1>4, <1>8, <3>1 DEF Replays, consumerVars
    <3>3. \A j \in 1 .. Len(task_queue') : task[w] < task_queue'[j].task
      <4>1. \A j \in 1 .. Len(task_queue) : task[w] < task_queue[j].task
        BY <3>1 DEF Replays
      <4>2. task[w] < t.task
        BY <1>0, <1>3, <3>1 DEF Replays
      <4> QED
        BY <1>5, <4>1, <4>2
    <3> QED
      BY <1>2, <3>1, <3>2, <3>3, ReplaysKept DEF consumerVars
  <2> QED
    BY <1>1, <1>2, <1>8, <2>1 DEF Replaying, consumerVars
<1>10. Continuing'
  <2>1. ASSUME NEW i \in 1 .. Len(full_list)
        PROVE  Follows(full_list[i], SliceOf(full_list[i]), Base(full_list[i]))'
    <3>0. PICK d, s, n : d = full_list[i] /\ s = SliceOf(d) /\ n = Base(d)
      OBVIOUS
    <3>1. Follows(d, s, n)
      BY <1>1, <3>0 DEF Continuing
    <3>2. Given(s)' /\ Await(s, n + BufSize)'
      BY <1>4, <3>1 DEF Follows
    <3>3. \A w \in Consumers : Running(w)' /\ task'[w] = s => Position(w)' <= n
      BY <1>2, <1>8, <3>1 DEF Follows, consumerVars
    <3>4. Follows(d, s, n)'
      BY <1>2, <3>1, <3>2, <3>3, FollowsKept
    <3> QED
      BY <1>2, <3>0, <3>4, ContinuationKept
  <2> QED
    BY <1>1, <1>2, <2>1 DEF Continuing, InOrder, SliceOf, Base
<1>11. Recorded'
  <2>1. \A s : FollowedUp(s) => FollowedUp(s)'
    BY <1>2, <1>5, <1>8 DEF FollowedUp, consumerVars
  <2>2. FollowedUp(c)'
    BY <1>0, <1>5 DEF FollowedUp
  <2>3. \A s \in Slices : s # c => (Given(s)' <=> Given(s)) /\ (Ended(s) => Ended(s)')
    BY <1>0 DEF Handing, Given
  <2>4. ~Ended(c)
    BY <1>3 DEF Given
  <2>5. \A s \in Slices : Total(s)' = Total(s)
    BY <1>2 DEF Total, ValuesUpTo
  <2>6. fini = FALSE
    BY <1>2, InRun DEF Sending
  <2> QED
    BY <1>1, <1>2, <1>3, <2>1, <2>2, <2>3, <2>4, <2>5, <2>6 DEF Recorded, Slices, Own, Handing, consumerVars
<1> QED
  BY <1>7, <1>9, <1>10, <1>11

LEMMA HandContinuation ==
  ASSUME Safe, Handing, startSlice
  PROVE  Queued' /\ Replaying' /\ Continuing' /\ Recorded'
<1>0. PICK c, b, h : c = slice /\ b = p_queue_idx /\ h = HandedOver(c)
  OBVIOUS
<1>1. /\ IInv /\ TypeOK /\ TypeLists /\ pc # "crashed"
      /\ Queued /\ Replaying /\ Continuing /\ Recorded
  BY DEF Safe, IInv, TypeOK, StreamInv, Producing
<1>2. /\ pc = "slice" /\ pc' \in {"interim", "idle"} /\ task_queue' = task_queue
      /\ full_list' = Append(full_list, b) /\ b \in Buffers
      /\ UNCHANGED <<program, slice, queue, fini, consumerVars, init_flag,
                     clone_map, shadowed, reported>>
  BY <1>0 DEF Handing, HandOver
<1>3. /\ c \in Slices /\ c \in Nat /\ InSlice /\ QIdx \in 0 .. BufSize /\ QIdx > 0
      /\ BufSize \in Nat /\ Total(c) \in Nat /\ Given(c) /\ ~Ended(c)
      /\ h \in Nat /\ BufSize <= h
      /\ \A s \in Slices : Given(s) => s <= c
  <2>1. Sending
    BY <1>2 DEF Sending
  <2>2. HandedOver(c) \in Int /\ BufSize <= HandedOver(c)
    BY <1>0, <2>1, InRun DEF InSlice
  <2> QED
    BY <1>0, <1>1, <2>1, <2>2, InRun, SliceType DEF Handing, Given
<1>4. /\ HandedOver(c)' = h + QIdx /\ h + QIdx <= Total(c)
      /\ Ended(c)' \/ QIdx = BufSize
      /\ Ended(c)' => Total(c) = h + QIdx
      /\ Given(c)'
  BY <1>0 DEF Handing
<1>5. /\ Len(full_list) \in Nat /\ Len(full_list') = Len(full_list) + 1
      /\ full_list'[Len(full_list) + 1] = b
      /\ \A i \in 1 .. Len(full_list) : full_list'[i] = full_list[i] /\ i \in 1 .. Len(full_list')
      /\ \A i \in 1 .. Len(full_list') : i \in 1 .. Len(full_list) \/ i = Len(full_list) + 1
      /\ Len(full_list) + 1 \in 1 .. Len(full_list')
  BY <1>1, <1>2 DEF TypeLists
<1>6. /\ \A i \in 0 .. QIdx - 1 : queue[b][i] = <<c, h + i + 1>>
      /\ SliceOf(b) = c /\ Base(b) = h
  <2>1. \A i \in 0 .. QIdx - 1 : queue[b][i] = <<c, h + i + 1>>
    BY <1>0, <1>2, <1>3 DEF InSlice
  <2>2. queue[b][0] = <<c, h + 1>>
    BY <1>3, <2>1
  <2> QED
    BY <1>3, <2>1, <2>2 DEF SliceOf, Base
<1>7. ASSUME NEW s, NEW n, Given(s), Await(s, n), n \in Int
      PROVE  Given(s)' /\ Await(s, n)'
  <2>1. CASE s # c
    <3>1. s \in Slices
      BY <1>7 DEF Given
    <3>2. Ended(s)' /\ Given(s)' /\ HandedOver(s)' = HandedOver(s)
      BY <1>0, <1>7, <2>1, <3>1 DEF Handing
    <3>3. n < HandedOver(s) => \E i \in 1 .. Len(full_list') : IsContinuation(full_list[i], s, n)
                                                 /\ full_list'[i] = full_list[i]
      BY <1>5, <1>7 DEF Await
    <3> QED
      BY <1>2, <3>2, <3>3 DEF Await, IsContinuation, SliceOf, Base
  <2>2. CASE s = c
    <3>1. n <= h /\ (n < h => \E i \in 1 .. Len(full_list) : IsContinuation(full_list[i], c, n))
      BY <1>0, <1>3, <1>7, <2>2 DEF Await
    <3>2. n < h + QIdx => \E i \in 1 .. Len(full_list') : IsContinuation(full_list'[i], c, n)
      <4>1. CASE n < h
        BY <1>5, <3>1, <4>1
      <4>2. CASE n = h
        BY <1>5, <1>6, <4>2 DEF IsContinuation
      <4> QED
        BY <1>3, <1>7, <3>1, <4>1, <4>2
    <3>3. n <= h + QIdx
      BY <1>3, <1>7, <3>1
    <3> QED
      BY <1>2, <1>4, <2>2, <3>2, <3>3 DEF Await, IsContinuation, SliceOf, Base
  <2> QED
    BY <2>1, <2>2
<1>8. Queued'
  <2>1. ASSUME NEW j \in 1 .. Len(task_queue)
        PROVE  IsTask(task_queue[j])'
    <3>1. PICK r : r = task_queue[j]
      OBVIOUS
    <3>2. IsTask(r)
      BY <1>1, <3>1 DEF Queued
    <3>3. Given(r.task)' /\ Await(r.task, BufSize)'
      BY <1>3, <1>7, <3>2 DEF IsTask
    <3>4. IsTask(r)'
      BY <1>2, <3>2, <3>3, TaskKept
    <3> QED
      BY <1>2, <3>1, <3>4
  <2> QED
    BY <1>1, <1>2, <2>1 DEF Queued
<1>9. \A w : Position(w)' = Position(w) /\ (Running(w)' <=> Running(w))
  BY <1>2 DEF Position, Running, consumerVars
<1>10. \A w \in Consumers : Running(w) => Position(w) \in Int
  BY <1>3, Follower DEF Safe, Position
<1>11. Replaying'
  <2>1. ASSUME NEW w \in Consumers, Running(w)
        PROVE  Replays(w, task[w])'
    <3>1. Replays(w, task[w])
      BY <1>1, <2>1 DEF Replaying
    <3>2. PICK s, n : s = task[w] /\ n = Position(w)
      OBVIOUS
    <3>3. Given(s)' /\ Await(s, n)'
      BY <1>7, <1>10, <2>1, <3>1, <3>2 DEF Replays
    <3>4. Given(task[w])' /\ Await(task[w], Position(w))'
      BY <1>2, <1>9, <3>2, <3>3 DEF consumerVars
    <3>5. \A j \in 1 .. Len(task_queue') : task[w] < task_queue'[j].task
      BY <1>2, <3>1 DEF Replays
    <3> QED
      BY <1>2, <3>1, <3>4, <3>5, ReplaysKept DEF consumerVars
  <2> QED
    BY <1>1, <1>2, <1>9, <2>1 DEF Replaying, consumerVars
<1>12. ASSUME NEW i \in 1 .. Len(full_list)
       PROVE  /\ Follows(full_list[i], SliceOf(full_list[i]), Base(full_list[i]))'
              /\ InOrder(full_list[i], b)
  <2>0. PICK d, s, n : d = full_list[i] /\ s = SliceOf(d) /\ n = Base(d)
    OBVIOUS
  <2>1. Follows(d, s, n) /\ n \in Int
    <3>1. Follows(d, s, n)
      BY <1>1, <2>0 DEF Continuing
    <3>2. d \in Buffers /\ TypeQueue /\ 0 \in 0 .. BufSize - 1
      BY <1>1, <2>0, InFull, ConstantTypes DEF TypeOK
    <3>3. queue[d][0][2] \in Nat
      BY <3>2 DEF TypeQueue, Values
    <3> QED
      BY <2>0, <3>1, <3>3 DEF Base
  <2>2. Given(s)' /\ Await(s, n + BufSize)'
    BY <1>3, <1>7, <2>1 DEF Follows
  <2>3. \A w \in Consumers : Running(w)' /\ task'[w] = s => Position(w)' <= n
    BY <1>2, <1>9, <2>1 DEF Follows, consumerVars
  <2>4. Follows(d, s, n)'
    BY <1>2, <2>1, <2>2, <2>3, FollowsKept
  <2>5. Follows(full_list[i], SliceOf(full_list[i]), Base(full_list[i]))'
    BY <1>2, <1>5, <2>0, <2>4, ContinuationKept
  <2>6. s \in Slices /\ s \in Nat /\ s <= c
    BY <1>1, <1>3, <2>1, SliceType DEF Follows, Given
  <2>7. s = c => n + BufSize <= h
    BY <1>0, <1>3, <2>1 DEF Follows, Await
  <2> QED
    BY <1>3, <1>6, <2>0, <2>5, <2>6, <2>7 DEF InOrder
<1>13. Follows(b, c, h)'
  <2>1. reported[c] = 0
    BY <1>1, <1>3 DEF Recorded
  <2>2. IsPart(b, c, h)
    BY <1>3, <1>4, <1>6 DEF IsPart, Has
  <2>3. Await(c, h + BufSize)'
    BY <1>3, <1>4 DEF Await
  <2>4. \A w \in Consumers : Running(w) /\ task[w] = c => Position(w) <= h
    BY <1>0, <1>1, <1>3 DEF Replaying, Replays, Await
  <2>5. h < Total(c)
    BY <1>3, <1>4
  <2>6. IsPart(b, c, h)' /\ Total(c)' = Total(c)
    BY <1>2, <2>2 DEF IsPart, Has, Total, ValuesUpTo
  <2> QED
    BY <1>2, <1>3, <1>4, <1>9, <2>1, <2>3, <2>4, <2>5, <2>6 DEF Follows, consumerVars
<1>14. Continuing'
  <2>1. \A i \in 1 .. Len(full_list') : Follows(full_list[i], SliceOf(full_list[i]), Base(full_list[i]))'
    <3>1. SliceOf(b)' = c /\ Base(b)' = h
      BY <1>2, <1>6, ContinuationKept
    <3> QED
      BY <1>5, <1>12, <1>13, <3>1
  <2>2. \A i, j \in 1 .. Len(full_list') : i < j => InOrder(full_list'[i], full_list'[j])
    <3> SUFFICES ASSUME NEW i \in 1 .. Len(full_list'), NEW j \in 1 .. Len(full_list'), i < j
                 PROVE  InOrder(full_list'[i], full_list'[j])
      OBVIOUS
    <3>1. i \in 1 .. Len(full_list)
      BY <1>5
    <3>2. CASE j \in 1 .. Len(full_list)
      BY <1>1, <1>5, <3>1, <3>2 DEF Continuing
    <3>3. CASE j = Len(full_list) + 1
      BY <1>5, <1>12, <3>1, <3>3
    <3> QED
      BY <1>5, <3>2, <3>3
  <2> QED
    BY <1>2, <2>1, <2>2 DEF Continuing, InOrder, SliceOf, Base
<1>15. Recorded'
  <2>1. \A s : FollowedUp(s) => FollowedUp(s)'
    BY <1>2, <1>9 DEF FollowedUp, consumerVars
  <2>2. \A s \in Slices : (Given(s)' <=> Given(s)) /\ (Ended(s) => Ended(s)')
    BY <1>0, <1>3, <1>4 DEF Handing, Given
  <2>3. \A s \in Slices : Total(s)' = Total(s)
    BY <1>2 DEF Total, ValuesUpTo
  <2> QED
    BY <1>1, <1>2, <2>1, <2>2, <2>3 DEF Recorded, Slices, Own, consumerVars
<1> QED
  BY <1>8, <1>11, <1>14, <1>15

LEMMA InterimHandOverStreams == ASSUME Safe, InterimHandOver PROVE StreamInv'
BY InterimHands, HandTask, HandContinuation DEF StreamInv

LEMMA SliceEndStreams == ASSUME Safe, SliceEnd PROVE StreamInv'
BY EndHands, HandTask, HandContinuation DEF StreamInv

(* Without workers there is one buffer, and while the producer fills it    *)
(* the queues are empty.                                                   *)
LEMMA QueuesEmpty ==
  ASSUME IInv, Workers = {}, pc = "slice"
  PROVE  /\ Consumers = {Main} /\ task_queue = << >> /\ full_list = << >>
         /\ ~startSlice /\ ~Running(Main)
<1>1. Consumers = {Main} /\ full_list = << >> /\ ~startSlice
  BY DEF Consumers, IInv, Owned, Alone
<1>2. ~Running(Main)
  BY <1>1 DEF IInv, Control
<1>3. Buffers = {0}
  BY FS_EmptySet DEF Buffers, NumQueues
<1>4. p_queue_idx \in Buffers /\ p_queue_idx \notin Listed /\ TypeLists
  BY ConstantTypes DEF IInv, Control, TypeOK, Owned, Ownership, Apart, Filling
<1>5. \A j \in 1 .. Len(task_queue) : FALSE
  BY <1>3, <1>4, InTasked DEF Listed
<1>6. Len(task_queue) = 0
  BY <1>4, <1>5, LenProperties DEF TypeLists
<1> QED
  BY <1>1, <1>2, <1>4, <1>6, EmptySeq DEF TypeLists

LEMMA SliceEndSyncStreams == ASSUME Safe, SliceEndSync PROVE StreamInv'
<1>0. PICK c, b : c = slice /\ b = p_queue_idx
  OBVIOUS
<1>1. /\ IInv /\ TypeOK /\ Queued /\ Replaying /\ Continuing /\ Recorded
  BY DEF Safe, IInv, StreamInv
<1>2. /\ pc = "slice" /\ pc' = "calling" /\ Workers = {} /\ QIdx' = 0
      /\ opIdx = Len(program[c]) /\ Sending /\ ~Sending'
      /\ wpc' = [wpc EXCEPT ![Main] = "run"] /\ task' = [task EXCEPT ![Main] = c]
      /\ buf_id' = [buf_id EXCEPT ![Main] = b] /\ buf_idx' = [buf_idx EXCEPT ![Main] = b]
      /\ wop' = [wop EXCEPT ![Main] = 0] /\ init_flag' = init_flag \cup {b}
      /\ UNCHANGED <<program, slice, opIdx, startSlice, cur_task, task_queue,
                     full_list, queue, fini, CQIdx, clone_map, shadowed, reported>>
  BY <1>0 DEF SliceEndSync, StartClone, AtSliceEnd, Sending
<1>3. /\ Consumers = {Main} /\ task_queue = << >> /\ full_list = << >>
      /\ ~startSlice /\ ~Running(Main)
  BY <1>1, <1>2, QueuesEmpty
<1>4. /\ c \in Slices /\ c \in Nat /\ InSlice /\ QIdx \in 0 .. BufSize /\ b \in Buffers
      /\ BufSize \in Nat /\ BufSize > 0 /\ Total(c) \in Nat /\ ~Ended(c) /\ ~Given(c)
      /\ HandedOver(c) = 0 /\ QIdx = Total(c) /\ fini = FALSE
  BY <1>0, <1>1, <1>2, <1>3, InRun, SliceType DEF InSlice, Given, Total
<1>5. Producing'
  BY <1>0, <1>2, <1>3, <1>4 DEF Producing, BetweenSlices
<1>6. Queued' /\ Continuing'
  BY <1>2, <1>3 DEF Queued, Continuing
<1>7. /\ wpc'[Main] = "run" /\ task'[Main] = c /\ buf_id'[Main] = b
      /\ buf_idx'[Main] = b /\ wop'[Main] = 0 /\ CQIdx'[Main] = 0
  BY <1>1, <1>2, <1>3 DEF TypeOK, TypeConsumers, Replaying
<1>8. Given(c)' /\ Ended(c)' /\ HandedOver(c)' = Total(c)
  BY <1>0, <1>2, <1>4 DEF Given, Ended, HandedOver, Slices, Total, ValuesUpTo
<1>9. shadowed'[c] = << >> /\ reported'[c] = 0
  BY <1>1, <1>2, <1>4 DEF Recorded
<1>10. Replays(Main, c)'
  <2>1. ValuesUpTo(c, 0)' = 0 /\ Len(program[c]) \in Nat
    BY <1>1, <1>2, <1>4, CountZero, SliceType DEF ValuesUpTo
  <2>2. Position(Main)' = BufSize
    BY <1>4, <1>7, <1>9 DEF Position
  <2>3. Await(c, BufSize)'
    BY <1>4, <1>8 DEF Await
  <2>4. IsPart(b, c, 0)'
    BY <1>0, <1>2, <1>3, <1>4 DEF InSlice, IsPart, Has, Total, ValuesUpTo
  <2>5. AllCalls(c)' => b \in clone_map'
    BY <1>0, <1>2, <1>3, <1>4 DEF InSlice, AllCalls, Calls
  <2>6. OnFirst(Main)'
    BY <1>7, <1>9 DEF OnFirst
  <2> QED
    BY <1>2, <1>3, <1>7, <1>8, <1>9, <2>1, <2>2, <2>3, <2>4, <2>5, <2>6 DEF Replays
<1>11. Replaying'
  BY <1>3, <1>7, <1>10 DEF Replaying, Running
<1>12. Recorded'
  <2>1. ASSUME NEW s \in Slices, s # c
        PROVE  /\ Given(s)' <=> Given(s)
               /\ Ended(s) => Ended(s)'
    BY <1>0, <1>2, <2>1, BeforeSlice DEF Given
  <2>2. \A s \in Slices : s # c /\ Given(s) => reported[s] # 0
    BY <1>1, <1>3 DEF Recorded, FollowedUp
  <2>3. FollowedUp(c)'
    BY <1>3, <1>7 DEF FollowedUp, Running
  <2>4. \A s \in Slices : Total(s)' = Total(s)
    BY <1>2 DEF Total, ValuesUpTo
  <2> QED
    BY <1>1, <1>2, <1>3, <1>4, <1>7, <1>9, <2>1, <2>2, <2>3, <2>4 DEF Recorded, Slices, Own
<1> QED
  BY <1>5, <1>6, <1>11, <1>12 DEF StreamInv

-----------------------------------------------------------------------------
(* The consumers' steps.                                                   *)

(* None of them touches the producer or writes to a buffer.                *)
Aside == UNCHANGED <<program, producerVars, queue, fini, clone_map>>

LEMMA AsideKept ==
  ASSUME Aside
  PROVE  /\ \A s : /\ Given(s)' <=> Given(s)
                   /\ Ended(s)' <=> Ended(s)
                   /\ HandedOver(s)' = HandedOver(s)
                   /\ Total(s)' = Total(s)
         /\ Producing => Producing'
<1>1. \A s : /\ Given(s)' <=> Given(s)
             /\ Ended(s)' <=> Ended(s)
             /\ HandedOver(s)' = HandedOver(s)
             /\ Total(s)' = Total(s)
  BY DEF Aside, producerVars, Given, Ended, HandedOver, Sending, Slices, Total, ValuesUpTo
<1>2. InSlice => InSlice'
  BY DEF Aside, producerVars, InSlice, HandedOver, Ended, Sending, Total, ValuesUpTo,
     AtOp, Calls
<1>3. Producing => Producing'
  BY <1>2 DEF Aside, producerVars, Producing, Sending, BetweenSlices
<1> QED
  BY <1>1, <1>3

(* A clone goes on, on the same values: it reads one, enters a callee or   *)
(* gives a buffer back.                                                    *)
GoesOn(w) ==
  /\ Running(w) /\ Running(w)' /\ Aside
  /\ UNCHANGED <<task_queue, full_list, task, buf_id, init_flag, reported>>
  /\ \A v \in Consumers : v # w => /\ wpc'[v] = wpc[v] /\ wop'[v] = wop[v]
                                   /\ buf_idx'[v] = buf_idx[v] /\ CQIdx'[v] = CQIdx[v]
  /\ \A s \in Slices : s # task[w] => shadowed'[s] = shadowed[s]
  /\ Position(w)' = Position(w)

LEMMA GoesOnKeeps ==
  ASSUME Safe, NEW w \in Consumers, GoesOn(w), NEW r, r = task[w],
         Own(r, shadowed[r])', (OnFirst(w) \/ OnLater(w))',
         wop'[w] <= Len(program[r]), Len(shadowed'[r]) = ValuesUpTo(r, wop'[w]),
         wpc'[w] = "run" => IsPart(buf_idx'[w], r, Len(shadowed'[r]) - CQIdx'[w])
  PROVE  StreamInv'
<1>1. Producing /\ Queued /\ Replaying /\ Continuing /\ Recorded /\ TypeLists
  BY DEF Safe, StreamInv, IInv, TypeOK
<1>2. /\ Aside /\ Running(w) /\ Running(w)' /\ UNCHANGED <<program, queue, fini, clone_map, pc>>
      /\ UNCHANGED <<task_queue, full_list, task, buf_id, init_flag, reported>>
  BY DEF GoesOn, Aside, producerVars
<1>3. Producing' /\ \A s : /\ Given(s)' <=> Given(s)
                           /\ Ended(s)' <=> Ended(s)
                           /\ HandedOver(s)' = HandedOver(s)
                           /\ Total(s)' = Total(s)
  BY <1>1, <1>2, AsideKept
<1>4. \A s, n : Await(s, n) => Await(s, n)'
  BY <1>2, <1>3, AwaitKept
<1>5. r \in Slices /\ Replays(w, r)
  BY <1>2, Follower
<1>6. \A v \in Consumers : Running(v)' <=> Running(v)
  BY <1>2 DEF GoesOn, Running
<1>7. ASSUME NEW v \in Consumers, v # w, Running(v)
      PROVE  /\ task[v] # r /\ task[v] \in Slices /\ Replays(v, task[v])
             /\ Position(v)' = Position(v)
  <2>1. task[v] \in Slices /\ Replays(v, task[v])
    BY <1>7, Follower
  <2>2. task[v] # r
    BY <1>1, <1>2, <1>7 DEF Replaying
  <2> QED
    BY <1>2, <1>7, <2>1, <2>2 DEF GoesOn, Position
<1>8. Queued'
  <2>1. ASSUME NEW j \in 1 .. Len(task_queue)
        PROVE  IsTask(task_queue[j])'
    <3>1. PICK t : t = task_queue[j]
      OBVIOUS
    <3>2. IsTask(t) /\ t.task \in Slices
      BY <1>1, <3>1, InTasked DEF Queued
    <3>3. r < t.task /\ r \in Nat /\ t.task \in Nat
      BY <1>5, <3>1, <3>2, SliceType DEF Replays, Safe, IInv
    <3>4. shadowed'[t.task] = shadowed[t.task]
      BY <3>2, <3>3 DEF GoesOn
    <3>5. Given(t.task)' /\ Await(t.task, BufSize)'
      BY <1>3, <1>4, <3>2 DEF IsTask
    <3>6. IsTask(t)'
      BY <1>2, <3>2, <3>4, <3>5, TaskKept
    <3> QED
      BY <1>2, <3>1, <3>6
  <2> QED
    BY <1>1, <1>2, <2>1 DEF Queued
<1>9. Replays(w, r)'
  <2>1. Await(r, Position(w))'
    BY <1>4, <1>5 DEF Replays, GoesOn
  <2>2. wpc'[w] = "run" => IsPart(buf_idx[w], r, Len(shadowed[r]) - CQIdx[w])'
    BY <1>2 DEF IsPart, Has, Total, ValuesUpTo
  <2>3. AllCalls(r)' <=> AllCalls(r)
    BY <1>2 DEF AllCalls, Calls
  <2>4. ValuesUpTo(r, wop[w])' = ValuesUpTo(r, wop'[w])
    BY <1>2 DEF ValuesUpTo
  <2> QED
    BY <1>2, <1>3, <1>5, <2>1, <2>2, <2>3, <2>4 DEF Replays
<1>10. Replaying'
  <2>1. ASSUME NEW v \in Consumers, Running(v), v # w
        PROVE  Replays(v, task[v])'
    <3>1. /\ task[v] # r /\ task[v] \in Slices /\ Replays(v, task[v])
          /\ Position(v)' = Position(v)
      BY <1>7, <2>1
    <3>2. Given(task[v])' /\ Await(task[v], Position(v))'
      BY <1>2, <1>3, <1>4, <3>1 DEF Replays
    <3>3. shadowed'[task[v]] = shadowed[task[v]]
      BY <3>1 DEF GoesOn
    <3>4. \A j \in 1 .. Len(task_queue') : task[v] < task_queue'[j].task
      BY <1>2, <3>1 DEF Replays
    <3> QED
      BY <1>2, <2>1, <3>1, <3>2, <3>3, <3>4, ReplaysKept DEF GoesOn
  <2>2. \A v \in Consumers : Running(v)' => Replays(v, task[v])'
    BY <1>2, <1>6, <1>9, <2>1
  <2>3. \A v \in Consumers : ~Running(v)' => CQIdx'[v] = 0
    BY <1>1, <1>2, <1>6 DEF Replaying, GoesOn
  <2> QED
    BY <1>1, <1>2, <1>6, <2>2, <2>3 DEF Replaying
<1>11. Continuing'
  <2>1. ASSUME NEW i \in 1 .. Len(full_list)
        PROVE  Follows(full_list[i], SliceOf(full_list[i]), Base(full_list[i]))'
    <3>0. PICK b, s, n : b = full_list[i] /\ s = SliceOf(b) /\ n = Base(b)
      OBVIOUS
    <3>1. Follows(b, s, n)
      BY <1>1, <3>0 DEF Continuing
    <3>2. Given(s)' /\ Await(s, n + BufSize)'
      BY <1>3, <1>4, <3>1 DEF Follows
    <3>3. \A v \in Consumers : Running(v)' /\ task'[v] = s => Position(v)' <= n
      BY <1>2, <1>6, <1>7, <3>1 DEF Follows, GoesOn
    <3>4. Follows(b, s, n)'
      BY <1>2, <3>1, <3>2, <3>3, FollowsKept
    <3> QED
      BY <1>2, <3>0, <3>4, ContinuationKept
  <2> QED
    BY <1>1, <1>2, <2>1 DEF Continuing, InOrder, SliceOf, Base
<1>12. Recorded'
  <2>1. \A s : FollowedUp(s) => FollowedUp(s)'
    BY <1>2, <1>6 DEF FollowedUp
  <2>2. Given(r) /\ reported[r] = 0
    BY <1>5 DEF Replays
  <2>3. ASSUME NEW s \in Slices
        PROVE  /\ Own(s, shadowed[s])' /\ reported'[s] \in {0, 1}
               /\ ~Given(s)' => shadowed'[s] = << >> /\ reported'[s] = 0
               /\ reported'[s] = 1 => Ended(s)' /\ Len(shadowed'[s]) = Total(s)'
               /\ Given(s)' /\ reported'[s] = 0 => FollowedUp(s)'
    <3>1. CASE s = r
      BY <1>1, <1>2, <1>3, <1>5, <2>1, <2>2, <3>1 DEF Recorded
    <3>2. CASE s # r
      <4>1. shadowed'[s] = shadowed[s]
        BY <3>2 DEF GoesOn
      <4> QED
        BY <1>1, <1>2, <1>3, <2>1, <4>1 DEF Recorded, Own
    <3> QED
      BY <3>1, <3>2
  <2>4. \A v \in Consumers : wpc'[v] = "exited" => wpc[v] = "exited"
    BY <1>2 DEF GoesOn, Running
  <2>5. \A v \in Workers : wpc[v] = "exited" => wpc'[v] = "exited"
    BY <1>2 DEF GoesOn, Running, Consumers
  <2> QED
    BY <1>1, <1>2, <2>3, <2>4, <2>5 DEF Recorded, Slices
<1> QED
  BY <1>3, <1>8, <1>10, <1>11, <1>12 DEF StreamInv

(* The value that is read is the next one of the clone's own slice.        *)
LEMMA ReadsOwn ==
  ASSUME Safe, NEW w \in Consumers, Read(w)
  PROVE  /\ Running(w) /\ wpc[w] = "run" /\ task[w] \in Slices /\ NextOp(w) = "val"
         /\ CQIdx[w] \in 0 .. BufSize - 1 /\ BufSize \in Nat
         /\ Len(shadowed[task[w]]) \in Nat
         /\ Len(shadowed[task[w]]) < Total(task[w]) /\ Total(task[w]) \in Nat
         /\ queue[buf_idx[w]][CQIdx[w]] = <<task[w], Len(shadowed[task[w]]) + 1>>
         /\ shadowed' = [shadowed EXCEPT ![task[w]] =
                            Append(@, <<task[w], Len(shadowed[task[w]]) + 1>>)]
         /\ wop' = [wop EXCEPT ![w] = @ + 1]
<1>1. wpc[w] = "run" /\ Running(w) /\ MayDo(w, "val") /\ Advance(w)
  BY DEF Read, MayDo, Running
<1>2. /\ task[w] \in Slices /\ Replays(w, task[w]) /\ ~Lost(w)
      /\ Len(shadowed[task[w]]) \in Nat /\ CQIdx[w] \in 0 .. BufSize
      /\ wop' = [wop EXCEPT ![w] = @ + 1] /\ BufSize \in Nat
  BY <1>1, Follower, ConstantTypes
<1>3. /\ NextOp(w) = "val" /\ Len(shadowed[task[w]]) < Total(task[w])
      /\ Total(task[w]) \in Nat
  BY <1>1, <1>2, NextOfSlice, SliceType DEF Safe, IInv
<1>4. CQIdx[w] \in 0 .. BufSize - 1
  BY <1>2 DEF Read
<1>5. queue[buf_idx[w]][CQIdx[w]] = <<task[w], Len(shadowed[task[w]]) + 1>>
  <2>1. PICK r, k, q : r = task[w] /\ k = Len(shadowed[r]) /\ q = CQIdx[w]
    OBVIOUS
  <2>2. IsPart(buf_idx[w], r, k - q)
    BY <1>1, <1>2, <2>1 DEF Replays
  <2>3. (k - q) + q = k /\ (k - q) + q + 1 = k + 1
    BY <1>2, <2>1
  <2>4. queue[buf_idx[w]][q] = <<r, k + 1>>
    BY <1>2, <1>3, <1>4, <2>1, <2>2, <2>3 DEF IsPart, Has
  <2> QED
    BY <2>1, <2>4
<1> QED
  BY <1>1, <1>2, <1>3, <1>4, <1>5 DEF Read

LEMMA ReadStreams == ASSUME Safe, NEW w \in Consumers, Read(w) PROVE StreamInv'
<1>0. PICK r, k : r = task[w] /\ k = Len(shadowed[r])
  OBVIOUS
<1>1. /\ Running(w) /\ wpc[w] = "run" /\ r \in Slices /\ NextOp(w) = "val"
      /\ CQIdx[w] \in 0 .. BufSize - 1 /\ BufSize \in Nat /\ k \in Nat /\ k < Total(r)
      /\ shadowed' = [shadowed EXCEPT ![r] = Append(@, <<r, k + 1>>)]
      /\ wop' = [wop EXCEPT ![w] = @ + 1]
  BY <1>0, ReadsOwn
<1>2. TypeOK /\ TypeConsumers /\ TypeHistory /\ Replays(w, r) /\ wop[w] \in Nat
  BY <1>0, <1>1, Follower DEF Safe, IInv, TypeOK
<1>3. /\ CQIdx' = [CQIdx EXCEPT ![w] = @ + 1] /\ Aside
      /\ UNCHANGED <<wpc, task, buf_id, buf_idx, task_queue, full_list, init_flag, reported,
                     program, queue>>
  BY DEF Read, Aside
<1>4. /\ CQIdx'[w] = CQIdx[w] + 1 /\ wop'[w] = wop[w] + 1
      /\ \A v \in Consumers : v # w => CQIdx'[v] = CQIdx[v] /\ wop'[v] = wop[v]
  BY <1>1, <1>2, <1>3 DEF TypeConsumers
<1>5. shadowed[r] \in Seq(Values) /\ shadowed'[r] = Append(shadowed[r], <<r, k + 1>>)
      /\ \A s \in Slices : s # r => shadowed'[s] = shadowed[s]
  BY <1>1, <1>2 DEF TypeHistory
<1>6. Len(shadowed'[r]) = k + 1
  BY <1>0, <1>5
<1>7. Own(r, shadowed[r])'
  <2>1. Own(r, shadowed[r])
    BY <1>1 DEF Safe, StreamInv, Recorded
  <2>2. \A i \in 1 .. k : Append(shadowed[r], <<r, k + 1>>)[i] = <<r, i>>
    BY <1>0, <1>5, <2>1 DEF Own
  <2>3. Append(shadowed[r], <<r, k + 1>>)[k + 1] = <<r, k + 1>>
    BY <1>0, <1>5
  <2>4. \A i \in 1 .. k + 1 : i \in 1 .. k \/ i = k + 1
    BY <1>1
  <2> QED
    BY <1>5, <1>6, <2>2, <2>3, <2>4 DEF Own
<1>8. (OnFirst(w) \/ OnLater(w))'
  <2>1. CASE OnFirst(w)
    BY <1>0, <1>1, <1>3, <1>4, <1>6, <2>1 DEF OnFirst
  <2>2. CASE OnLater(w)
    <3>1. BufSize + CQIdx'[w] <= k + 1 /\ CQIdx'[w] # 0
      BY <1>0, <1>1, <1>4, <2>2 DEF OnLater
    <3> QED
      BY <1>0, <1>1, <1>3, <1>6, <3>1 DEF OnLater
  <2> QED
    BY <1>2, <2>1, <2>2 DEF Replays
<1>9. wop'[w] <= Len(program[r]) /\ Len(shadowed'[r]) = ValuesUpTo(r, wop'[w])
  <2>1. wop[w] < Len(program[r]) /\ ValuesUpTo(r, wop[w] + 1) = k + 1 /\ Len(program[r]) \in Nat
    BY <1>0, <1>1, <1>2, NextOfSlice, SliceType
  <2> QED
    BY <1>2, <1>4, <1>6, <2>1
<1>10. wpc'[w] = "run" => IsPart(buf_idx'[w], r, Len(shadowed'[r]) - CQIdx'[w])
  <2>1. Len(shadowed'[r]) - CQIdx'[w] = k - CQIdx[w]
    BY <1>1, <1>4, <1>6
  <2> QED
    BY <1>0, <1>1, <1>2, <1>3, <2>1 DEF Replays
<1>11. Position(w)' = Position(w)
  BY <1>0, <1>1, <1>3, <1>4, <1>6 DEF Position
<1>12. GoesOn(w)
  BY <1>0, <1>1, <1>3, <1>4, <1>5, <1>11 DEF GoesOn, Running
<1> QED
  BY <1>0, <1>7, <1>8, <1>9, <1>10, <1>12, GoesOnKeeps

(* A clone that gives its buffer back is going to read behind the first    *)
(* buffer of its slice.                                                    *)
LEMMA ReleaseStreams ==
  ASSUME Safe, NEW w \in Consumers, wpc[w] = "run", CQIdx[w] = BufSize,
         Rewind(w), wpc' = [wpc EXCEPT ![w] = "interim"], Aside,
         UNCHANGED <<task_queue, full_list, task, buf_id, buf_idx, init_flag, reported,
                     shadowed>>,
         NEW p \in Nat, wop' = [wop EXCEPT ![w] = p], p < Len(program[task[w]]),
         program[task[w]][p + 1] = "val",
         Len(shadowed[task[w]]) = ValuesUpTo(task[w], p)
  PROVE  StreamInv'
<1>0. PICK r, k : r = task[w] /\ k = Len(shadowed[r])
  OBVIOUS
<1>1. /\ Running(w) /\ Replays(w, r) /\ r \in Slices /\ k \in Nat
      /\ BufSize \in Nat /\ BufSize > 0 /\ Len(program[r]) \in Nat
      /\ TypeConsumers /\ program' = program
  BY <1>0, Follower, ConstantTypes, SliceType DEF Running, Safe, IInv, TypeOK, Aside
<1>2. /\ wpc'[w] = "interim" /\ CQIdx'[w] = 0 /\ wop'[w] = p
      /\ \A v \in Consumers : v # w => /\ wpc'[v] = wpc[v] /\ wop'[v] = wop[v]
                                       /\ CQIdx'[v] = CQIdx[v]
  BY <1>1 DEF Rewind, TypeConsumers
<1>3. BufSize <= k
  BY <1>0, <1>1 DEF Replays, OnFirst, OnLater
<1>4. NextOp(w)' = "val"
  BY <1>0, <1>1, <1>2 DEF NextOp
<1>5. OnLater(w)'
  BY <1>0, <1>1, <1>2, <1>3, <1>4 DEF OnLater
<1>6. Position(w)' = Position(w)
  BY <1>0, <1>1, <1>2 DEF Position
<1>7. GoesOn(w)
  BY <1>1, <1>2, <1>6 DEF GoesOn, Running
<1>8. Own(r, shadowed[r])'
  BY <1>1 DEF Own, Safe, StreamInv, Recorded
<1>9. wop'[w] <= Len(program[r]) /\ Len(shadowed'[r]) = ValuesUpTo(r, wop'[w])
  BY <1>0, <1>1, <1>2
<1> QED
  BY <1>0, <1>2, <1>5, <1>7, <1>8, <1>9, GoesOnKeeps

LEMMA ReadFromNextStreams ==
  ASSUME Safe, NEW w \in Consumers, ReadFromNext(w)
  PROVE  StreamInv'
<1>1. wpc[w] = "run" /\ Running(w) /\ MayDo(w, "val") /\ CQIdx[w] >= BufSize
  BY DEF ReadFromNext, MayDo, Running
<1>2. /\ task[w] \in Slices /\ Replays(w, task[w]) /\ CQIdx[w] = BufSize
      /\ wop[w] \in Nat /\ wop[w] < Len(program[task[w]])
      /\ program[task[w]][wop[w] + 1] = "val"
  BY <1>1, Follower, NextOfSlice, ConstantTypes
<1>3. wop' = [wop EXCEPT ![w] = wop[w]]
  BY DEF ReadFromNext, Safe, IInv, TypeOK, TypeConsumers
<1>4. Aside /\ Rewind(w) /\ wpc' = [wpc EXCEPT ![w] = "interim"]
      /\ UNCHANGED <<task_queue, full_list, task, buf_id, buf_idx, init_flag, reported, shadowed>>
  BY DEF ReadFromNext, Release, Aside
<1> QED
  BY <1>1, <1>2, <1>3, <1>4, ReleaseStreams DEF Replays

(* A callee is entered while the clone is on the buffer it was given.      *)
LEMMA Entering ==
  ASSUME Safe, NEW w \in Consumers, MayDo(w, "call") \/ MayDo(w, "icall"),
         NEW r, r = task[w]
  PROVE  /\ Running(w) /\ wpc[w] = "run" /\ r \in Slices
         /\ wop[w] < Len(program[r])
         /\ Len(shadowed[r]) = ValuesUpTo(r, wop[w] + 1)
         /\ Len(shadowed[r]) < BufSize
               \/ (wop[w] + 1 < Len(program[r]) /\ program[r][wop[w] + 2] = "val")
         /\ OnFirst(w) /\ buf_idx[w] \in init_flag /\ buf_id[w] \in clone_map
<1> DEFINE k == Len(shadowed[r])
<1>1. wpc[w] = "run" /\ Running(w)
  BY DEF MayDo, Running
<1>2. NextOp(w) \in {"call", "icall"}
  BY <1>1, NextOfSlice
<1>3. /\ r \in Slices /\ Replays(w, r) /\ wop[w] \in Nat /\ k \in Nat
      /\ CQIdx[w] \in 0 .. BufSize /\ BufSize \in Nat /\ TypeOK /\ Supported
  BY <1>1, Follower, ConstantTypes DEF Safe, IInv
<1>4. wop[w] < Len(program[r]) /\ program[r][wop[w] + 1] # "val"
  BY <1>1, <1>2, NextOfSlice
<1>5. k = ValuesUpTo(r, wop[w])
  BY <1>3 DEF Replays
<1>6. /\ ValuesUpTo(r, wop[w] + 1) = k /\ AllCalls(r)
      /\ \/ k < BufSize
         \/ k = BufSize /\ wop[w] + 1 < Len(program[r]) /\ program[r][wop[w] + 2] = "val"
  BY <1>3, <1>4, <1>5, CalleeAt
<1>7. OnFirst(w)
  <2>1. ~OnLater(w)
    BY <1>2, <1>3, <1>6 DEF OnLater
  <2> QED
    BY <1>3, <2>1 DEF Replays
<1>8. buf_idx[w] \in init_flag /\ buf_id[w] \in clone_map
  BY <1>3, <1>6, <1>7 DEF OnFirst, Replays
<1> QED
  BY <1>1, <1>3, <1>4, <1>6, <1>7, <1>8

LEMMA EnterCloneStreams ==
  ASSUME Safe, NEW w \in Consumers, EnterClone(w)
  PROVE  StreamInv'
<1>0. PICK r, k : r = task[w] /\ k = Len(shadowed[r])
  OBVIOUS
<1>1. MayDo(w, "call") \/ MayDo(w, "icall")
  BY DEF EnterClone, RunsCallee
<1>2. /\ Running(w) /\ wpc[w] = "run" /\ r \in Slices /\ wop[w] < Len(program[r])
      /\ k = ValuesUpTo(r, wop[w] + 1) /\ OnFirst(w)
      /\ k < BufSize \/ (wop[w] + 1 < Len(program[r]) /\ program[r][wop[w] + 2] = "val")
  BY <1>0, <1>1, Entering
<1>3. /\ Replays(w, r) /\ wop' = [wop EXCEPT ![w] = @ + 1] /\ wop[w] \in Nat
      /\ CQIdx[w] \in 0 .. BufSize /\ BufSize \in Nat /\ TypeConsumers
      /\ Len(program[r]) \in Nat
  BY <1>0, <1>2, Follower, ConstantTypes, SliceType DEF EnterClone, Safe, IInv, TypeOK
<1>4. /\ Aside /\ program' = program
      /\ UNCHANGED <<task_queue, full_list, task, buf_id, buf_idx, init_flag, reported,
                     shadowed, queue>>
  BY DEF EnterClone, Aside
<1>5. CASE CQIdx[w] < BufSize
  <2>1. UNCHANGED <<CQIdx, wpc>>
    BY <1>5 DEF EnterClone
  <2>2. /\ wop'[w] = wop[w] + 1
        /\ \A v \in Consumers : v # w => wop'[v] = wop[v]
    BY <1>3 DEF TypeConsumers
  <2>3. OnFirst(w)'
    BY <1>2, <1>4, <2>1 DEF OnFirst
  <2>4. GoesOn(w)
    BY <1>2, <1>4, <2>1, <2>2 DEF GoesOn, Running, Position
  <2>5. Own(r, shadowed[r])'
    BY <1>2, <1>4 DEF Own, Safe, StreamInv, Recorded
  <2>6. wop'[w] <= Len(program[r]) /\ Len(shadowed'[r]) = ValuesUpTo(r, wop'[w])
    <3>1. wop[w] + 1 <= Len(program[r])
      BY <1>2, <1>3
    <3>2. shadowed' = shadowed
      BY <1>4
    <3> QED
      BY <1>0, <1>2, <2>2, <3>1, <3>2
  <2>7. wpc'[w] = "run" => IsPart(buf_idx'[w], r, Len(shadowed'[r]) - CQIdx'[w])
    BY <1>2, <1>3, <1>4, <2>1 DEF Replays
  <2> QED
    BY <1>0, <2>3, <2>4, <2>5, <2>6, <2>7, GoesOnKeeps
<1>6. CASE ~(CQIdx[w] < BufSize)
  <2>1. CQIdx[w] = BufSize /\ Rewind(w) /\ wpc' = [wpc EXCEPT ![w] = "interim"]
    BY <1>3, <1>6 DEF EnterClone, Release
  <2>2. k = BufSize
    BY <1>0, <1>2, <2>1 DEF OnFirst
  <2>3. PICK p : p = wop[w] + 1
    OBVIOUS
  <2>4. /\ p \in Nat /\ wop' = [wop EXCEPT ![w] = p] /\ p < Len(program[r])
        /\ program[r][p + 1] = "val" /\ k = ValuesUpTo(r, p)
    BY <1>2, <1>3, <2>2, <2>3
  <2> QED
    BY <1>0, <1>2, <1>4, <2>1, <2>4, ReleaseStreams
<1> QED
  BY <1>5, <1>6

(* These two steps are never taken.                                        *)
LEMMA NoDummy == ASSUME Safe, NEW w \in Consumers PROVE ~Dummy(w)
BY Entering DEF Dummy

LEMMA NoCrash == ASSUME Safe, NEW w \in Consumers PROVE ~Crash(w)
BY Entering DEF Crash, RunsCallee

(* The head of a queue and what is behind it.                              *)
LEMMA HeadAndTail ==
  ASSUME NEW S, NEW q \in Seq(S), q # << >>
  PROVE  /\ Len(q) \in Nat /\ 1 \in 1 .. Len(q) /\ Head(q) = q[1]
         /\ Len(Tail(q)) = Len(q) - 1
         /\ \A i \in 1 .. Len(q) - 1 : Tail(q)[i] = q[i + 1] /\ i + 1 \in 1 .. Len(q)
         /\ \A i \in 1 .. Len(q) : i # 1 => i - 1 \in 1 .. Len(q) - 1 /\ Tail(q)[i - 1] = q[i]
<1>1. Len(q) \in Nat /\ 1 \in 1 .. Len(q) /\ Head(q) = q[1] /\ Len(Tail(q)) = Len(q) - 1
  OBVIOUS
<1>2. \A i \in 1 .. Len(q) - 1 : Tail(q)[i] = q[i + 1] /\ i + 1 \in 1 .. Len(q)
  BY <1>1
<1>3. \A i \in 1 .. Len(q) : i # 1 => i - 1 \in 1 .. Len(q) - 1 /\ (i - 1) + 1 = i
  BY <1>1
<1> QED
  BY <1>1, <1>2, <1>3

LEMMA StealStreams == ASSUME Safe, NEW w \in Consumers, Steal(w) PROVE StreamInv'
<1>0. PICK t, r, b : t = Head(task_queue) /\ r = t.task /\ b = t.buf
  OBVIOUS
<1>1. /\ IInv /\ TypeOK /\ TypeLists /\ TypeConsumers /\ pc # "crashed"
      /\ Producing /\ Queued /\ Replaying /\ Continuing /\ Recorded
  BY DEF Safe, IInv, TypeOK, StreamInv, Producing
<1>2. /\ wpc[w] = "poll" /\ ~Running(w) /\ task_queue # << >> /\ task_queue' = Tail(task_queue)
      /\ wpc' = [wpc EXCEPT ![w] = "run"] /\ task' = [task EXCEPT ![w] = r]
      /\ buf_id' = [buf_id EXCEPT ![w] = b] /\ buf_idx' = [buf_idx EXCEPT ![w] = b]
      /\ wop' = [wop EXCEPT ![w] = 0] /\ init_flag' = init_flag \cup {b} /\ Aside
      /\ UNCHANGED <<program, pc, fini, full_list, queue, clone_map, shadowed, reported, CQIdx>>
  BY <1>0 DEF Steal, StartClone, Running, Aside, producerVars
<1>3. /\ wpc'[w] = "run" /\ task'[w] = r /\ buf_id'[w] = b /\ buf_idx'[w] = b /\ wop'[w] = 0
      /\ CQIdx'[w] = 0 /\ Running(w)'
      /\ \A v \in Consumers : v # w => /\ wpc'[v] = wpc[v] /\ task'[v] = task[v]
                                       /\ buf_id'[v] = buf_id[v] /\ wop'[v] = wop[v]
                                       /\ buf_idx'[v] = buf_idx[v] /\ CQIdx'[v] = CQIdx[v]
                                       /\ Position(v)' = Position(v)
                                       /\ (Running(v)' <=> Running(v))
  BY <1>1, <1>2 DEF TypeConsumers, Replaying, Running, Position
<1>4. /\ Len(task_queue) \in Nat /\ 1 \in 1 .. Len(task_queue) /\ t = task_queue[1]
      /\ Len(task_queue') = Len(task_queue) - 1
      /\ \A j \in 1 .. Len(task_queue') :
           task_queue'[j] = task_queue[j + 1] /\ j + 1 \in 1 .. Len(task_queue) /\ 1 < j + 1
      /\ \A j \in 1 .. Len(task_queue) :
           j # 1 => j - 1 \in 1 .. Len(task_queue') /\ task_queue'[j - 1] = task_queue[j]
  BY <1>0, <1>1, <1>2, HeadAndTail DEF TypeLists
<1>5. IsTask(t) /\ r \in Slices /\ b \in Buffers
  BY <1>0, <1>1, <1>4, InTasked DEF Queued
<1>6. Producing' /\ \A s : /\ Given(s)' <=> Given(s)
                           /\ Ended(s)' <=> Ended(s)
                           /\ HandedOver(s)' = HandedOver(s)
                           /\ Total(s)' = Total(s)
  BY <1>1, <1>2, AsideKept
<1>7. \A s, n : Await(s, n) => Await(s, n)'
  BY <1>2, <1>6, AwaitKept
<1>8. \A j \in 1 .. Len(task_queue') : r < task_queue'[j].task
  BY <1>0, <1>1, <1>4 DEF Queued
<1>9. Queued'
  <2>1. ASSUME NEW j \in 1 .. Len(task_queue')
        PROVE  IsTask(task_queue[j])'
    <3>1. PICK u : u = task_queue[j + 1]
      OBVIOUS
    <3>2. IsTask(u)
      BY <1>1, <1>4, <3>1 DEF Queued
    <3>3. Given(u.task)' /\ Await(u.task, BufSize)'
      BY <1>6, <1>7, <3>2 DEF IsTask
    <3>4. IsTask(u)'
      BY <1>2, <3>2, <3>3, TaskKept
    <3> QED
      BY <1>4, <3>1, <3>4
  <2>2. \A i, j \in 1 .. Len(task_queue') : i < j => task_queue'[i].task < task_queue'[j].task
    <3>1. \A i, j \in 1 .. Len(task_queue') : i < j => i + 1 < j + 1
      BY <1>4
    <3> QED
      BY <1>1, <1>4, <3>1 DEF Queued
  <2> QED
    BY <2>1, <2>2 DEF Queued
<1>10. /\ Given(r) /\ shadowed[r] = << >> /\ reported[r] = 0 /\ IsPart(b, r, 0)
       /\ Await(r, BufSize) /\ (AllCalls(r) => b \in clone_map)
  BY <1>0, <1>5 DEF IsTask
<1>11. BufSize \in Nat /\ Len(program[r]) \in Nat /\ Position(w)' = BufSize
  <2>1. BufSize \in Nat /\ Len(program[r]) \in Nat
    BY <1>1, <1>5, ConstantTypes, SliceType
  <2>2. Len(shadowed'[r]) = 0
    BY <1>2, <1>10
  <2> QED
    BY <1>3, <2>1, <2>2 DEF Position
<1>12. Replays(w, r)'
  <2>1. ValuesUpTo(r, 0)' = 0
    BY CountZero DEF ValuesUpTo
  <2>2. Await(r, Position(w))' /\ Given(r)'
    BY <1>6, <1>7, <1>10, <1>11
  <2>3. IsPart(b, r, 0)' /\ (AllCalls(r)' => b \in clone_map')
    BY <1>2, <1>10 DEF IsPart, Has, Total, ValuesUpTo, AllCalls, Calls
  <2>4. OnFirst(w)'
    BY <1>2, <1>3, <1>10 DEF OnFirst
  <2> QED
    BY <1>2, <1>3, <1>8, <1>10, <1>11, <2>1, <2>2, <2>3, <2>4 DEF Replays
<1>13. ASSUME NEW v \in Consumers, v # w, Running(v)
       PROVE  Replays(v, task[v])' /\ task[v] # r
  <2>1. Replays(v, task[v]) /\ task[v] \in Slices
    BY <1>1, <1>13, Follower
  <2>2. Given(task[v])' /\ Await(task[v], Position(v))'
    BY <1>3, <1>6, <1>7, <1>13, <2>1 DEF Replays
  <2>3. \A j \in 1 .. Len(task_queue') : task[v] < task_queue'[j].task
    BY <1>4, <2>1 DEF Replays
  <2>4. task[v] < r
    BY <1>0, <1>4, <2>1 DEF Replays
  <2>5. task[v] # r
    BY <1>1, <1>5, <2>1, <2>4, SliceType
  <2> QED
    BY <1>2, <1>3, <1>13, <2>1, <2>2, <2>3, <2>5, ReplaysKept
<1>14. Replaying'
  <2>1. \A v \in Consumers : Running(v)' => Replays(v, task[v])'
    BY <1>3, <1>12, <1>13
  <2>2. \A v \in Consumers : ~Running(v)' => CQIdx'[v] = 0
    BY <1>1, <1>3 DEF Replaying
  <2>3. \A u, v \in Consumers : Running(u)' /\ Running(v)' /\ task'[u] = task'[v] => u = v
    BY <1>1, <1>3, <1>13 DEF Replaying
  <2> QED
    BY <2>1, <2>2, <2>3 DEF Replaying
<1>15. Continuing'
  <2>1. ASSUME NEW i \in 1 .. Len(full_list)
        PROVE  Follows(full_list[i], SliceOf(full_list[i]), Base(full_list[i]))'
    <3>0. PICK d, s, n : d = full_list[i] /\ s = SliceOf(d) /\ n = Base(d)
      OBVIOUS
    <3>1. Follows(d, s, n)
      BY <1>1, <3>0 DEF Continuing
    <3>2. Given(s)' /\ Await(s, n + BufSize)'
      BY <1>6, <1>7, <3>1 DEF Follows
    <3>3. \A v \in Consumers : Running(v)' /\ task'[v] = s => Position(v)' <= n
      BY <1>3, <1>11, <3>1 DEF Follows
    <3>4. Follows(d, s, n)'
      BY <1>2, <3>1, <3>2, <3>3, FollowsKept
    <3> QED
      BY <1>2, <3>0, <3>4, ContinuationKept
  <2>2. UNCHANGED <<full_list, queue>>
    BY <1>2
  <2> QED
    BY <1>1, <2>1, <2>2 DEF Continuing, InOrder, SliceOf, Base
<1>16. Recorded'
  <2>1. ASSUME NEW s, FollowedUp(s)
        PROVE  FollowedUp(s)'
    <3>1. CASE \E v \in Consumers : Running(v) /\ task[v] = s
      BY <1>2, <1>3, <3>1 DEF FollowedUp
    <3>2. CASE \E j \in 1 .. Len(task_queue) : task_queue[j].task = s
      <4>1. PICK j \in 1 .. Len(task_queue) : task_queue[j].task = s
        BY <3>2
      <4>2. CASE j = 1
        BY <1>0, <1>3, <1>4, <4>1, <4>2 DEF FollowedUp
      <4>3. CASE j # 1
        BY <1>4, <4>1, <4>3 DEF FollowedUp
      <4> QED
        BY <4>2, <4>3
    <3> QED
      BY <2>1, <3>1, <3>2 DEF FollowedUp
  <2>2. \A v \in Consumers : wpc'[v] # "exited"
    BY <1>1, <1>2, <1>3 DEF Recorded
  <2>3. pc # "done"
    <3>1. w \in Workers
      BY <1>1, <1>2 DEF Consumers, IInv, Control
    <3> QED
      BY <1>1, <1>2, <3>1 DEF Recorded
  <2> QED
    BY <1>1, <1>2, <1>6, <2>1, <2>2, <2>3 DEF Recorded, Slices, Own
<1> QED
  BY <1>6, <1>9, <1>14, <1>15, <1>16 DEF StreamInv

(* A clone that waits wants the values behind the ones it has read.        *)
LEMMA Waiting ==
  ASSUME Safe, NEW w \in Consumers, wpc[w] = "interim", NEW r, r = task[w]
  PROVE  /\ Running(w) /\ r \in Slices /\ Replays(w, r) /\ OnLater(w) /\ CQIdx[w] = 0
         /\ NextOp(w) = "val"
         /\ Len(shadowed[r]) \in Nat /\ Total(r) \in Nat /\ r \in Nat
         /\ BufSize <= Len(shadowed[r]) /\ Len(shadowed[r]) < Total(r)
         /\ Position(w) = Len(shadowed[r])
<1>1. Running(w)
  BY DEF Running
<1>2. r \in Slices /\ Replays(w, r) /\ Len(shadowed[r]) \in Nat /\ TypeOK
  BY <1>1, Follower DEF Safe, IInv
<1>3. OnLater(w)
  BY <1>2 DEF Replays, OnFirst
<1>4. CQIdx[w] = 0 /\ NextOp(w) = "val" /\ BufSize <= Len(shadowed[r])
  BY <1>2, <1>3, ConstantTypes DEF OnLater
<1> QED
  BY <1>1, <1>2, <1>3, <1>4, NextOfSlice, SliceType DEF Position

(* The types of a continuation.                                            *)
LEMMA ContinuationType ==
  ASSUME TypeOK, NEW b \in Buffers
  PROVE  SliceOf(b) \in Nat /\ Base(b) \in Int
<1>1. queue[b] \in [0 .. BufSize - 1 -> Values] /\ 0 \in 0 .. BufSize - 1
  BY ConstantTypes DEF TypeOK, TypeQueue
<1>2. queue[b][0] \in (0 .. Len(program)) \X Nat
  BY <1>1 DEF Values
<1>3. queue[b][0][1] \in 0 .. Len(program) /\ queue[b][0][2] \in Nat /\ Len(program) \in Nat
  BY <1>2, CountersType
<1> QED
  BY <1>3 DEF SliceOf, Base

(* The first continuation in full_list is the one the clone is waiting     *)
(* for.                                                                    *)
LEMMA HeadIsNext ==
  ASSUME Safe, NEW w \in Consumers, wpc[w] = "interim", full_list # << >>,
         NEW r, r = task[w], NEW k, k = Len(shadowed[r]), NEW b, b = full_list[1]
  PROVE  SliceOf(b) = r /\ Base(b) = k
<1>1. /\ IInv /\ TypeOK /\ TypeLists /\ pc # "crashed" /\ Supported
      /\ Replaying /\ Continuing /\ Recorded
  BY DEF Safe, IInv, TypeOK, StreamInv, Producing
<1>2. /\ Running(w) /\ r \in Slices /\ Replays(w, r) /\ r \in Nat
      /\ k \in Nat /\ Total(r) \in Nat /\ BufSize <= k /\ k < Total(r)
      /\ Position(w) = k
  BY Waiting
<1>3. 1 \in 1 .. Len(full_list) /\ b \in Buffers
  BY <1>1, HeadAndTail, InFull DEF TypeLists
<1>4. PICK s, n : s = SliceOf(b) /\ n = Base(b)
  OBVIOUS
<1>5. /\ Follows(b, s, n) /\ s \in Slices /\ s \in Nat /\ n \in Int
      /\ BufSize \in Nat /\ BufSize > 0 /\ Total(s) \in Nat
  <2>1. Follows(b, s, n)
    BY <1>1, <1>3, <1>4 DEF Continuing
  <2> QED
    BY <1>1, <1>3, <1>4, <2>1, ContinuationType, ConstantTypes, SliceType DEF Follows, Given
<1>6. /\ Given(s) /\ reported[s] = 0 /\ BufSize <= n /\ n < Total(s)
      /\ Await(s, n + BufSize) /\ (r = s => k <= n)
  BY <1>2, <1>5 DEF Follows
<1>7. ASSUME NEW i \in 1 .. Len(full_list), i # 1
      PROVE  InOrder(b, full_list[i])
  BY <1>1, <1>3, <1>7 DEF Continuing
<1>8. k < HandedOver(r) => \E i \in 1 .. Len(full_list) : IsContinuation(full_list[i], r, k)
  BY <1>2 DEF Replays, Await
<1>9. s = r
  <2>1. Overflows(r) /\ Overflows(s)
    BY <1>2, <1>5, <1>6 DEF Overflows, Total
  <2>2. Workers # {}
    BY <1>1 DEF IInv, Owned, Alone
  <2>3. CASE Cardinality(Workers) > 1
    BY <1>1, <1>2, <1>5, <2>1, <2>3 DEF Supported
  <2>4. CASE ~(Cardinality(Workers) > 1)
    <3>1. Cardinality(Workers) = 1
      BY <2>2, <2>4, WorkersAssumption, FS_CardinalityType, FS_EmptySet
    <3>2. Consumers = {w}
      BY <2>2, <3>1, WorkersAssumption, FS_Singleton DEF Consumers
    <3>3. FollowedUp(s)
      BY <1>1, <1>5, <1>6 DEF Recorded
    <3>4. CASE \E v \in Consumers : Running(v) /\ task[v] = s
      BY <3>2, <3>4
    <3>5. CASE \E j \in 1 .. Len(task_queue) : task_queue[j].task = s
      <4>1. r < s
        BY <1>2, <3>5 DEF Replays
      <4>2. slice \in Nat
        BY <1>1, CountersType
      <4>3. r < slice
        BY <1>2, <1>5, <1>6, <4>1, <4>2 DEF Given, Ended
      <4>4. HandedOver(r) = Total(r)
        BY <4>3 DEF HandedOver, Ended
      <4>5. PICK i \in 1 .. Len(full_list) : IsContinuation(full_list[i], r, k)
        BY <1>2, <1>8, <4>4
      <4>6. CASE i = 1
        BY <1>2, <1>4, <1>5, <4>1, <4>5, <4>6 DEF IsContinuation
      <4>7. CASE i # 1
        <5>1. SliceOf(full_list[i]) = r /\ InOrder(b, full_list[i])
          BY <1>7, <4>5, <4>7 DEF IsContinuation
        <5>2. s < r \/ s = r
          BY <1>4, <5>1 DEF InOrder
        <5> QED
          BY <1>2, <1>5, <4>1, <5>2
      <4> QED
        BY <4>6, <4>7
    <3> QED
      BY <3>3, <3>4, <3>5 DEF FollowedUp
  <2> QED
    BY <2>3, <2>4
<1>10. n = k
  <2>1. k < HandedOver(r)
    <3>1. CASE Ended(r)
      BY <1>2, <3>1 DEF HandedOver
    <3>2. CASE ~Ended(r)
      <4>1. n + BufSize <= HandedOver(r)
        BY <1>6, <1>9, <3>2 DEF Await
      <4>2. HandedOver(r) \in Int
        <5>1. slice \in Nat /\ opIdx \in Nat /\ QIdx \in Int /\ BufSize \in Nat
          BY <1>1, CountersType, ConstantTypes DEF TypeOK, TypeProducer
        <5> QED
          BY <5>1, <3>2, ValuesUpToNat DEF HandedOver
      <4> QED
        BY <1>2, <1>5, <1>6, <1>9, <4>1, <4>2
    <3> QED
      BY <3>1, <3>2
  <2>2. PICK i \in 1 .. Len(full_list) : IsContinuation(full_list[i], r, k)
    BY <1>8, <2>1
  <2>3. CASE i = 1
    BY <1>4, <2>2, <2>3 DEF IsContinuation
  <2>4. CASE i # 1
    <3>1. InOrder(b, full_list[i]) /\ SliceOf(full_list[i]) = r /\ Base(full_list[i]) = k
      BY <1>7, <2>2, <2>4 DEF IsContinuation
    <3>2. n + BufSize <= k
      BY <1>2, <1>4, <1>9, <3>1 DEF InOrder
    <3> QED
      BY <1>2, <1>5, <1>6, <1>9, <3>2
  <2> QED
    BY <2>3, <2>4
<1> QED
  BY <1>4, <1>9, <1>10

LEMMA TakeNextStreams == ASSUME Safe, NEW w \in Consumers, TakeNext(w) PROVE StreamInv'
<1>0. PICK r, k, b : r = task[w] /\ k = Len(shadowed[r]) /\ b = full_list[1]
  OBVIOUS
<1>1. /\ IInv /\ TypeOK /\ TypeLists /\ TypeConsumers /\ pc # "crashed"
      /\ Producing /\ Queued /\ Replaying /\ Continuing /\ Recorded
  BY DEF Safe, IInv, TypeOK, StreamInv, Producing
<1>2. /\ wpc[w] = "interim" /\ full_list # << >> /\ full_list' = Tail(full_list)
      /\ wpc' = [wpc EXCEPT ![w] = "run"] /\ buf_idx' = [buf_idx EXCEPT ![w] = Head(full_list)]
      /\ Aside
      /\ UNCHANGED <<program, pc, fini, task_queue, queue, clone_map, shadowed, reported,
                     task, buf_id, wop, CQIdx, init_flag>>
  BY DEF TakeNext, Aside, producerVars
<1>3. /\ Running(w) /\ r \in Slices /\ Replays(w, r) /\ OnLater(w) /\ CQIdx[w] = 0
      /\ NextOp(w) = "val" /\ k \in Nat /\ Total(r) \in Nat /\ r \in Nat
      /\ BufSize <= k /\ k < Total(r) /\ Position(w) = k /\ BufSize \in Nat /\ BufSize > 0
  BY <1>0, <1>2, Waiting, ConstantTypes
<1>4. SliceOf(b) = r /\ Base(b) = k
  BY <1>0, <1>2, HeadIsNext
<1>5. /\ Len(full_list) \in Nat /\ 1 \in 1 .. Len(full_list) /\ Head(full_list) = b
      /\ Len(full_list') = Len(full_list) - 1
      /\ \A i \in 1 .. Len(full_list') :
           full_list'[i] = full_list[i + 1] /\ i + 1 \in 1 .. Len(full_list) /\ 1 < i + 1
      /\ \A i \in 1 .. Len(full_list) :
           i # 1 => i - 1 \in 1 .. Len(full_list') /\ full_list'[i - 1] = full_list[i]
  BY <1>0, <1>1, <1>2, HeadAndTail DEF TypeLists
<1>6. Follows(b, r, k)
  BY <1>0, <1>1, <1>4, <1>5 DEF Continuing
<1>7. /\ wpc'[w] = "run" /\ buf_idx'[w] = b /\ Running(w)'
      /\ \A v \in Consumers : v # w => /\ wpc'[v] = wpc[v] /\ buf_idx'[v] = buf_idx[v]
                                       /\ Position(v)' = Position(v)
      /\ \A v \in Consumers : Running(v)' <=> Running(v)
  BY <1>1, <1>2, <1>3, <1>5 DEF TypeConsumers, Running, Position
<1>8. Position(w)' = k + BufSize
  BY <1>0, <1>2, <1>3, <1>7 DEF Position
<1>9. Producing' /\ \A s : /\ Given(s)' <=> Given(s)
                           /\ Ended(s)' <=> Ended(s)
                           /\ HandedOver(s)' = HandedOver(s)
                           /\ Total(s)' = Total(s)
  BY <1>1, <1>2, AsideKept
<1>10. ASSUME NEW s, NEW n, Await(s, n), ~(s = r /\ n = k)
       PROVE  Await(s, n)'
  <2>1. ASSUME n < HandedOver(s)
        PROVE  \E i \in 1 .. Len(full_list') : IsContinuation(full_list'[i], s, n)
    <3>1. PICK i \in 1 .. Len(full_list) : IsContinuation(full_list[i], s, n)
      BY <1>10, <2>1 DEF Await
    <3>2. i # 1
      BY <1>0, <1>4, <1>10, <3>1 DEF IsContinuation
    <3> QED
      BY <1>5, <3>1, <3>2
  <2>2. UNCHANGED queue
    BY <1>2
  <2> QED
    BY <1>9, <1>10, <2>1, <2>2 DEF Await, IsContinuation, SliceOf, Base
<1>11. Queued'
  <2>1. ASSUME NEW j \in 1 .. Len(task_queue)
        PROVE  IsTask(task_queue[j])'
    <3>1. PICK t : t = task_queue[j]
      OBVIOUS
    <3>2. IsTask(t) /\ r < t.task
      BY <1>1, <1>3, <3>1 DEF Queued, Replays
    <3>3. Given(t.task)' /\ Await(t.task, BufSize)'
      BY <1>3, <1>9, <1>10, <3>2 DEF IsTask
    <3>4. IsTask(t)'
      BY <1>2, <3>2, <3>3, TaskKept
    <3> QED
      BY <1>2, <3>1, <3>4
  <2> QED
    BY <1>1, <1>2, <2>1 DEF Queued
<1>12. Replays(w, r)'
  <2>1. Await(r, Position(w))'
    BY <1>3, <1>6, <1>8, <1>10 DEF Follows
  <2>2. IsPart(b, r, k - 0)'
    <3>1. k - 0 = k /\ IsPart(b, r, k)
      BY <1>3, <1>6 DEF Follows
    <3> QED
      BY <1>2, <3>1 DEF IsPart, Has, Total, ValuesUpTo
  <2>3. OnLater(w)'
    BY <1>0, <1>2, <1>3, <1>7 DEF OnLater, NextOp
  <2>4. /\ AllCalls(r)' <=> AllCalls(r)
        /\ ValuesUpTo(r, wop[w])' = ValuesUpTo(r, wop[w])
    BY <1>2 DEF AllCalls, Calls, ValuesUpTo
  <2>5. Given(r)'
    BY <1>3, <1>9 DEF Replays
  <2>6. /\ CQIdx'[w] = 0 /\ Len(shadowed'[r]) = k
    BY <1>0, <1>2, <1>3
  <2>7. IsPart(buf_idx[w], r, Len(shadowed[r]) - CQIdx[w])'
    BY <1>7, <2>2, <2>6
  <2> QED
    BY <1>2, <1>3, <2>1, <2>3, <2>4, <2>5, <2>7 DEF Replays
<1>13. ASSUME NEW v \in Consumers, v # w, Running(v)
       PROVE  Replays(v, task[v])' /\ task[v] # r
  <2>1. Replays(v, task[v]) /\ task[v] # r
    BY <1>0, <1>1, <1>3, <1>13 DEF Replaying
  <2>2. Given(task[v])' /\ Await(task[v], Position(v))'
    BY <1>2, <1>7, <1>9, <1>10, <1>13, <2>1 DEF Replays
  <2>3. \A j \in 1 .. Len(task_queue') : task[v] < task_queue'[j].task
    BY <1>2, <2>1 DEF Replays
  <2> QED
    BY <1>2, <1>7, <1>13, <2>1, <2>2, <2>3, ReplaysKept
<1>14. Replaying'
  <2>1. \A v \in Consumers : Running(v)' => Replays(v, task[v])'
    BY <1>0, <1>2, <1>7, <1>12, <1>13
  <2>2. \A v \in Consumers : ~Running(v)' => CQIdx'[v] = 0
    BY <1>1, <1>2, <1>7 DEF Replaying
  <2>3. \A u, v \in Consumers : Running(u)' /\ Running(v)' /\ task'[u] = task'[v] => u = v
    BY <1>1, <1>2, <1>7 DEF Replaying
  <2> QED
    BY <2>1, <2>2, <2>3 DEF Replaying
<1>15. Continuing'
  <2>1. ASSUME NEW i \in 1 .. Len(full_list')
        PROVE  Follows(full_list[i], SliceOf(full_list[i]), Base(full_list[i]))'
    <3>0. PICK d, s, n : d = full_list[i + 1] /\ s = SliceOf(d) /\ n = Base(d)
      OBVIOUS
    <3>1. Follows(d, s, n) /\ InOrder(b, d)
      BY <1>0, <1>1, <1>5, <3>0 DEF Continuing
    <3>2. s = r => k + BufSize <= n
      BY <1>3, <1>4, <3>0, <3>1 DEF InOrder
    <3>3. n \in Int
      BY <1>1, <1>5, <3>0, InFull, ContinuationType
    <3>4. Given(s)' /\ Await(s, n + BufSize)'
      BY <1>3, <1>9, <1>10, <3>1, <3>2, <3>3 DEF Follows
    <3>5. \A v \in Consumers : Running(v)' /\ task'[v] = s => Position(v)' <= n
      BY <1>0, <1>2, <1>7, <1>8, <3>1, <3>2 DEF Follows
    <3>6. Follows(d, s, n)'
      BY <1>2, <3>1, <3>4, <3>5, FollowsKept
    <3> QED
      BY <1>2, <1>5, <3>0, <3>6, ContinuationKept
  <2>2. \A i, j \in 1 .. Len(full_list') : i < j => InOrder(full_list'[i], full_list'[j])
    <3>1. \A i, j \in 1 .. Len(full_list') : i < j => i + 1 < j + 1
      BY <1>5
    <3> QED
      BY <1>1, <1>5, <3>1 DEF Continuing
  <2>3. UNCHANGED queue
    BY <1>2
  <2> QED
    BY <2>1, <2>2, <2>3 DEF Continuing, InOrder, SliceOf, Base
<1>16. Recorded'
  <2>1. \A s : FollowedUp(s) => FollowedUp(s)'
    BY <1>2, <1>7 DEF FollowedUp
  <2>2. \A v \in Consumers : wpc'[v] = "exited" <=> wpc[v] = "exited"
    BY <1>2, <1>7
  <2>3. \A v \in Workers : wpc[v] = "exited" => wpc'[v] = "exited"
    BY <2>2 DEF Consumers
  <2> QED
    BY <1>1, <1>2, <1>9, <2>1, <2>2, <2>3 DEF Recorded, Slices, Own
<1> QED
  BY <1>9, <1>11, <1>14, <1>15, <1>16 DEF StreamInv

(* A clone that reaches its end has read everything its slice sent.        *)
LEMMA Ending ==
  ASSUME Safe, NEW w \in Consumers, MayDo(w, "end"), NEW r, r = task[w]
  PROVE  /\ Running(w) /\ wpc[w] = "run" /\ r \in Slices /\ reported[r] = 0 /\ Given(r)
         /\ Ended(r) /\ Len(shadowed[r]) = Total(r)
         /\ \A i \in 1 .. Len(full_list) : SliceOf(full_list[i]) # r
<1>1. wpc[w] = "run" /\ Running(w)
  BY DEF MayDo, Running
<1>2. /\ r \in Slices /\ Replays(w, r) /\ TypeOK /\ TypeLists /\ CQIdx[w] \in 0 .. BufSize
      /\ BufSize \in Nat /\ Total(r) \in Nat /\ Continuing /\ Producing
  BY <1>1, Follower, ConstantTypes, SliceType DEF Safe, IInv, TypeOK, StreamInv
<1>3. Len(shadowed[r]) = Total(r)
  BY <1>1, NextOfSlice
<1>4. Position(w) = Total(r) + (BufSize - CQIdx[w]) /\ Position(w) \in Int
      /\ Total(r) <= Position(w)
  BY <1>1, <1>2, <1>3 DEF Position
<1>5. Ended(r)
  <2>1. SUFFICES ASSUME ~Ended(r) PROVE FALSE
    OBVIOUS
  <2>2. r = slice /\ startSlice /\ Sending
    BY <1>2, <2>1 DEF Replays, Given, Producing, BetweenSlices, Ended
  <2>3. /\ InSlice /\ opIdx \in Nat /\ Len(program[r]) \in Nat /\ QIdx \in 0 .. BufSize
        /\ ValuesUpTo(r, opIdx) \in Nat /\ HandedOver(r) = ValuesUpTo(r, opIdx) - QIdx
    BY <2>2, InRun
  <2>4. Position(w) <= HandedOver(r)
    BY <1>2, <2>1 DEF Replays, Await
  <2>5. ValuesUpTo(r, opIdx) <= Total(r)
    BY <1>2, <2>2, <2>3, UpToTotal DEF InSlice
  <2>6. QIdx = 0 /\ ValuesUpTo(r, opIdx) = Total(r)
    BY <1>2, <1>4, <2>3, <2>4, <2>5
  <2>7. opIdx < Len(program[r]) /\ program[r][opIdx + 1] = "val"
    BY <2>2, <2>3, <2>6 DEF InSlice, AtOp
  <2>8. Total(r) + 1 <= Total(r)
    BY <1>2, <2>3, <2>6, <2>7, OneMore
  <2> QED
    BY <1>2, <2>8
<1>6. ASSUME NEW i \in 1 .. Len(full_list), SliceOf(full_list[i]) = r
      PROVE  FALSE
  <2>1. PICK d, n : d = full_list[i] /\ n = Base(d)
    OBVIOUS
  <2>2. Follows(d, r, n) /\ n \in Int
    BY <1>2, <1>6, <2>1, InFull, ContinuationType DEF Continuing
  <2>3. Position(w) <= n /\ n < Total(r)
    BY <1>1, <2>2 DEF Follows
  <2> QED
    BY <1>2, <1>4, <2>2, <2>3
<1> QED
  BY <1>1, <1>2, <1>3, <1>5, <1>6 DEF Replays

(* What both ways of ending a clone have in common.                        *)
LEMMA EndStreams ==
  ASSUME Safe, NEW w \in Consumers, EndClone(w),
         NEW e \in {"idle", "poll"}, wpc' = [wpc EXCEPT ![w] = e],
         Producing', pc' # "done",
         \A s : /\ Given(s)' <=> Given(s)
                /\ Ended(s)' <=> Ended(s)
                /\ HandedOver(s)' = HandedOver(s)
  PROVE  StreamInv'
<1>0. PICK r : r = task[w]
  OBVIOUS
<1>1. /\ IInv /\ TypeOK /\ TypeLists /\ TypeConsumers /\ TypeHistory
      /\ Queued /\ Replaying /\ Continuing /\ Recorded
  BY DEF Safe, IInv, TypeOK, StreamInv
<1>2. /\ MayDo(w, "end") /\ reported' = [reported EXCEPT ![r] = @ + 1]
      /\ CQIdx' = [CQIdx EXCEPT ![w] = 0]
      /\ UNCHANGED <<program, task_queue, full_list, queue, fini, task, buf_id, wop,
                     buf_idx, init_flag, clone_map, shadowed>>
  BY <1>0 DEF EndClone, Rewind
<1>3. /\ Running(w) /\ wpc[w] = "run" /\ r \in Slices /\ reported[r] = 0 /\ Given(r)
      /\ Ended(r) /\ Len(shadowed[r]) = Total(r)
      /\ \A i \in 1 .. Len(full_list) : SliceOf(full_list[i]) # r
  BY <1>0, <1>2, Ending
<1>4. /\ wpc'[w] = e /\ CQIdx'[w] = 0 /\ ~Running(w)'
      /\ \A v \in Consumers : v # w => /\ wpc'[v] = wpc[v] /\ CQIdx'[v] = CQIdx[v]
                                       /\ (Running(v)' <=> Running(v))
                                       /\ Position(v)' = Position(v)
  BY <1>1, <1>2 DEF TypeConsumers, Running, Position
<1>5. /\ reported'[r] = 1
      /\ \A s \in Slices : s # r => reported'[s] = reported[s]
  BY <1>1, <1>2, <1>3 DEF TypeHistory
<1>6. \A s, n : Await(s, n) => Await(s, n)'
  BY <1>2, AwaitKept
<1>7. Queued'
  <2>1. ASSUME NEW j \in 1 .. Len(task_queue)
        PROVE  IsTask(task_queue[j])'
    <3>1. PICK t : t = task_queue[j]
      OBVIOUS
    <3>2. IsTask(t) /\ t.task \in Slices
      BY <1>1, <3>1, InTasked DEF Queued
    <3>3. r < t.task /\ r \in Nat /\ t.task \in Nat
      BY <1>0, <1>1, <1>3, <3>1, <3>2, SliceType DEF Replaying, Replays
    <3>4. reported'[t.task] = reported[t.task]
      BY <1>5, <3>2, <3>3
    <3>5. Given(t.task)' /\ Await(t.task, BufSize)'
      BY <1>6, <3>2 DEF IsTask
    <3>6. IsTask(t)'
      BY <1>2, <3>2, <3>4, <3>5, TaskKept
    <3> QED
      BY <1>2, <3>1, <3>6
  <2> QED
    BY <1>1, <1>2, <2>1 DEF Queued
<1>8. Replaying'
  <2>1. ASSUME NEW v \in Consumers, v # w, Running(v)
        PROVE  Replays(v, task[v])'
    <3>1. Replays(v, task[v]) /\ task[v] \in Slices /\ task[v] # r
      BY <1>0, <1>1, <1>3, <2>1, Follower DEF Replaying
    <3>2. Given(task[v])' /\ Await(task[v], Position(v))'
      BY <1>2, <1>4, <1>6, <2>1, <3>1 DEF Replays
    <3>3. \A j \in 1 .. Len(task_queue') : task[v] < task_queue'[j].task
      BY <1>2, <3>1 DEF Replays
    <3>4. reported'[task[v]] = reported[task[v]]
      BY <1>5, <3>1
    <3> QED
      BY <1>2, <1>4, <2>1, <3>1, <3>2, <3>3, <3>4, ReplaysKept
  <2>2. \A v \in Consumers : Running(v)' => Replays(v, task[v])'
    BY <1>4, <2>1
  <2>3. \A v \in Consumers : ~Running(v)' => CQIdx'[v] = 0
    BY <1>1, <1>4 DEF Replaying
  <2>4. \A u, v \in Consumers : Running(u)' /\ Running(v)' /\ task'[u] = task'[v] => u = v
    BY <1>1, <1>2, <1>4 DEF Replaying
  <2> QED
    BY <2>2, <2>3, <2>4 DEF Replaying
<1>9. Continuing'
  <2>1. ASSUME NEW i \in 1 .. Len(full_list)
        PROVE  Follows(full_list[i], SliceOf(full_list[i]), Base(full_list[i]))'
    <3>0. PICK d, s, n : d = full_list[i] /\ s = SliceOf(d) /\ n = Base(d)
      OBVIOUS
    <3>1. Follows(d, s, n) /\ s # r
      BY <1>1, <1>3, <3>0 DEF Continuing
    <3>2. Given(s)' /\ Await(s, n + BufSize)' /\ s \in Slices
      BY <1>6, <3>1 DEF Follows, Given
    <3>3. \A v \in Consumers : Running(v)' /\ task'[v] = s => Position(v)' <= n
      BY <1>2, <1>4, <3>1 DEF Follows
    <3>4. reported'[s] = reported[s]
      BY <1>5, <3>1, <3>2
    <3>5. Follows(d, s, n)'
      BY <1>2, <3>1, <3>2, <3>3, <3>4, FollowsKept
    <3> QED
      BY <1>2, <3>0, <3>5, ContinuationKept
  <2>2. UNCHANGED <<full_list, queue>>
    BY <1>2
  <2> QED
    BY <1>1, <2>1, <2>2 DEF Continuing, InOrder, SliceOf, Base
<1>10. Recorded'
  <2>1. ASSUME NEW s, s # r, FollowedUp(s)
        PROVE  FollowedUp(s)'
    <3>1. CASE \E v \in Consumers : Running(v) /\ task[v] = s
      <4>1. PICK v \in Consumers : Running(v) /\ task[v] = s
        BY <3>1
      <4>2. v # w
        BY <1>0, <2>1, <4>1
      <4> QED
        BY <1>2, <1>4, <4>1, <4>2 DEF FollowedUp
    <3>2. CASE \E j \in 1 .. Len(task_queue) : task_queue[j].task = s
      BY <1>2, <3>2 DEF FollowedUp
    <3> QED
      BY <2>1, <3>1, <3>2 DEF FollowedUp
  <2>2. ASSUME NEW s \in Slices
        PROVE  /\ Own(s, shadowed[s])' /\ reported'[s] \in {0, 1}
               /\ ~Given(s)' => shadowed'[s] = << >> /\ reported'[s] = 0
               /\ reported'[s] = 1 => Ended(s)' /\ Len(shadowed'[s]) = Total(s)'
               /\ Given(s)' /\ reported'[s] = 0 => FollowedUp(s)'
    <3>1. Total(s)' = Total(s) /\ (Own(s, shadowed[s])' <=> Own(s, shadowed[s]))
      BY <1>2 DEF Total, ValuesUpTo, Own
    <3>2. CASE s = r
      BY <1>1, <1>2, <1>3, <1>5, <3>1, <3>2 DEF Recorded
    <3>3. CASE s # r
      BY <1>1, <1>2, <1>5, <2>1, <3>1, <3>3 DEF Recorded
    <3> QED
      BY <3>2, <3>3
  <2>3. \A v \in Consumers : wpc'[v] = "exited" => wpc[v] = "exited"
    BY <1>4
  <2> QED
    BY <1>1, <1>2, <2>2, <2>3 DEF Recorded, Slices
<1> QED
  BY <1>7, <1>8, <1>9, <1>10 DEF StreamInv

LEMMA ShadowEndStreams == ASSUME Safe, NEW w \in Consumers, ShadowEnd(w) PROVE StreamInv'
<1>1. /\ EndClone(w) /\ wpc' = [wpc EXCEPT ![w] = "poll"] /\ pc' = pc /\ wpc[w] = "run"
      /\ w # Main
  BY DEF ShadowEnd, EndClone, MayDo
<1>2. Aside
  BY DEF ShadowEnd, EndClone, Aside, producerVars
<1>3. Producing' /\ \A s : /\ Given(s)' <=> Given(s)
                           /\ Ended(s)' <=> Ended(s)
                           /\ HandedOver(s)' = HandedOver(s)
  BY <1>2, AsideKept DEF Safe, StreamInv
<1>4. pc' # "done"
  BY <1>1 DEF Consumers, Safe, StreamInv, Recorded
<1> QED
  BY <1>1, <1>3, <1>4, EndStreams

LEMMA ShadowEndSyncStreams ==
  ASSUME Safe, NEW w \in Consumers, ShadowEndSync(w)
  PROVE  StreamInv'
<1>1. /\ EndClone(w) /\ wpc' = [wpc EXCEPT ![w] = "idle"] /\ pc' = "idle"
      /\ w = Main /\ wpc[w] = "run" /\ pc # "crashed"
      /\ UNCHANGED <<program, slice, opIdx, QIdx, startSlice, cur_task, fini>>
  BY DEF ShadowEndSync, EndClone, MayDo
<1>2. pc = "calling"
  BY <1>1 DEF Safe, IInv, Control, Running
<1>3. /\ Producing'
      /\ \A s : /\ Given(s)' <=> Given(s)
                /\ Ended(s)' <=> Ended(s)
                /\ HandedOver(s)' = HandedOver(s)
  BY <1>1, <1>2 DEF Safe, StreamInv, Producing, BetweenSlices, Given, Ended, HandedOver,
     Sending, Slices, Total, ValuesUpTo
<1> QED
  BY <1>1, <1>3, EndStreams

LEMMA ExitStreams == ASSUME Safe, NEW w \in Consumers, Exit(w) PROVE StreamInv'
<1>1. /\ IInv /\ TypeOK /\ TypeConsumers /\ pc # "crashed"
      /\ Producing /\ Queued /\ Replaying /\ Continuing /\ Recorded
  BY DEF Safe, IInv, TypeOK, StreamInv, Producing
<1>2. /\ wpc[w] = "poll" /\ fini /\ task_queue = << >> /\ wpc' = [wpc EXCEPT ![w] = "exited"]
      /\ Aside
      /\ UNCHANGED <<program, pc, fini, task_queue, full_list, queue, clone_map, shadowed,
                     reported, task, buf_id, wop, buf_idx, CQIdx, init_flag>>
  BY DEF Exit, NoMore, Aside, producerVars
<1>3. \A v \in Consumers : /\ Running(v)' <=> Running(v)
                           /\ Running(v) => wpc'[v] = wpc[v] /\ Position(v)' = Position(v)
  BY <1>1, <1>2 DEF TypeConsumers, Running, Position
<1>4. Producing' /\ \A s : /\ Given(s)' <=> Given(s)
                           /\ Ended(s)' <=> Ended(s)
                           /\ HandedOver(s)' = HandedOver(s)
                           /\ Total(s)' = Total(s)
  BY <1>1, <1>2, AsideKept
<1>5. \A s, n : Await(s, n) => Await(s, n)'
  BY <1>2, <1>4, AwaitKept
<1>6. Queued'
  BY <1>2 DEF Queued
<1>7. Replaying'
  <2>1. ASSUME NEW v \in Consumers, Running(v)
        PROVE  Replays(v, task[v])'
    <3>1. Replays(v, task[v])
      BY <1>1, <2>1 DEF Replaying
    <3>2. Given(task[v])' /\ Await(task[v], Position(v))'
      BY <1>2, <1>3, <1>4, <1>5, <2>1, <3>1 DEF Replays
    <3>3. \A j \in 1 .. Len(task_queue') : task[v] < task_queue'[j].task
      BY <1>2, <3>1 DEF Replays
    <3> QED
      BY <1>2, <1>3, <2>1, <3>1, <3>2, <3>3, ReplaysKept
  <2> QED
    BY <1>1, <1>2, <1>3, <2>1 DEF Replaying
<1>8. Continuing'
  <2>1. ASSUME NEW i \in 1 .. Len(full_list)
        PROVE  Follows(full_list[i], SliceOf(full_list[i]), Base(full_list[i]))'
    <3>0. PICK d, s, n : d = full_list[i] /\ s = SliceOf(d) /\ n = Base(d)
      OBVIOUS
    <3>1. Follows(d, s, n)
      BY <1>1, <3>0 DEF Continuing
    <3>2. Given(s)' /\ Await(s, n + BufSize)'
      BY <1>4, <1>5, <3>1 DEF Follows
    <3>3. \A v \in Consumers : Running(v)' /\ task'[v] = s => Position(v)' <= n
      BY <1>2, <1>3, <3>1 DEF Follows
    <3>4. Follows(d, s, n)'
      BY <1>2, <3>1, <3>2, <3>3, FollowsKept
    <3> QED
      BY <1>2, <3>0, <3>4, ContinuationKept
  <2>2. UNCHANGED <<full_list, queue>>
    BY <1>2
  <2> QED
    BY <1>1, <2>1, <2>2 DEF Continuing, InOrder, SliceOf, Base
<1>9. Recorded'
  <2>1. \A s : FollowedUp(s) => FollowedUp(s)'
    BY <1>2, <1>3 DEF FollowedUp
  <2>2. \A v \in Workers : wpc[v] = "exited" => wpc'[v] = "exited"
    BY <1>1, <1>2 DEF TypeConsumers, Consumers
  <2> QED
    BY <1>1, <1>2, <1>4, <2>1, <2>2 DEF Recorded, Slices, Own
<1> QED
  BY <1>4, <1>6, <1>7, <1>8, <1>9 DEF StreamInv

-----------------------------------------------------------------------------
(* The inductive invariant.                                                *)

LEMMA InitStreams == ASSUME Init PROVE SInv
<1>1. /\ pc = "idle" /\ slice = 0 /\ startSlice = FALSE /\ QIdx = 0 /\ fini = FALSE
      /\ task_queue = << >> /\ full_list = << >>
      /\ \A w \in Consumers : wpc[w] \in {"idle", "poll"} /\ CQIdx[w] = 0
      /\ \A s \in Slices : shadowed[s] = << >> /\ reported[s] = 0
  BY DEF Init
<1>2. \A s \in Slices : ~Given(s)
  BY <1>1 DEF Given, Ended, Slices
<1>3. Producing
  BY <1>1 DEF Producing, Sending, BetweenSlices
<1>4. Queued /\ Continuing
  BY <1>1 DEF Queued, Continuing
<1>5. Replaying
  BY <1>1 DEF Replaying, Running
<1>6. Recorded
  BY <1>1, <1>2 DEF Recorded, Own
<1> QED
  BY <1>3, <1>4, <1>5, <1>6 DEF SInv, StreamInv

LEMMA ProgramKept == ASSUME [Next]_vars PROVE program' = program
<1>1. ASSUME Producer PROVE program' = program
  BY <1>1 DEF Producer, GetBufAddr, SliceStart, Push, InterimHandOver, InterimTake,
     EnterCallee, SliceEnd, SliceEndSync, Finish, Join
<1>2. ASSUME NEW w \in Consumers, Consumer(w) PROVE program' = program
  BY <1>2 DEF Consumer, Exit, Steal, Read, ReadFromNext, TakeNext, EnterClone, Dummy,
     Crash, ShadowEnd, ShadowEndSync, EndClone
<1> QED
  BY <1>1, <1>2 DEF Next, Terminated, vars

LEMMA SupportedKept == ASSUME program' = program PROVE Supported' <=> Supported
BY DEF Supported, Fit, Overflows, CalleesFirst, Slices, ValuesUpTo

LEMMA StutterStreams == ASSUME StreamInv, UNCHANGED vars PROVE StreamInv'
<1>1. /\ UNCHANGED <<program, pc, slice, opIdx, p_queue_idx, QIdx, startSlice, cur_task>>
      /\ UNCHANGED <<empty_list, task_queue, full_list, queue, fini, wpc, task, buf_id>>
      /\ UNCHANGED <<wop, buf_idx, CQIdx, init_flag, clone_map, shadowed, reported>>
  BY DEF vars, producerVars, consumerVars
<1>2. Producing'
  BY <1>1 DEF StreamInv, Producing, InSlice, BetweenSlices, Sending, HandedOver, Ended,
     AtOp, Calls, Total, ValuesUpTo
<1>3. /\ \A s : (Ended(s)' <=> Ended(s)) /\ (Given(s)' <=> Given(s))
      /\ \A s : HandedOver(s)' = HandedOver(s) /\ Total(s)' = Total(s)
  BY <1>1 DEF Given, Ended, HandedOver, Sending, Total, ValuesUpTo, Slices
<1>4. /\ \A s, n : Await(s, n)' <=> Await(s, n)
      /\ \A b, s, n : IsPart(b, s, n)' <=> IsPart(b, s, n)
      /\ \A w : (Running(w)' <=> Running(w)) /\ Position(w)' = Position(w)
  BY <1>1, <1>3 DEF Await, IsContinuation, Base, SliceOf, IsPart, Running, Position
<1>5. Queued'
  BY <1>1, <1>3, <1>4 DEF StreamInv, Queued, IsTask, AllCalls
<1>6. Replaying'
  BY <1>1, <1>3, <1>4 DEF StreamInv, Replaying, Replays, OnFirst, OnLater, NextOp,
     AllCalls, ValuesUpTo
<1>7. Continuing'
  BY <1>1, <1>3, <1>4 DEF StreamInv, Continuing, Follows, InOrder, SliceOf, Base
<1>8. Recorded'
  BY <1>1, <1>3, <1>4 DEF StreamInv, Recorded, FollowedUp, Own, Slices
<1> QED
  BY <1>2, <1>5, <1>6, <1>7, <1>8 DEF StreamInv

LEMMA NextStreams == ASSUME IInv, SInv, [Next]_vars PROVE SInv'
<1>1. SUFFICES ASSUME Supported' PROVE StreamInv'
  BY DEF SInv
<1>2. Safe
  BY <1>1, ProgramKept, SupportedKept DEF Safe, SInv
<1>3. CASE Producer
  BY <1>2, <1>3, GetBufAddrStreams, SliceStartStreams, PushStreams,
     InterimHandOverStreams, InterimTakeStreams, EnterCalleeStreams, SliceEndStreams,
     SliceEndSyncStreams, FinishStreams, JoinStreams DEF Producer
<1>4. CASE \E w \in Consumers : Consumer(w)
  BY <1>2, <1>4, ExitStreams, StealStreams, ReadStreams, ReadFromNextStreams,
     TakeNextStreams, EnterCloneStreams, NoDummy, NoCrash, ShadowEndStreams,
     ShadowEndSyncStreams DEF Consumer
<1>5. CASE UNCHANGED vars
  BY <1>2, <1>5, StutterStreams DEF Safe
<1> QED
  BY <1>3, <1>4, <1>5 DEF Next, Terminated

(* On the executions the hand-over is made for, the invariant that says    *)
(* where the values of each slice are holds in every reachable state.      *)
THEOREM StreamsInductive == Spec => []SInv
<1>1. Init => SInv
  BY InitStreams
<1>2. IInv /\ SInv /\ [Next]_vars => SInv'
  BY NextStreams
<1> QED
  BY Inductive, <1>1, <1>2, PTL DEF Spec

-----------------------------------------------------------------------------
(* What follows from the invariant alone.                                  *)

LEMMA AllSafe == ASSUME IInv, SInv, Supported PROVE Safe
BY DEF Safe, SInv

(* A continuation in full_list has a clone that is going to take it.       *)
THEOREM NoOrphans == Spec => []NoOrphanContinuation
<1>1. ASSUME IInv, SInv PROVE NoOrphanContinuation
  <2>1. SUFFICES ASSUME Supported, NEW i \in 1 .. Len(full_list)
                 PROVE  FollowedUp(SliceOf(full_list[i]))
    BY DEF NoOrphanContinuation, FollowedUp
  <2>2. Continuing /\ Recorded
    BY <1>1, <2>1 DEF SInv, StreamInv
  <2>3. Given(SliceOf(full_list[i])) /\ reported[SliceOf(full_list[i])] = 0
    BY <2>2 DEF Continuing, Follows
  <2> QED
    BY <2>2, <2>3 DEF Recorded, Given
<1> QED
  BY Inductive, StreamsInductive, <1>1, PTL

(* fpsan_shadow_slice_start has made the shadow state that the clone of a  *)
(* callee is entered on.                                                   *)
THEOREM ShadowReady == Spec => []ShadowStateReady
<1>1. ASSUME IInv, SInv PROVE ShadowStateReady
  BY <1>1, AllSafe, Entering DEF ShadowStateReady, RunsCallee
<1> QED
  BY Inductive, StreamsInductive, <1>1, PTL

(* clone_func_map knows every function that was called indirectly, under   *)
(* the index its clone looks it up with.                                   *)
THEOREM CalleesKnown == Spec => []CalleeKnown
<1>1. ASSUME IInv, SInv PROVE CalleeKnown
  BY <1>1, AllSafe, Entering DEF CalleeKnown
<1> QED
  BY Inductive, StreamsInductive, <1>1, PTL

(* A clone whose slice fits into a buffer stays on the buffer it started   *)
(* on.                                                                     *)
LEMMA StaysOnFirst ==
  ASSUME Safe, Fit, NEW w \in Consumers, Running(w)
  PROVE  Reading(w) /\ buf_idx[w] = buf_id[w]
<1>0. PICK r : r = task[w]
  OBVIOUS
<1>1. /\ r \in Slices /\ Replays(w, r) /\ Len(shadowed[r]) \in Nat /\ TypeOK
      /\ CQIdx[w] \in 0 .. BufSize /\ wop[w] \in Nat
  BY <1>0, Follower DEF Safe, IInv
<1>2. Total(r) \in Nat /\ Total(r) <= BufSize /\ BufSize \in Nat
  BY <1>1, SliceType, ConstantTypes DEF Fit, Overflows, Total
<1>3. Len(shadowed[r]) <= Total(r)
  BY <1>1, UpToTotal DEF Replays
<1>4. ~OnLater(w)
  <2>1. SUFFICES ASSUME OnLater(w) PROVE FALSE
    OBVIOUS
  <2>2. CQIdx[w] = 0 /\ Len(shadowed[r]) = Total(r)
    BY <1>0, <1>1, <1>2, <1>3, <2>1 DEF OnLater
  <2>3. Len(shadowed[r]) < Total(r)
    BY <1>0, <2>1, <2>2, NextOfSlice DEF OnLater
  <2> QED
    BY <1>1, <1>2, <2>2, <2>3
<1> QED
  BY <1>1, <1>4 DEF Replays, OnFirst, Reading

(* The shadow state of a clone is its own.                                 *)
THEOREM ShadowStateOwned == Spec => []OwnShadowState
<1>1. ASSUME IInv, SInv PROVE OwnShadowState
  <2>1. SUFFICES ASSUME Supported, Fit, NEW w \in Consumers, NEW v \in Consumers,
                        Running(w), Running(v), w # v
                 PROVE  buf_id[w] # buf_id[v]
    BY DEF OwnShadowState
  <2>2. Safe /\ Apart
    BY <1>1, <2>1, AllSafe DEF Safe, StreamInv, Producing, IInv, Owned, Ownership
  <2>3. /\ Reading(w) /\ buf_idx[w] = buf_id[w]
        /\ Reading(v) /\ buf_idx[v] = buf_id[v]
    BY <2>1, <2>2, StaysOnFirst
  <2> QED
    BY <2>1, <2>2, <2>3 DEF Apart
<1> QED
  BY Inductive, StreamsInductive, <1>1, PTL

(* The producer registers callees where no clone looks for one.            *)
THEOREM CloneMapsUnshared == Spec => []CloneMapUnshared
<1>1. ASSUME IInv, SInv PROVE CloneMapUnshared
  <2>1. SUFFICES ASSUME Supported, Fit, NEW w \in Consumers, Running(w), pc = "slice"
                 PROVE  buf_id[w] # p_queue_idx
    BY DEF CloneMapUnshared
  <2>2. Safe /\ Apart
    BY <1>1, <2>1, AllSafe DEF Safe, StreamInv, Producing, IInv, Owned, Ownership
  <2>3. Filling
    BY <1>1, <2>1, ConstantTypes DEF IInv, Control, Filling
  <2>4. Reading(w) /\ buf_idx[w] = buf_id[w]
    BY <2>1, <2>2, StaysOnFirst
  <2> QED
    BY <2>2, <2>3, <2>4 DEF Apart
<1> QED
  BY Inductive, StreamsInductive, <1>1, PTL

-----------------------------------------------------------------------------
(* What is true when the program ends.                                     *)

(* A list without repetitions is as long as it has elements.               *)
LEMMA LenOfElems ==
  ASSUME NEW S, NEW q \in Seq(S), NoRepeat(q)
  PROVE  Cardinality(Elems(q)) = Len(q)
<1>1. Len(q) \in Nat /\ q \in [1 .. Len(q) -> S]
  OBVIOUS
<1>2. q \in Bijection(1 .. Len(q), Elems(q))
  BY <1>1 DEF Bijection, Injection, Surjection, IsInjective, Elems, NoRepeat
<1> QED
  BY <1>1, <1>2, FS_CountingElements DEF ExistsBijection

LEMMA NobodyAtExit ==
  ASSUME Safe, pc = "done"
  PROVE  /\ \A s \in Slices : reported[s] = 1 /\ Len(shadowed[s]) = Total(s)
         /\ task_queue = << >> /\ full_list = << >>
         /\ \A w \in Consumers : ~Running(w)
<1>1. /\ TypeOK /\ TypeLists /\ Control /\ Alone
      /\ Producing /\ Continuing /\ Recorded
  BY DEF Safe, IInv, TypeOK, Owned, StreamInv, Producing
<1>2. \A w \in Consumers : ~Running(w)
  BY <1>1, Zenon DEF Recorded, Control, Running, Consumers
<1>3. task_queue = << >>
  <2>1. CASE Workers = {}
    BY <1>1, <2>1 DEF Alone
  <2>2. CASE Workers # {}
    BY <1>1, <2>2 DEF Recorded, Consumers
  <2> QED
    BY <2>1, <2>2
<1>4. ASSUME NEW s \in Slices PROVE reported[s] = 1 /\ Len(shadowed[s]) = Total(s)
  <2>1. Given(s)
    BY <1>1, <1>4, SliceType, CountersType DEF Given, Ended, Producing, Sending
  <2>2. ~FollowedUp(s)
    BY <1>2, <1>3 DEF FollowedUp
  <2> QED
    BY <1>1, <1>4, <2>1, <2>2 DEF Recorded
<1>5. full_list = << >>
  <2>1. SUFFICES ASSUME full_list # << >> PROVE FALSE
    OBVIOUS
  <2>2. 1 \in 1 .. Len(full_list)
    BY <1>1, <2>1, HeadAndTail DEF TypeLists
  <2>3. Given(SliceOf(full_list[1])) /\ reported[SliceOf(full_list[1])] = 0
    BY <1>1, <2>2 DEF Continuing, Follows
  <2> QED
    BY <1>4, <2>3 DEF Given
<1> QED
  BY <1>2, <1>3, <1>4, <1>5

(* After fpsan_finish every slice has been shadowed to its end, once, and  *)
(* no buffer is missing.                                                   *)
THEOREM ExitComplete == Spec => []CompleteAtExit
<1>1. ASSUME IInv, SInv PROVE CompleteAtExit
  <2>1. SUFFICES ASSUME Supported, pc = "done", Safe
                 PROVE  /\ \A s \in Slices : reported[s] = 1 /\ Len(shadowed[s]) = Total(s)
                        /\ Len(empty_list) = IF p_queue_idx = NoBuf THEN NumQueues
                                                                    ELSE NumQueues - 1
    BY <1>1, AllSafe DEF CompleteAtExit, Total
  <2>2. /\ \A s \in Slices : reported[s] = 1 /\ Len(shadowed[s]) = Total(s)
        /\ task_queue = << >> /\ full_list = << >>
        /\ \A w \in Consumers : ~Running(w)
    BY <2>1, NobodyAtExit
  <2>3. /\ empty_list \in Seq(Buffers) /\ p_queue_idx \in Buffers \cup {NoBuf}
        /\ NoRepeat(empty_list) /\ Apart /\ Covered
    BY <2>1 DEF Safe, IInv, TypeOK, TypeLists, TypeProducer, Owned, Ownership, NoRepeats
  <2>4. Listed = Empty /\ Empty \subseteq Buffers
    BY <2>2, <2>3, ElementOfSeq, LenProperties DEF Listed, Empty, Tasked, Full, Elems, BufsOf
  <2>5. Filling <=> p_queue_idx # NoBuf
    BY <2>1 DEF Filling
  <2>6. Empty = Buffers \ {p_queue_idx}
    <3>1. \A b \in Buffers : b \in Empty \/ b = p_queue_idx
      BY <2>2, <2>3, <2>4 DEF Covered, Reading, Running
    <3>2. p_queue_idx \notin Empty
      BY <2>3, <2>4, <2>5, ConstantTypes DEF Apart
    <3> QED
      BY <2>4, <3>1, <3>2
  <2>7. IsFiniteSet(Buffers) /\ Cardinality(Buffers) = NumQueues /\ NumQueues \in Nat
    BY ConstantTypes, FS_Interval DEF Buffers
  <2>8. Cardinality(Empty) = IF p_queue_idx \in Buffers THEN NumQueues - 1 ELSE NumQueues
    BY <2>6, <2>7, FS_RemoveElement
  <2>9. Cardinality(Empty) = Len(empty_list)
    BY <2>3, LenOfElems DEF Empty
  <2> QED
    BY <2>2, <2>3, <2>8, <2>9, ConstantTypes
<1> QED
  BY Inductive, StreamsInductive, <1>1, PTL

=============================================================================
