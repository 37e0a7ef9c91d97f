---------------------------- MODULE SliceQueues ----------------------------
(***************************************************************************)
(* The hand-over of slices between the instrumented program (the producer) *)
(* and the worker threads that run the slices' shadow clones.              *)
(*                                                                         *)
(* The producer appends the floating point values of a slice to a buffer   *)
(* it took from empty_list.  When the slice ends, or when the buffer is    *)
(* full, it hands the buffer over: the first buffer of a slice goes to     *)
(* task_queue together with the slice's clone, every later one to          *)
(* full_list.  A worker steals a task, replays the clone against the       *)
(* buffer, and when it has used up a buffer in the middle of a slice gives *)
(* it back to empty_list and takes the next one from full_list.            *)
(*                                                                         *)
(* Sources: src/runtime/handleReal.cpp, and the code that                  *)
(* src/llvm-pass/FPSan/FPSanitizer.cpp inserts into the program.           *)
(***************************************************************************)
EXTENDS Integers, Sequences, FiniteSets

CONSTANTS
  Workers,   (* the worker threads; {} is the NUM_THREADS == 0 build       *)
  Main,      (* the program's own thread                                   *)
  BufSize,   (* the capacity of a buffer (the pass's ClBufSize)            *)
  Programs   (* the executions considered: sequences of slices             *)

(* What a slice does as far as the queues are concerned: "val" pushes one  *)
(* value (and its clone reads one), "call" enters an instrumented function *)
(* directly, "icall" enters it through a pointer.                          *)
Ops == {"val", "call", "icall"}

ASSUME WorkersAssumption == IsFiniteSet(Workers) /\ Main \notin Workers
ASSUME BufSizeAssumption == BufSize \in Nat \ {0}
ASSUME ProgramsAssumption == Programs \subseteq Seq(Seq(Ops))

NumQueues == 2 * Cardinality(Workers) + 1
Buffers == 0 .. NumQueues - 1
NoBuf == -1

(* The threads that run clones: the workers, or the producer's own thread  *)
(* when the build has none.                                                *)
Consumers == IF Workers = {} THEN {Main} ELSE Workers

VARIABLES
  program,     (* the execution: which slices, and what each of them does  *)
  pc,          (* the producer's control state                             *)
  slice,       (* how many slices it has started                           *)
  opIdx,       (* how many operations of the current slice it has done     *)
  p_queue_idx, (* the buffer it fills, or NoBuf                            *)
  QIdx,        (* the next slot of that buffer                             *)
  startSlice,  (* the current slice already handed over its first buffer   *)
  cur_task,    (* the slice whose clone an overflow hands over             *)
  empty_list, task_queue, full_list,
  queue,       (* the contents of the buffers                              *)
  fini,
  wpc,         (* the control state of each consumer                       *)
  task,        (* the slice each consumer replays                          *)
  buf_id,      (* the argument of its clone: the shadow state it uses      *)
  wop,         (* how many operations it has replayed                      *)
  buf_idx,     (* __buf_idx: the buffer it reads                           *)
  CQIdx,       (* the next slot it reads                                   *)
  init_flag,   (* m_init_flag: whose shadow state exists                   *)
  clone_map,   (* the buffers whose clone_func_map knows the callee        *)
  shadowed,    (* history: the values read so far on behalf of each slice  *)
  reported     (* history: how often each slice's clone reached its end    *)

producerVars == <<pc, slice, opIdx, p_queue_idx, QIdx, startSlice, cur_task>>
consumerVars == <<wpc, task, buf_id, wop, buf_idx, CQIdx>>
vars == <<program, producerVars, empty_list, task_queue, full_list, queue,
          fini, consumerVars, init_flag, clone_map, shadowed, reported>>

Slices == 1 .. Len(program)

-----------------------------------------------------------------------------
(* The state after fpsan_init: every buffer is in empty_list, in index     *)
(* order and zero filled, and the workers have been created.               *)
Init ==
  /\ program \in Programs
  /\ pc = "idle" /\ slice = 0 /\ opIdx = 0
  /\ p_queue_idx = NoBuf /\ QIdx = 0
  /\ startSlice = FALSE /\ cur_task = 0
  /\ empty_list = [i \in 1 .. NumQueues |-> i - 1]
  /\ task_queue = << >> /\ full_list = << >>
  /\ queue = [b \in Buffers |-> [i \in 0 .. BufSize - 1 |-> <<0, 0>>]]
  /\ fini = FALSE
  /\ wpc = [w \in Consumers |-> IF w = Main THEN "idle" ELSE "poll"]
  /\ task = [w \in Consumers |-> 0]
  /\ buf_id = [w \in Consumers |-> 0]
  /\ wop = [w \in Consumers |-> 0]
  /\ buf_idx = [w \in Consumers |-> 0]
  /\ CQIdx = [w \in Consumers |-> 0]
  /\ init_flag = {} /\ clone_map = {}
  /\ shadowed = [s \in Slices |-> << >>]
  /\ reported = [s \in Slices |-> 0]

-----------------------------------------------------------------------------
(* The queues are tbb::concurrent_bounded_queue: a pop blocks while the    *)
(* queue is empty and a push while it is at its capacity.  empty_list and  *)
(* task_queue are bounded by NUM_QUEUES, full_list is not bounded.         *)
PushEmpty(b) ==
  /\ Len(empty_list) < NumQueues
  /\ empty_list' = Append(empty_list, b)

PopEmpty ==
  /\ empty_list # << >>
  /\ p_queue_idx' = Head(empty_list)
  /\ empty_list' = Tail(empty_list)

(* The first buffer of a slice becomes a task, a later one a continuation  *)
(* that says nothing of the slice it belongs to.                           *)
HandOver(t) ==
  IF startSlice
  THEN /\ full_list' = Append(full_list, p_queue_idx)
       /\ UNCHANGED task_queue
  ELSE /\ Len(task_queue) < NumQueues
       /\ task_queue' = Append(task_queue, [task |-> t, buf |-> p_queue_idx])
       /\ UNCHANGED full_list

(* The slots of a buffer are numbered from 0.                              *)
RoomOffByOne == QIdx <= BufSize
Room == QIdx < BufSize

(* end_slice resets what the next slice starts from.                       *)
KeepBuffer == startSlice' = FALSE /\ UNCHANGED p_queue_idx /\ pc' = "idle"
KeepStartSlice == UNCHANGED startSlice /\ p_queue_idx' = NoBuf /\ pc' = "idle"
Reset == startSlice' = FALSE /\ p_queue_idx' = NoBuf /\ pc' = "idle"

(* How many values a slice has pushed after its first n operations.        *)
Count(ops, n) == Cardinality({i \in 1 .. n : ops[i] = "val"})
ValuesUpTo(s, n) == Count(program[s], n)
AtOp(op) == opIdx < Len(program[slice]) /\ program[slice][opIdx + 1] = op
AtSliceEnd == opIdx = Len(program[slice])

-----------------------------------------------------------------------------
(* Entry of an instrumented function outside a slice, or of a slice: the   *)
(* producer stalls until a buffer is empty.                                *)
GetBufAddr ==
  /\ pc = "idle" /\ p_queue_idx = NoBuf
  /\ PopEmpty
  /\ UNCHANGED <<program, pc, slice, opIdx, QIdx, startSlice, cur_task,
                 task_queue, full_list, queue, fini, consumerVars, init_flag,
                 clone_map, shadowed, reported>>

(* start_slice, reached only through the entry of its function.            *)
SliceStart ==
  /\ pc = "idle" /\ p_queue_idx # NoBuf /\ slice < Len(program)
  /\ pc' = "slice" /\ slice' = slice + 1 /\ opIdx' = 0
  /\ cur_task' = slice + 1
  /\ UNCHANGED <<program, p_queue_idx, QIdx, startSlice, empty_list,
                 task_queue, full_list, queue, fini, consumerVars, init_flag,
                 clone_map, shadowed, reported>>

(* A push that finds room.                                                 *)
Push ==
  /\ pc = "slice" /\ AtOp("val") /\ Room
  /\ queue' = [queue EXCEPT ![p_queue_idx][QIdx] =
                 <<slice, ValuesUpTo(slice, opIdx) + 1>>]
  /\ QIdx' = QIdx + 1 /\ opIdx' = opIdx + 1
  /\ UNCHANGED <<program, pc, slice, p_queue_idx, startSlice, cur_task,
                 empty_list, task_queue, full_list, fini, consumerVars,
                 init_flag, clone_map, shadowed, reported>>

(* A push that finds the buffer full hands it over first, and then waits   *)
(* for an empty one.                                                       *)
InterimHandOver ==
  /\ pc = "slice" /\ AtOp("val") /\ ~Room
  /\ HandOver(cur_task)
  /\ QIdx' = 0 /\ startSlice' = TRUE /\ pc' = "interim"
  /\ UNCHANGED <<program, slice, opIdx, p_queue_idx, cur_task, empty_list,
                 queue, fini, consumerVars, init_flag, clone_map, shadowed,
                 reported>>

InterimTake ==
  /\ pc = "interim"
  /\ PopEmpty
  /\ pc' = "slice"
  /\ UNCHANGED <<program, slice, opIdx, QIdx, startSlice, cur_task,
                 task_queue, full_list, queue, fini, consumerVars, init_flag,
                 clone_map, shadowed, reported>>

(* Entry of an instrumented function inside a slice: the buffer stays, and *)
(* the callee's clone is registered under its index.                       *)
EnterUnregistered ==
  /\ pc = "slice" /\ (AtOp("call") \/ AtOp("icall"))
  /\ opIdx' = opIdx + 1
  /\ UNCHANGED <<program, pc, slice, p_queue_idx, QIdx, startSlice, cur_task,
                 empty_list, task_queue, full_list, queue, fini, consumerVars,
                 init_flag, clone_map, shadowed, reported>>

EnterCallee ==
  /\ pc = "slice" /\ (AtOp("call") \/ AtOp("icall"))
  /\ opIdx' = opIdx + 1
  /\ clone_map' = clone_map \cup {p_queue_idx}
  /\ UNCHANGED <<program, pc, slice, p_queue_idx, QIdx, startSlice, cur_task,
                 empty_list, task_queue, full_list, queue, fini, consumerVars,
                 init_flag, shadowed, reported>>

(* end_slice: the last buffer of the slice is handed over.                 *)
SliceEnd ==
  /\ pc = "slice" /\ AtSliceEnd /\ Workers # {}
  /\ HandOver(slice)
  /\ QIdx' = 0 /\ Reset
  /\ UNCHANGED <<program, slice, opIdx, cur_task, empty_list, queue, fini,
                 consumerVars, init_flag, clone_map, shadowed, reported>>

-----------------------------------------------------------------------------
(* The clone starts on the buffer it is given and makes that buffer's      *)
(* shadow state if this is its first use.                                  *)
StartCold(w, s, b) ==
  /\ wpc' = [wpc EXCEPT ![w] = "run"]
  /\ task' = [task EXCEPT ![w] = s]
  /\ buf_id' = [buf_id EXCEPT ![w] = b]
  /\ buf_idx' = [buf_idx EXCEPT ![w] = b]
  /\ wop' = [wop EXCEPT ![w] = 0]
  /\ UNCHANGED <<CQIdx, init_flag>>

StartStale(w, s, b) ==
  /\ wpc' = [wpc EXCEPT ![w] = "run"]
  /\ task' = [task EXCEPT ![w] = s]
  /\ buf_idx' = [buf_idx EXCEPT ![w] = b]
  /\ wop' = [wop EXCEPT ![w] = 0]
  /\ init_flag' = init_flag \cup {b}
  /\ UNCHANGED <<CQIdx, buf_id>>

StartClone(w, s, b) ==
  /\ wpc' = [wpc EXCEPT ![w] = "run"]
  /\ task' = [task EXCEPT ![w] = s]
  /\ buf_id' = [buf_id EXCEPT ![w] = b]
  /\ buf_idx' = [buf_idx EXCEPT ![w] = b]
  /\ wop' = [wop EXCEPT ![w] = 0]
  /\ init_flag' = init_flag \cup {b}
  /\ UNCHANGED CQIdx

(* end_slice without worker threads runs the clone on the spot.            *)
SliceEndSync ==
  /\ pc = "slice" /\ AtSliceEnd /\ Workers = {}
  /\ StartClone(Main, slice, p_queue_idx)
  /\ QIdx' = 0 /\ pc' = "calling"
  /\ UNCHANGED <<program, slice, opIdx, p_queue_idx, startSlice, cur_task,
                 empty_list, task_queue, full_list, queue, fini, clone_map,
                 shadowed, reported>>

(* main returns: fpsan_finish sets fini and joins every worker.            *)
ReturnOnly == pc = "idle" /\ slice = Len(program) /\ UNCHANGED vars

Finish ==
  /\ pc = "idle" /\ slice = Len(program)
  /\ fini' = TRUE /\ pc' = "joining"
  /\ UNCHANGED <<program, slice, opIdx, p_queue_idx, QIdx, startSlice,
                 cur_task, empty_list, task_queue, full_list, queue,
                 consumerVars, init_flag, clone_map, shadowed, reported>>

Join ==
  /\ pc = "joining" /\ \A w \in Workers : wpc[w] = "exited"
  /\ pc' = "done"
  /\ UNCHANGED <<program, slice, opIdx, p_queue_idx, QIdx, startSlice,
                 cur_task, empty_list, task_queue, full_list, queue, fini,
                 consumerVars, init_flag, clone_map, shadowed, reported>>

-----------------------------------------------------------------------------
(* A worker's loop.  fini is tested before task_queue.size(), and once it  *)
(* is set the producer pushes no more tasks, so the two tests are one step.*)
NoMoreEarly == fini
NoMore == fini /\ task_queue = << >>

KeepPolling(w) == pc # "crashed" /\ wpc[w] = "poll" /\ NoMore /\ UNCHANGED vars

Exit(w) ==
  /\ pc # "crashed" /\ wpc[w] = "poll" /\ NoMore
  /\ wpc' = [wpc EXCEPT ![w] = "exited"]
  /\ UNCHANGED <<program, producerVars, empty_list, task_queue, full_list,
                 queue, fini, task, buf_id, wop, buf_idx, CQIdx, init_flag,
                 clone_map, shadowed, reported>>

Steal(w) ==
  /\ pc # "crashed" /\ wpc[w] = "poll" /\ task_queue # << >>
  /\ StartClone(w, Head(task_queue).task, Head(task_queue).buf)
  /\ task_queue' = Tail(task_queue)
  /\ UNCHANGED <<program, producerVars, empty_list, full_list, queue, fini,
                 clone_map, shadowed, reported>>

(* The clone's control flow follows the branch outcomes, addresses and     *)
(* values it reads.  As long as these are the slice's own it repeats what  *)
(* the slice did; after a foreign value it may do anything.                *)
Own(s, vs) == \A i \in 1 .. Len(vs) : vs[i] = <<s, i>>
Lost(w) == ~Own(task[w], shadowed[task[w]])
NextOp(w) == IF wop[w] < Len(program[task[w]])
             THEN program[task[w]][wop[w] + 1] ELSE "end"
MayDo(w, op) == pc # "crashed" /\ wpc[w] = "run" /\ (Lost(w) \/ NextOp(w) = op)
Advance(w) == wop' = IF Lost(w) THEN wop ELSE [wop EXCEPT ![w] = @ + 1]

(* Whenever a clone leaves a buffer it restarts at slot 0.                 *)
KeepCursor(w) == UNCHANGED CQIdx
Rewind(w) == CQIdx' = [CQIdx EXCEPT ![w] = 0]

(* Reading a value from the current buffer.                                *)
Read(w) ==
  /\ MayDo(w, "val") /\ CQIdx[w] < BufSize
  /\ CQIdx' = [CQIdx EXCEPT ![w] = @ + 1]
  /\ shadowed' = IF Lost(w) THEN shadowed
                 ELSE [shadowed EXCEPT ![task[w]] =
                         Append(@, queue[buf_idx[w]][CQIdx[w]])]
  /\ Advance(w)
  /\ UNCHANGED <<program, producerVars, empty_list, task_queue, full_list,
                 queue, fini, wpc, task, buf_id, buf_idx, init_flag,
                 clone_map, reported>>

(* A used up buffer is given back, and the consumer waits for the next.    *)
Release(w) ==
  /\ PushEmpty(buf_idx[w])
  /\ Rewind(w)
  /\ wpc' = [wpc EXCEPT ![w] = "interim"]

ReadFromNext(w) ==
  /\ MayDo(w, "val") /\ CQIdx[w] >= BufSize
  /\ Release(w)
  /\ UNCHANGED <<program, producerVars, task_queue, full_list, queue, fini,
                 task, buf_id, wop, buf_idx, init_flag, clone_map, shadowed,
                 reported>>

TakeNext(w) ==
  /\ pc # "crashed" /\ wpc[w] = "interim" /\ full_list # << >>
  /\ buf_idx' = [buf_idx EXCEPT ![w] = Head(full_list)]
  /\ full_list' = Tail(full_list)
  /\ wpc' = [wpc EXCEPT ![w] = "run"]
  /\ UNCHANGED <<program, producerVars, empty_list, task_queue, queue, fini,
                 task, buf_id, wop, CQIdx, init_flag, clone_map, shadowed,
                 reported>>

(* Entry of the clone of a callee: func_init on the shadow state of the    *)
(* buffer being read, then the test whether that buffer is used up, even   *)
(* if the callee reads nothing.  An indirect call looks the clone up under *)
(* the caller's shadow state, and runs nothing if it is not there.         *)
RunsCallee(w) == \/ MayDo(w, "call")
                 \/ MayDo(w, "icall") /\ buf_id[w] \in clone_map

EnterClone(w) ==
  /\ RunsCallee(w) /\ buf_idx[w] \in init_flag
  /\ Advance(w)
  /\ IF CQIdx[w] < BufSize
     THEN UNCHANGED <<empty_list, CQIdx, wpc>>
     ELSE Release(w)
  /\ UNCHANGED <<program, producerVars, task_queue, full_list, queue, fini,
                 task, buf_id, buf_idx, init_flag, clone_map, shadowed,
                 reported>>

Dummy(w) ==
  /\ MayDo(w, "icall") /\ buf_id[w] \notin clone_map
  /\ Advance(w)
  /\ UNCHANGED <<program, producerVars, empty_list, task_queue, full_list,
                 queue, fini, wpc, task, buf_id, buf_idx, CQIdx, init_flag,
                 clone_map, shadowed, reported>>

(* func_init on a shadow state that was never made writes through a null   *)
(* pointer and takes the program down.                                     *)
Crash(w) ==
  /\ RunsCallee(w) /\ buf_idx[w] \notin init_flag
  /\ pc' = "crashed"
  /\ UNCHANGED <<program, slice, opIdx, p_queue_idx, QIdx, startSlice,
                 cur_task, empty_list, task_queue, full_list, queue, fini,
                 consumerVars, init_flag, clone_map, shadowed, reported>>

(* The clone reaches its end: it reports, and the buffer it read last goes *)
(* back to empty_list.                                                     *)
EndClone(w) ==
  /\ MayDo(w, "end")
  /\ reported' = [reported EXCEPT ![task[w]] = @ + 1]
  /\ Rewind(w)
  /\ UNCHANGED <<program, slice, opIdx, QIdx, startSlice, cur_task,
                 task_queue, full_list, queue, fini, task, buf_id, wop,
                 buf_idx, init_flag, clone_map, shadowed>>

ShadowEnd(w) ==
  /\ w # Main
  /\ EndClone(w)
  /\ PushEmpty(buf_idx[w])
  /\ wpc' = [wpc EXCEPT ![w] = "poll"]
  /\ UNCHANGED <<pc, p_queue_idx>>

(* Without worker threads fpsan_slice_end gives its own buffer back.       *)
ShadowEndKeep(w) ==
  /\ w = Main
  /\ EndClone(w)
  /\ PushEmpty(p_queue_idx)
  /\ wpc' = [wpc EXCEPT ![w] = "idle"]
  /\ pc' = "idle" /\ UNCHANGED p_queue_idx

ShadowEndSync(w) ==
  /\ w = Main
  /\ EndClone(w)
  /\ PushEmpty(p_queue_idx)
  /\ wpc' = [wpc EXCEPT ![w] = "idle"]
  /\ pc' = "idle" /\ p_queue_idx' = NoBuf

-----------------------------------------------------------------------------
Terminated == pc = "done" /\ UNCHANGED vars

Producer == \/ GetBufAddr \/ SliceStart \/ Push \/ InterimHandOver
            \/ InterimTake \/ EnterCallee \/ SliceEnd \/ SliceEndSync
            \/ Finish \/ Join

Consumer(w) == \/ Exit(w) \/ Steal(w) \/ Read(w) \/ ReadFromNext(w)
               \/ TakeNext(w) \/ EnterClone(w) \/ Dummy(w) \/ Crash(w)
               \/ ShadowEnd(w) \/ ShadowEndSync(w)

Next == Producer \/ (\E w \in Consumers : Consumer(w)) \/ Terminated

Spec == Init /\ [][Next]_vars

(* Every thread that can take a step eventually does.                      *)
FairSpec == /\ Spec
            /\ WF_vars(Producer)
            /\ \A w \in Consumers : WF_vars(Consumer(w))

-----------------------------------------------------------------------------
(* The places a buffer can be in.  A buffer the producer handed over in    *)
(* fpsanx_slice_end_interim is no longer its own, although p_queue_idx     *)
(* still names it, and the same holds while the clone runs synchronously.  *)
Values == (0 .. Len(program)) \X Nat
ProducerHolds(b) == p_queue_idx = b /\ pc \notin {"interim", "calling"}
ConsumerHolds(w, b) == wpc[w] = "run" /\ buf_idx[w] = b
Owners(b) ==
  {<<"empty_list", i>> : i \in {j \in 1 .. Len(empty_list) : empty_list[j] = b}}
  \cup {<<"task_queue", i>> : i \in {j \in 1 .. Len(task_queue) : task_queue[j].buf = b}}
  \cup {<<"full_list", i>> : i \in {j \in 1 .. Len(full_list) : full_list[j] = b}}
  \cup {<<"producer", 0>> : i \in {j \in {0} : ProducerHolds(b)}}
  \cup {<<"consumer", w>> : w \in {v \in Consumers : ConsumerHolds(v, b)}}

(* The range of every variable.  QIdx and CQIdx reach BufSize, the state   *)
(* in which the next push or read moves on to another buffer, and no more. *)
TypeProducer ==
  /\ pc \in {"idle", "slice", "interim", "calling", "joining", "done", "crashed"}
  /\ slice \in 0 .. Len(program) /\ opIdx \in Nat
  /\ p_queue_idx \in Buffers \cup {NoBuf}
  /\ QIdx \in 0 .. BufSize
  /\ cur_task \in 0 .. Len(program)
TypeFlags == startSlice \in BOOLEAN /\ fini \in BOOLEAN
TypeLists ==
  /\ empty_list \in Seq(Buffers) /\ full_list \in Seq(Buffers)
  /\ task_queue \in Seq([task : Slices, buf : Buffers])
TypeQueue == queue \in [Buffers -> [0 .. BufSize - 1 -> Values]]
TypeConsumers ==
  /\ wpc \in [Consumers -> {"idle", "poll", "run", "interim", "exited"}]
  /\ task \in [Consumers -> 0 .. Len(program)]
  /\ buf_id \in [Consumers -> Buffers] /\ buf_idx \in [Consumers -> Buffers]
  /\ wop \in [Consumers -> Nat]
  /\ CQIdx \in [Consumers -> 0 .. BufSize]
TypeShadow == init_flag \subseteq Buffers /\ clone_map \subseteq Buffers
TypeHistory ==
  shadowed \in [Slices -> Seq(Values)] /\ reported \in [Slices -> Nat]
TypeOK ==
  /\ program \in Programs
  /\ TypeProducer /\ TypeFlags /\ TypeLists /\ TypeQueue
  /\ TypeConsumers /\ TypeShadow /\ TypeHistory

(* Every buffer is in exactly one place at any time: in one of the three   *)
(* lists, being filled by the producer or being read by one clone.  No     *)
(* buffer is lost, none is in two hands.                                   *)
OneOwner == pc # "crashed" => \A b \in Buffers : Cardinality(Owners(b)) = 1

(* empty_list and task_queue are bounded, and a push to a queue that is at *)
(* its capacity waits.  It never comes to that: whoever has a buffer to    *)
(* give away finds room for it, so threads only wait for each other at     *)
(* empty queues.                                                           *)
PushesDoNotBlock ==
  pc # "crashed" =>
    /\ pc = "slice" => Len(task_queue) < NumQueues
    /\ \A w \in Consumers : wpc[w] = "run" => Len(empty_list) < NumQueues

(* The executions the hand-over is made for.  Callees are entered while    *)
(* their slice is on its first buffer, and one that is entered when that   *)
(* buffer is full is followed by a push.  Without workers no slice needs a *)
(* second buffer, with several at most one of the slices does.             *)
Overflows(s) == ValuesUpTo(s, Len(program[s])) > BufSize
CalleesFirst(s) ==
  \A i \in 1 .. Len(program[s]) :
    program[s][i] # "val" =>
      \/ ValuesUpTo(s, i) < BufSize
      \/ /\ ValuesUpTo(s, i) = BufSize
         /\ i < Len(program[s]) /\ program[s][i + 1] = "val"
Fit == \A s \in Slices : ~Overflows(s)
Supported ==
  /\ \A s \in Slices : CalleesFirst(s)
  /\ Workers = {} => Fit
  /\ Cardinality(Workers) > 1 =>
       \A s, t \in Slices : Overflows(s) /\ Overflows(t) => s = t

(* What a clone reads from the buffers is what its own slice pushed there, *)
(* in the order of the pushes (fpsanx_shadow_task_interim takes whichever  *)
(* buffer is at the head of full_list).                                    *)
OwnValuesOnly == \A s \in Slices : Own(s, shadowed[s])

(* A continuation waiting in full_list has a clone that is going to take   *)
(* it: the clone of its slice is running or still queued.                  *)
Running(w) == wpc[w] \in {"run", "interim"}
SliceOf(b) == queue[b][0][1]
NoOrphanContinuation ==
  Supported =>
    \A i \in 1 .. Len(full_list) :
      \/ \E w \in Consumers : Running(w) /\ task[w] = SliceOf(full_list[i])
      \/ \E j \in 1 .. Len(task_queue) : task_queue[j].task = SliceOf(full_list[i])

(* When main returns from fpsan_finish every slice has been shadowed to    *)
(* its end, and the buffers are back in empty_list, except the one main    *)
(* may still hold.                                                         *)
CompleteAtExit ==
  Supported /\ pc = "done" =>
    /\ \A s \in Slices : /\ reported[s] = 1
                         /\ Len(shadowed[s]) = ValuesUpTo(s, Len(program[s]))
    /\ Len(empty_list) = IF p_queue_idx = NoBuf THEN NumQueues ELSE NumQueues - 1

(* Two clones that run at the same time use different shadow state: the    *)
(* shadow memory, lock and key stack and error counters are indexed by the *)
(* buffer the task started on.  A clone that has given that buffer back    *)
(* may share it with the next slice, so no slice overflows here.           *)
OwnShadowState ==
  Supported /\ Fit =>
    \A w, v \in Consumers :
      Running(w) /\ Running(v) /\ w # v => buf_id[w] # buf_id[v]

(* The producer registers callees in the clone_func_map of the buffer it   *)
(* fills, without a lock: no clone is looking callees up in that map.      *)
CloneMapUnshared ==
  Supported /\ Fit =>
    \A w \in Consumers :
      Running(w) /\ pc = "slice" => buf_id[w] # p_queue_idx

(* The clone of a callee finds the shadow state of the buffer it is        *)
(* entered on initialised by fpsan_shadow_slice_start.                     *)
ShadowStateReady ==
  Supported => \A w \in Consumers : RunsCallee(w) => buf_idx[w] \in init_flag

(* A function that was called indirectly inside a slice is found by the    *)
(* slice's clone: clone_func_map is consulted under the index it was       *)
(* filled under.                                                           *)
CalleeKnown ==
  Supported => \A w \in Consumers : MayDo(w, "icall") => buf_id[w] \in clone_map

(* The program ends: fpsan_finish returns.                                 *)
Terminates == Supported => <>(pc = "done")

(* A clone that waits for its next buffer gets one.                        *)
ConsumerResumes ==
  \A w \in Consumers : wpc[w] = "interim" ~> wpc[w] # "interim"

(* The queues implement independent per-slice streams, on the executions   *)
(* the hand-over is made for.                                              *)
Streams == INSTANCE SliceStreams WITH
  sent <- [s \in Slices |-> IF s < slice THEN ValuesUpTo(s, Len(program[s]))
                            ELSE IF s = slice THEN ValuesUpTo(s, opIdx) ELSE 0],
  ended <- IF pc \in {"slice", "interim"} THEN 1 .. slice - 1 ELSE 1 .. slice
StreamsSpec == /\ Supported => Streams!Init
               /\ [][Supported => Streams!Next]_(Streams!vars)
=============================================================================
