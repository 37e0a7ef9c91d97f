------------------------ MODULE SliceQueuesStreamInv -----------------------
(***************************************************************************)
(* The inductive invariant behind the refinement of SliceStreams, on the   *)
(* executions the hand-over is made for: where the values of each slice    *)
(* are at any time.  A slice's first buffer is with the producer, then in  *)
(* task_queue, then with the consumer; its continuations are in full_list  *)
(* in the order in which they are wanted, since the slices hand over and   *)
(* are replayed in the same order.  IInv says that nobody writes to them.  *)
(***************************************************************************)
EXTENDS SliceQueuesInv

Total(s) == ValuesUpTo(s, Len(program[s]))

(* The slices that have reached their end, and those whose first buffer    *)
(* was handed over; how many values of a slice were handed over.           *)
Sending == pc \in {"slice", "interim"}
Ended(s) == s < slice \/ (s = slice /\ ~Sending)
Given(s) == s \in Slices /\ (Ended(s) \/ (s = slice /\ startSlice))
HandedOver(s) ==
  IF Ended(s) THEN Total(s) ELSE ValuesUpTo(slice, opIdx) - QIdx

(* A buffer has the values of slice s that follow the n-th, as many as     *)
(* there are or it has room for.                                           *)
Has(content, s, n, total) ==
  \A i \in 0 .. BufSize - 1 : n + i < total => content[i] = <<s, n + i + 1>>
IsPart(b, s, n) == Has(queue[b], s, n, Total(s))

(* A continuation, which is not empty, says of which slice it is, and how  *)
(* many values of the slice came before it.                                *)
Base(b) == queue[b][0][2] - 1
IsContinuation(b, s, n) == SliceOf(b) = s /\ Base(b) = n

(* The buffer of slice s that starts behind the n-th value is in full_list *)
(* or still to come.                                                       *)
Await(s, n) ==
  /\ Ended(s) \/ n <= HandedOver(s)
  /\ n < HandedOver(s) =>
       \E i \in 1 .. Len(full_list) : IsContinuation(full_list[i], s, n)

(* Where the next buffer of a consumer starts.                             *)
Position(w) ==
  Len(shadowed[task[w]]) + IF wpc[w] = "run" THEN BufSize - CQIdx[w] ELSE 0

Calls(ops, n) == \E i \in 1 .. n : ops[i] # "val"
AllCalls(s) == Calls(program[s], Len(program[s]))

-----------------------------------------------------------------------------
(* The producer fills a first buffer or, with startSlice, a later one.     *)
InSlice ==
  /\ opIdx <= Len(program[slice]) /\ cur_task = slice
  /\ QIdx <= ValuesUpTo(slice, opIdx)
  /\ IF startSlice THEN BufSize <= HandedOver(slice) ELSE HandedOver(slice) = 0
  /\ startSlice /\ QIdx = 0 => AtOp("val")
  /\ pc = "interim" => startSlice /\ QIdx = 0
  /\ pc = "slice" =>
       \A i \in 0 .. QIdx - 1 : queue[p_queue_idx][i] = <<slice, HandedOver(slice) + i + 1>>
  /\ ~startSlice /\ Calls(program[slice], opIdx) => p_queue_idx \in clone_map

BetweenSlices ==
  /\ ~startSlice /\ QIdx = 0
  /\ slice > 0 => opIdx = Len(program[slice])

Producing ==
  /\ pc # "crashed"
  /\ fini <=> pc \in {"joining", "done"}
  /\ fini => slice = Len(program)
  /\ Sending => InSlice
  /\ ~Sending => BetweenSlices

(* The tasks are those of different slices, in the order of the slices.    *)
IsTask(t) ==
  /\ Given(t.task) /\ shadowed[t.task] = << >> /\ reported[t.task] = 0
  /\ IsPart(t.buf, t.task, 0) /\ Await(t.task, BufSize)
  /\ AllCalls(t.task) => t.buf \in clone_map

Queued ==
  /\ \A j \in 1 .. Len(task_queue) : IsTask(task_queue[j])
  /\ \A i, j \in 1 .. Len(task_queue) : i < j => task_queue[i].task < task_queue[j].task

(* A clone is as far as the values it has read, and on the right buffer.   *)
(* One that waits for a buffer, or has just got it, is about to read.      *)
OnFirst(w) ==
  wpc[w] = "run" /\ CQIdx[w] = Len(shadowed[task[w]]) /\ buf_idx[w] = buf_id[w]
OnLater(w) ==
  /\ BufSize + CQIdx[w] <= Len(shadowed[task[w]])
  /\ wpc[w] = "interim" => CQIdx[w] = 0
  /\ CQIdx[w] = 0 => NextOp(w) = "val"

Replays(w, s) ==
  /\ Given(s) /\ reported[s] = 0
  /\ wop[w] <= Len(program[s]) /\ Len(shadowed[s]) = ValuesUpTo(s, wop[w])
  /\ OnFirst(w) \/ OnLater(w)
  /\ wpc[w] = "run" => IsPart(buf_idx[w], s, Len(shadowed[s]) - CQIdx[w])
  /\ Await(s, Position(w))
  /\ buf_id[w] \in init_flag
  /\ AllCalls(s) => buf_id[w] \in clone_map
  /\ \A j \in 1 .. Len(task_queue) : s < task_queue[j].task

Replaying ==
  /\ \A w \in Consumers : Running(w) => Replays(w, task[w])
  /\ \A w \in Consumers : ~Running(w) => CQIdx[w] = 0
  /\ \A w, v \in Consumers : Running(w) /\ Running(v) /\ task[w] = task[v] => w = v

(* The continuations, in the order in which they are wanted.               *)
Follows(b, s, n) ==
  /\ Given(s) /\ reported[s] = 0
  /\ BufSize <= n /\ n < Total(s)
  /\ IsPart(b, s, n) /\ Await(s, n + BufSize)
  /\ \A w \in Consumers : Running(w) /\ task[w] = s => Position(w) <= n

InOrder(b, c) ==
  SliceOf(b) < SliceOf(c) \/ (SliceOf(b) = SliceOf(c) /\ Base(b) + BufSize <= Base(c))

Continuing ==
  /\ \A i \in 1 .. Len(full_list) :
       Follows(full_list[i], SliceOf(full_list[i]), Base(full_list[i]))
  /\ \A i, j \in 1 .. Len(full_list) : i < j => InOrder(full_list[i], full_list[j])

(* Every slice is followed up until it is reported, and then is complete.  *)
FollowedUp(s) ==
  \/ \E w \in Consumers : Running(w) /\ task[w] = s
  \/ \E j \in 1 .. Len(task_queue) : task_queue[j].task = s

Recorded ==
  /\ \A s \in Slices :
       /\ Own(s, shadowed[s]) /\ reported[s] \in {0, 1}
       /\ ~Given(s) => shadowed[s] = << >> /\ reported[s] = 0
       /\ reported[s] = 1 => Ended(s) /\ Len(shadowed[s]) = Total(s)
       /\ Given(s) /\ reported[s] = 0 => FollowedUp(s)
  /\ \A w \in Consumers : wpc[w] = "exited" => fini /\ task_queue = << >>
  /\ pc = "done" => \A w \in Workers : wpc[w] = "exited"

StreamInv == Producing /\ Queued /\ Replaying /\ Continuing /\ Recorded

(* On the executions the hand-over is made for, every value is where it is *)
(* wanted next.                                                            *)
SInv == Supported => StreamInv
=============================================================================
