--------------------------- MODULE SliceQueuesInv --------------------------
(***************************************************************************)
(* The inductive invariant behind the ownership of the buffers.  It is     *)
(* OneOwner said in a way each step preserves on its own: the lists have   *)
(* no repetitions, the five kinds of places exclude each other, together   *)
(* they cover the buffers, and the control states say who holds what.      *)
(***************************************************************************)
EXTENDS SliceQueues

Elems(s) == {s[i] : i \in 1 .. Len(s)}
NoRepeat(s) == \A i, j \in 1 .. Len(s) : s[i] = s[j] => i = j

(* The buffers of the tasks, in the order of task_queue.                   *)
BufsOf(q) == [i \in 1 .. Len(q) |-> q[i].buf]

Empty == Elems(empty_list)
Tasked == Elems(BufsOf(task_queue))
Full == Elems(full_list)
Listed == Empty \cup Tasked \cup Full

(* The producer has p_queue_idx for itself.                                *)
Filling == p_queue_idx # NoBuf /\ pc \notin {"interim", "calling"}
Reading(w) == wpc[w] = "run"

Control ==
  /\ pc \in {"slice", "interim", "calling"} =>
       p_queue_idx \in Buffers /\ slice \in Slices /\ cur_task \in Slices
  /\ pc = "calling" => Workers = {}
  /\ \A w \in Consumers : wpc[w] \in {"run", "interim"} => task[w] \in Slices
  /\ \A w \in Consumers : w = Main /\ Running(w) /\ pc # "crashed" => pc = "calling"
  /\ \A w \in Consumers : w # Main => wpc[w] # "idle"
  /\ \A w \in Consumers : w = Main => wpc[w] \notin {"poll", "exited"}

(* The build without workers has one buffer: once it overflowed the        *)
(* producer waits for good, and full_list is never used.                   *)
Alone ==
  Workers = {} =>
    /\ full_list = << >>
    /\ task_queue # << >> => startSlice
    /\ startSlice => pc = "interim" /\ empty_list = << >>
    /\ wpc[Main] = "run" => buf_idx[Main] = p_queue_idx

NoRepeats ==
  NoRepeat(empty_list) /\ NoRepeat(BufsOf(task_queue)) /\ NoRepeat(full_list)

Apart ==
  /\ Empty \cap Tasked = {} /\ Empty \cap Full = {} /\ Tasked \cap Full = {}
  /\ \A w \in Consumers : Reading(w) => buf_idx[w] \notin Listed
  /\ \A w, v \in Consumers :
       Reading(w) /\ Reading(v) /\ buf_idx[w] = buf_idx[v] => w = v
  /\ Filling => p_queue_idx \notin Listed
  /\ Filling => \A w \in Consumers : Reading(w) => buf_idx[w] # p_queue_idx

Covered ==
  \A b \in Buffers : \/ b \in Listed
                     \/ Filling /\ p_queue_idx = b
                     \/ \E w \in Consumers : Reading(w) /\ buf_idx[w] = b

Ownership == NoRepeats /\ Apart /\ Covered

(* The control facts survive a crash, the rest is about a running program. *)
Owned == pc # "crashed" => Alone /\ Ownership
IInv == TypeOK /\ Control /\ Owned
=============================================================================
