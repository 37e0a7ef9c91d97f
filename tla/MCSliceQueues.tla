---------------------------- MODULE MCSliceQueues --------------------------
(* Instances of SliceQueues for TLC: the executions to consider.           *)
EXTENDS SliceQueuesStreamInv

v == "val"
c == "call"
i == "icall"

(* With one worker: one slice may overflow any number of times, followed   *)
(* by a slice that may do so too.  Functions are called only while the     *)
(* slice is on its first buffer, and a call made when that buffer is full  *)
(* is followed by a push.                                                  *)
LongSlices == {<<v, c, v, v, v, v>>, <<c, v, i, v>>, <<v, v, c, v>>,
               <<v, i, v, v, v, v, v, v, v, v>>}
ShortSlices == {<<c>>, <<v>>, <<v, v>>, <<v, i, v, v>>, << >>}
OneWorkerPrograms ==
  {<<s, t>> : s \in LongSlices, t \in ShortSlices \cup LongSlices}
    \cup {<<s, t, s>> : s \in ShortSlices, t \in LongSlices}

(* With two workers: one slice overflows, before, between or after slices  *)
(* that do not, or none does.  Six slices use every buffer, and the first  *)
(* one twice.                                                              *)
FittingSlices == {<<v, i>>, <<c>>, <<v>>}
TwoWorkerPrograms ==
  {<<s, t, u>> : s \in {<<v, i>>, <<c>>}, t \in {<<v, v, v>>, <<v>>}, u \in {<<v>>, <<c, v>>}}
    \cup {<<t, s, u>> : s, u \in FittingSlices, t \in {<<i, v, v, v, v, v>>, <<v, v, c, v>>}}
    \cup {<<s, t, s, t>> : s, t \in FittingSlices}
    \cup {<< <<i>>, <<i>>, <<v>>, <<i>>, <<i>>, <<i>> >>}

(* Any mixture, including the ones the code does not handle.               *)
AnyPrograms ==
  TwoWorkerPrograms \cup
  {<<s, t>> : s, t \in {<<v, v, v>>, <<v, c>>, <<v, i, v>>, <<v, v, c, v, i>>}}

(* Slices that fit into one buffer.                                        *)
SmallPrograms == {<<s, t, u>> : s, t, u \in {<<v, c, v>>, <<v, i>>, <<c>>}}

(* Two slices that need a second buffer.                                   *)
TwoOverflows == {<< <<v, v>>, <<v, v>> >>}
(* A slice that fills its buffer exactly, and then calls a function that   *)
(* pushes nothing.                                                         *)
BoundaryCall == {<< <<v, v, c>> >>}
=============================================================================
