---------------------------- MODULE ErrorCheckInv ---------------------------
(***************************************************************************)
(* The inductive invariant behind the counters of ErrorCheck: what a slice *)
(* has counted so far is what it has met, and a report is what its slice   *)
(* had counted.                                                            *)
(***************************************************************************)
EXTENDS ErrorCheck

Ops == {"add", "sub"}

(* Nothing is left of the counters between slices, but for the infinities, *)
(* and no operation counts twice.                                          *)
Counting ==
  /\ args # << >> => running /\ ops < MaxOps
  /\ running => slices > 0
  /\ ~running => errorCount = 0 /\ nanCount = 0 /\ flipsCount = 0 /\ ccCount = 0
  /\ errorCount <= ops /\ nanCount <= ops /\ flipsCount <= ops /\ ccCount <= ops
  /\ did.errors <= ops /\ did.nans <= ops /\ did.infs <= ops /\ did.flips <= ops
  /\ did.uno <= ops /\ did.mustCancel <= ops /\ did.mayCancel <= ops

Infinities ==
  /\ infsBefore \in Nat /\ infCount = infsBefore + did.infs
  /\ IF slices = 0 THEN infsBefore = 0 /\ did = NothingMet
     ELSE infsBefore <= MaxOps * (slices - 1)

Counted ==
  running =>
    /\ nanCount = did.nans
    /\ did.uno = 0 => flipsCount = did.flips
    /\ errorCount = did.errors
    /\ did.mustCancel <= ccCount /\ ccCount <= did.mayCancel

Reported ==
  ~running /\ slices > 0 =>
    /\ shown.nans = did.nans
    /\ did.uno = 0 => shown.flips = did.flips
    /\ shown.infs = infsBefore + did.infs
    /\ shown.errors = did.errors
    /\ did.mustCancel <= shown.cc /\ shown.cc <= did.mayCancel

IInv == TypeOK /\ Counting /\ Infinities /\ Counted /\ Reported
=============================================================================
