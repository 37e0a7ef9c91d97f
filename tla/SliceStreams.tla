---------------------------- MODULE SliceStreams ---------------------------
(***************************************************************************)
(* What the queues promise to the analysis: each slice is a stream of      *)
(* values, the shadow of a slice reads the values of its own stream, each  *)
(* once and in order, possibly while the slice still sends, and the errors *)
(* of a slice are reported once, when its whole stream has been read.      *)
(* Buffers, lists of buffers and threads are not visible here.             *)
(***************************************************************************)
EXTENDS Naturals, Sequences

VARIABLES
  sent,      (* the number of values each slice has sent                   *)
  ended,     (* the slices that have ended                                 *)
  shadowed,  (* the values read on behalf of each slice                    *)
  reported   (* how often each slice was reported                          *)

vars == <<sent, ended, shadowed, reported>>

(* The slices of the execution, fixed from the start.                      *)
Slices == DOMAIN sent

Init ==
  /\ sent = [s \in Slices |-> 0]
  /\ ended = {}
  /\ shadowed = [s \in Slices |-> << >>]
  /\ reported = [s \in Slices |-> 0]

(* Slices run one after the other: the ones before s have ended.           *)
Current(s) == s \notin ended /\ \A r \in Slices : r < s => r \in ended

Send(s) ==
  /\ Current(s)
  /\ sent' = [sent EXCEPT ![s] = @ + 1]
  /\ UNCHANGED <<ended, shadowed, reported>>

End(s) ==
  /\ Current(s)
  /\ ended' = ended \cup {s}
  /\ UNCHANGED <<sent, shadowed, reported>>

Shadow(s) ==
  /\ reported[s] = 0 /\ Len(shadowed[s]) < sent[s]
  /\ shadowed' = [shadowed EXCEPT ![s] = Append(@, <<s, Len(@) + 1>>)]
  /\ UNCHANGED <<sent, ended, reported>>

Report(s) ==
  /\ s \in ended /\ Len(shadowed[s]) = sent[s] /\ reported[s] = 0
  /\ reported' = [reported EXCEPT ![s] = 1]
  /\ UNCHANGED <<sent, ended, shadowed>>

Next == \E s \in Slices : Send(s) \/ End(s) \/ Shadow(s) \/ Report(s)

Spec == Init /\ [][Next]_vars
=============================================================================
