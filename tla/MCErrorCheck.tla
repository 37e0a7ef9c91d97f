---------------------------- MODULE MCErrorCheck ----------------------------
(* Instances of ErrorCheck for TLC.                                        *)
EXTENDS ErrorCheckInv

(* Every double but zeros and NaNs with a sign, with a shadow that equals  *)
(* it and, if it is a number without a sign, one that is half the smallest *)
(* double or one and a half of it smaller; shadows of the other sign, as   *)
(* large, slightly larger and small; and shadows that are no numbers.      *)
Plausible ==
  {[val |-> Exact(p), computed |-> p] :
     p \in 0 .. InfMag + 1 \cup SignBit + 1 .. SignBit + InfMag}
    \cup {[val |-> Exact(p) - 1, computed |-> p] : p \in {0, 2, 4, 8, 10}}
    \cup {[val |-> Exact(p) - 3, computed |-> p] : p \in {1, 5, 7, 11}}
    \cup {[val |-> v, computed |-> 5] : v \in {-Exact(5), -Exact(5) - 1, -1}}
    \cup {[val |-> -Exact(p), computed |-> p] : p \in {1, SignBit + 9}}
    \cup {[val |-> v, computed |-> InfMag - 1] : v \in {NaN, Infinity}}
    \cup {[val |-> NaN, computed |-> InfMag], [val |-> Infinity, computed |-> 1]}

(* Results that are right, wrong, hopeless, and no numbers.                *)
FewResults ==
  {[val |-> v, computed |-> p] : v \in {NaN, 0, -MagValue(InfMag - 1)}, p \in {0, InfMag - 1, InfMag, InfMag + 1}}
=============================================================================
