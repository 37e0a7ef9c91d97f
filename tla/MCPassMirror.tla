---------------------------- MODULE MCPassMirror ----------------------------
(* Bodies for model checking: slices around every short sequence of        *)
(* instructions, with arguments and a callee.                              *)
EXTENDS PassMirrorInv, TLC

I(op) == [op |-> op, cond |-> 0]
On(op, k) == [op |-> op, cond |-> k]

(* The instructions that exchange values and share comparisons.            *)
Conditional == {I("fcmp"), I("br"), I("select")} \cup {On(op, k) : op \in {"br", "select"}, k \in 2 .. 3}
Calling == {I(op) : op \in {"call", "icall", "load", "br"}}
Memory == {I(op) : op \in {"cast", "memset", "memcpy", "load", "store", "plain"}}
UpTo(n, S) == UNION {[1 .. k -> S] : k \in 0 .. n}

(* A condition is a comparison made before on every path, and no branch    *)
(* leaves out end_slice.                                                   *)
WellFormed(s) ==
  \A i \in DOMAIN s :
    /\ s[i].cond # 0 => /\ s[i].cond < i /\ s[s[i].cond].op = "fcmp"
                        /\ s[s[i].cond - 1].op # "br"
    /\ s[i].op = "br" => s[i + 1].op # "end"

Around(s, after) == <<I("arg"), I("start")>> \o s \o <<I("end")>> \o after
Callee == <<I("fcmp"), I("load"), On("br", 1), I("store")>>
Shift(s) == [i \in DOMAIN s |-> IF s[i].cond = 0 THEN s[i] ELSE On(s[i].op, s[i].cond + 1)]
BodiesOf(inner, after, callee) ==
  {b \in {[S |-> Around(Shift(s), after), F |-> callee] : s \in inner} : WellFormed(b.S)}

Then(S, op) == {Append(s, I(op)) : s \in S}

(* Every two instructions with conditions, and three if they share one.    *)
Sharing == {s \in [1 .. 3 -> Conditional] : \E i \in DOMAIN s : s[i].cond # 0}

EveryBody ==
  BodiesOf(Then(UpTo(2, Conditional) \cup Sharing, "load"), << >>, << >>)
  \cup BodiesOf(Then(UpTo(2, Calling), "lib"), << >>, Callee)
  \cup BodiesOf(UpTo(2, Memory), <<I("plain")>>, << >>)

(* They are all of the kind that the proofs are about.                     *)
ASSUME EveryBodySupported == \A b \in EveryBody : Supported(b)

Symmetry == Permutations(Workers)

(* sum of correctness_suite/src/indirect1.c without its loop: after        *)
(* end_slice the result is loaded to be returned.                          *)
LateLoad == {[S |-> <<I("start"), I("store"), I("br"), I("icall"), I("end"), I("load")>>,
              F |-> <<I("load")>>]}
=============================================================================
