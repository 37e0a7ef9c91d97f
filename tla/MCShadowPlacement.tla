------------------------- MODULE MCShadowPlacement -------------------------
(* Instances of ShadowPlacement for TLC.                                   *)
EXTENDS ShadowPlacementInv

I(b, op, args) ==
  [block |-> b, op |-> op, args |-> args, from |-> << >>, cond |-> None, direct |-> TRUE]
Phi(b, args, from) == [I(b, "phi", args) EXCEPT !.from = from]
If(b, op, args, cond) == [I(b, op, args) EXCEPT !.cond = cond]
Indirect(b, args) == [I(b, "call", args) EXCEPT !.direct = FALSE]
Fun(slice, next, text) == [slice |-> slice, args |-> 1, next |-> next, text |-> text]

(* A loop with two phis: what they take around the loop, what a cast, a    *)
(* select and the loop's last computation use, and what is returned, vary. *)
P == Ins(4)
Q == Ins(5)
T == Ins(6)
Y == Ins(7)
S == Ins(9)
Z == Ins(11)
Loop(vp, vq, vt, vs, vz, vr) ==
  Fun(FALSE, <<{2}, {3, 4}, {2}, {}>>, <<
    I(1, "load", << >>), I(1, "conv", << >>), I(1, "br", << >>),
    Phi(2, <<Ins(1), vp>>, <<1, 3>>), Phi(2, <<Const(1), vq>>, <<1, 3>>), I(2, "cast", <<vt>>),
    I(2, "bin", <<T, Q>>), I(2, "fcmp", <<Y, Const(2)>>),
    If(2, "select", <<vs, Y>>, Ins(8)), If(2, "br", << >>, Ins(8)),
    I(3, "math", <<vz, Const(1)>>), I(3, "store", <<S>>), I(3, "br", << >>),
    I(4, "store", <<vz>>), I(4, "ret", <<vr>>)>>)
Around(vp, vq, vt, vs, vz) == Loop(vp, vq, vt, vs, vz, IF vz = P THEN S ELSE P)
Loops ==
  {Around(vp, vq, Ins(1), vs, vz) :
     vp \in {Q, T, S, Z, Undef}, vq \in {S, Z}, vs \in {P, Q, T, Arg(1)}, vz \in {P, S}}

(* The same with phis that take themselves or one copied before, and casts *)
(* of phis.                                                                *)
OtherLoops ==
  {Around(vp, vq, vt, vs, S) : vp \in {P, Z}, vq \in {P, Q, Z}, vt \in {P, Ins(1)}, vs \in {P, T}}

(* Straight code, in a slice or not.                                       *)
Straight(slice, op, v, r) ==
  Fun(slice, <<{}>>, <<
    I(1, "conv", << >>), I(1, "load", << >>), I(1, "cast", <<v>>), I(1, "cast", <<Ins(3)>>),
    I(1, op, <<Ins(3), Ins(2)>>), I(1, "neg", <<Ins(5)>>), I(1, "store", <<Const(3)>>),
    I(1, "store", <<Ins(4)>>), I(1, "ret", r)>>)
Straights ==
  {Straight(slice, op, v, r) :
     slice \in BOOLEAN, op \in {"bin", "math", "call", "lib", "extern", "known"},
     v \in {Ins(1), Ins(2), Arg(1)}, r \in {<< >>, <<Const(1)>>, <<Ins(6)>>, <<Arg(1)>>}}

(* Two returns; and blocks whose text is not in the order of their values. *)
TwoReturns(loads) ==
  Fun(FALSE, <<{2, 3}, {}, {}>>,
    IF loads
    THEN <<I(1, "load", << >>), I(1, "br", << >>), I(2, "ret", <<Arg(1)>>), I(3, "ret", <<Ins(1)>>)>>
    ELSE <<I(1, "br", << >>), I(2, "ret", <<Arg(1)>>), I(3, "ret", <<Arg(1)>>)>>)
OutOfOrder(op) ==
  Fun(FALSE, <<{3}, {}, {2}>>, <<
    I(1, "br", << >>), I(2, op, <<Ins(4)>>), I(2, "ret", <<Ins(4)>>),
    I(3, "load", << >>), I(3, "br", << >>)>>)
CastOutOfOrder(op) ==
  Fun(FALSE, <<{3}, {}, {2}>>, <<
    I(1, "br", << >>), I(2, "cast", <<Ins(5)>>), I(2, op, <<Ins(2)>>), I(2, "ret", << >>),
    I(3, "load", << >>), I(3, "br", << >>)>>)
(* Uses of the result of a function that LLVM knows and mathFunc.txt does  *)
(* not list: by a comparison, a return, a phi.                             *)
Known(op, r) ==
  Fun(TRUE, <<{}>>, <<I(1, "known", << >>), I(1, op, <<Ins(1)>>), I(1, "ret", r)>>)
KnownAlong ==
  Fun(TRUE, <<{2}, {}>>, <<I(1, "known", << >>), I(1, "br", << >>), Phi(2, <<Ins(1)>>, <<1>>), I(2, "ret", << >>)>>)
(* Comparisons of results: only of a function called by name is an entry   *)
(* counted once more.                                                      *)
Compared(i, v) ==
  Fun(FALSE, <<{}>>, <<i, I(1, "fcmp", <<Ins(1), v>>), I(1, "ret", <<v>>)>>)
Comparisons ==
  {Compared(i, v) :
     i \in {I(1, op, <<Const(1)>>) : op \in {"math", "call", "lib"}} \cup {Indirect(1, <<Const(1)>>)},
     v \in {Ins(1), Const(1), Const(2)}}
Others ==
  {Known("fcmp", r) : r \in {<< >>, <<Ins(1)>>}} \cup {KnownAlong} \cup
  {TwoReturns(loads) : loads \in BOOLEAN} \cup {OutOfOrder(op) : op \in {"neg", "store", "cast", "fcmp"}}
  \cup {CastOutOfOrder(op) : op \in {"neg", "store", "fcmp"}}

AllFunctions == Loops \cup OtherLoops \cup Straights \cup Others \cup Comparisons
=============================================================================
