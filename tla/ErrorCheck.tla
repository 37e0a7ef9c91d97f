----------------------------- MODULE ErrorCheck -----------------------------
(***************************************************************************)
(* What a shadow slice finds out about the program's numbers: how far a    *)
(* computed value is from its shadow, whether a subtraction cancelled all  *)
(* that was right in its operands, whether a comparison goes the other     *)
(* way in the shadow.  The findings of a slice are counted per shadow      *)
(* state and reported when the slice ends; the next slice on the same      *)
(* buffer starts from there.                                               *)
(*                                                                         *)
(* Doubles are bit patterns of a small IEEE format, with the integer       *)
(* arithmetic that m_ulpd does on them at that width; shadow values are    *)
(* integers, in units finer than the smallest double, with ranks for       *)
(* infinity and NaN.                                                       *)
(*                                                                         *)
(* Source: src/runtime/handleReal.cpp, built with CORRECTNESS and TRACING. *)
(***************************************************************************)
EXTENDS Integers, FiniteSets

CONSTANTS
  ExpBits, MantBits, (* the format: 11 and 52 for double                   *)
  Extra,             (* bits of the shadow below the smallest double       *)
  ERRORTHRESHOLD,
  Operands,          (* the values considered: [val, computed] pairs       *)
  Results,           (* what operations that are not added up here return  *)
  MaxOps,            (* bound: operations in a slice                       *)
  MaxSlices          (* bound: slices that use the shadow state            *)

ASSUME FormatAssumption ==
  ExpBits \in Nat \ {0, 1} /\ MantBits \in Nat \ {0} /\ Extra \in Nat
ASSUME LimitsAssumption == MaxOps \in Nat /\ MaxSlices \in Nat

-----------------------------------------------------------------------------
(* Bit patterns.                                                           *)
Width == 1 + ExpBits + MantBits
SignBit == 2 ^ (Width - 1)
Mag(p) == p % SignBit
InfMag == (2 ^ ExpBits - 1) * 2 ^ MantBits
Doubles == 0 .. 2 ^ Width - 1

ASSUME ThresholdAssumption == ERRORTHRESHOLD \in Nat /\ ERRORTHRESHOLD < Width
ASSUME ValuesAssumption == \A o \in Operands \cup Results : o.val \in Int /\ o.computed \in Doubles

isnan(p) == Mag(p) > InfMag
isinf(p) == Mag(p) = InfMag

(* The number a magnitude stands for, in the units of the shadow.          *)
MagValue(m) ==
  LET e == m \div 2 ^ MantBits
      f == m % 2 ^ MantBits
  IN  2 ^ Extra * IF e = 0 THEN f ELSE (2 ^ MantBits + f) * 2 ^ (e - 1)

(* Shadow values.  Sums of finite ones stay below Infinity.                *)
Infinity == 2 * MagValue(InfMag)
NaN == Infinity + 1
IsNumber(v) == v # NaN /\ v \in (1 - Infinity) .. (Infinity - 1)
regular_p(v) == IsNumber(v) /\ v # 0
AbsOf(v) == IF v < 0 THEN -v ELSE v

(* mpfr_set_d is exact, mpfr_get_d rounds to the nearest double, and to    *)
(* the even one of two: a number is past as many doubles as it is past     *)
(* middles between neighbours, or on such a middle below an even one.      *)
Exact(p) ==
  IF isnan(p) THEN NaN
  ELSE (IF p >= SignBit THEN -1 ELSE 1) *
       (IF isinf(p) THEN Infinity ELSE MagValue(Mag(p)))

Nearest ==
  [n \in 0 .. Infinity |->
     Cardinality({q \in 1 .. InfMag :
       LET middle == MagValue(q - 1) + MagValue(q)
       IN  middle < 2 * n \/ (middle = 2 * n /\ q % 2 = 0)})]

m_get_double(v) ==
  LET m == IF IsNumber(v) THEN Nearest[AbsOf(v)] ELSE IF v = NaN THEN InfMag + 1 ELSE InfMag
  IN  IF v < 0 THEN SignBit + m ELSE m

mpfr_cmp(a, b) == IF a = NaN \/ b = NaN \/ a = b THEN 0 ELSE IF a < b THEN -1 ELSE 1

Plus(a, b) ==
  IF a = NaN \/ b = NaN \/ {a, b} = {Infinity, -Infinity} THEN NaN
  ELSE IF Infinity \in {a, b} THEN Infinity
  ELSE IF -Infinity \in {a, b} THEN -Infinity ELSE a + b
Minus(a, b) == Plus(a, IF b = NaN THEN NaN ELSE -b)

(* The exponent of a regular number, that is how many bits it has (fewer   *)
(* than MaxBits); of others whatever MPFR keeps there.                     *)
MaxBits == Extra + MantBits + 2 ^ ExpBits
mpfr_get_exp(v) ==
  IF regular_p(v) THEN Cardinality({k \in 0 .. MaxBits : 2 ^ k <= AbsOf(v)})
  ELSE IF v = 0 THEN -100 ELSE IF v = NaN THEN -99 ELSE -98

-----------------------------------------------------------------------------
(* The distance in ulps, on W bit integers.                                *)
Signed(n) == LET r == n % 2 ^ Width IN IF r >= SignBit THEN r - 2 ^ Width ELSE r
Ordered(p) ==
  LET xx == IF Mag(p) = 0 THEN 0 ELSE Signed(p)
  IN  IF xx < 0 THEN Signed(-SignBit - xx) ELSE xx

Distance(x, y) ==
  LET d == IF Ordered(x) >= Ordered(y) THEN Ordered(x) - Ordered(y)
           ELSE Ordered(y) - Ordered(x)
  IN  Signed(d) % 2 ^ Width

UlpdMax(x, y) == IF isnan(x) \/ isnan(y) THEN 2 ^ Width - 1 ELSE Distance(x, y)
m_ulpd(x, y) == IF isnan(x) \/ isnan(y) THEN 2 ^ Width - 2 ELSE Distance(x, y)

(* 2 to the bitsError of m_update_error, and its value as an int.          *)
UlpsPlus1(v, p) == (m_ulpd(m_get_double(v), p) + 1) % 2 ^ Width
IsError(v, p) == UlpsPlus1(v, p) > 2 ^ ERRORTHRESHOLD
BitsError(v, p) == Cardinality({b \in 1 .. Width : 2 ^ b <= UlpsPlus1(v, p)})

-----------------------------------------------------------------------------
(* Catastrophic cancellation.                                              *)
SmallerOf(a, b) == IF a < b THEN a ELSE b
LargerOf(a, b) == IF a < b THEN b ELSE a

m_get_exact_bits(o) ==
  LET computed == Exact(o.computed)
      diff == Minus(o.val, computed)
  IN  IF mpfr_cmp(computed, o.val) = 0 THEN MantBits
      ELSE IF mpfr_get_exp(o.val) # mpfr_get_exp(computed) THEN 0
      ELSE IF mpfr_cmp(diff, 0) = 0 THEN 0
      ELSE SmallerOf(MantBits, AbsOf(mpfr_get_exp(o.val) - mpfr_get_exp(diff)))

m_get_cancelled_bits(p, q, r) ==
  IF \A x \in {p, q, r} : regular_p(Exact(x))
  THEN LargerOf(0, LargerOf(mpfr_get_exp(Exact(p)), mpfr_get_exp(Exact(q)))
                   - mpfr_get_exp(Exact(r)))
  ELSE 0

CbadLate(cbits, ebits1, ebits2) == LargerOf(0, cbits - SmallerOf(ebits1, ebits2))
CbadEarly(cbits, ebits1, ebits2) == LargerOf(0, 2 + cbits - SmallerOf(ebits1, ebits2))
m_get_cbad(cbits, ebits1, ebits2) == LargerOf(0, 1 + cbits - SmallerOf(ebits1, ebits2))

m_check_cc(o1, o2, r) ==
  /\ ~isnan(o1.computed) /\ ~isnan(o2.computed)
  /\ \/ Mag(r.computed) = 0 /\ BitsError(r.val, r.computed) # 0
     \/ m_get_cbad(m_get_cancelled_bits(o1.computed, o2.computed, r.computed),
                   m_get_exact_bits(o1), m_get_exact_bits(o2)) > 0

(* The additions and subtractions that are looked at: of unlike signs, and *)
(* of like signs.                                                          *)
Sign(p) == IF isnan(p) \/ Mag(p) = 0 THEN 0 ELSE IF p >= SignBit THEN -1 ELSE 1
Subtracts(op, o1, o2) ==
  Sign(o1.computed) * Sign(o2.computed) = IF op = "add" THEN -1 ELSE 1

-----------------------------------------------------------------------------
(* The comparison in the shadow, by the number of LLVM's predicate.        *)
Relation(flag, ret) ==
  \/ flag = 1 /\ ret = 0
  \/ flag = 2 /\ ret > 0
  \/ flag = 3 /\ ret >= 0
  \/ flag = 4 /\ ret < 0
  \/ flag = 5 /\ ret <= 0
  \/ flag = 6 /\ ret # 0
  \/ flag = 7

OrderedOnly(a, b, flag) == flag = 15 \/ Relation(flag % 8, mpfr_cmp(a, b))
m_check_branch(a, b, flag) ==
  \/ flag \in 1 .. 7 /\ a # NaN /\ b # NaN /\ Relation(flag, mpfr_cmp(a, b))
  \/ flag = 8 /\ a = NaN /\ b = NaN
  \/ flag \in 9 .. 14 /\ (a = NaN \/ b = NaN \/ Relation(flag - 8, mpfr_cmp(a, b)))
  \/ flag = 15

-----------------------------------------------------------------------------
VARIABLES
  running,   (* a shadow slice is running                                  *)
  slices,    (* how many have used this shadow state                       *)
  ops,       (* the operations of the current one                          *)
  args,      (* the operands at hand: no or two of them                    *)
  errorCount, nanCount, infCount, flipsCount, ccCount,
  shown,     (* what the last report said                                  *)
  did,       (* history: what the current or last slice really met         *)
  infsBefore (* history: infinities met by slices before it                *)

counters == <<errorCount, nanCount, infCount, flipsCount, ccCount>>
vars == <<running, slices, ops, args, counters, shown, did, infsBefore>>

NothingShown == [errors |-> 0, nans |-> 0, infs |-> 0, flips |-> 0, cc |-> 0]
NothingMet == [errors |-> 0, nans |-> 0, infs |-> 0, flips |-> 0,
               uno |-> 0, mustCancel |-> 0, mayCancel |-> 0]

Init ==
  /\ running = FALSE /\ slices = 0 /\ ops = 0 /\ args = << >>
  /\ errorCount = 0 /\ nanCount = 0 /\ infCount = 0 /\ flipsCount = 0 /\ ccCount = 0
  /\ shown = NothingShown /\ did = NothingMet /\ infsBefore = 0

-----------------------------------------------------------------------------
(* What happened, told without the code's own arithmetic: how many doubles *)
(* lie between two, which relation holds between two numbers, how large    *)
(* the errors of two operands are next to their difference.                *)
One(b) == IF b THEN 1 ELSE 0

DoubleValues == {Exact(p) : p \in {q \in Doubles : ~isnan(q)}}
Steps(a, b) ==
  Cardinality({v \in DoubleValues : SmallerOf(a, b) < v /\ v <= LargerOf(a, b)})
TooFar(v, p) == \/ v = NaN \/ isnan(p)
                \/ Steps(Exact(m_get_double(v)), Exact(p)) + 1 > 2 ^ ERRORTHRESHOLD

Relates(a, b) == IF a = NaN \/ b = NaN THEN 8
                 ELSE IF a < b THEN 4 ELSE IF a > b THEN 2 ELSE 1
Holds(flag, a, b) == (flag \div Relates(a, b)) % 2 = 1

ErrorOf(o) == Minus(o.val, Exact(o.computed))
Inexact(o) == ErrorOf(o) # 0 /\ ~(isinf(o.computed) /\ o.val = Exact(o.computed))

(* The shadow has the exponent of the computed value and the other sign.   *)
Crossed(o) ==
  /\ mpfr_get_exp(o.val) = mpfr_get_exp(Exact(o.computed))
  /\ o.val < 0 <=> Exact(o.computed) > 0

(* The difference is smaller than the error of an operand; of a crossed    *)
(* one the code takes one bit for exact, so that one must have cancelled.  *)
Drowned(o, r) ==
  /\ Inexact(o)
  /\ mpfr_get_exp(ErrorOf(o)) >= mpfr_get_exp(Exact(r.computed))
  /\ Crossed(o) => mpfr_get_exp(Exact(r.computed)) < mpfr_get_exp(Exact(o.computed))

(* The operands are numbers and either nothing of the difference is right, *)
(* being drowned in the error of an operand, or the difference is gone.    *)
MustCancel(o1, o2, r) ==
  /\ \A o \in {o1, o2} : regular_p(o.val) /\ regular_p(Exact(o.computed))
  /\ IF Mag(r.computed) = 0 THEN Mag(m_get_double(r.val)) # 0
     ELSE regular_p(Exact(r.computed)) /\ \E o \in {o1, o2} : Drowned(o, r)

(* An operand was wrong, or all the stored bits of a mantissa cancelled.   *)
MayCancel(o1, o2, r) ==
  \/ Inexact(o1) \/ Inexact(o2)
  \/ m_get_cancelled_bits(o1.computed, o2.computed, r.computed) >= MantBits

-----------------------------------------------------------------------------
(* m_update_error: the comparison of a value with its shadow.              *)
UpdateError(r) == errorCount' = errorCount + One(IsError(r.val, r.computed))
CountNaN(r) == nanCount' = nanCount + One(isnan(r.computed))
CountInf(r) == infCount' = infCount + One(isinf(r.computed))

OnArgs == running /\ args # << >> /\ ops' = ops + 1 /\ args' = << >>
OnResult == running /\ args = << >> /\ ops < MaxOps /\ ops' = ops + 1 /\ UNCHANGED args
Sum(op, a, b) == IF op = "add" THEN Plus(a, b) ELSE Minus(a, b)

Result(op, o1, o2) ==
  [val |-> Sum(op, o1.val, o2.val),
   computed |-> m_get_double(Sum(op, Exact(o1.computed), Exact(o2.computed)))]

(* fpsan_mpfr_fadd and fpsan_mpfr_fsub.                                    *)
AddSub(op) ==
  /\ OnArgs
  /\ LET o1 == args[1]
         o2 == args[2]
         r == Result(op, o1, o2)
         sub == Subtracts(op, o1, o2)
     IN  /\ CountNaN(r) /\ UpdateError(r)
         /\ ccCount' = ccCount + One(sub /\ m_check_cc(o1, o2, r))
         /\ did' = [did EXCEPT !.errors = @ + One(TooFar(r.val, r.computed)),
                               !.nans = @ + One(isnan(r.computed)),
                               !.mustCancel = @ + One(sub /\ MustCancel(o1, o2, r)),
                               !.mayCancel = @ + One(sub /\ MayCancel(o1, o2, r))]
  /\ UNCHANGED <<running, slices, infCount, flipsCount, shown, infsBefore>>

(* The results of the other operations are not computed here.              *)
Mul(r) ==
  /\ OnResult
  /\ CountNaN(r) /\ UpdateError(r)
  /\ did' = [did EXCEPT !.errors = @ + One(TooFar(r.val, r.computed)),
                        !.nans = @ + One(isnan(r.computed))]
  /\ UNCHANGED <<running, slices, infCount, flipsCount, ccCount, shown, infsBefore>>

(* Only divisions and the functions of one argument count infinities.      *)
Unbounded(r) ==
  /\ OnResult
  /\ CountNaN(r) /\ UpdateError(r) /\ CountInf(r)
  /\ did' = [did EXCEPT !.errors = @ + One(TooFar(r.val, r.computed)),
                        !.nans = @ + One(isnan(r.computed)),
                        !.infs = @ + One(isinf(r.computed))]
  /\ UNCHANGED <<running, slices, flipsCount, ccCount, shown, infsBefore>>
Div(r) == Unbounded(r)
MathFunction(r) == Unbounded(r)

(* The functions of two and three arguments count errors only.             *)
ErrorOnly(r) ==
  /\ OnResult
  /\ UpdateError(r)
  /\ did' = [did EXCEPT !.errors = @ + One(TooFar(r.val, r.computed))]
  /\ UNCHANGED <<running, slices, nanCount, infCount, flipsCount, ccCount, shown,
                 infsBefore>>
MathFunction2(r) == ErrorOnly(r)

(* fpsan_copy_return, fpsan_check_error and fpsan_trace look at a value    *)
(* once more that was counted when it was computed.                        *)
Recheck(r) == ErrorOnly(r)

(* A comparison.  The program pushed the outcome it computed.              *)
CheckBranch(flag) ==
  /\ OnArgs
  /\ LET a == args[1]
         b == args[2]
         computedRes == Holds(flag, Exact(a.computed), Exact(b.computed))
     IN  /\ flipsCount' = flipsCount + One(m_check_branch(a.val, b.val, flag) # computedRes)
         /\ did' = [did EXCEPT !.flips = @ + One(Holds(flag, a.val, b.val) # computedRes),
                               !.uno = @ + One(flag = 8 /\ (a.val = NaN) # (b.val = NaN))]
  /\ UNCHANGED <<running, slices, errorCount, nanCount, infCount, ccCount, shown,
                 infsBefore>>

-----------------------------------------------------------------------------
ShadowSliceStart ==
  /\ ~running /\ slices < MaxSlices
  /\ running' = TRUE /\ slices' = slices + 1 /\ ops' = 0
  /\ did' = NothingMet
  /\ infsBefore' = infsBefore + did.infs
  /\ shown' = NothingShown
  /\ UNCHANGED <<args, counters>>

(* The values the next operation works on: constants, loads, arguments or  *)
(* earlier results.                                                        *)
Fetch ==
  /\ running /\ args = << >> /\ ops < MaxOps
  /\ \E o1, o2 \in Operands : args' = <<o1, o2>>
  /\ UNCHANGED <<running, slices, ops, counters, shown, did, infsBefore>>

(* fpsan_shadow_slice_end: the report, and what the next slice starts from.*)
KeepFlips == errorCount' = 0 /\ nanCount' = 0 /\ ccCount' = 0 /\ UNCHANGED flipsCount
KeepErrors == flipsCount' = 0 /\ nanCount' = 0 /\ ccCount' = 0 /\ UNCHANGED errorCount
Reset == errorCount' = 0 /\ nanCount' = 0 /\ flipsCount' = 0 /\ ccCount' = 0

ShadowSliceEnd ==
  /\ running /\ args = << >>
  /\ running' = FALSE
  /\ shown' = [errors |-> errorCount, nans |-> nanCount, infs |-> infCount,
               flips |-> flipsCount, cc |-> ccCount]
  /\ Reset
  /\ UNCHANGED <<slices, ops, args, infCount, did, infsBefore>>

Next ==
  \/ ShadowSliceStart \/ ShadowSliceEnd \/ Fetch
  \/ \E op \in {"add", "sub"} : AddSub(op)
  \/ \E r \in Results : Mul(r) \/ Div(r) \/ MathFunction(r) \/ MathFunction2(r) \/ Recheck(r)
  \/ \E flag \in 0 .. 15 : CheckBranch(flag)

Spec == Init /\ [][Next]_vars

-----------------------------------------------------------------------------
TypeOK ==
  /\ running \in BOOLEAN /\ slices \in 0 .. MaxSlices /\ ops \in 0 .. MaxOps
  /\ args = << >> \/ args \in Operands \X Operands
  /\ {errorCount, nanCount, flipsCount, ccCount} \subseteq 0 .. MaxOps
  /\ infCount \in 0 .. MaxOps * MaxSlices
  /\ shown \in [errors : 0 .. MaxOps, nans : 0 .. MaxOps, infs : 0 .. MaxOps * MaxSlices,
                flips : 0 .. MaxOps, cc : 0 .. MaxOps]
  /\ did \in [errors : 0 .. MaxOps, nans : 0 .. MaxOps, infs : 0 .. MaxOps,
              flips : 0 .. MaxOps, uno : 0 .. MaxOps,
              mustCancel : 0 .. MaxOps, mayCancel : 0 .. MaxOps]

(* The measure of m_ulpd, whose 64 bit differences overflow between large  *)
(* numbers of opposite sign, counts a value as an error exactly if too     *)
(* many doubles lie between it and its shadow, or if one of them is NaN.   *)
ErrorsCounted == running => errorCount = did.errors

(* A flip is counted exactly if the comparison the program made holds of   *)
(* the shadow values and not of the computed ones, or the other way round, *)
(* NaNs included.  The exception is "fcmp uno" with one NaN.               *)
FlipsCounted == running /\ did.uno = 0 => flipsCount = did.flips

(* A difference of numbers that is smaller than the error of an operand is *)
(* reported as catastrophic cancellation, also when nothing is left of it. *)
(* The exception is an operand whose shadow has its exponent and the other *)
(* sign, next to which the difference has not lost a bit: m_get_exact_bits *)
(* finds one bit exact there, and the difference goes unreported.          *)
CancellationDetected == running => ccCount >= did.mustCancel

(* Exact operands are reported only if all stored bits of their mantissas  *)
(* cancel.                                                                 *)
NoFalseCancellation == running => ccCount <= did.mayCancel

(* A report says what its own slice met, whatever earlier slices met on    *)
(* the same shadow state: all of it, once.  The number of infinities is    *)
(* right only until one has been met.                                      *)
ReportIsOwn ==
  ~running /\ slices > 0 =>
    /\ shown.errors = did.errors /\ shown.nans = did.nans
    /\ did.uno = 0 => shown.flips = did.flips
    /\ did.mustCancel <= shown.cc /\ shown.cc <= did.mayCancel
    /\ infsBefore = 0 => shown.infs = did.infs
=============================================================================
