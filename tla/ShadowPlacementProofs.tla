----------------------- MODULE ShadowPlacementProofs ----------------------
(***************************************************************************)
(* Proofs about ShadowPlacement: that the array of entries is as large as  *)
(* what is handed out, that the pass finds the metadata of every operand   *)
(* of a function that it is made for, and that the clone follows no        *)
(* pointer but those the pass has made; for functions of any form and      *)
(* length.                                                                 *)
(***************************************************************************)
EXTENDS ShadowPlacementInv, FiniteSetTheorems, SequenceTheorems, WellFoundedInduction, TLAPS

N == Len(fn.text)

(* The text of a function.                                                 *)
LEMMA Text ==
  ASSUME IsFunction(fn)
  PROVE  /\ N \in Nat /\ N > 0 /\ Texts = 1 .. N
         /\ \A k \in 1 .. N : IsInstruction(fn, k)
<1>1. fn.text \in Seq(Range(fn.text)) /\ fn.text # << >>
  BY DEF IsFunction
<1>2. N \in Nat /\ N > 0 /\ Texts = 1 .. N
  BY <1>1, EmptySeq, LenProperties DEF N, Texts
<1> QED
  BY <1>2 DEF IsFunction, Texts

LEMMA TextAt ==
  ASSUME NEW k \in Texts
  PROVE  /\ Ins(k) \in Instrs /\ Ins(k)[1] = "ins" /\ Ins(k)[2] = k
         /\ Instr(Ins(k)) = fn.text[k] /\ Op(Ins(k)) = fn.text[k].op /\ Args(Ins(k)) = fn.text[k].args
BY DEF Ins, Instrs, Instr, Op, Args, Texts

LEMMA Instruction ==
  ASSUME NEW x \in Instrs
  PROVE  \E k \in Texts : x = Ins(k)
BY DEF Instrs, Texts

(* The operands of an instruction.                                         *)
LEMMA OperandsOf ==
  ASSUME IsFunction(fn), NEW x \in Instrs
  PROVE  /\ Args(x) \in Seq(STRING \X Nat) /\ Len(Args(x)) \in Nat /\ DOMAIN Args(x) = 1 .. Len(Args(x))
         /\ Op(x) \in Ops /\ x[1] = "ins" /\ x[2] \in Texts /\ x = Ins(x[2])
         /\ \A v \in Range(Args(x)) : IsOperand(fn, v)
         /\ \A j \in DOMAIN Args(x) : Args(x)[j] \in Range(Args(x)) /\ Args(x)[j] \in STRING \X Nat
         /\ Op(x) # "phi" => x \notin Range(Args(x))
         /\ Op(x) \in {"cast", "neg", "store"} => Len(Args(x)) = 1
<1> PICK k \in Texts : x = Ins(k)
  BY Instruction
<1>1. IsInstruction(fn, k)
  BY Text
<1>2. fn.text[k].args \in Seq(STRING \X Nat)
  BY <1>1 DEF IsInstruction
<1>3. Args(x) \in Seq(STRING \X Nat) /\ Len(Args(x)) \in Nat /\ DOMAIN Args(x) = 1 .. Len(Args(x))
  BY <1>2, TextAt, LenProperties
<1>4. \A j \in DOMAIN Args(x) : Args(x)[j] \in Range(Args(x)) /\ Args(x)[j] \in STRING \X Nat
  BY <1>3, ElementOfSeq DEF Range
<1>5. Op(x) \in Ops /\ x[1] = "ins" /\ x[2] \in Texts /\ x = Ins(x[2])
  BY <1>1, TextAt DEF IsInstruction
<1> QED
  BY <1>1, <1>3, <1>4, <1>5, TextAt DEF IsInstruction

(* An operand is an instruction with a value, a constant, an argument or   *)
(* undef.                                                                  *)
LEMMA OperandKinds ==
  ASSUME IsFunction(fn), NEW v, IsOperand(fn, v)
  PROVE  /\ v[1] \in {"const", "undef", "arg", "ins"}
         /\ v[1] = "ins" => v \in Instrs /\ Op(v) \in Valued
         /\ v[1] # "ins" => Op(v) = v[1]
<1>1. v = <<v[1], v[2]>>
  BY DEF IsOperand
<1>2. ASSUME v[1] = "ins" PROVE v \in Instrs /\ Op(v) \in Valued
  <2>1. v[2] \in DOMAIN fn.text /\ fn.text[v[2]].op \in Valued
    BY <1>2 DEF IsOperand, Undef
  <2> QED
    BY <1>1, <1>2, <2>1 DEF Instrs, Ins, Op, Instr
<1>3. v[1] \in {"const", "undef", "arg", "ins"}
  BY DEF IsOperand, Undef
<1> QED
  BY <1>2, <1>3 DEF Op

-----------------------------------------------------------------------------
(* Where the loops are.                                                    *)

LEMMA Advances ==
  ASSUME Position, stage \in Walks, Advance, UNCHANGED fn
  PROVE  /\ stage' \in Walks \cup {"newphi"} /\ at' \in 1 .. N /\ (stage' = "newphi" => at' = 1)
         /\ stage' # stage => at = N /\ at' = 1
         /\ stage' = stage => at' = at + 1
         /\ \A k \in Texts : HandedOut(k)' => HandedOut(k) \/ (stage = "alloca" /\ k = at)
         /\ \A k \in Texts : Placed(k)' => Placed(k) \/ (stage = "instructions" /\ k = at)
<1>1. N \in Nat /\ N > 0 /\ Texts = 1 .. N /\ at \in 1 .. N
  BY Text DEF Position, N
<1>2. /\ at = N => at' = 1 /\ stage' = Following[stage]
      /\ at # N => at' = at + 1 /\ stage' = stage
  BY DEF Advance, N
<1>3. Following[stage] \in Walks \cup {"newphi"} /\ Following[stage] # stage
  BY DEF Following, Walks
<1>4. \A k \in Texts : HandedOut(k)' => HandedOut(k) \/ (stage = "alloca" /\ k = at)
  BY <1>1, <1>2 DEF HandedOut, Following, Walks, Clone
<1>5. \A k \in Texts : Placed(k)' => Placed(k) \/ (stage = "instructions" /\ k = at)
  BY <1>1, <1>2 DEF Placed, Following, Walks, Clone
<1>6. /\ stage' \in Walks \cup {"newphi"} /\ at' \in 1 .. N /\ (stage' = "newphi" => at' = 1)
      /\ stage' # stage => at = N /\ at' = 1
      /\ stage' = stage => at' = at + 1
  BY <1>1, <1>2, <1>3 DEF Walks
<1> QED
  BY <1>4, <1>5, <1>6

-----------------------------------------------------------------------------
(* Sequences of calls.                                                     *)

LEMMA ListOf ==
  ASSUME NEW s, NEW T, s \in Seq(T)
  PROVE  /\ IsList(s) /\ Len(s) \in Nat /\ DOMAIN s = 1 .. Len(s)
         /\ \A j \in 1 .. Len(s) : s[j] \in Range(s)
         /\ Range(s) \subseteq T
<1>1. Len(s) \in Nat /\ DOMAIN s = 1 .. Len(s) /\ s = [j \in 1 .. Len(s) |-> s[j]]
  BY LenProperties
<1>2. \A j \in 1 .. Len(s) : s[j] \in Range(s)
  BY <1>1 DEF Range
<1>3. Range(s) \subseteq T
  BY <1>1, ElementOfSeq DEF Range
<1>4. s \in [1 .. Len(s) -> Range(s)]
  BY <1>1, <1>2
<1>5. s \in Seq(Range(s))
  BY <1>1, <1>4
<1> QED
  BY <1>1, <1>2, <1>3, <1>5 DEF IsList

LEMMA Appended ==
  ASSUME NEW s, IsList(s), NEW c
  PROVE  IsList(Append(s, c)) /\ Range(Append(s, c)) = Range(s) \cup {c}
<1> DEFINE T == Range(s) \cup {c}
<1>1. s \in Seq(Range(s))
  BY DEF IsList
<1>2. s \in Seq(T) /\ Len(s) \in Nat
  BY <1>1
<1>3. /\ Append(s, c) \in Seq(T) /\ Len(Append(s, c)) = Len(s) + 1
      /\ \A j \in 1 .. Len(s) : Append(s, c)[j] = s[j]
      /\ Append(s, c)[Len(s) + 1] = c
  BY <1>2, AppendProperties
<1>4. DOMAIN s = 1 .. Len(s) /\ DOMAIN Append(s, c) = 1 .. Len(s) + 1
  BY <1>2, <1>3, LenProperties
<1>5. \A y \in T : y \in Range(Append(s, c))
  <2>1. \A j \in 1 .. Len(s) : j \in 1 .. Len(s) + 1
    BY <1>2
  <2>2. Len(s) + 1 \in 1 .. Len(s) + 1
    BY <1>2
  <2> QED
    BY <1>3, <1>4, <2>1, <2>2 DEF Range
<1> QED
  BY <1>3, <1>5, ListOf

LEMMA Joined ==
  ASSUME NEW s, IsList(s), NEW t, IsList(t)
  PROVE  IsList(s \o t) /\ Range(s \o t) = Range(s) \cup Range(t)
<1> DEFINE T == Range(s) \cup Range(t)
<1>1. s \in Seq(T) /\ t \in Seq(T)
  BY DEF IsList
<1>2. Len(s) \in Nat /\ Len(t) \in Nat /\ DOMAIN s = 1 .. Len(s) /\ DOMAIN t = 1 .. Len(t)
  BY <1>1, LenProperties
<1>3. /\ s \o t \in Seq(T) /\ Len(s \o t) = Len(s) + Len(t)
      /\ \A i \in 1 .. Len(s) + Len(t) :
           (s \o t)[i] = IF i <= Len(s) THEN s[i] ELSE t[i - Len(s)]
  BY <1>1, ConcatProperties
<1>4. DOMAIN (s \o t) = 1 .. Len(s) + Len(t)
  BY <1>3, LenProperties
<1>5. \A j \in 1 .. Len(s) : j \in 1 .. Len(s) + Len(t) /\ (s \o t)[j] = s[j]
  BY <1>2, <1>3
<1>6. \A j \in 1 .. Len(t) : Len(s) + j \in 1 .. Len(s) + Len(t) /\ (s \o t)[Len(s) + j] = t[j]
  BY <1>2, <1>3
<1>7. \A y \in T : y \in Range(s \o t)
  BY <1>2, <1>4, <1>5, <1>6 DEF Range
<1> QED
  BY <1>3, <1>7, ListOf

LEMMA PartOf ==
  ASSUME NEW s, IsList(s), NEW m \in Nat, m > 0, NEW n \in Nat, n <= Len(s)
  PROVE  IsList(SubSeq(s, m, n)) /\ Range(SubSeq(s, m, n)) \subseteq Range(s)
<1>1. s \in Seq(Range(s)) /\ Len(s) \in Nat
  BY DEF IsList
<1>2. \A i \in m .. n : i \in 1 .. Len(s)
  BY <1>1
<1>3. \A i \in m .. n : s[i] \in Range(s)
  BY <1>1, <1>2, ListOf
<1>4. SubSeq(s, m, n) \in Seq(Range(s))
  BY <1>3, SubSeqProperties
<1> QED
  BY <1>4, ListOf

(* Every nonempty set of numbers has a smallest.                           *)
LEMMA Smallest ==
  ASSUME NEW T, T \subseteq Nat, T # {}
  PROVE  \E m \in T : \A k \in T : m <= k
<1> DEFINE R == {ss \in Nat \X Nat : ss[1] < ss[2]}
<1>1. IsWellFoundedOn(R, Nat)
  BY NatLessThanWellFounded, Zenon DEF OpToRel
<1> HIDE DEF R
<1>2. PICK m \in T : \A k \in T : ~(<<k, m>> \in R)
  BY <1>1, WFMin, Zenon
<1>3. \A k \in T : ~(k < m)
  BY <1>2 DEF R
<1> QED
  BY <1>3

LEMMA Minimum ==
  ASSUME NEW T, T \subseteq Nat, T # {}
  PROVE  Min(T) \in T /\ \A k \in T : Min(T) <= k
BY Smallest DEF Min

LEMMA Maximum ==
  ASSUME NEW n \in Nat, NEW T, T \subseteq 0 .. n, T # {}
  PROVE  Max(T) \in T /\ \A k \in T : k <= Max(T)
<1> DEFINE U == {n - k : k \in T}
<1>0. PICK i \in T : TRUE
  OBVIOUS
<1>1. U \subseteq Nat /\ U # {}
  <2>1. \A k \in T : n - k \in Nat
    OBVIOUS
  <2>2. n - i \in U
    BY <1>0
  <2> QED
    BY <2>1, <2>2
<1>2. PICK m \in U : \A k \in U : m <= k
  BY <1>1, Smallest
<1>3. PICK j \in T : m = n - j
  OBVIOUS
<1>4. \A k \in T : n - k \in U
  OBVIOUS
<1>5. \A k \in T : k <= j
  <2> TAKE k \in T
  <2>1. n - j <= n - k
    BY <1>2, <1>3, <1>4
  <2> QED
    BY <2>1
<1> QED
  BY <1>5 DEF Max

(* The calls that leave the frame go before the first that clears.         *)
LEMMA BeforeClearsList ==
  ASSUME NEW s, IsList(s), NEW cs, IsList(cs)
  PROVE  IsList(BeforeClears(s, cs)) /\ Range(BeforeClears(s, cs)) \subseteq Range(s) \cup Range(cs)
<1> DEFINE P(k) == /\ \A j \in 1 .. k : s[j].fun # "clear"
                   /\ k = Len(s) \/ s[k + 1].fun = "clear"
           n == CHOOSE k \in 0 .. Len(s) : P(k)
           T == {k \in 0 .. Len(s) : k = Len(s) \/ s[k + 1].fun = "clear"}
<1>1. Len(s) \in Nat
  BY DEF IsList
<1>2. T \subseteq Nat /\ T # {}
  BY <1>1
<1>3. PICK m \in T : \A k \in T : m <= k
  BY <1>2, Smallest
<1>4. \A j \in 1 .. m : s[j].fun # "clear"
  <2> TAKE j \in 1 .. m
  <2>1. j - 1 \in 0 .. Len(s) /\ ~(m <= j - 1) /\ (j - 1) + 1 = j
    BY <1>1
  <2>2. j - 1 \notin T
    BY <1>3, <2>1
  <2> QED
    BY <2>1, <2>2
<1>5. \E k \in 0 .. Len(s) : P(k)
  BY <1>4
<1>6. n \in 0 .. Len(s)
  BY <1>5
<1> HIDE DEF n
<1>7. n \in Nat /\ n <= Len(s) /\ n + 1 \in Nat /\ n + 1 > 0
  BY <1>1, <1>6
<1>8. IsList(SubSeq(s, 1, n)) /\ Range(SubSeq(s, 1, n)) \subseteq Range(s)
  BY <1>7, PartOf
<1>9. IsList(SubSeq(s, n + 1, Len(s))) /\ Range(SubSeq(s, n + 1, Len(s))) \subseteq Range(s)
  BY <1>1, <1>7, PartOf
<1>10. BeforeClears(s, cs) = (SubSeq(s, 1, n) \o cs) \o SubSeq(s, n + 1, Len(s))
  BY DEF BeforeClears, n
<1>11. /\ IsList(SubSeq(s, 1, n) \o cs)
       /\ Range(SubSeq(s, 1, n) \o cs) \subseteq Range(s) \cup Range(cs)
  BY <1>8, Joined
<1> QED
  BY <1>9, <1>10, <1>11, Joined

LEMMA LastReturnIs ==
  ASSUME IsFunction(fn)
  PROVE  LastReturn \in Instrs /\ Op(LastReturn) = "ret"
<1> DEFINE T == {x[2] : x \in Returns}
<1>1. N \in Nat /\ Texts = 1 .. N
  BY Text
<1>2. PICK k \in Texts : fn.text[k].op = "ret"
  BY DEF IsFunction, Texts
<1>3. Ins(k) \in Returns
  BY <1>2, TextAt DEF Returns
<1>4. \A x \in Returns : x[2] \in Texts /\ x = Ins(x[2])
  BY OperandsOf DEF Returns
<1>5. T # {} /\ T \subseteq 0 .. N
  BY <1>1, <1>3, <1>4
<1>6. Max(T) \in T
  BY <1>1, <1>5, Maximum
<1>7. LastReturn = Ins(Max(T))
  BY DEF LastReturn
<1> QED
  BY <1>4, <1>6, <1>7 DEF Returns

-----------------------------------------------------------------------------
(* What the two walks count and hand out at an instruction.                *)

LEMMA Counts ==
  ASSUME IsFunction(fn), NEW x \in Instrs
  PROVE  /\ Constants(x) \subseteq DOMAIN Args(x) /\ IsFiniteSet(Constants(x))
         /\ Cardinality(Constants(x)) \in Nat /\ Result(x) \in {0, 1}
         /\ Count(x) \in Nat /\ Result(x) + Cardinality(Constants(x)) <= Count(x)
<1>1. DOMAIN Args(x) = 1 .. Len(Args(x)) /\ Len(Args(x)) \in Nat
  BY OperandsOf
<1>2. IsFiniteSet(DOMAIN Args(x))
  BY <1>1, FS_Interval
<1> DEFINE C == OperandsIn(x, {"const"})
<1>3. /\ Constants(x) \subseteq DOMAIN Args(x) /\ C \subseteq DOMAIN Args(x)
      /\ CalledByName(x) \subseteq DOMAIN Args(x)
  BY DEF Constants, CalledByName, OperandsIn
<1>4. IsFiniteSet(Constants(x)) /\ IsFiniteSet(C) /\ IsFiniteSet(CalledByName(x))
  BY <1>2, <1>3, FS_Subset
<1>5. Cardinality(Constants(x)) \in Nat /\ Cardinality(C) \in Nat /\ Cardinality(CalledByName(x)) \in Nat
  BY <1>4, FS_CardinalityType
<1>6. Op(x) \in HasEntry <=> Op(x) \in CountedResults
  BY DEF HasEntry, CountedResults
<1>7. Op(x) \in HasConstants <=> Op(x) \in CountedConstants
  BY DEF HasConstants, CountedConstants
<1>8. Cardinality(Constants(x)) = IF Op(x) \in CountedConstants THEN Cardinality(C) ELSE 0
  BY <1>7, FS_EmptySet DEF Constants
<1>9. Result(x) = IF Op(x) \in CountedResults THEN 1 ELSE 0
  BY <1>6 DEF Result
<1> DEFINE more == IF Op(x) = "fcmp" THEN Cardinality(CalledByName(x)) ELSE 0
<1>10. Count(x) = Result(x) + Cardinality(Constants(x)) + more /\ more \in Nat
  BY <1>5, <1>8, <1>9 DEF Count
<1>11. Result(x) \in {0, 1}
  BY <1>9
<1> HIDE DEF more
<1> QED
  BY <1>3, <1>4, <1>5, <1>10, <1>11

(* A constant's entry is among those handed out here.                      *)
LEMMA Entries ==
  ASSUME Position, NEW x \in Instrs, NEW k \in Constants(x)
  PROVE  /\ ConstantEntry(x, k) \in index + 1 .. index + Result(x) + Cardinality(Constants(x))
<1> DEFINE T == {j \in Constants(x) : j <= k}
<1>1. /\ IsFiniteSet(Constants(x)) /\ Cardinality(Constants(x)) \in Nat /\ Result(x) \in {0, 1}
      /\ Constants(x) \subseteq DOMAIN Args(x) /\ index \in Nat
  BY Counts DEF Position
<1>2. T \subseteq Constants(x)
  OBVIOUS
<1>3. IsFiniteSet(T) /\ Cardinality(T) <= Cardinality(Constants(x)) /\ Cardinality(T) \in Nat
  BY <1>1, <1>2, FS_Subset, FS_CardinalityType
<1>4. k \in T
  BY <1>1, OperandsOf DEF Position
<1>5. Cardinality(T) # 0
  BY <1>3, <1>4, FS_EmptySet
<1> QED
  BY <1>1, <1>3, <1>5 DEF ConstantEntry

-----------------------------------------------------------------------------
(* The conjuncts of the invariant that a part of the pass leaves alone.    *)

LEMMA CountedStays ==
  ASSUME Position, Counted, stage \in Walks \ {"count", "alloca"}, Advance,
         UNCHANGED <<fn, total, index, counted>>
  PROVE  Counted'
<1>1. stage' \in {"instructions", "returns", "compares", "newphi"}
  BY DEF Advance, Following, Walks
<1>2. \A k : UpTo(k)' = UpTo(k)
  BY DEF UpTo
<1>3. \A k : Count(Ins(k))' = Count(Ins(k))
  BY DEF Count, CalledByName, OperandsIn, Op, Instr, Args
<1> QED
  BY <1>1, <1>2, <1>3 DEF Counted, Walks

LEMMA PositionWalks ==
  ASSUME Position, stage \in Walks, Advance, UNCHANGED <<fn, runVars>>,
         total' \in Nat, index' \in Nat
  PROVE  Position'
<1>1. /\ stage' \in Walks \cup {"newphi"} /\ at' \in 1 .. N /\ (stage' = "newphi" => at' = 1)
  BY Advances
<1>2. N \in Nat
  BY Text DEF Position
<1>3. /\ at' \in 0 .. Len(fn.text) /\ at' > 0
  BY <1>1, <1>2 DEF N
<1>4. clock' \in Nat /\ exits' \in Nat /\ jumps' \in 0 .. MaxJumps /\ fn' = fn
  BY DEF Position, runVars
<1>5. stage' \notin {"leave", "done", "run", "branches"}
  BY <1>1 DEF Walks
<1> QED
  BY <1>1, <1>3, <1>4, <1>5 DEF Position

LEMMA Unfailed ==
  ASSUME stage' # "failed"
  PROVE  NothingMissing'
BY DEF NothingMissing

-----------------------------------------------------------------------------
(* The walk that counts.                                                   *)

LEMMA CountKeeps == ASSUME IInv, getTotalFPInst PROVE IInv'
<1> DEFINE x == Ins(at)
<1>0. /\ Position /\ Counted /\ Tables /\ Complete /\ Pointing
      /\ IsFunction(fn) /\ stage = "count" /\ stage \in Walks /\ Advance
      /\ total' = total + Count(x) /\ counted' = Append(counted, total')
      /\ UNCHANGED <<fn, index, GEPMap, ConsMap, MInsMap, FCMPMap, arms, code, runVars>>
  BY DEF IInv, getTotalFPInst, Position, Walks
<1>1. N \in Nat /\ N > 0 /\ Texts = 1 .. N /\ at \in 1 .. N
  BY <1>0, Text DEF Position, N
<1>2. x \in Instrs /\ Count(x) \in Nat
  BY <1>0, <1>1, TextAt, Counts
<1>3. total \in Nat /\ total' \in Nat /\ total <= total' /\ index = 0 /\ index' = 0
  BY <1>0, <1>2 DEF Position, Counted
<1>4. stage' \in {"count", "alloca"} /\ at' \in 1 .. N
      /\ (stage' = "count" => at' = at + 1) /\ (stage' = "alloca" => at' = 1 /\ at = N)
  BY <1>0, <1>1 DEF Advance, Following, N
<1>5. Position'
  BY <1>0, <1>3, PositionWalks
<1>6. Counted'
  <2> PICK a \in 1 .. N : a = at
    BY <1>1
  <2>1. /\ counted \in Seq(Nat) /\ Len(counted) = a - 1
        /\ \A k \in 1 .. a - 1 : UpTo(k) = UpTo(k - 1) + Count(Ins(k)) /\ UpTo(k) <= total
        /\ total = UpTo(a - 1)
    BY <1>0 DEF Counted
  <2>2. /\ counted' \in Seq(Nat) /\ Len(counted') = a
        /\ \A k \in 1 .. a - 1 : counted'[k] = counted[k]
        /\ counted'[a] = total'
    BY <1>0, <1>1, <1>3, <2>1, AppendProperties
  <2>3. \A k \in 0 .. a - 1 : UpTo(k)' = UpTo(k)
    BY <1>1, <2>2 DEF UpTo
  <2>4. UpTo(a)' = total' /\ UpTo(0)' = 0
    BY <1>1, <2>2 DEF UpTo
  <2>5. \A k : Count(Ins(k))' = Count(Ins(k))
    BY <1>0 DEF Count, CalledByName, OperandsIn, Op, Instr, Args
  <2>6. \A k \in 1 .. a - 1 : UpTo(k) \in Nat
    BY <1>1, <2>1, ElementOfSeq DEF UpTo
  <2>7. ASSUME NEW k \in 1 .. a
        PROVE  UpTo(k)' = UpTo(k - 1)' + Count(Ins(k))' /\ UpTo(k)' <= total'
    <3>1. CASE k = a
      <4>1. UpTo(k - 1)' = total /\ Count(Ins(k))' = Count(x)
        BY <1>1, <2>1, <2>3, <2>5, <3>1
      <4> QED
        BY <1>0, <1>3, <2>4, <3>1, <4>1
    <3>2. CASE k # a
      <4>1. k \in 1 .. a - 1 /\ k - 1 \in 0 .. a - 1
        BY <1>1, <3>2
      <4>2. UpTo(k) = UpTo(k - 1) + Count(Ins(k)) /\ UpTo(k) <= total /\ UpTo(k) \in Nat
        BY <2>1, <2>6, <4>1
      <4> QED
        BY <1>3, <2>3, <2>5, <4>1, <4>2
    <3> QED
      BY <3>1, <3>2
  <2>8. (Len(counted) = IF stage = "branches" THEN 0
                        ELSE IF stage = "count" THEN at - 1 ELSE Len(fn.text))'
    BY <1>0, <1>1, <1>4, <2>2 DEF N
  <2>9. (stage = "alloca" => index <= UpTo(at - 1))'
    BY <1>3, <1>4, <2>4
  <2>10. index' <= total' /\ total' = UpTo(Len(counted))'
    BY <1>3, <2>2, <2>4
  <2>11. (\A k \in 1 .. Len(counted) : UpTo(k) = UpTo(k - 1) + Count(Ins(k)) /\ UpTo(k) <= total)'
    BY <2>2, <2>7
  <2> QED
    BY <1>3, <2>2, <2>8, <2>9, <2>10, <2>11 DEF Counted
<1>7. Tables'
  BY <1>0, <1>3 DEF Tables, Names, Instrs, Op, Instr, Blocks, Choosing, Entry
<1>9. Complete'
  <2>1. \A k \in Texts' : ~HandedOut(k)' /\ ~Placed(k)'
    <3> TAKE k \in Texts'
    <3>1. k \in 1 .. N
      BY <1>0, <1>1 DEF Texts
    <3>2. CASE stage' = "count"
      BY <3>2 DEF HandedOut, Placed, Clone
    <3>3. CASE stage' = "alloca"
      <4>1. ~(k < at')
        BY <1>1, <1>4, <3>1, <3>3
      <4> QED
        BY <3>3, <4>1 DEF HandedOut, Placed, Clone
    <3> QED
      BY <1>4, <3>2, <3>3
  <2> QED
    BY <2>1 DEF Complete
<1>10. Pointing'
  BY <1>0, <1>4 DEF Pointing, Choosers, Arm, Instrs, Op, Instr, Args, Clone, runVars
<1>11. NothingMissing'
  BY <1>4, Unfailed
<1> QED
  BY <1>5, <1>6, <1>7, <1>9, <1>10, <1>11 DEF IInv

(* Calls that clear n entries, one after the other.                        *)
LEMMA Clearing ==
  ASSUME NEW n \in Nat, NEW s, NEW T, s \in [1 .. n -> T]
  PROVE  IsList(s) /\ Range(s) \subseteq T
<1>1. s \in Seq(T)
  OBVIOUS
<1> QED
  BY <1>1, ListOf

LEMMA NoCalls == IsList(<< >>) /\ Range(<< >>) = {}
BY DEF IsList, Range

LEMMA InitHolds == Init => IInv
<1> SUFFICES ASSUME Init PROVE IInv
  OBVIOUS
<1>1. IsFunction(fn)
  BY FunctionsAssumption DEF Init
<1>2. N \in Nat /\ N > 0 /\ Texts = 1 .. N
  BY <1>1, Text
<1>3. Position
  BY <1>1, <1>2, JumpsAssumption DEF Init, Position, N
<1>4. Counted
  BY DEF Init, Counted, UpTo
<1>5. Tables
  <2>1. \A x \in DOMAIN code : code[x] = << >> \/ code[x] = ArgClears
    BY DEF Init
  <2>2. IsList(ArgClears) /\ \A c \in Range(ArgClears) : c.dest[1] # "slot"
    <3>1. CASE ~fn.slice
      <4>1. ArgClears = << >>
        BY <3>1 DEF ArgClears
      <4> QED
        BY <4>1, NoCalls
    <3>2. CASE fn.slice
      <4> DEFINE T == {RuntimeCall("clear", << >>, ArgPtr(n)) : n \in 1 .. fn.args}
      <4>1. ArgClears \in [1 .. fn.args -> T] /\ fn.args \in Nat
        BY <1>1, <3>2 DEF ArgClears, IsFunction
      <4>2. \A c \in T : c.dest[1] # "slot"
        BY DEF RuntimeCall, ArgPtr
      <4> HIDE DEF T
      <4> QED
        BY <4>1, <4>2, Clearing
    <3> QED
      BY <3>1, <3>2
  <2>3. DOMAIN code = Instrs \cup {Entry(b) : b \in Blocks}
    BY DEF Init
  <2>4. \A x \in DOMAIN code :
          /\ IsList(code[x])
          /\ \A c \in Range(code[x]) : c.dest[1] = "slot" => c.dest[2] \in 1 .. index
    BY <2>1, <2>2, NoCalls
  <2>5. DOMAIN GEPMap = {} /\ DOMAIN ConsMap = {} /\ DOMAIN MInsMap = {}
    BY DEF Init
  <2> QED
    BY <2>3, <2>4, <2>5 DEF Tables
<1>6. Complete
  BY DEF Init, Complete, HandedOut, Placed, Clone
<1>7. Pointing
  BY DEF Init, Pointing, Clone
<1>8. NothingMissing
  BY DEF Init, NothingMissing
<1> QED
  BY <1>3, <1>4, <1>5, <1>6, <1>7, <1>8 DEF IInv

LEMMA BranchKeeps == ASSUME IInv, handleBranch PROVE IInv'
<1>0. /\ Position /\ Counted /\ Tables /\ Complete /\ Pointing
      /\ stage = "branches" /\ stage' = "count" /\ IsFunction(fn)
      /\ UNCHANGED <<fn, at, total, index, counted, GEPMap, ConsMap, MInsMap, arms, code, runVars>>
  BY DEF IInv, handleBranch, Position
<1>1. Position'
  BY <1>0 DEF Position, Walks, Clone, runVars
<1>2. Counted'
  <2>1. \A k : UpTo(k)' = UpTo(k)
    BY <1>0 DEF UpTo
  <2>2. Len(counted) = 0 /\ at = 1
    BY <1>0 DEF Counted, Position
  <2> QED
    BY <1>0, <2>1, <2>2 DEF Counted
<1>3. Tables'
  BY <1>0 DEF Tables, Names, Instrs, Op, Instr, Blocks, Choosing, Entry
<1>4. Complete'
  BY <1>0 DEF Complete, HandedOut, Placed, Clone
<1>5. Pointing'
  BY <1>0 DEF Pointing, Choosers, Arm, Instrs, Op, Instr, Args, Clone, runVars
<1>6. NothingMissing'
  BY <1>0, Unfailed
<1> QED
  BY <1>1, <1>2, <1>3, <1>4, <1>5, <1>6 DEF IInv

-----------------------------------------------------------------------------
(* The walk that hands out.                                                *)

LEMMA CreateCounted == ASSUME IInv, createGEP PROVE Counted' /\ index' \in Nat /\ index <= index'
<1> DEFINE x == Ins(at)
           n == Result(x) + Cardinality(Constants(x))
<1>0. /\ Position /\ Counted /\ IsFunction(fn) /\ stage = "alloca" /\ Advance
      /\ index' = index + n /\ UNCHANGED <<fn, total, counted>>
  BY DEF IInv, createGEP, Position
<1>1. N \in Nat /\ N > 0 /\ Texts = 1 .. N /\ at \in 1 .. N
  BY <1>0, Text DEF Position, N, Walks
<1>2. x \in Instrs
  BY <1>1, TextAt
<1>3. n \in Nat /\ Count(x) \in Nat /\ n <= Count(x) /\ index \in Nat /\ total \in Nat
  BY <1>0, <1>2, Counts DEF Position
<1>4. /\ counted \in Seq(Nat) /\ Len(counted) = N /\ total = UpTo(N)
      /\ \A k \in 1 .. N : UpTo(k) = UpTo(k - 1) + Count(Ins(k)) /\ UpTo(k) <= total
      /\ index <= UpTo(at - 1)
  BY <1>0 DEF Counted, N
<1>5. \A k \in 0 .. N : UpTo(k) \in Nat
  BY <1>1, <1>4, ElementOfSeq DEF UpTo
<1>6. index' <= UpTo(at) /\ UpTo(at) <= total
  <2>1. UpTo(at) = UpTo(at - 1) + Count(x) /\ UpTo(at) <= total /\ index <= UpTo(at - 1)
    BY <1>1, <1>4
  <2>2. UpTo(at) \in Nat /\ UpTo(at - 1) \in Nat
    BY <1>1, <1>5
  <2> HIDE DEF n, x
  <2> QED
    BY <1>0, <1>3, <2>1, <2>2
<1>7. \A k : UpTo(k)' = UpTo(k) /\ Count(Ins(k))' = Count(Ins(k))
  BY <1>0 DEF UpTo, Count, CalledByName, OperandsIn, Op, Instr, Args
<1>8. stage' \in {"alloca", "instructions"} /\ (stage' = "alloca" => at' = at + 1)
  BY <1>0, <1>1 DEF Advance, Following, N
<1>9. index' \in Nat /\ index <= index' /\ index' <= total'
  <2> HIDE DEF n
  <2>1. UpTo(at) \in Nat
    BY <1>1, <1>5
  <2> QED
    BY <1>0, <1>3, <1>6, <2>1
<1>10. (stage = "alloca" => index <= UpTo(at - 1))'
  <2> PICK a \in 1 .. N : a = at
    BY <1>1
  <2>1. stage' = "alloca" => at' - 1 = a
    BY <1>1, <1>8
  <2>2. UpTo(a)' = UpTo(a)
    BY <1>7
  <2> QED
    BY <1>6, <2>1, <2>2
<1>11. (\A k \in 1 .. Len(counted) : UpTo(k) = UpTo(k - 1) + Count(Ins(k)) /\ UpTo(k) <= total)'
  BY <1>0, <1>4, <1>7
<1>12. (Len(counted) = IF stage = "branches" THEN 0
                       ELSE IF stage = "count" THEN at - 1 ELSE Len(fn.text))'
  BY <1>0, <1>4, <1>8 DEF N
<1>13. (total = UpTo(Len(counted)))' /\ (counted \in Seq(Nat))'
  BY <1>0, <1>4, <1>7
<1> QED
  BY <1>8, <1>9, <1>10, <1>11, <1>12, <1>13 DEF Counted

LEMMA CreateTables == ASSUME IInv, createGEP, index' \in Nat, index <= index' PROVE Tables'
<1> DEFINE x == Ins(at)
           n == Result(x) + Cardinality(Constants(x))
           cs == {Args(x)[k] : k \in Constants(x)} \ DOMAIN ConsMap
<1>0. /\ Position /\ Tables /\ IsFunction(fn) /\ stage = "alloca" /\ Advance /\ index' = index + n
      /\ UNCHANGED <<fn, MInsMap>>
  BY DEF IInv, createGEP, Position
<1>1. N \in Nat /\ N > 0 /\ Texts = 1 .. N /\ at \in 1 .. N /\ index \in Nat
  BY <1>0, Text DEF Position, N, Walks
<1>2. x \in Instrs
  BY <1>1, TextAt
<1>3. /\ Cardinality(Constants(x)) \in Nat /\ Result(x) \in {0, 1} /\ Constants(x) \subseteq DOMAIN Args(x)
      /\ n \in Nat
  BY <1>0, <1>2, Counts
<1>4. 1 .. index \subseteq 1 .. index' /\ (Result(x) = 1 => index + 1 \in 1 .. index')
  BY <1>0, <1>1, <1>3
<1>5. (DOMAIN GEPMap \subseteq Instrs /\ \A z \in DOMAIN GEPMap : GEPMap[z] \in 1 .. index)'
  <2>1. DOMAIN GEPMap \subseteq Instrs /\ (\A z \in DOMAIN GEPMap : GEPMap[z] \in 1 .. index) /\ Instrs' = Instrs
    BY <1>0 DEF Tables, Instrs
  <2>2. CASE Result(x) = 1
    <3>1. GEPMap' = Extend(GEPMap, x, index + 1)
      BY <2>2 DEF createGEP
    <3> QED
      BY <1>2, <1>4, <2>1, <2>2, <3>1 DEF Extend
  <2>3. CASE Result(x) # 1
    <3>1. GEPMap' = GEPMap
      BY <2>3 DEF createGEP
    <3> QED
      BY <1>4, <2>1, <3>1
  <2> QED
    BY <2>2, <2>3
<1>6. /\ (\A v \in DOMAIN ConsMap : ConsMap[v] \in 1 .. index)'
      /\ (\A v \in DOMAIN ConsMap : v[1] = "const" \/ (v \in Instrs /\ Op(v) = "conv"))'
  <2>1. /\ \A v \in DOMAIN ConsMap : ConsMap[v] \in 1 .. index'
        /\ \A v \in DOMAIN ConsMap : v[1] = "const" \/ (v \in Instrs /\ Op(v) = "conv")
        /\ Instrs' = Instrs /\ \A v : Op(v)' = Op(v)
    BY <1>0, <1>4 DEF Tables, Instrs, Op, Instr
  <2>2. CASE Op(x) = "conv"
    <3>1. ConsMap' = Extend(ConsMap, x, index + 1) /\ Result(x) = 1
      BY <2>2 DEF createGEP, Result, HasEntry
    <3> QED
      BY <1>2, <1>4, <2>1, <2>2, <3>1 DEF Extend
  <2>3. CASE Op(x) # "conv"
    <3>1. ConsMap' = [v \in DOMAIN ConsMap \cup cs |->
                        IF v \in cs THEN ConstantEntry(x, FirstOperand(x, v)) ELSE ConsMap[v]]
      BY <2>3 DEF createGEP
    <3>2. ASSUME NEW v \in cs
          PROVE  v[1] = "const" /\ ConstantEntry(x, FirstOperand(x, v)) \in 1 .. index'
      <4> DEFINE T == {k \in Constants(x) : Args(x)[k] = v}
      <4>1. PICK k \in Constants(x) : Args(x)[k] = v
        OBVIOUS
      <4>2. v \in Range(Args(x)) /\ Op(v) = "const"
        BY <1>0, <1>2, <1>3, <4>1, OperandsOf DEF Constants, OperandsIn
      <4>3. IsOperand(fn, v)
        BY <1>0, <1>2, <4>2, OperandsOf
      <4>4. v[1] = "const"
        BY <1>0, <4>2, <4>3, OperandKinds DEF Valued, Ops
      <4>5. T \subseteq Nat /\ T # {}
        BY <1>0, <1>2, <1>3, <4>1, OperandsOf
      <4>6. FirstOperand(x, v) \in Constants(x)
        BY <4>5, Minimum DEF FirstOperand
      <4>7. ConstantEntry(x, FirstOperand(x, v)) \in index + 1 .. index + Result(x) + Cardinality(Constants(x))
        BY <1>0, <1>2, <4>6, Entries
      <4> QED
        BY <1>0, <1>1, <1>3, <4>4, <4>7
    <3> HIDE DEF cs
    <3> QED
      BY <2>1, <3>1, <3>2
  <2> QED
    BY <2>2, <2>3
<1>7. /\ (DOMAIN MInsMap \subseteq {z \in Instrs : Op(z) \in Named})'
      /\ (stage \in {"branches", "count", "alloca"} => DOMAIN MInsMap = {})'
      /\ (\A z \in DOMAIN MInsMap : MInsMap[z] = Names(z) /\ (Op(z) # "select" => z \in DOMAIN GEPMap))'
  BY <1>0 DEF Tables
<1>8. /\ (DOMAIN code = Instrs \cup {Entry(b) : b \in Blocks})'
      /\ (\A z \in DOMAIN code :
            /\ IsList(code[z])
            /\ \A c \in Range(code[z]) : c.dest[1] = "slot" => c.dest[2] \in 1 .. index)'
  <2> DEFINE C == RuntimeCall("store_tempmeta", << >>, Slot(index + 1))
             mid == [code EXCEPT ![x] = IF Op(x) = "conv" THEN Append(@, C) ELSE @]
             Good(s) == IsList(s) /\ \A c \in Range(s) : c.dest[1] = "slot" => c.dest[2] \in 1 .. index'
  <2>1. /\ DOMAIN code = Instrs \cup {Entry(b) : b \in Blocks}
        /\ \A z \in DOMAIN code : Good(code[z])
        /\ Instrs' = Instrs /\ Blocks' = Blocks
    BY <1>0, <1>4 DEF Tables, Instrs, Blocks
  <2>2. code' = [mid EXCEPT ![LastReturn] = @ \o Clears(n)]
    BY DEF createGEP
  <2>3. Op(x) = "conv" => C.dest[2] \in 1 .. index'
    BY <1>4 DEF RuntimeCall, Slot, Result, HasEntry
  <2>4. \A z \in DOMAIN code : Good(mid[z])
    <3> HIDE DEF C
    <3>1. Op(x) = "conv" => Good(Append(code[x], C))
      BY <1>2, <2>1, <2>3, Appended
    <3> QED
      BY <1>2, <2>1, <3>1
  <2>5. DOMAIN mid = DOMAIN code
    OBVIOUS
  <2>6. Good(Clears(n))
    <3> DEFINE T == {RuntimeCall("clear", << >>, Slot(index + k)) : k \in 1 .. n}
    <3>1. Clears(n) \in [1 .. n -> T]
      BY DEF Clears
    <3>2. \A c \in T : c.dest[2] \in 1 .. index'
      <4> TAKE c \in T
      <4> PICK k \in 1 .. n : c = RuntimeCall("clear", << >>, Slot(index + k))
        OBVIOUS
      <4>1. c.dest[2] = index + k
        BY DEF RuntimeCall, Slot
      <4> HIDE DEF n
      <4> QED
        BY <1>0, <1>1, <1>3, <4>1
    <3> HIDE DEF T
    <3> QED
      BY <1>3, <3>1, <3>2, Clearing
  <2>7. LastReturn \in DOMAIN code
    BY <1>0, <2>1, LastReturnIs
  <2> HIDE DEF mid
  <2>8. Good(mid[LastReturn] \o Clears(n))
    BY <2>4, <2>6, <2>7, Joined
  <2>9. \A z \in DOMAIN code : Good(code'[z])
    BY <2>2, <2>4, <2>5, <2>8
  <2>10. DOMAIN code' = DOMAIN code
    BY <2>2, <2>5
  <2> QED
    BY <2>1, <2>9, <2>10 DEF Entry
<1> QED
  BY <1>5, <1>6, <1>7, <1>8 DEF Tables

(* Of what a walk over the instructions leaves alone, only what it is the  *)
(* turn of is new in the tables.                                           *)
LEMMA CreateComplete == ASSUME IInv, createGEP PROVE Complete'
<1> DEFINE x == Ins(at)
           cs == {Args(x)[k] : k \in Constants(x)} \ DOMAIN ConsMap
<1>0. /\ Position /\ Tables /\ Complete /\ IsFunction(fn) /\ stage = "alloca" /\ stage \in Walks /\ Advance
      /\ UNCHANGED <<fn, MInsMap, arms>>
  BY DEF IInv, createGEP, Position, Walks
<1>1. N \in Nat /\ N > 0 /\ Texts = 1 .. N /\ at \in 1 .. N
  BY <1>0, Text DEF Position, N
<1>2. Texts' = Texts /\ \A z : Op(z)' = Op(z) /\ Args(z)' = Args(z) /\ Constants(z)' = Constants(z)
  BY <1>0 DEF Texts, Op, Args, Constants, OperandsIn, Instr
<1>3. \A k \in Texts : (HandedOut(k)' => HandedOut(k) \/ k = at) /\ ~Placed(k)'
  <2>1. \A k \in Texts : ~Placed(k)
    BY <1>0 DEF Placed, Clone
  <2> QED
    BY <1>0, <2>1, Advances
<1>4. /\ DOMAIN GEPMap \subseteq DOMAIN GEPMap'
      /\ Op(x) \in HasEntry => x \in DOMAIN GEPMap'
  <2>1. GEPMap' = IF Result(x) = 1 THEN Extend(GEPMap, x, index + 1) ELSE GEPMap
    BY DEF createGEP
  <2> QED
    BY <2>1 DEF Extend, Result
<1>5. /\ DOMAIN ConsMap \subseteq DOMAIN ConsMap'
      /\ Op(x) = "conv" => x \in DOMAIN ConsMap'
      /\ \A j \in Constants(x) : Args(x)[j] \in DOMAIN ConsMap'
  <2>1. ConsMap' = IF Op(x) = "conv" THEN Extend(ConsMap, x, index + 1)
                   ELSE [v \in DOMAIN ConsMap \cup cs |->
                           IF v \in cs THEN ConstantEntry(x, FirstOperand(x, v)) ELSE ConsMap[v]]
    BY DEF createGEP
  <2>2. CASE Op(x) = "conv"
    BY <2>1, <2>2 DEF Extend, Constants, HasConstants
  <2>3. CASE Op(x) # "conv"
    BY <2>1, <2>3
  <2> QED
    BY <2>2, <2>3
<1>6. ASSUME NEW k \in Texts
      PROVE  /\ HandedOut(k)' /\ Op(Ins(k)) \in HasEntry => Ins(k) \in DOMAIN GEPMap'
             /\ HandedOut(k)' /\ Op(Ins(k)) = "conv" => Ins(k) \in DOMAIN ConsMap'
             /\ HandedOut(k)' => \A j \in Constants(Ins(k)) : Args(Ins(k))[j] \in DOMAIN ConsMap'
  <2>1. CASE k = at
    BY <1>4, <1>5, <2>1
  <2>2. CASE k # at
    BY <1>0, <1>3, <1>4, <1>5, <2>2 DEF Complete
  <2> QED
    BY <2>1, <2>2
<1> QED
  BY <1>2, <1>3, <1>6 DEF Complete

LEMMA CreateKeeps == ASSUME IInv, createGEP PROVE IInv'
<1>0. /\ Position /\ Pointing /\ IsFunction(fn) /\ stage = "alloca" /\ stage \in Walks /\ Advance
      /\ UNCHANGED <<fn, total, MInsMap, arms, runVars>>
  BY DEF IInv, createGEP, Position, Walks
<1>1. Counted' /\ index' \in Nat /\ index <= index'
  BY CreateCounted
<1>2. Position'
  BY <1>0, <1>1, PositionWalks DEF Position
<1>3. Tables' /\ Complete'
  BY <1>1, CreateTables, CreateComplete
<1>4. stage' \in {"alloca", "instructions"}
  BY <1>0 DEF Advance, Following
<1>5. Pointing'
  BY <1>0, <1>4 DEF Pointing, Choosers, Arm, Instrs, Op, Instr, Args, Clone, runVars
<1>6. NothingMissing'
  BY <1>4, Unfailed
<1> QED
  BY <1>1, <1>2, <1>3, <1>5, <1>6 DEF IInv

-----------------------------------------------------------------------------
(* The pointers to the shadows of operands.                                *)

LEMMA NamesArm ==
  ASSUME Tables, NEW x \in DOMAIN MInsMap
  PROVE  Arm(MInsMap[x])
<1>1. x \in Instrs /\ MInsMap[x] = Names(x)
  BY DEF Tables
<1>2. CASE Op(x) \in Choosing
  BY <1>1, <1>2 DEF Names, Arm, Chosen, Choosers
<1>3. CASE Op(x) \notin Choosing
  BY <1>1, <1>3 DEF Names, Arm, Slot
<1> QED
  BY <1>2, <1>3

LEMMA OperandPointers ==
  ASSUME Tables, NEW v, handleOperand(v) # Missing
  PROVE  Arm(handleOperand(v))
<1>1. Arm(Null) /\ \A n : Arm(Slot(n)) /\ Arm(ArgPtr(n))
  BY DEF Arm, Null, Slot, ArgPtr
<1>2. ThroughCasts(v) = Missing \/ Arm(ThroughCasts(v))
  <2> DEFINE u == Args(v)[1]
             w == Args(u)[1]
  <2>1. \/ w \in DOMAIN MInsMap /\ ThroughCasts(v) = MInsMap[w]
        \/ u \in DOMAIN MInsMap /\ ThroughCasts(v) = MInsMap[u]
        \/ ThroughCasts(v) \in {Slot(ConsMap[u]), ArgPtr(u[2]), Missing}
    <3> HIDE DEF Missing
    <3> QED
      BY DEF ThroughCasts
  <2> QED
    BY <1>1, <2>1, NamesArm
<1>3. \/ handleOperand(v) \in {Slot(ConsMap[v]), ArgPtr(v[2]), Slot(GEPMap[v]), ThroughCasts(v), Null}
      \/ v \in DOMAIN MInsMap /\ handleOperand(v) = MInsMap[v]
  <2> HIDE DEF Missing
  <2> QED
    BY DEF handleOperand
<1> QED
  BY <1>1, <1>2, <1>3, NamesArm

-----------------------------------------------------------------------------
(* The loop over the instructions.                                         *)

(* What a handler of this loop may do at its instruction: name it, insert  *)
(* calls that write its own entry at most, and, at a select, note the      *)
(* pointers that it chooses from.                                          *)
NamesOnly(x) ==
  \/ MInsMap' = MInsMap /\ Op(x) \notin Named
  \/ MInsMap' = Extend(MInsMap, x, Names(x)) /\ Op(x) \in Named
WritesOnly(x) ==
  /\ DOMAIN code' = DOMAIN code
  /\ \A z \in DOMAIN code :
       /\ IsList(code'[z])
       /\ \A c \in Range(code'[z]) :
            \/ c \in Range(code[z]) \/ c.dest[1] # "slot"
            \/ x \in DOMAIN GEPMap /\ c.dest = Slot(GEPMap[x])
ChoosesOnly(x) ==
  IF Op(x) # "select" THEN arms' = arms
  ELSE \E g : /\ arms' = Extend(arms, x, g) /\ DOMAIN g = DOMAIN Args(x)
              /\ \A k \in DOMAIN g : Arm(g[k])

LEMMA PlacedKeeps ==
  ASSUME IInv, stage = "instructions", Advance,
         UNCHANGED <<fn, total, index, counted, GEPMap, ConsMap, runVars>>,
         NamesOnly(Ins(at)), WritesOnly(Ins(at)), ChoosesOnly(Ins(at))
  PROVE  IInv'
<1> DEFINE x == Ins(at)
<1>0. Position /\ Counted /\ Tables /\ Complete /\ Pointing /\ IsFunction(fn) /\ stage \in Walks
  BY DEF IInv, Position, Walks
<1>1. N \in Nat /\ N > 0 /\ Texts = 1 .. N /\ at \in 1 .. N
  BY <1>0, Text DEF Position, N
<1>2. x \in Instrs
  BY <1>1, TextAt
<1>3. Position'
  BY <1>0, PositionWalks DEF Position
<1>4. Counted'
  BY <1>0, CountedStays, Zenon DEF Walks
<1>5. stage' \in {"instructions", "returns"}
  BY DEF Advance, Following
<1>6. \A z : Op(z)' = Op(z) /\ Args(z)' = Args(z) /\ Constants(z)' = Constants(z) /\ Names(z)' = Names(z)
  BY DEF Op, Args, Constants, OperandsIn, Instr, Names
<1>7. Instrs' = Instrs /\ Texts' = Texts /\ Choosers' = Choosers /\ Blocks' = Blocks
  BY DEF Instrs, Texts, Choosers, Blocks, Op, Instr
<1>8. DOMAIN MInsMap \subseteq DOMAIN MInsMap' /\ (Op(x) \in Named => x \in DOMAIN MInsMap')
      /\ DOMAIN MInsMap' \subseteq DOMAIN MInsMap \cup {x}
  BY DEF NamesOnly, Extend
<1>9. Op(x) \in Named \ {"select"} => x \in DOMAIN GEPMap
  <2>1. HandedOut(at)
    BY DEF HandedOut
  <2> QED
    BY <1>0, <1>1, <2>1 DEF Complete, Named, HasEntry
<1>10. Tables'
  <2>1. /\ (DOMAIN GEPMap \subseteq Instrs /\ \A z \in DOMAIN GEPMap : GEPMap[z] \in 1 .. index)'
        /\ (\A v \in DOMAIN ConsMap : ConsMap[v] \in 1 .. index)'
        /\ (\A v \in DOMAIN ConsMap : v[1] = "const" \/ (v \in Instrs /\ Op(v) = "conv"))'
    BY <1>0, <1>6, <1>7 DEF Tables
  <2>2. /\ (DOMAIN MInsMap \subseteq {z \in Instrs : Op(z) \in Named})'
        /\ (stage \in {"branches", "count", "alloca"} => DOMAIN MInsMap = {})'
        /\ (\A z \in DOMAIN MInsMap : MInsMap[z] = Names(z) /\ (Op(z) # "select" => z \in DOMAIN GEPMap))'
    <3>1. /\ DOMAIN MInsMap \subseteq {z \in Instrs : Op(z) \in Named}
          /\ \A z \in DOMAIN MInsMap : MInsMap[z] = Names(z) /\ (Op(z) # "select" => z \in DOMAIN GEPMap)
      BY <1>0 DEF Tables
    <3>2. CASE MInsMap' = MInsMap
      BY <1>5, <1>6, <1>7, <3>1, <3>2
    <3>3. CASE MInsMap' = Extend(MInsMap, x, Names(x)) /\ Op(x) \in Named
      BY <1>2, <1>5, <1>6, <1>7, <1>9, <3>1, <3>3 DEF Extend
    <3> QED
      BY <3>2, <3>3 DEF NamesOnly
  <2>3. /\ (DOMAIN code = Instrs \cup {Entry(b) : b \in Blocks})'
        /\ (\A z \in DOMAIN code :
              /\ IsList(code[z])
              /\ \A c \in Range(code[z]) : c.dest[1] = "slot" => c.dest[2] \in 1 .. index)'
    <3>1. /\ DOMAIN code = Instrs \cup {Entry(b) : b \in Blocks}
          /\ \A z \in DOMAIN code : \A c \in Range(code[z]) : c.dest[1] = "slot" => c.dest[2] \in 1 .. index
          /\ \A z \in DOMAIN GEPMap : GEPMap[z] \in 1 .. index
      BY <1>0 DEF Tables
    <3>2. \A n : Slot(n)[2] = n
      BY DEF Slot
    <3> QED
      BY <1>7, <3>1, <3>2 DEF WritesOnly, Entry
  <2> QED
    BY <2>1, <2>2, <2>3 DEF Tables
<1>11. Op(x) = "select" => x \in DOMAIN arms'
  BY DEF ChoosesOnly, Extend
<1>12. DOMAIN arms \subseteq DOMAIN arms'
  BY DEF ChoosesOnly, Extend
<1>13. Complete'
  <2>1. /\ \A k \in Texts : HandedOut(k)' => HandedOut(k)
        /\ \A k \in Texts : Placed(k)' => Placed(k) \/ k = at
    BY <1>0, Advances
  <2>2. ASSUME NEW k \in Texts
        PROVE  LET y == Ins(k) IN
               /\ HandedOut(k)' /\ Op(y) \in HasEntry => y \in DOMAIN GEPMap'
               /\ HandedOut(k)' /\ Op(y) = "conv" => y \in DOMAIN ConsMap'
               /\ HandedOut(k)' => \A j \in Constants(y) : Args(y)[j] \in DOMAIN ConsMap'
    BY <1>0, <2>1 DEF Complete
  <2>3. ASSUME NEW k \in Texts
        PROVE  LET y == Ins(k) IN
               /\ Placed(k)' /\ Op(y) \in Named => y \in DOMAIN MInsMap'
               /\ Placed(k)' /\ Op(y) = "select" => y \in DOMAIN arms'
    BY <1>0, <1>8, <1>11, <1>12, <2>1 DEF Complete
  <2> QED
    BY <1>6, <1>7, <2>2, <2>3 DEF Complete
<1>14. Pointing'
  <2>1. /\ DOMAIN arms \subseteq {z \in DOMAIN MInsMap : z \in Choosers}
        /\ \A z \in DOMAIN arms : Op(z) = "select"
        /\ \A z \in DOMAIN arms : \A k \in DOMAIN arms[z] : Arm(arms[z][k])
        /\ \A z \in DOMAIN arms : DOMAIN arms[z] = DOMAIN Args(z)
        /\ ptr = << >>
    BY <1>0 DEF Pointing, Clone
  <2>2. \A p : Arm(p)' = Arm(p)
    BY <1>7 DEF Arm
  <2>3. stage' \notin Clone /\ ptr' = << >>
    BY <1>5, <2>1 DEF Clone, runVars
  <2>4. /\ \A z \in DOMAIN arms' : Op(z) = "select" /\ z \in DOMAIN MInsMap' /\ z \in Choosers
        /\ \A z \in DOMAIN arms' : \A k \in DOMAIN arms'[z] : Arm(arms'[z][k])
        /\ \A z \in DOMAIN arms' : DOMAIN arms'[z] = DOMAIN Args(z)
    <3>1. CASE Op(x) # "select"
      <4>1. arms' = arms
        BY <3>1 DEF ChoosesOnly
      <4> QED
        BY <1>8, <2>1, <4>1
    <3>2. CASE Op(x) = "select"
      <4>1. PICK g : /\ arms' = Extend(arms, x, g) /\ DOMAIN g = DOMAIN Args(x)
                     /\ \A k \in DOMAIN g : Arm(g[k])
        BY <3>2 DEF ChoosesOnly
      <4>2. x \in DOMAIN MInsMap' /\ x \in Choosers
        BY <1>2, <1>8, <3>2 DEF Named, Choosers, Choosing
      <4> QED
        BY <1>8, <2>1, <3>2, <4>1, <4>2 DEF Extend
    <3> QED
      BY <3>1, <3>2
  <2>5. DOMAIN ptr' = {}
    BY <2>3
  <2> QED
    BY <1>6, <1>7, <2>2, <2>3, <2>4, <2>5 DEF Pointing
<1>15. NothingMissing'
  BY <1>5, Unfailed
<1> QED
  BY <1>3, <1>4, <1>10, <1>13, <1>14, <1>15 DEF IInv

(* The handlers, one by one.                                               *)
LEMMA Inserted ==
  ASSUME Tables, NEW z, NEW c, Insert(z, c), NEW x,
         c.dest[1] # "slot" \/ (x \in DOMAIN GEPMap /\ c.dest = Slot(GEPMap[x]))
  PROVE  WritesOnly(x)
<1>1. \A y \in DOMAIN code : IsList(code[y])
  BY DEF Tables
<1>2. z \in DOMAIN code => IsList(Append(code[z], c)) /\ Range(Append(code[z], c)) = Range(code[z]) \cup {c}
  BY <1>1, Appended
<1>3. code' = [code EXCEPT ![z] = Append(code[z], c)]
  BY DEF Insert
<1>4. DOMAIN code' = DOMAIN code /\ \A y \in DOMAIN code : code'[y] = IF y = z THEN Append(code[z], c) ELSE code[y]
  BY <1>3
<1> QED
  BY <1>1, <1>2, <1>4 DEF WritesOnly

LEMMA WrittenNot ==
  ASSUME Tables, UNCHANGED code, NEW x
  PROVE  WritesOnly(x)
BY DEF WritesOnly, Tables

(* The instruction that the loop is at, and its entry.                     *)
LEMMA At ==
  ASSUME IInv, stage = "instructions"
  PROVE  /\ Ins(at) \in Instrs /\ Ins(at) \in DOMAIN code
         /\ Entry(Instr(Ins(at)).block) \in DOMAIN code
         /\ Op(Ins(at)) \in HasEntry => Ins(at) \in DOMAIN GEPMap
<1>0. Position /\ Tables /\ Complete /\ IsFunction(fn)
  BY DEF IInv, Position
<1>1. N \in Nat /\ Texts = 1 .. N /\ at \in Texts
  BY <1>0, Text DEF Position, N, Walks
<1>2. Ins(at) \in Instrs /\ Instr(Ins(at)) = fn.text[at]
  BY <1>1, TextAt
<1>3. fn.text[at].block \in Blocks
  BY <1>0, <1>1, Text DEF IsInstruction, Blocks
<1>4. HandedOut(at)
  BY DEF HandedOut
<1> QED
  BY <1>0, <1>1, <1>2, <1>3, <1>4 DEF Tables, Complete

LEMMA PhiKeeps == ASSUME IInv, handlePhi PROVE IInv'
<1> DEFINE x == Ins(at)
           c == RuntimeCall("copy_phi", <<Reads(Chosen(x), x)>>, Slot(GEPMap[x]))
<1>1. /\ Op(x) = "phi" /\ stage = "instructions" /\ Advance /\ Tables
      /\ MInsMap' = Extend(MInsMap, x, Chosen(x)) /\ Insert(Entry(Instr(x).block), c)
      /\ UNCHANGED <<fn, total, index, counted, GEPMap, ConsMap, runVars>> /\ arms' = arms
  BY DEF handlePhi, Here, IInv
<1>2. Entry(Instr(x).block) \in DOMAIN code /\ x \in DOMAIN GEPMap
  BY <1>1, At DEF HasEntry
<1>3. c.dest = Slot(GEPMap[x])
  BY DEF RuntimeCall
<1>4. WritesOnly(x)
  <2> HIDE DEF c, x
  <2> QED
    BY <1>1, <1>2, <1>3, Inserted
<1>5. NamesOnly(x)
  BY <1>1 DEF NamesOnly, Names, Choosing, Named
<1>6. ChoosesOnly(x)
  BY <1>1 DEF ChoosesOnly
<1> QED
  BY <1>1, <1>4, <1>5, <1>6, PlacedKeeps

LEMMA ComputeKeeps ==
  ASSUME IInv, NEW op \in {"bin", "neg", "math"}, Compute(op)
  PROVE  IInv'
<1> DEFINE x == Ins(at)
           c == RuntimeCall("compute", Operands(x), Slot(GEPMap[x]))
<1>1. /\ Op(x) = op /\ stage = "instructions" /\ Advance /\ Tables
      /\ MInsMap' = Extend(MInsMap, x, Slot(GEPMap[x])) /\ Insert(x, c)
      /\ UNCHANGED <<fn, total, index, counted, GEPMap, ConsMap, runVars>> /\ arms' = arms
  BY DEF Compute, Here, IInv
<1>2. x \in DOMAIN code /\ x \in DOMAIN GEPMap
  BY <1>1, At DEF HasEntry
<1>3. c.dest = Slot(GEPMap[x])
  BY DEF RuntimeCall
<1>4. WritesOnly(x)
  <2> HIDE DEF c, x
  <2> QED
    BY <1>1, <1>2, <1>3, Inserted
<1>5. NamesOnly(x)
  BY <1>1 DEF NamesOnly, Names, Choosing, Named
<1>6. ChoosesOnly(x)
  BY <1>1 DEF ChoosesOnly
<1> QED
  BY <1>1, <1>4, <1>5, <1>6, PlacedKeeps

LEMMA LoadKeeps == ASSUME IInv, handleLoad PROVE IInv'
<1> DEFINE x == Ins(at)
           c == RuntimeCall("load_shadow", << >>, Slot(GEPMap[x]))
<1>1. /\ Op(x) = "load" /\ stage = "instructions" /\ Advance /\ Tables
      /\ MInsMap' = Extend(MInsMap, x, Slot(GEPMap[x])) /\ Insert(x, c)
      /\ UNCHANGED <<fn, total, index, counted, GEPMap, ConsMap, runVars>> /\ arms' = arms
  BY DEF handleLoad, Here, IInv
<1>2. x \in DOMAIN code /\ x \in DOMAIN GEPMap
  BY <1>1, At DEF HasEntry
<1>3. c.dest = Slot(GEPMap[x])
  BY DEF RuntimeCall
<1>4. WritesOnly(x)
  <2> HIDE DEF c, x
  <2> QED
    BY <1>1, <1>2, <1>3, Inserted
<1>5. NamesOnly(x)
  BY <1>1 DEF NamesOnly, Names, Choosing, Named
<1>6. ChoosesOnly(x)
  BY <1>1 DEF ChoosesOnly
<1> QED
  BY <1>1, <1>4, <1>5, <1>6, PlacedKeeps

LEMMA StoreKeeps == ASSUME IInv, handleStore PROVE IInv'
<1> DEFINE x == Ins(at)
<1>1. PICK rs : Insert(x, RuntimeCall("store_shadow", rs, Null))
  BY DEF handleStore
<1>2. /\ Op(x) = "store" /\ stage = "instructions" /\ Advance /\ Tables
      /\ UNCHANGED <<fn, total, index, counted, GEPMap, ConsMap, runVars>> /\ arms' = arms /\ MInsMap' = MInsMap
  BY DEF handleStore, Here, IInv
<1>3. x \in DOMAIN code
  BY <1>2, At
<1>4. RuntimeCall("store_shadow", rs, Null).dest[1] # "slot"
  BY DEF RuntimeCall, Null
<1>5. WritesOnly(x)
  <2> HIDE DEF x
  <2> QED
    BY <1>1, <1>2, <1>3, <1>4, Inserted
<1>6. NamesOnly(x)
  BY <1>2 DEF NamesOnly, Named
<1>7. ChoosesOnly(x)
  BY <1>2 DEF ChoosesOnly
<1> QED
  BY <1>2, <1>5, <1>6, <1>7, PlacedKeeps

LEMMA CallInstKeeps == ASSUME IInv, handleCallInst PROVE IInv'
<1> DEFINE x == Ins(at)
           p == Slot(GEPMap[x])
           c1 == RuntimeCall("call", Operands(x), p)
           c2 == RuntimeCall("set_lib", << >>, p)
<1>1. /\ Op(x) \in {"call", "lib", "extern"} /\ stage = "instructions" /\ Advance /\ Tables
      /\ MInsMap' = Extend(MInsMap, x, p)
      /\ UNCHANGED <<fn, total, index, counted, GEPMap, ConsMap, runVars>> /\ arms' = arms
  BY DEF handleCallInst, Here, IInv
<1>2. x \in DOMAIN code /\ x \in DOMAIN GEPMap
  BY <1>1, At DEF HasEntry
<1>3. c1.dest = p /\ c2.dest = p
  BY DEF RuntimeCall
<1>4. PICK cs : cs \in {<<c1>>, <<c2>>, << >>} /\ code' = [code EXCEPT ![x] = @ \o cs]
  <2>1. code' = [code EXCEPT ![x] = @ \o
          CASE Op(x) = "call" -> <<c1>> [] Op(x) = "lib" -> <<c2>> [] Op(x) = "extern" -> << >>]
    BY DEF handleCallInst
  <2> HIDE DEF x, c1, c2
  <2> QED
    BY <1>1, <2>1
<1>5. IsList(cs) /\ Range(cs) \subseteq {c1, c2}
  <2> HIDE DEF c1, c2
  <2>1. <<c1>> \in Seq({c1, c2}) /\ <<c2>> \in Seq({c1, c2}) /\ << >> \in Seq({c1, c2})
    OBVIOUS
  <2>2. cs \in Seq({c1, c2})
    BY <1>4, <2>1
  <2> QED
    BY <2>2, ListOf
<1>6. WritesOnly(x)
  <2> HIDE DEF x, c1, c2, p
  <2>1. \A y \in DOMAIN code : IsList(code[y])
    BY <1>1 DEF Tables
  <2>2. IsList(code[x] \o cs) /\ Range(code[x] \o cs) = Range(code[x]) \cup Range(cs)
    BY <1>2, <1>5, <2>1, Joined
  <2>3. DOMAIN code' = DOMAIN code /\ \A y \in DOMAIN code : code'[y] = IF y = x THEN code[x] \o cs ELSE code[y]
    BY <1>4
  <2>4. \A c \in Range(cs) : c.dest = p
    BY <1>3, <1>5
  <2> USE DEF p
  <2> QED
    BY <1>2, <2>1, <2>2, <2>3, <2>4 DEF WritesOnly
<1>7. NamesOnly(x)
  BY <1>1 DEF NamesOnly, Names, Choosing, Named
<1>8. ChoosesOnly(x)
  BY <1>1 DEF ChoosesOnly
<1> QED
  BY <1>1, <1>6, <1>7, <1>8, PlacedKeeps

LEMMA SelectKeeps == ASSUME IInv, handleSelect PROVE IInv'
<1> DEFINE x == Ins(at)
           g == [k \in DOMAIN Args(x) |-> handleOperand(Args(x)[k])]
<1>1. /\ Op(x) = "select" /\ stage = "instructions" /\ Advance /\ Tables /\ Position /\ IsFunction(fn)
      /\ MInsMap' = Extend(MInsMap, x, Chosen(x)) /\ Found(x) /\ arms' = Extend(arms, x, g)
      /\ UNCHANGED <<fn, total, index, counted, GEPMap, ConsMap, runVars>> /\ UNCHANGED code
  BY DEF handleSelect, Here, IInv, Position
<1>2. x \in Instrs
  BY <1>1, At
<1>3. \A k \in DOMAIN g : Arm(g[k])
  <2> TAKE k \in DOMAIN g
  <2>1. Args(x)[k] \in Range(Args(x))
    BY <1>1, <1>2, OperandsOf
  <2>2. handleOperand(Args(x)[k]) # Missing
    BY <1>1, <2>1 DEF Found
  <2> QED
    BY <1>1, <2>2, OperandPointers
<1>4. ChoosesOnly(x)
  <2>1. DOMAIN g = DOMAIN Args(x)
    OBVIOUS
  <2> HIDE DEF g, x
  <2> QED
    BY <1>1, <1>3, <2>1 DEF ChoosesOnly
<1>5. WritesOnly(x)
  BY <1>1, WrittenNot
<1>6. NamesOnly(x)
  BY <1>1 DEF NamesOnly, Names, Choosing, Named
<1> HIDE DEF g
<1> QED
  BY <1>1, <1>4, <1>5, <1>6, PlacedKeeps

-----------------------------------------------------------------------------
(* The loops that follow: returns and comparisons.                         *)

LEMMA LaterKeeps ==
  ASSUME IInv, stage \in {"returns", "compares"}, Advance, WritesOnly(Ins(at)),
         UNCHANGED <<fn, total, index, counted, GEPMap, ConsMap, MInsMap, arms, runVars>>
  PROVE  IInv'
<1>0. Position /\ Counted /\ Tables /\ Complete /\ Pointing /\ IsFunction(fn) /\ stage \in Walks
  BY DEF IInv, Position, Walks
<1>1. Position'
  BY <1>0, PositionWalks DEF Position
<1>2. Counted'
  BY <1>0, CountedStays, Zenon DEF Walks
<1>3. stage' \in {"returns", "compares", "newphi"}
  BY DEF Advance, Following
<1>4. \A z : Op(z)' = Op(z) /\ Args(z)' = Args(z) /\ Constants(z)' = Constants(z) /\ Names(z)' = Names(z)
  BY DEF Op, Args, Constants, OperandsIn, Instr, Names
<1>5. Instrs' = Instrs /\ Texts' = Texts /\ Choosers' = Choosers /\ Blocks' = Blocks
  BY DEF Instrs, Texts, Choosers, Blocks, Op, Instr
<1>6. Tables'
  <2>1. (\A z \in DOMAIN code :
           /\ IsList(code[z])
           /\ \A c \in Range(code[z]) : c.dest[1] = "slot" => c.dest[2] \in 1 .. index)'
    <3>1. /\ \A z \in DOMAIN code : \A c \in Range(code[z]) : c.dest[1] = "slot" => c.dest[2] \in 1 .. index
          /\ \A z \in DOMAIN GEPMap : GEPMap[z] \in 1 .. index
      BY <1>0 DEF Tables
    <3>2. \A n : Slot(n)[2] = n
      BY DEF Slot
    <3> QED
      BY <3>1, <3>2 DEF WritesOnly
  <2>2. DOMAIN code' = DOMAIN code
    BY DEF WritesOnly
  <2> QED
    BY <1>0, <1>3, <1>4, <1>5, <2>1, <2>2 DEF Tables, Entry
<1>7. Complete'
  BY <1>0, <1>4, <1>5 DEF Complete, HandedOut, Placed
<1>8. Pointing'
  <2>1. \A p : Arm(p)' = Arm(p)
    BY <1>5 DEF Arm
  <2> QED
    BY <1>0, <1>3, <1>4, <1>5, <2>1 DEF Pointing, Clone, runVars
<1>9. NothingMissing'
  BY <1>3, Unfailed
<1> QED
  BY <1>1, <1>2, <1>6, <1>7, <1>8, <1>9 DEF IInv

LEMMA ReturnKeeps == ASSUME IInv, handleReturn PROVE IInv'
<1> DEFINE x == Ins(at)
           z == ReturnPlace(x)
           out == RuntimeCall("func_exit", << >>, Null)
<1>1. /\ stage = "returns" /\ Advance /\ Tables /\ Position
      /\ UNCHANGED <<fn, total, index, counted, GEPMap, ConsMap, MInsMap, arms, runVars>>
  BY DEF handleReturn, Here, IInv
<1>2. PICK gives : /\ code' = [code EXCEPT ![z] = BeforeClears(@, Append(gives, out))]
                   /\ gives = << >> \/ \E f, rs : gives = <<RuntimeCall(f, rs, Null)>>
  BY DEF handleReturn
<1>3. IsList(gives) /\ \A c \in Range(gives) : c.dest = Null
  <2>1. CASE gives = << >>
    BY <2>1, NoCalls
  <2>2. CASE \E f, rs : gives = <<RuntimeCall(f, rs, Null)>>
    <3> PICK f, rs : gives = <<RuntimeCall(f, rs, Null)>>
      BY <2>2
    <3> DEFINE c == RuntimeCall(f, rs, Null)
    <3>1. c.dest = Null
      BY DEF RuntimeCall
    <3>0. gives = <<c>>
      OBVIOUS
    <3> HIDE DEF c
    <3>2. gives \in Seq({c})
      BY <3>0
    <3>3. IsList(gives) /\ Range(gives) \subseteq {c}
      BY <3>2, ListOf
    <3> QED
      BY <3>1, <3>3
  <2> QED
    BY <1>2, <2>1, <2>2
<1>4. IsList(Append(gives, out)) /\ \A c \in Range(Append(gives, out)) : c.dest = Null
  <2>1. out.dest = Null
    BY DEF RuntimeCall
  <2> HIDE DEF out
  <2> QED
    BY <1>3, <2>1, Appended
<1>5. WritesOnly(x)
  <2> DEFINE s == BeforeClears(code[z], Append(gives, out))
  <2>1. \A y \in DOMAIN code : IsList(code[y])
    BY <1>1 DEF Tables
  <2> HIDE DEF z, out, x
  <2>2. z \in DOMAIN code => IsList(s) /\ Range(s) \subseteq Range(code[z]) \cup Range(Append(gives, out))
    BY <1>4, <2>1, BeforeClearsList
  <2>3. DOMAIN code' = DOMAIN code /\ \A y \in DOMAIN code : code'[y] = IF y = z THEN s ELSE code[y]
    BY <1>2
  <2>4. Null[1] # "slot"
    BY DEF Null
  <2> HIDE DEF s
  <2> QED
    BY <1>4, <2>1, <2>2, <2>3, <2>4 DEF WritesOnly
<1> QED
  BY <1>1, <1>5, LaterKeeps

LEMMA FcmpKeeps == ASSUME IInv, handleFcmp PROVE IInv'
<1>1. /\ stage = "compares" /\ Advance /\ Tables
      /\ UNCHANGED <<fn, total, index, counted, GEPMap, ConsMap, MInsMap, arms, runVars>>
  BY DEF handleFcmp, Here, IInv
<1>2. PICK z, rs : Insert(z, RuntimeCall("check_branch", rs, Null))
  BY DEF handleFcmp
<1>3. RuntimeCall("check_branch", rs, Null).dest[1] # "slot"
  BY DEF RuntimeCall, Null
<1>4. WritesOnly(Ins(at))
  BY <1>1, <1>2, <1>3, Inserted
<1> QED
  BY <1>1, <1>4, LaterKeeps

LEMMA NotHandledKeeps == ASSUME IInv, NotHandled PROVE IInv'
<1> DEFINE x == Ins(at)
<1>1. /\ stage \in {"instructions", "returns", "compares"} /\ Advance /\ Tables /\ IsFunction(fn)
      /\ UNCHANGED <<fn, total, index, counted, GEPMap, ConsMap, MInsMap, arms, code, runVars>>
  BY DEF NotHandled, Handled, IInv, Position
<1>2. WritesOnly(x)
  BY <1>1, WrittenNot
<1>3. CASE stage = "instructions"
  <2>1. x \in Instrs
    BY <1>3, At
  <2>2. Op(x) \in Ops
    BY <1>1, <2>1, OperandsOf
  <2>3. Op(x) \notin Named
    BY <1>3, <2>2 DEF NotHandled, Handled, Here, Ops, Named
  <2>4. NamesOnly(x)
    BY <1>1, <2>3 DEF NamesOnly
  <2>5. ChoosesOnly(x)
    BY <1>1, <2>3 DEF ChoosesOnly, Named
  <2> QED
    BY <1>1, <1>2, <1>3, <2>4, <2>5, PlacedKeeps
<1>4. CASE stage # "instructions"
  BY <1>1, <1>2, <1>4, LaterKeeps
<1> QED
  BY <1>3, <1>4

-----------------------------------------------------------------------------
(* Metadata is missing only at functions that the pass is not made for.    *)

(* What handleOperand knows already is not missing.                        *)
LEMMA Known ==
  ASSUME Tables, NEW v,
         Op(v) \in {"arg", "phi", "undef"} \/ v \in DOMAIN ConsMap \/ (Op(v) # "phi" /\ v \in DOMAIN MInsMap),
         Op(v) # "cast"
  PROVE  handleOperand(v) # Missing
<1>1. \/ handleOperand(v) \in {Slot(ConsMap[v]), ArgPtr(v[2]), Slot(GEPMap[v]), Null}
      \/ v \in DOMAIN MInsMap /\ handleOperand(v) = MInsMap[v]
  BY DEF handleOperand
<1>2. \A p : Arm(p) => p # Missing
  BY DEF Arm, Missing
<1>3. Arm(Null) /\ \A n : Arm(Slot(n)) /\ Arm(ArgPtr(n))
  BY DEF Arm, Null, Slot, ArgPtr
<1> QED
  BY <1>1, <1>2, <1>3, NamesArm

(* Nor is what it finds behind casts.                                      *)
LEMMA KnownBehindCasts ==
  ASSUME Tables, NEW v, Op(v) = "cast", NEW u, u = Args(v)[1],
         \/ Op(u) = "cast" /\ Args(u)[1] \in DOMAIN MInsMap
         \/ Op(u) # "cast" /\ (u \in DOMAIN MInsMap \/ u \in DOMAIN ConsMap \/ Op(u) = "arg")
  PROVE  handleOperand(v) # Missing
<1>1. \A p : Arm(p) => p # Missing
  BY DEF Arm, Missing
<1>2. Arm(Null) /\ \A n : Arm(Slot(n)) /\ Arm(ArgPtr(n))
  BY DEF Arm, Null, Slot, ArgPtr
<1>3. Arm(ThroughCasts(v))
  <2>1. \/ Args(u)[1] \in DOMAIN MInsMap /\ ThroughCasts(v) = MInsMap[Args(u)[1]]
        \/ u \in DOMAIN MInsMap /\ ThroughCasts(v) = MInsMap[u]
        \/ ThroughCasts(v) \in {Slot(ConsMap[u]), ArgPtr(u[2])}
    BY DEF ThroughCasts
  <2> QED
    BY <1>2, <2>1, NamesArm
<1>4. \/ handleOperand(v) \in {Slot(ConsMap[v]), ArgPtr(v[2]), Slot(GEPMap[v]), Null, ThroughCasts(v)}
      \/ v \in DOMAIN MInsMap /\ handleOperand(v) = MInsMap[v]
  BY DEF handleOperand
<1> QED
  BY <1>1, <1>2, <1>3, <1>4, NamesArm

(* Every operand is found, when its turn comes.                            *)
LEMMA Resolves ==
  ASSUME IInv, Resolvable, NEW x \in Instrs, NEW v \in Used(x), Op(x) \in HasConstants \cup {"neg", "store"},
         Op(x) = "store" => Op(v) # "const",
         \/ stage = "instructions" /\ x = Ins(at) /\ Op(x) \notin {"phi", "ret", "fcmp"}
         \/ stage \in {"returns", "compares", "newphi"}
  PROVE  handleOperand(v) # Missing
<1>0. Position /\ Tables /\ Complete /\ IsFunction(fn)
  BY DEF IInv, Position
<1>1. /\ ~IsCast(x) /\ Shadowed(v) /\ (Op(x) = "neg" => Op(v) # "const")
      /\ stage = "instructions" => Source(v)[1] # "ins" \/ Before(Source(v), x)
  <2>1. Op(x) # "cast"
    BY DEF HasConstants
  <2>2. Shadowed(v) /\ (Op(x) = "neg" => Op(v) # "const")
    BY <2>1 DEF Resolvable, IsCast
  <2>3. Op(x) \in {"phi", "ret", "fcmp", "cast"} \/ Source(v)[1] # "ins" \/ Before(Source(v), x)
    BY DEF Resolvable, InTextOrder
  <2> QED
    BY <2>1, <2>2, <2>3 DEF IsCast
<1>2. v \in Range(Args(x)) /\ IsOperand(fn, v)
  BY <1>0, OperandsOf DEF Used
<1>3. \A y \in Instrs : HandedOut(y[2])
  BY DEF HandedOut
<1>4. ASSUME NEW y \in Instrs, stage = "instructions" => Before(y, x), Op(y) \in Named
      PROVE  y \in DOMAIN MInsMap
  <2>1. y[2] \in Texts /\ y = Ins(y[2])
    BY <1>0, OperandsOf
  <2>2. CASE stage = "instructions"
    <3>1. x = Ins(at) /\ x[2] = at
      BY <2>2 DEF Ins
    <3>2. Placed(y[2])
      BY <1>4, <2>2, <3>1 DEF Placed, Before
    <3> QED
      BY <1>0, <1>4, <2>1, <3>2 DEF Complete
  <2>3. CASE stage # "instructions"
    <3>1. Placed(y[2])
      BY <2>3 DEF Placed
    <3> QED
      BY <1>0, <1>4, <2>1, <3>1 DEF Complete
  <2> QED
    BY <2>2, <2>3
<1>5. ASSUME NEW y \in Instrs, Op(y) = "conv"
      PROVE  y \in DOMAIN ConsMap
  <2>1. y[2] \in Texts /\ y = Ins(y[2])
    BY <1>0, OperandsOf
  <2> QED
    BY <1>0, <1>3, <1>5, <2>1 DEF Complete
<1>6. Valued \ {"known", "cast"} = Named \cup {"conv"}
  BY DEF Valued, Named, Ops
<1>7. CASE v[1] = "const"
  <2>1. Op(v) = "const"
    BY <1>0, <1>2, <1>7, OperandKinds
  <2>2. Op(x) \in HasConstants
    BY <1>1, <2>1 DEF HasConstants
  <2>3. PICK j \in DOMAIN Args(x) : v = Args(x)[j]
    BY <1>2 DEF Range
  <2>4. j \in Constants(x)
    BY <2>1, <2>2, <2>3 DEF Constants, OperandsIn
  <2>5. x[2] \in Texts /\ x = Ins(x[2])
    BY <1>0, OperandsOf
  <2>6. v \in DOMAIN ConsMap
    BY <1>0, <1>3, <2>3, <2>4, <2>5 DEF Complete
  <2> QED
    BY <1>0, <2>1, <2>6, Known
<1>8. CASE v[1] \in {"undef", "arg"}
  <2>1. Op(v) \in {"undef", "arg"}
    BY <1>0, <1>2, <1>8, OperandKinds
  <2> QED
    BY <1>0, <2>1, Known
<1>9. CASE v[1] = "ins" /\ Op(v) # "cast"
  <2>1. v \in Instrs /\ Op(v) \in Named \cup {"conv"}
    BY <1>0, <1>1, <1>2, <1>6, <1>9, OperandKinds DEF Shadowed
  <2>2. Source(v) = v
    BY <1>9 DEF Source, IsCast
  <2>3. v \in DOMAIN ConsMap \/ v \in DOMAIN MInsMap
    BY <1>1, <1>4, <1>5, <1>9, <2>1, <2>2
  <2> QED
    BY <1>0, <1>9, <2>3, Known
<1>10. CASE v[1] = "ins" /\ Op(v) = "cast"
  <2> DEFINE u == Args(v)[1]
  <2>1. v \in Instrs /\ IsOperand(fn, u)
    <3>1. v \in Instrs
      BY <1>0, <1>2, <1>10, OperandKinds
    <3>2. 1 \in DOMAIN Args(v)
      BY <1>0, <1>10, <3>1, OperandsOf
    <3> QED
      BY <1>0, <3>1, <3>2, OperandsOf
  <2>2. CASE Op(u) = "cast"
    <3> DEFINE w == Args(u)[1]
    <3>1. w[1] = "ins" /\ Op(w) \notin {"cast", "conv", "known"} /\ Source(v) = w
      BY <1>1, <1>10, <2>2 DEF Shadowed, Source, IsCast
    <3>2. u \in Instrs
      BY <1>0, <2>1, <2>2, OperandKinds
    <3>3. 1 \in DOMAIN Args(u)
      BY <1>0, <2>2, <3>2, OperandsOf
    <3>4. IsOperand(fn, w)
      BY <1>0, <3>2, <3>3, OperandsOf
    <3>5. w \in Instrs /\ Op(w) \in Named
      BY <1>0, <1>6, <3>1, <3>4, OperandKinds
    <3>6. w \in DOMAIN MInsMap
      BY <1>1, <1>4, <3>1, <3>5
    <3> QED
      BY <1>0, <1>10, <2>2, <3>6, KnownBehindCasts
  <2>3. CASE Op(u) # "cast"
    <3>1. Op(u) \notin {"known", "undef", "const"} /\ Source(v) = u
      BY <1>1, <1>10, <2>3 DEF Shadowed, Source, IsCast
    <3>2. CASE u[1] = "ins"
      <4>1. u \in Instrs /\ Op(u) \in Named \cup {"conv"}
        BY <1>0, <1>6, <2>1, <2>3, <3>1, <3>2, OperandKinds
      <4>2. u \in DOMAIN ConsMap \/ u \in DOMAIN MInsMap
        BY <1>1, <1>4, <1>5, <3>1, <3>2, <4>1
      <4> QED
        BY <1>0, <1>10, <2>3, <4>2, KnownBehindCasts
    <3>3. CASE u[1] # "ins"
      <4>1. Op(u) = "arg"
        BY <1>0, <2>1, <3>1, <3>3, OperandKinds
      <4> QED
        BY <1>0, <1>10, <2>3, <4>1, KnownBehindCasts
    <3> QED
      BY <3>2, <3>3
  <2> QED
    BY <2>2, <2>3
<1> QED
  BY <1>0, <1>2, <1>7, <1>8, <1>9, <1>10, OperandKinds

(* The pass gives up only where it may.                                    *)
LEMMA StopKeeps ==
  ASSUME IInv, stage \in {"instructions", "returns", "compares", "newphi"}, stage' = "failed",
         at' \in 0 .. N, ~Resolvable,
         UNCHANGED <<fn, total, index, counted, GEPMap, ConsMap, MInsMap, arms, code, ptr, clock, jumps, exits>>
  PROVE  IInv'
<1>0. Position /\ Counted /\ Tables /\ Complete /\ Pointing /\ IsFunction(fn)
  BY DEF IInv, Position
<1>1. Position'
  BY <1>0 DEF Position, Walks, Clone, N
<1>2. Counted'
  <2>1. \A k : UpTo(k)' = UpTo(k) /\ Count(Ins(k))' = Count(Ins(k))
    BY DEF UpTo, Count, CalledByName, OperandsIn, Op, Instr, Args
  <2> QED
    BY <1>0, <2>1 DEF Counted
<1>3. Tables'
  BY <1>0 DEF Tables, Names, Instrs, Op, Instr, Blocks, Choosing, Entry
<1>4. Complete'
  BY DEF Complete, HandedOut, Placed, Clone
<1>5. Pointing'
  BY <1>0 DEF Pointing, Choosers, Arm, Instrs, Op, Instr, Args, Clone
<1>6. ~Resolvable'
  <2>1. Instrs' = Instrs /\ \A z : Op(z)' = Op(z) /\ Args(z)' = Args(z)
    BY DEF Instrs, Op, Args, Instr
  <2>2. \A z : IsCast(z)' = IsCast(z) /\ Used(z)' = Used(z)
    BY <2>1 DEF IsCast, Used
  <2>3. \A z : Source(z)' = Source(z)
    BY <2>1, <2>2 DEF Source
  <2>4. \A z : Shadowed(z)' <=> Shadowed(z)
    BY <2>1, <2>2 DEF Shadowed
  <2>5. InTextOrder' <=> InTextOrder
    BY <2>1, <2>2, <2>3 DEF InTextOrder, Before
  <2> QED
    BY <2>1, <2>2, <2>4, <2>5 DEF Resolvable
<1>7. NothingMissing'
  BY <1>6 DEF NothingMissing
<1> QED
  BY <1>1, <1>2, <1>3, <1>4, <1>5, <1>7 DEF IInv

LEMMA MissingKeeps ==
  ASSUME IInv, NEW s, NEW ops, MetadataNotFound(s, ops),
         \/ s = "instructions" /\ ops = {"bin", "neg", "math", "call", "lib", "extern", "select"}
         \/ s = "returns" /\ ops = {"ret"}
         \/ s = "compares" /\ ops = {"fcmp"}
  PROVE  IInv'
<1> DEFINE x == Ins(at)
<1>0. /\ Position /\ IsFunction(fn) /\ stage = s /\ Op(x) \in ops /\ stage' = "failed"
      /\ UNCHANGED <<fn, at, total, index, counted, GEPMap, ConsMap, MInsMap, FCMPMap, arms, code, runVars>>
  BY DEF IInv, Position, MetadataNotFound, Here
<1>1. N \in Nat /\ Texts = 1 .. N /\ at \in Texts
  BY <1>0, Text DEF Position, N, Walks
<1>2. x \in Instrs
  BY <1>1, TextAt
<1>3. PICK v \in Range(Args(x)) : handleOperand(v) = Missing
  BY DEF MetadataNotFound, Found
<1>4. v # x
  BY <1>0, <1>2, <1>3, OperandsOf
<1>5. ~Resolvable
  <2>1. v \in Used(x)
    BY <1>3, <1>4 DEF Used
  <2>2. Op(x) \in HasConstants \cup {"neg", "store"} /\ Op(x) # "store"
    BY <1>0 DEF HasConstants
  <2>3. \/ stage = "instructions" /\ Op(x) \notin {"phi", "ret", "fcmp"}
        \/ stage \in {"returns", "compares", "newphi"}
    BY <1>0
  <2> QED
    BY <1>2, <1>3, <2>1, <2>2, <2>3, Resolves
<1> QED
  BY <1>0, <1>1, <1>5, StopKeeps DEF runVars, N

-----------------------------------------------------------------------------
(* The new phis.                                                           *)

LEMMA NewPhiKeeps == ASSUME IInv, handleNewPhi PROVE IInv'
<1> DEFINE found == \A x \in Phis : \A v \in Incomings(x) : handleOperand(v) # Missing
<1>0. /\ Position /\ Counted /\ Tables /\ Complete /\ Pointing /\ IsFunction(fn)
      /\ stage = "newphi" /\ at' = 0
      /\ UNCHANGED <<fn, total, index, counted, GEPMap, ConsMap, MInsMap, code, clock, jumps, exits>>
  BY DEF IInv, Position, handleNewPhi
<1>1. N \in Nat /\ N > 0 /\ Texts = 1 .. N
  BY <1>0, Text
<1>2. CASE ~found
  <2>1. stage' = "failed" /\ UNCHANGED <<arms, ptr>>
    BY <1>2 DEF handleNewPhi, Phis
  <2>2. PICK x \in Phis : \E v \in Incomings(x) : handleOperand(v) = Missing
    BY <1>2
  <2>3. PICK v \in Incomings(x) : handleOperand(v) = Missing
    BY <2>2
  <2>4. x \in Instrs /\ Op(x) = "phi" /\ v \in Used(x)
    BY DEF Phis, Incomings, Used
  <2>5. ~Resolvable
    BY <1>0, <2>3, <2>4, Resolves DEF HasConstants
  <2> QED
    BY <1>0, <1>1, <2>1, <2>5, StopKeeps
<1>3. CASE found
  <2>1. /\ stage' = "run"
        /\ arms' = [x \in DOMAIN arms \cup Phis |-> IF x \in Phis THEN PhiArms(x) ELSE arms[x]]
        /\ ptr' = [x \in DOMAIN arms' |-> Missing]
    BY <1>3 DEF handleNewPhi, Phis
  <2>2. Position'
    BY <1>0, <1>1, <2>1 DEF Position, Walks, Clone, N
  <2>3. Counted'
    <3>1. \A k : UpTo(k)' = UpTo(k) /\ Count(Ins(k))' = Count(Ins(k))
      BY <1>0 DEF UpTo, Count, CalledByName, OperandsIn, Op, Instr, Args
    <3> QED
      BY <1>0, <2>1, <3>1 DEF Counted
  <2>4. Tables'
    BY <1>0, <2>1 DEF Tables, Names, Instrs, Op, Instr, Blocks, Choosing, Entry
  <2>5. \A z : Op(z)' = Op(z) /\ Args(z)' = Args(z) /\ Constants(z)' = Constants(z)
    BY <1>0 DEF Op, Args, Constants, OperandsIn, Instr
  <2>6. Instrs' = Instrs /\ Texts' = Texts /\ Choosers' = Choosers
    BY <1>0 DEF Instrs, Texts, Choosers, Op, Instr
  <2>7. Complete'
    <3>1. DOMAIN arms \subseteq DOMAIN arms'
      BY <2>1
    <3> QED
      BY <1>0, <2>1, <2>5, <2>6, <3>1 DEF Complete, HandedOut, Placed
  <2>8. Pointing'
    <3>1. /\ DOMAIN arms \subseteq {x \in DOMAIN MInsMap : x \in Choosers}
          /\ \A x \in DOMAIN arms : Op(x) = "select" /\ DOMAIN arms[x] = DOMAIN Args(x)
          /\ \A x \in DOMAIN arms : \A k \in DOMAIN arms[x] : Arm(arms[x][k])
      BY <1>0 DEF Pointing, Clone
    <3>2. \A x \in Choosers : x \in DOMAIN MInsMap /\ (Op(x) = "select" => x \in DOMAIN arms)
      <4> TAKE x \in Choosers
      <4>1. x \in Instrs /\ x[2] \in Texts /\ x = Ins(x[2]) /\ Op(x) \in Named
        BY <1>0, OperandsOf DEF Choosers, Choosing, Named
      <4>2. Placed(x[2])
        BY <1>0 DEF Placed
      <4> QED
        BY <1>0, <4>1, <4>2 DEF Complete
    <3>3. \A x \in Choosers : x \in Phis \/ Op(x) = "select"
      BY DEF Choosers, Choosing, Phis
    <3>4. Phis \subseteq Choosers /\ \A x \in Phis : Op(x) # "select"
      BY DEF Choosers, Choosing, Phis
    <3>5. DOMAIN arms' = Choosers /\ DOMAIN ptr' = Choosers
      BY <2>1, <3>1, <3>2, <3>3, <3>4
    <3>6. \A x \in Phis : \A b \in DOMAIN PhiArms(x) : Arm(PhiArms(x)[b])
      <4> TAKE x \in Phis
      <4> DEFINE js == {j \in DOMAIN Args(x) : Args(x)[j] # x}
      <4> TAKE b \in DOMAIN PhiArms(x)
      <4>1. PICK j \in js : j = CHOOSE i \in js : Instr(x).from[i] = b
        BY DEF PhiArms
      <4>2. PhiArms(x)[b] = handleOperand(Args(x)[j])
        BY <4>1 DEF PhiArms
      <4>3. Args(x)[j] \in Incomings(x)
        BY <1>0, OperandsOf DEF Incomings, Phis
      <4> QED
        BY <1>0, <1>3, <4>2, <4>3, OperandPointers
    <3>7. \A x \in DOMAIN arms' : \A k \in DOMAIN arms'[x] : Arm(arms'[x][k])
      BY <2>1, <3>1, <3>6
    <3>8. \A x \in DOMAIN arms' : Op(x) = "select" => DOMAIN arms'[x] = DOMAIN Args(x)
      BY <2>1, <3>1, <3>4
    <3>9. \A p : Arm(p)' = Arm(p)
      BY <2>6 DEF Arm
    <3>10. \A x \in DOMAIN ptr' : ptr'[x][1] = "missing"
      BY <2>1 DEF Missing
    <3> QED
      BY <1>0, <2>1, <2>5, <2>6, <3>2, <3>5, <3>7, <3>8, <3>9, <3>10 DEF Pointing, Clone
  <2>9. NothingMissing'
    BY <2>1, Unfailed
  <2> QED
    BY <2>2, <2>3, <2>4, <2>7, <2>8, <2>9 DEF IInv
<1> QED
  BY <1>2, <1>3

-----------------------------------------------------------------------------
(* The clone runs.                                                         *)

LEMMA PassEnds ==
  ASSUME IInv, Pass
  PROVE  IInv'
<1>1. CASE handleBranch
  BY <1>1, BranchKeeps
<1>2. CASE getTotalFPInst
  BY <1>2, CountKeeps
<1>3. CASE createGEP
  BY <1>3, CreateKeeps
<1>4. CASE handlePhi
  BY <1>4, PhiKeeps
<1>5. CASE handleBinOp \/ handleFNeg \/ handleMathLibFunc
  BY <1>5, ComputeKeeps DEF handleBinOp, handleFNeg, handleMathLibFunc
<1>6. CASE handleLoad
  BY <1>6, LoadKeeps
<1>7. CASE handleStore
  BY <1>7, StoreKeeps
<1>8. CASE handleCallInst
  BY <1>8, CallInstKeeps
<1>9. CASE handleSelect
  BY <1>9, SelectKeeps
<1>10. CASE handleReturn
  BY <1>10, ReturnKeeps
<1>11. CASE handleFcmp
  BY <1>11, FcmpKeeps
<1>12. CASE handleNewPhi
  BY <1>12, NewPhiKeeps
<1>13. CASE NotHandled
  BY <1>13, NotHandledKeeps
<1>14. CASE MetadataNotFound("instructions", {"bin", "neg", "math", "call", "lib", "extern", "select"})
  BY <1>14, MissingKeeps
<1>15. CASE MetadataNotFound("returns", {"ret"}) \/ MetadataNotFound("compares", {"fcmp"})
  BY <1>15, MissingKeeps
<1> QED
  BY <1>1, <1>2, <1>3, <1>4, <1>5, <1>6, <1>7, <1>8, <1>9, <1>10, <1>11, <1>12, <1>13, <1>14, <1>15
     DEF Pass

(* A pointer to choose leads to one that is chosen already or is no choice. *)
LEMMA TargetOf ==
  ASSUME Pointing, stage \in Clone, NEW p, Arm(p)
  PROVE  Target(p)[1] \in {"slot", "argptr", "null", "missing"}
<1>1. CASE p[1] = "chosen"
  <2>1. p[2] \in DOMAIN ptr
    BY <1>1 DEF Pointing, Arm
  <2> QED
    BY <1>1, <2>1 DEF Pointing, Target
<1>2. CASE p[1] # "chosen"
  BY <1>2 DEF Arm, Target
<1> QED
  BY <1>1, <1>2

LEMMA RunKeeps ==
  ASSUME IInv, stage \in Clone, stage' \in Clone, Position',
         UNCHANGED <<fn, total, index, counted, GEPMap, ConsMap, MInsMap, arms, code>>,
         DOMAIN ptr' = DOMAIN ptr,
         \A x \in DOMAIN ptr' : ptr'[x][1] \in {"slot", "argptr", "null", "missing"}
  PROVE  IInv'
<1>0. Counted /\ Tables /\ Complete /\ Pointing /\ IsFunction(fn)
  BY DEF IInv, Position
<1>1. \A z : Op(z)' = Op(z) /\ Args(z)' = Args(z) /\ Constants(z)' = Constants(z) /\ Names(z)' = Names(z)
  BY DEF Op, Args, Constants, OperandsIn, Instr, Names
<1>2. Instrs' = Instrs /\ Texts' = Texts /\ Choosers' = Choosers /\ Blocks' = Blocks
  BY DEF Instrs, Texts, Choosers, Blocks, Op, Instr
<1>3. Counted'
  <2>1. \A k : UpTo(k)' = UpTo(k) /\ Count(Ins(k))' = Count(Ins(k))
    BY DEF UpTo, Count, CalledByName, OperandsIn, Op, Instr, Args
  <2> QED
    BY <1>0, <2>1 DEF Counted, Clone
<1>4. Tables'
  BY <1>0, <1>1, <1>2 DEF Tables, Entry, Clone
<1>5. Complete'
  BY <1>0, <1>1, <1>2 DEF Complete, HandedOut, Placed
<1>6. Pointing'
  <2>1. \A p : Arm(p)' = Arm(p)
    BY <1>2 DEF Arm
  <2> QED
    BY <1>0, <1>1, <1>2, <2>1 DEF Pointing
<1>7. NothingMissing'
  BY Unfailed DEF Clone
<1> QED
  BY <1>3, <1>4, <1>5, <1>6, <1>7 DEF IInv

LEMMA StepKeeps == ASSUME IInv, Step PROVE IInv'
<1> DEFINE x == Ins(at + 1)
<1>0. /\ Position /\ Pointing /\ IsFunction(fn) /\ stage = "run" /\ at' = at + 1
      /\ stage' = (IF Op(x) \in {"br", "ret"} THEN "leave" ELSE stage)
      /\ UNCHANGED <<fn, total, index, counted, GEPMap, ConsMap, MInsMap, arms, code, jumps, exits>>
  BY DEF IInv, Position, Step
<1>1. N \in Nat /\ Texts = 1 .. N /\ at \in 0 .. N /\ at < N
  BY <1>0, Text DEF Position, N
<1>2. at + 1 \in Texts /\ x \in Instrs /\ Op(x) = fn.text[at + 1].op
  BY <1>1, TextAt
<1>3. stage' = "run" => at' < N
  <2>1. IsInstruction(fn, at + 1)
    BY <1>0, <1>2 DEF IsFunction, Texts
  <2>2. at + 1 = N => Op(x) \in {"br", "ret"}
    BY <1>2, <2>1 DEF IsInstruction, N
  <2> QED
    BY <1>0, <1>1, <2>2
<1>4. clock' \in Nat
  <2>1. clock' = clock + 1 \/ clock' = clock
    BY DEF Step
  <2> QED
    BY <1>0, <2>1 DEF Position
<1>5. Position'
  <2>1. at' \in 0 .. N /\ at' > 0
    BY <1>0, <1>1
  <2>2. stage' \in {"run", "leave"}
    BY <1>0
  <2> QED
    BY <1>0, <1>3, <1>4, <2>1, <2>2 DEF Position, Walks, Clone, N
<1>6. /\ DOMAIN ptr' = DOMAIN ptr
      /\ \A z \in DOMAIN ptr' : ptr'[z][1] \in {"slot", "argptr", "null", "missing"}
  <2>0. \A z \in DOMAIN ptr : ptr[z][1] \in {"slot", "argptr", "null", "missing"}
    BY <1>0 DEF Pointing
  <2>1. CASE ptr' = ptr
    BY <2>0, <2>1
  <2>2. CASE ptr' # ptr
    <3>1. Op(x) = "select"
      BY <2>2 DEF Step
    <3>2. PICK k \in DOMAIN Args(x) : ptr' = [ptr EXCEPT ![x] = Target(arms[x][k])]
      BY <2>2 DEF Step
    <3>3. x \in Choosers
      BY <1>2, <3>1 DEF Choosers, Choosing
    <3>4. x \in DOMAIN arms /\ k \in DOMAIN arms[x]
      BY <1>0, <3>1, <3>3 DEF Pointing, Clone
    <3>5. Arm(arms[x][k])
      BY <1>0, <3>4 DEF Pointing
    <3>6. Target(arms[x][k])[1] \in {"slot", "argptr", "null", "missing"}
      BY <1>0, <3>5, TargetOf DEF Clone
    <3> HIDE DEF x
    <3> QED
      BY <2>0, <3>2, <3>6
  <2> QED
    BY <2>1, <2>2
<1> QED
  BY <1>0, <1>5, <1>6, RunKeeps DEF Clone

LEMMA QuietKeeps ==
  ASSUME IInv, UNCHANGED <<passVars, ptr, clock, jumps>>, exits' \in Nat
  PROVE  IInv'
<1>0. /\ Position /\ Counted /\ Tables /\ Complete /\ Pointing /\ NothingMissing
      /\ UNCHANGED <<passVars, ptr, clock, jumps>> /\ exits' \in Nat
  BY DEF IInv
<1>1. Position'
  BY <1>0 DEF Position, passVars
<1>2. Counted'
  <2>1. \A k : UpTo(k)' = UpTo(k) /\ Count(Ins(k))' = Count(Ins(k))
    BY <1>0 DEF UpTo, Count, CalledByName, OperandsIn, Op, Instr, Args, passVars
  <2> QED
    BY <1>0, <2>1 DEF Counted, passVars
<1>3. Tables'
  BY <1>0 DEF Tables, Names, Instrs, Op, Instr, Blocks, Choosing, Entry, passVars
<1>4. Complete'
  BY <1>0 DEF Complete, Texts, HandedOut, Placed, Op, Instr, Args, Constants, OperandsIn, passVars
<1>5. Pointing'
  BY <1>0 DEF Pointing, Choosers, Arm, Instrs, Op, Instr, Args, passVars
<1>6. NothingMissing'
  <2>1. Instrs' = Instrs /\ \A z : Op(z)' = Op(z) /\ Args(z)' = Args(z)
    BY <1>0 DEF Instrs, Op, Args, Instr, passVars
  <2>2. \A z : IsCast(z)' = IsCast(z) /\ Used(z)' = Used(z)
    BY <2>1 DEF IsCast, Used
  <2>3. \A z : Source(z)' = Source(z)
    BY <2>1, <2>2 DEF Source
  <2>4. \A z : Shadowed(z)' <=> Shadowed(z)
    BY <2>1, <2>2 DEF Shadowed
  <2>5. InTextOrder' <=> InTextOrder
    BY <2>1, <2>2, <2>3 DEF InTextOrder, Before
  <2>6. Resolvable' <=> Resolvable
    BY <2>1, <2>2, <2>4, <2>5 DEF Resolvable
  <2> QED
    BY <1>0, <2>6 DEF NothingMissing, passVars
<1> QED
  BY <1>1, <1>2, <1>3, <1>4, <1>5, <1>6 DEF IInv

(* The instructions before the ones that a jump leads to end before the    *)
(* last of the text.                                                       *)
LEMMA JumpsInto ==
  ASSUME IsFunction(fn), NEW b \in Blocks
  PROVE  LET T == {0} \cup {x[2] : x \in {y \in Instrs : Instr(y).block < b} \cup PhisOf(b)}
         IN  Max(T) \in T /\ (\A k \in T : k <= Max(T)) /\ Max(T) \in Nat /\ Max(T) < N
<1> DEFINE S == {y \in Instrs : Instr(y).block < b} \cup PhisOf(b)
           T == {0} \cup {x[2] : x \in S}
<1>1. N \in Nat /\ N > 0 /\ Texts = 1 .. N /\ N \in Texts
  BY Text
<1>2. /\ Instr(Ins(N)).block = Len(fn.next) /\ b \in 1 .. Len(fn.next) /\ Len(fn.next) \in Nat
  <2>1. fn.next \in Seq(SUBSET Nat) /\ fn.text[N].block = Len(fn.next)
    BY DEF IsFunction, N
  <2> QED
    BY <1>1, <2>1, TextAt, LenProperties DEF Blocks
<1>3. Op(Ins(N)) \in {"br", "ret"}
  <2>1. IsInstruction(fn, N)
    BY <1>1, Text
  <2> QED
    BY <1>1, <2>1, TextAt DEF IsInstruction, N
<1>4. Ins(N) \notin S
  BY <1>2, <1>3 DEF PhisOf
<1>5. \A x \in S : x[2] \in 1 .. N /\ x[2] # N
  <2> TAKE x \in S
  <2>1. PICK k \in Texts : x = Ins(k)
    BY Instruction DEF PhisOf
  <2> QED
    BY <1>1, <1>4, <2>1, TextAt
<1> HIDE DEF S
<1>6. T \subseteq 0 .. N /\ T # {} /\ \A k \in T : k < N
  BY <1>1, <1>5
<1> HIDE DEF T
<1>7. Max(T) \in T /\ \A k \in T : k <= Max(T)
  BY <1>1, <1>6, Maximum
<1>8. Max(T) \in 0 .. N /\ Max(T) < N
  BY <1>6, <1>7
<1>9. Max(T) \in Nat
  BY <1>1, <1>8
<1> QED
  BY <1>7, <1>8, <1>9 DEF T, S

LEMMA JumpKeeps == ASSUME IInv, NEW b \in Blocks, Jump(b) PROVE IInv'
<1> DEFINE from == fn.text[at].block
<1>0. /\ Position /\ Pointing /\ IsFunction(fn) /\ stage = "leave" /\ stage' = "run"
      /\ jumps < MaxJumps /\ jumps' = jumps + 1
      /\ ptr' = [x \in DOMAIN ptr |->
            IF x \notin PhisOf(b) THEN ptr[x]
            ELSE IF from \in DOMAIN arms[x] THEN Target(arms[x][from]) ELSE Missing]
      /\ at' = Max({0} \cup {x[2] : x \in {y \in Instrs : Instr(y).block < b} \cup PhisOf(b)})
      /\ UNCHANGED <<fn, total, index, counted, GEPMap, ConsMap, MInsMap, arms, code, clock, exits>>
  BY DEF IInv, Position, Jump
<1>1. at' \in Nat /\ at' < N
  BY <1>0, JumpsInto
<1>2. N \in Nat
  BY <1>0, Text
<1>3. jumps' \in 0 .. MaxJumps
  BY <1>0, JumpsAssumption DEF Position
<1>4. Position'
  <2>1. at' \in 0 .. N
    BY <1>1, <1>2
  <2> QED
    BY <1>0, <1>1, <1>3, <2>1 DEF Position, Walks, Clone, N
<1>5. \A x \in DOMAIN ptr' : ptr'[x][1] \in {"slot", "argptr", "null", "missing"}
  <2> TAKE x \in DOMAIN ptr'
  <2>1. CASE x \notin PhisOf(b)
    BY <1>0, <2>1 DEF Pointing
  <2>2. CASE x \in PhisOf(b) /\ from \notin DOMAIN arms[x]
    <3>1. ptr'[x] = Missing
      BY <1>0, <2>2
    <3> QED
      BY <3>1 DEF Missing
  <2>3. CASE x \in PhisOf(b) /\ from \in DOMAIN arms[x]
    <3>1. ptr'[x] = Target(arms[x][from])
      BY <1>0, <2>3
    <3>2. x \in DOMAIN arms
      BY <1>0 DEF Pointing, Clone
    <3>3. Arm(arms[x][from])
      BY <1>0, <2>3, <3>2 DEF Pointing
    <3> QED
      BY <1>0, <3>1, <3>3, TargetOf DEF Clone
  <2> QED
    BY <2>1, <2>2, <2>3
<1>6. DOMAIN ptr' = DOMAIN ptr
  BY <1>0
<1> QED
  BY <1>0, <1>4, <1>5, <1>6, RunKeeps DEF Clone

LEMMA ReturningKeeps == ASSUME IInv, Return PROVE IInv'
<1>0. /\ Position /\ Pointing /\ stage = "leave" /\ stage' = "done"
      /\ UNCHANGED <<fn, at, total, index, counted, GEPMap, ConsMap, MInsMap, arms, code, ptr, clock, jumps, exits>>
  BY DEF IInv, Return, runVars
<1>1. Position'
  BY <1>0 DEF Position, Walks, Clone
<1> QED
  BY <1>0, <1>1, RunKeeps DEF Clone, Pointing

LEMMA NextKeeps == ASSUME IInv, [Next]_vars PROVE IInv'
<1>1. CASE Pass
  BY <1>1, PassEnds
<1>2. CASE Step
  BY <1>2, StepKeeps
<1>3. CASE Call
  <2>1. exits' \in Nat /\ UNCHANGED <<passVars, ptr, clock, jumps>>
    BY <1>3 DEF Call, IInv, Position
  <2> QED
    BY <2>1, QuietKeeps
<1>4. CASE \E b \in Blocks : Jump(b)
  BY <1>4, JumpKeeps
<1>5. CASE Return
  BY <1>5, ReturningKeeps
<1>6. CASE UNCHANGED vars
  <2>1. exits' \in Nat /\ UNCHANGED <<passVars, ptr, clock, jumps>>
    BY <1>6 DEF vars, runVars, IInv, Position
  <2> QED
    BY <2>1, QuietKeeps
<1> QED
  BY <1>1, <1>2, <1>3, <1>4, <1>5, <1>6 DEF Next

-----------------------------------------------------------------------------
(* The tables of the pass and the pointers of the clone, at every moment   *)
(* of every pass over every function and of every run of its clone: no     *)
(* walk hands out what the other has not counted, and each loop finds what *)
(* the ones before it have left for it.                                    *)
THEOREM Invariant == Spec => []IInv
<1>1. Init => IInv
  BY InitHolds
<1>2. IInv /\ [Next]_vars => IInv'
  BY NextKeeps
<1> QED
  BY <1>1, <1>2, PTL DEF Spec

(* Every table, pointer and counter has the form that the pass and the     *)
(* clone give it, for functions of any length.                             *)
THEOREM Typed == Spec => []TypeOK
<1>1. IInv => TypeOK
  <2> SUFFICES ASSUME IInv PROVE TypeOK
    OBVIOUS
  <2>1. Position /\ Tables /\ Pointing
    BY DEF IInv
  <2>2. /\ DOMAIN GEPMap \subseteq Instrs /\ DOMAIN MInsMap \subseteq Instrs
        /\ DOMAIN arms \subseteq DOMAIN MInsMap
        /\ \A x \in DOMAIN ptr : ptr[x][1] \in {"slot", "argptr", "null", "missing"}
    BY <2>1 DEF Tables, Pointing
  <2>3. /\ at \in 0 .. Len(fn.text) /\ total \in Nat /\ index \in Nat /\ clock \in Nat
        /\ stage \in {"branches", "count", "alloca", "instructions", "returns", "compares", "newphi",
                      "failed", "run", "leave", "done"}
        /\ exits \in Nat /\ jumps \in 0 .. MaxJumps
    BY <2>1 DEF Position, Walks, Clone
  <2> QED
    BY <2>2, <2>3 DEF TypeOK
<1> QED
  BY <1>1, Invariant, PTL

(* The array of the clone's frame, sized by getTotalFPInst, has room for   *)
(* every entry that createGEP hands out and any inserted call writes.      *)
THEOREM Fits == Spec => []EntriesFit
<1>1. IInv => EntriesFit
  <2> SUFFICES ASSUME IInv PROVE EntriesFit
    OBVIOUS
  <2>1. Position /\ index <= total
    BY DEF IInv, Counted
  <2>2. \A x \in DOMAIN code : \A c \in Range(code[x]) : c.dest[1] = "slot" => c.dest[2] \in 1 .. index
    BY DEF IInv, Tables
  <2>3. \A n \in 1 .. index : n <= total
    BY <2>1 DEF Position
  <2> QED
    BY <2>2, <2>3 DEF EntriesFit
<1> QED
  BY <1>1, Invariant, PTL

(* The pass never stops for want of metadata at a function whose operands  *)
(* come in the order that it handles them in.                              *)
THEOREM Resolved == Spec => []NothingMissing
<1>1. IInv => NothingMissing
  BY DEF IInv
<1> QED
  BY <1>1, Invariant, PTL
=============================================================================
