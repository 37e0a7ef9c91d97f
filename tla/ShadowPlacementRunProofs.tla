---------------------- MODULE ShadowPlacementRunProofs ----------------------
(***************************************************************************)
(* Proofs about ShadowPlacement: which calls the pass inserts, and that    *)
(* the clone, wherever it goes, finds in the entries the shadows of the    *)
(* values that the program has; for functions of any form and length and   *)
(* runs of any number of jumps.                                            *)
(***************************************************************************)
EXTENDS ShadowPlacementProofs

-----------------------------------------------------------------------------
(* What was found for an operand stays, when an instruction is placed.     *)
Placing ==
  /\ stage \in {"instructions", "returns", "compares"} /\ Advance
  /\ UNCHANGED <<fn, total, index, GEPMap, ConsMap>> /\ DOMAIN MInsMap \subseteq DOMAIN MInsMap'

(* The cases of handleOperand exclude each other.                          *)
LEMMA Apart ==
  ASSUME Tables
  PROVE  /\ \A z \in DOMAIN MInsMap : Op(z) \in Named /\ z \notin DOMAIN ConsMap
         /\ \A z \in DOMAIN ConsMap : Op(z) \in {"const", "conv"}
<1>1. \A z \in DOMAIN MInsMap : Op(z) \in Named /\ z[1] = "ins"
  BY DEF Tables, Instrs, Ins
<1>2. \A z \in DOMAIN ConsMap : Op(z) \in {"const", "conv"}
  BY DEF Tables, Op
<1> QED
  BY <1>1, <1>2 DEF Named

Pointer(v) ==
  IF v \in DOMAIN ConsMap THEN Slot(ConsMap[v])
  ELSE IF Op(v) = "arg" THEN ArgPtr(v[2])
  ELSE IF Op(v) = "phi" THEN Slot(GEPMap[v])
  ELSE IF v \in DOMAIN MInsMap THEN MInsMap[v]
  ELSE IF Op(v) = "undef" THEN Null
  ELSE Missing
Behind(v) ==
  LET u == Args(v)[1]
      w == Args(u)[1]
  IN  IF Op(u) = "cast" THEN IF w \in DOMAIN MInsMap THEN MInsMap[w] ELSE Missing
      ELSE IF u \in DOMAIN MInsMap THEN MInsMap[u]
      ELSE IF u \in DOMAIN ConsMap THEN Slot(ConsMap[u])
      ELSE IF Op(u) = "arg" THEN ArgPtr(u[2])
      ELSE Missing

LEMMA PointerOf ==
  ASSUME Tables, NEW v
  PROVE  handleOperand(v) = IF Op(v) = "cast" THEN Behind(v) ELSE Pointer(v)
<1>1. /\ \A z \in DOMAIN MInsMap : Op(z) \in Named /\ z \notin DOMAIN ConsMap
      /\ \A z \in DOMAIN ConsMap : Op(z) \in {"const", "conv"}
  BY Apart
<1>2. CASE Op(v) = "cast"
  <2>1. handleOperand(v) = ThroughCasts(v)
    BY <1>1, <1>2 DEF handleOperand, Named
  <2>2. ThroughCasts(v) = Behind(v)
    <3> DEFINE u == Args(v)[1]
               w == Args(u)[1]
    <3>1. CASE Op(u) = "cast"
      <4>1. u \notin DOMAIN MInsMap /\ u \notin DOMAIN ConsMap
        BY <1>1, <3>1 DEF Named
      <4> QED
        BY <3>1, <4>1 DEF ThroughCasts, Behind
    <3>2. CASE Op(u) # "cast"
      <4>1. /\ u \in DOMAIN MInsMap => u \notin DOMAIN ConsMap /\ Op(u) # "arg"
            /\ u \in DOMAIN ConsMap => Op(u) # "arg"
        BY <1>1 DEF Named
      <4> QED
        BY <3>2, <4>1 DEF ThroughCasts, Behind
    <3> QED
      BY <3>1, <3>2
  <2> QED
    BY <1>2, <2>1, <2>2
<1>3. CASE Op(v) # "cast"
  <2>1. /\ v \in DOMAIN MInsMap => v \notin DOMAIN ConsMap /\ Op(v) \notin {"arg", "undef"}
        /\ v \in DOMAIN ConsMap => Op(v) \notin {"arg", "phi", "undef"}
    BY <1>1 DEF Named
  <2> QED
    BY <1>3, <2>1 DEF handleOperand, Pointer
<1> QED
  BY <1>2, <1>3

(* The same after a step.                                                  *)
LEMMA ApartNext ==
  ASSUME Tables'
  PROVE  /\ \A z \in DOMAIN MInsMap' : Op(z)' \in Named /\ z \notin DOMAIN ConsMap'
         /\ \A z \in DOMAIN ConsMap' : Op(z)' \in {"const", "conv"}
<1>1. \A z \in DOMAIN MInsMap' : Op(z)' \in Named /\ z[1] = "ins"
  BY DEF Tables, Instrs, Ins
<1>2. \A z \in DOMAIN ConsMap' : Op(z)' \in {"const", "conv"}
  BY DEF Tables, Op
<1> QED
  BY <1>1, <1>2 DEF Named

LEMMA PointerOfNext ==
  ASSUME Tables', NEW v
  PROVE  handleOperand(v)' = IF Op(v)' = "cast" THEN Behind(v)' ELSE Pointer(v)'
<1>1. /\ \A z \in DOMAIN MInsMap' : Op(z)' \in Named /\ z \notin DOMAIN ConsMap'
      /\ \A z \in DOMAIN ConsMap' : Op(z)' \in {"const", "conv"}
  BY ApartNext
<1>2. CASE Op(v)' = "cast"
  <2>1. handleOperand(v)' = ThroughCasts(v)'
    BY <1>1, <1>2 DEF handleOperand, Named
  <2>2. ThroughCasts(v)' = Behind(v)'
    <3> DEFINE u == Args(v)[1]
    <3>1. CASE Op(u)' = "cast"
      <4>1. u' \notin DOMAIN MInsMap' /\ u' \notin DOMAIN ConsMap'
        BY <1>1, <3>1 DEF Named
      <4> QED
        BY <3>1, <4>1 DEF ThroughCasts, Behind
    <3>2. CASE Op(u)' # "cast"
      <4>1. /\ u' \in DOMAIN MInsMap' => u' \notin DOMAIN ConsMap' /\ Op(u)' # "arg"
            /\ u' \in DOMAIN ConsMap' => Op(u)' # "arg"
        BY <1>1 DEF Named
      <4> QED
        BY <3>2, <4>1 DEF ThroughCasts, Behind
    <3> QED
      BY <3>1, <3>2
  <2> QED
    BY <1>2, <2>1, <2>2
<1>3. CASE Op(v)' # "cast"
  <2>1. /\ v \in DOMAIN MInsMap' => v \notin DOMAIN ConsMap' /\ Op(v)' \notin {"arg", "undef"}
        /\ v \in DOMAIN ConsMap' => Op(v)' \notin {"arg", "phi", "undef"}
    BY <1>1 DEF Named
  <2> QED
    BY <1>3, <2>1 DEF handleOperand, Pointer
<1> QED
  BY <1>2, <1>3

LEMMA OperandStays ==
  ASSUME Tables, Tables', UNCHANGED <<fn, GEPMap, ConsMap>>, DOMAIN MInsMap \subseteq DOMAIN MInsMap',
         NEW v, handleOperand(v) # Missing
  PROVE  handleOperand(v)' = handleOperand(v)
<1>1. \A z : Op(z)' = Op(z) /\ Args(z)' = Args(z)
  BY DEF Op, Args, Instr
<1>2. \A z \in DOMAIN MInsMap : z \in DOMAIN MInsMap' /\ MInsMap'[z] = MInsMap[z]
  <2>1. \A z : Names(z)' = Names(z)
    BY <1>1 DEF Names
  <2> QED
    BY <2>1 DEF Tables
<1>3. \A z \in DOMAIN MInsMap' : Op(z) \in Named /\ z \notin DOMAIN ConsMap
  BY <1>1, ApartNext
<1>4. CASE Op(v) = "cast"
  <2>1. Behind(v) # Missing /\ handleOperand(v) = Behind(v) /\ handleOperand(v)' = Behind(v)'
    BY <1>1, <1>4, PointerOf, PointerOfNext
  <2> DEFINE u == Args(v)[1]
             w == Args(u)[1]
  <2>2. u' = u /\ w' = w /\ Op(u)' = Op(u)
    BY <1>1
  <2>3. CASE Op(u) = "cast"
    <3>1. Behind(v) = IF w \in DOMAIN MInsMap THEN MInsMap[w] ELSE Missing
      BY <2>3 DEF Behind
    <3>2. Behind(v)' = IF w' \in DOMAIN MInsMap' THEN MInsMap'[w'] ELSE Missing
      BY <2>2, <2>3 DEF Behind
    <3> HIDE DEF w
    <3> QED
      BY <1>2, <2>1, <2>2, <3>1, <3>2
  <2>4. CASE Op(u) # "cast"
    <3>1. Behind(v) = IF u \in DOMAIN MInsMap THEN MInsMap[u]
                      ELSE IF u \in DOMAIN ConsMap THEN Slot(ConsMap[u])
                      ELSE IF Op(u) = "arg" THEN ArgPtr(u[2]) ELSE Missing
      BY <2>4 DEF Behind
    <3>2. Behind(v)' = IF u' \in DOMAIN MInsMap' THEN MInsMap'[u']
                       ELSE IF u' \in DOMAIN ConsMap THEN Slot(ConsMap[u'])
                       ELSE IF Op(u)' = "arg" THEN ArgPtr(u'[2]) ELSE Missing
      BY <1>1, <2>2, <2>4 DEF Behind
    <3>3. u \in DOMAIN ConsMap \/ Op(u) = "arg" => u \notin DOMAIN MInsMap'
      BY <1>3 DEF Named
    <3> HIDE DEF u
    <3> QED
      BY <1>2, <2>1, <2>2, <3>1, <3>2, <3>3
  <2> QED
    BY <2>3, <2>4
<1>5. CASE Op(v) # "cast"
  <2>1. Pointer(v) # Missing /\ handleOperand(v) = Pointer(v) /\ handleOperand(v)' = Pointer(v)'
    BY <1>1, <1>5, PointerOf, PointerOfNext
  <2>2. Op(v) \in {"arg", "undef"} => v \notin DOMAIN MInsMap'
    BY <1>3 DEF Named
  <2> QED
    BY <1>1, <1>2, <2>1, <2>2 DEF Pointer
<1> QED
  BY <1>4, <1>5

(* Nothing that is said of a text changes.                                 *)
LEMMA SameText ==
  ASSUME fn' = fn
  PROVE  /\ Instrs' = Instrs /\ Blocks' = Blocks /\ Texts' = Texts
         /\ \A z : Op(z)' = Op(z) /\ Args(z)' = Args(z) /\ Instr(z)' = Instr(z)
         /\ LastReturn' = LastReturn /\ Returns' = Returns
<1>1. /\ Instrs' = Instrs /\ Blocks' = Blocks /\ Texts' = Texts
      /\ \A z : Op(z)' = Op(z) /\ Args(z)' = Args(z) /\ Instr(z)' = Instr(z)
  BY DEF Instrs, Blocks, Texts, Op, Args, Instr
<1>2. Returns' = Returns
  BY <1>1 DEF Returns
<1> QED
  BY <1>1, <1>2 DEF LastReturn

LEMMA SameOrder ==
  ASSUME fn' = fn
  PROVE  Resolvable' = Resolvable
<1>1. /\ Instrs' = Instrs
      /\ \A z : Op(z)' = Op(z) /\ Args(z)' = Args(z)
  BY SameText
<1>2. \A z : Used(z)' = Used(z) /\ IsCast(z)' = IsCast(z)
  BY <1>1 DEF Used, IsCast
<1>3. \A z : Source(z)' = Source(z)
  BY <1>1, <1>2 DEF Source
<1>4. \A z : Shadowed(z)' = Shadowed(z)
  BY <1>1, <1>2 DEF Shadowed
<1>5. InTextOrder' = InTextOrder
  BY <1>1, <1>2, <1>3 DEF InTextOrder
<1> QED
  BY <1>1, <1>2, <1>4, <1>5 DEF Resolvable

LEMMA ReadsStay ==
  ASSUME Tables, Tables', UNCHANGED <<fn, GEPMap, ConsMap>>, DOMAIN MInsMap \subseteq DOMAIN MInsMap',
         NEW c, NEW y, ReadsOf(c, y)
  PROVE  ReadsOf(c, y)'
<1>1. Args(y)' = Args(y)
  BY SameText
<1>2. \A r, v : IsRead(r, v) => IsRead(r, v)'
  <2> TAKE r, v
  <2> HAVE IsRead(r, v)
  <2>1. handleOperand(v)' = handleOperand(v)
    BY OperandStays DEF IsRead
  <2> QED
    BY <2>1 DEF IsRead
<1> QED
  BY <1>1, <1>2 DEF ReadsOf

LEMMA FormStays ==
  ASSUME Tables, Tables', UNCHANGED <<fn, GEPMap, ConsMap>>, DOMAIN MInsMap \subseteq DOMAIN MInsMap',
         OneReturn' => OneReturn, NEW x, NEW c, Form(x, c)
  PROVE  Form(x, c)'
<1>1. /\ Instrs' = Instrs /\ LastReturn' = LastReturn
      /\ \A z : Op(z)' = Op(z) /\ Args(z)' = Args(z) /\ Instr(z)' = Instr(z)
  BY SameText
<1>2. \A y : ReadsOf(c, y) => ReadsOf(c, y)'
  BY ReadsStay
<1>3. Resolvable' = Resolvable
  BY SameOrder
<1>4. CASE IsClear(x, c)
  BY <1>1, <1>4 DEF Form, IsClear
<1>5. CASE IsWrite(x, c)
  BY <1>1, <1>2, <1>5 DEF Form, IsWrite
<1>6. CASE IsStore(x, c)
  <2>1. IsStore(x, c)'
    BY <1>1, <1>2, <1>3, <1>6 DEF IsStore
  <2> QED
    BY <2>1 DEF Form
<1>7. CASE IsCheck(x, c)
  <2>1. IsCheck(x, c)'
    BY <1>1, <1>2, <1>7 DEF IsCheck
  <2> QED
    BY <2>1 DEF Form
<1>8. CASE IsGiven(x, c)
  BY <1>1, <1>2, <1>8 DEF Form, IsGiven
<1>9. CASE IsExit(x, c)
  BY <1>1, <1>9 DEF Form, IsExit
<1> QED
  BY <1>4, <1>5, <1>6, <1>7, <1>8, <1>9 DEF Form

(* Where the loops are after a step of theirs.                             *)
LEMMA Goes ==
  ASSUME Position, Placing
  PROVE  /\ stage' \in {"instructions", "returns", "compares", "newphi"} /\ at \in 1 .. N
         /\ \A k : HandedOut(k) /\ HandedOut(k)'
         /\ \A k \in Texts : (Placed(k) => Placed(k)') /\ (Placed(k)' => Placed(k) \/ (stage = "instructions" /\ k = at))
         /\ \A k \in Texts : Returned(k)' <=> Returned(k) \/ (stage = "returns" /\ k = at)
<1>1. N \in Nat /\ N > 0 /\ Texts = 1 .. N /\ at \in 1 .. N
  BY Text DEF Position, N, Walks, Placing
<1>2. Texts' = Texts /\ N' = N
  BY DEF Placing, Texts, N
<1>3. \/ at # N /\ at' = at + 1 /\ stage' = stage
      \/ at = N /\ at' = 1 /\ stage' = "returns" /\ stage = "instructions"
      \/ at = N /\ at' = 1 /\ stage' = "compares" /\ stage = "returns"
      \/ at = N /\ at' = 1 /\ stage' = "newphi" /\ stage = "compares"
  BY DEF Placing, Advance, Following, N
<1>4. \A k : HandedOut(k) /\ HandedOut(k)'
  BY <1>3 DEF HandedOut, Placing
<1>5. \A k \in Texts : (Placed(k) => Placed(k)') /\ (Placed(k)' => Placed(k) \/ (stage = "instructions" /\ k = at))
  BY <1>1, <1>3 DEF Placed, Clone, Placing
<1>6. \A k \in Texts : Returned(k)' <=> Returned(k) \/ (stage = "returns" /\ k = at)
  BY <1>1, <1>3 DEF Returned, Clone, Placing
<1> QED
  BY <1>1, <1>3, <1>4, <1>5, <1>6 DEF Placing

(* Calls that are added to an instruction that is no return.               *)
Adds(p) ==
  \A z \in Instrs :
    \/ code'[z] = code[z]
    \/ /\ z = p /\ Op(z) # "ret" /\ Range(code[z]) \subseteq Range(code'[z])
       /\ \A c \in Range(code'[z]) : c \in Range(code[z]) \/ Form(z, c)

LEMMA NoClear ==
  ASSUME IsFunction(fn), NEW z, NEW c, Form(z, c), Op(z) # "ret"
  PROVE  c.fun # "clear"
<1>1. Op(LastReturn) = "ret"
  BY LastReturnIs
<1> QED
  BY <1>1 DEF Form, IsClear, IsWrite, Writes, IsStore, IsCheck, IsGiven, IsExit

LEMMA NewForms ==
  ASSUME Position, Placing, Tables, Tables', CodeInv,
         \A z \in Instrs : \A c \in Range(code'[z]) : c \in Range(code[z]) \/ Form(z, c)
  PROVE  Forms'
<1>1. Instrs' = Instrs
  BY SameText DEF Placing
<1>2. OneReturn' => OneReturn
  BY SameText DEF OneReturn, Placing
<1>3. \A z \in Instrs : \A c \in Range(code'[z]) : Form(z, c)'
  <2> TAKE z \in Instrs
  <2> TAKE c \in Range(code'[z])
  <2>1. Form(z, c)
    BY DEF CodeInv, Forms
  <2> QED
    BY <1>2, <2>1, FormStays DEF Placing
<1> QED
  BY <1>1, <1>3 DEF Forms

LEMMA PlacedForms ==
  ASSUME Position, Placing, Tables, Tables', CodeInv, NEW p, Adds(p)
  PROVE  Forms' /\ (\A z \in Instrs : ClearsLast(code[z]))'
<1>1. Instrs' = Instrs
  BY SameText DEF Placing
<1>2. \A z \in Instrs : \A c \in Range(code'[z]) : c \in Range(code[z]) \/ Form(z, c)
  BY DEF Adds
<1>3. Forms'
  BY <1>2, NewForms
<1>4. \A z \in Instrs : ClearsLast(code'[z])
  <2> TAKE z \in Instrs
  <2>1. CASE code'[z] = code[z]
    BY <2>1 DEF CodeInv
  <2>2. CASE Op(z) # "ret"
    <3>1. \A c \in Range(code'[z]) : c.fun # "clear"
      <4> TAKE c \in Range(code'[z])
      <4>1. Form(z, c)
        BY <1>2 DEF CodeInv, Forms
      <4> QED
        BY <2>2, <4>1, NoClear DEF Position
    <3> QED
      BY <3>1 DEF ClearsLast, Range
  <2> QED
    BY <2>1, <2>2 DEF Adds
<1> QED
  BY <1>1, <1>3, <1>4

LEMMA PlacedLeaves ==
  ASSUME Position, Placing, CodeInv, NEW p, Adds(p), stage = "returns" => Op(Ins(at)) # "ret"
  PROVE  Leaves'
<1>1. /\ Texts' = Texts /\ Instrs' = Instrs /\ \A z : Op(z)' = Op(z) /\ Args(z)' = Args(z)
  BY SameText DEF Placing
<1>2. OneReturn' => OneReturn
  BY SameText DEF OneReturn, Placing
<1>3. ASSUME NEW k \in Texts, Op(Ins(k)) = "ret"
      PROVE  code'[Ins(k)] = code[Ins(k)] /\ (Returned(k)' <=> Returned(k))
  <2>1. Ins(k) \in Instrs
    BY TextAt
  <2> QED
    BY <1>3, <2>1, Goes DEF Adds
<1>4. fn' = fn /\ stage # "failed"
  BY DEF Placing
<1> QED
  BY <1>1, <1>2, <1>3, <1>4 DEF Leaves, CodeInv

LEMMA PlacedCopies ==
  ASSUME Position, Placing, CodeInv, \A b \in Blocks : code'[Entry(b)] = code[Entry(b)]
  PROVE  Copies'
<1>1. Blocks' = Blocks /\ \A b : PhisOf(b)' = PhisOf(b)
  BY SameText DEF Placing, PhisOf
<1>2. \A b, c : IsCopy(b, c) => IsCopy(b, c)'
  <2> TAKE b, c
  <2> HAVE IsCopy(b, c)
  <2>1. PICK x \in PhisOf(b) : x \in DOMAIN GEPMap /\ c = CopyOf(x) /\ (Placed(x[2]) \/ stage = "failed")
    BY DEF IsCopy
  <2>2. CopyOf(x)' = CopyOf(x)
    BY DEF CopyOf, Placing
  <2>3. x[2] \in Texts
    BY OperandsOf DEF PhisOf, Position
  <2>4. Placed(x[2])'
    BY <2>1, <2>3, Goes DEF Placing
  <2> QED
    BY <1>1, <2>1, <2>2, <2>4 DEF IsCopy, Placing
<1>3. \A b \in Blocks : code'[Entry(b)] = code[Entry(b)]
  OBVIOUS
<1> QED
  BY <1>1, <1>2, <1>3 DEF Copies, CodeInv, Entry, Copied

LEMMA PlacedWritten ==
  ASSUME Position, Placing, CodeInv, \A z \in Instrs : Range(code[z]) \subseteq Range(code'[z]),
         \A b \in Blocks : Range(code[Entry(b)]) \subseteq Range(code'[Entry(b)]),
         stage = "instructions" =>
           /\ Op(Ins(at)) \in {"bin", "neg", "math", "call", "lib", "load"} =>
                \E c \in Range(code'[Ins(at)]) : c.fun \in Writes
           /\ Op(Ins(at)) = "phi" => CopyOf(Ins(at)) \in Range(code'[Entry(Instr(Ins(at)).block)])
  PROVE  Written'
<1>1. /\ Texts' = Texts /\ \A z : Op(z)' = Op(z) /\ Instr(z)' = Instr(z) /\ CopyOf(z)' = CopyOf(z)
  BY SameText DEF Placing, CopyOf
<1>2. \A z \in Instrs : Range(code[z]) \subseteq Range(code'[z])
  OBVIOUS
<1>3. ASSUME NEW k \in Texts
      PROVE  LET x == Ins(k) IN
             /\ \/ Placed(k)' /\ Op(x) \in {"bin", "neg", "math", "call", "lib", "load"}
                \/ Op(x) = "conv"
                => \E c \in Range(code'[x]) : c.fun \in Writes
             /\ Placed(k)' /\ Op(x) = "phi" => CopyOf(x) \in Range(code'[Entry(Instr(x).block)])
  <2>1. Placed(k)' => Placed(k) \/ (stage = "instructions" /\ k = at)
    BY Goes
  <2>2. HandedOut(k)
    BY Goes
  <2>3. Ins(k) \in Instrs /\ Instr(Ins(k)).block \in Blocks
    BY TextAt, Text DEF Position, IsInstruction, Blocks
  <2>4. CASE stage = "instructions" /\ k = at
    BY <1>2, <2>2, <2>3, <2>4 DEF CodeInv, Written
  <2>5. CASE ~(stage = "instructions" /\ k = at)
    BY <1>2, <2>1, <2>2, <2>3, <2>5 DEF CodeInv, Written
  <2> QED
    BY <2>4, <2>5
<1> QED
  BY <1>1, <1>3 DEF Written

LEMMA PlacedChooses ==
  ASSUME Placing, Tables, Tables', CodeInv, stage' \notin Clone, arms' = arms
  PROVE  Chooses'
<1>1. \A z : Op(z)' = Op(z) /\ Args(z)' = Args(z)
  BY SameText DEF Placing
<1>2. \A v : handleOperand(v) # Missing => handleOperand(v)' = handleOperand(v)
  BY OperandStays DEF Placing
<1>3. ASSUME NEW x \in DOMAIN arms, Op(x) = "select", NEW k \in DOMAIN Args(x)
      PROVE  arms[x][k] # Missing /\ arms[x][k] = handleOperand(Args(x)[k])'
  <2>1. arms[x][k] # Missing /\ arms[x][k] = handleOperand(Args(x)[k])
    BY <1>3 DEF CodeInv, Chooses
  <2> QED
    BY <1>1, <1>2, <2>1
<1>4. \A x \in DOMAIN arms' : Op(x)' = "select" => \A k \in DOMAIN Args(x)' :
        arms'[x][k] # Missing /\ arms'[x][k] = handleOperand(Args(x)[k])'
  BY <1>1, <1>3
<1> QED
  BY <1>4 DEF Chooses, Missing

LEMMA PlacedTogether ==
  ASSUME Position, Placing, CodeInv, Forms', (\A z \in Instrs : ClearsLast(code[z]))', Copies', Written',
         Leaves', Taken', Chooses'
  PROVE  CodeInv'
<1>1. (fn \in Functions)' /\ Unshared'
  <2>1. Instrs' = Instrs /\ \A z : Op(z)' = Op(z)
    BY SameText DEF Placing
  <2> QED
    BY <2>1 DEF CodeInv, Unshared, Placing
<1>2. Early'
  <2>1. \A k : HandedOut(k)'
    BY Goes
  <2> QED
    BY <2>1, Goes DEF Early
<1> QED
  BY <1>1, <1>2 DEF CodeInv

(* The handlers that add calls to an instruction that is no return.        *)
LEMMA AddingKeeps ==
  ASSUME IInv, IInv', CodeInv, Placing, NEW p, Adds(p), stage = "returns" => Op(Ins(at)) # "ret",
         \A b \in Blocks : code'[Entry(b)] = code[Entry(b)],
         stage = "instructions" =>
           /\ Op(Ins(at)) \in {"bin", "neg", "math", "call", "lib", "load"} =>
                \E c \in Range(code'[Ins(at)]) : c.fun \in Writes
           /\ Op(Ins(at)) # "phi",
         Taken', arms' = arms \/ Chooses'
  PROVE  CodeInv'
<1>1. Position /\ Tables /\ Tables'
  BY DEF IInv
<1>2. stage' \notin Clone
  BY <1>1, Goes DEF Clone
<1>3. Forms' /\ (\A z \in Instrs : ClearsLast(code[z]))'
  BY <1>1, PlacedForms
<1>4. Leaves'
  BY <1>1, PlacedLeaves
<1>5. Copies'
  BY <1>1, PlacedCopies
<1>6. Written'
  BY <1>1, PlacedWritten DEF Adds
<1>7. Chooses'
  BY <1>1, <1>2, PlacedChooses
<1> QED
  BY <1>1, <1>3, <1>4, <1>5, <1>6, <1>7, PlacedTogether

(* A call that reads the operands of its instruction.                      *)
LEMMA OperandsRead ==
  ASSUME IsFunction(fn), NEW x \in Instrs, Found(x), NEW c, c.reads = Operands(x)
  PROVE  ReadsOf(c, x)
<1> SUFFICES ASSUME NEW r \in Range(c.reads)
             PROVE  \E v \in Range(Args(x)) : IsRead(r, v)
  BY DEF ReadsOf
<1>1. PICK k \in DOMAIN Args(x) : r = Reads(handleOperand(Args(x)[k]), Args(x)[k])
  BY DEF Range, Operands
<1>2. Args(x)[k] \in Range(Args(x))
  BY OperandsOf
<1> QED
  BY <1>1, <1>2 DEF IsRead, Found

(* An insertion at an instruction that is no return.                       *)
LEMMA InsertedAdds ==
  ASSUME Tables, NEW p \in Instrs, Op(p) # "ret", NEW c, Insert(p, c), Form(p, c)
  PROVE  /\ Adds(p) /\ c \in Range(code'[p])
         /\ \A b \in Blocks : code'[Entry(b)] = code[Entry(b)]
<1>1. DOMAIN code = Instrs \cup {Entry(b) : b \in Blocks} /\ IsList(code[p])
  BY DEF Tables
<1>2. code'[p] = Append(code[p], c) /\ \A z \in DOMAIN code : z # p => code'[z] = code[z]
  BY <1>1 DEF Insert
<1>3. Range(code'[p]) = Range(code[p]) \cup {c}
  BY <1>1, <1>2, Appended
<1>4. Adds(p)
  BY <1>1, <1>2, <1>3 DEF Adds
<1>5. \A b \in Blocks : Entry(b) # p
  BY DEF Entry, Instrs, Ins
<1> QED
  BY <1>1, <1>2, <1>3, <1>4, <1>5

LEMMA ComputeCode ==
  ASSUME IInv, IInv', CodeInv, NEW op \in {"bin", "neg", "math"}, Compute(op)
  PROVE  CodeInv'
<1> DEFINE x == Ins(at)
           c == RuntimeCall("compute", Operands(x), Slot(GEPMap[x]))
<1>1. /\ Op(x) = op /\ stage = "instructions" /\ Tables /\ Position /\ IsFunction(fn) /\ Found(x)
      /\ MInsMap' = Extend(MInsMap, x, Slot(GEPMap[x])) /\ Insert(x, c) /\ Advance
      /\ UNCHANGED <<fn, total, index, GEPMap, ConsMap>> /\ arms' = arms /\ FCMPMap' = FCMPMap
  BY DEF Compute, Here, IInv, Position
<1>2. x \in Instrs /\ x \in DOMAIN GEPMap
  BY <1>1, At DEF HasEntry
<1>3. Placing
  BY <1>1 DEF Placing, Extend
<1>4. c.fun = "compute" /\ c.dest = Slot(GEPMap[x]) /\ c.reads = Operands(x)
  BY DEF RuntimeCall
<1> HIDE DEF c
<1>5. ReadsOf(c, x)
  BY <1>1, <1>2, <1>4, OperandsRead
<1>6. Form(x, c)
  BY <1>1, <1>2, <1>4, <1>5 DEF Form, IsWrite, Writes, Drawn
<1>7. Adds(x) /\ c \in Range(code'[x]) /\ \A b \in Blocks : code'[Entry(b)] = code[Entry(b)]
  BY <1>1, <1>2, <1>6, InsertedAdds
<1>8. Taken'
  BY <1>1, SameText DEF CodeInv, Taken
<1> QED
  BY <1>1, <1>3, <1>4, <1>7, <1>8, AddingKeeps DEF Writes

LEMMA LoadCode == ASSUME IInv, IInv', CodeInv, handleLoad PROVE CodeInv'
<1> DEFINE x == Ins(at)
           c == RuntimeCall("load_shadow", << >>, Slot(GEPMap[x]))
<1>1. /\ Op(x) = "load" /\ stage = "instructions" /\ Tables
      /\ MInsMap' = Extend(MInsMap, x, Slot(GEPMap[x])) /\ Insert(x, c) /\ Advance
      /\ UNCHANGED <<fn, total, index, GEPMap, ConsMap>> /\ arms' = arms /\ FCMPMap' = FCMPMap
  BY DEF handleLoad, Here, IInv
<1>2. x \in Instrs /\ x \in DOMAIN GEPMap
  BY <1>1, At DEF HasEntry
<1>3. Placing
  BY <1>1 DEF Placing, Extend
<1>4. c.fun = "load_shadow" /\ c.dest = Slot(GEPMap[x]) /\ Range(c.reads) = {}
  BY DEF RuntimeCall, Range
<1> HIDE DEF c
<1>5. Form(x, c)
  BY <1>1, <1>2, <1>4 DEF Form, IsWrite, Writes, Drawn, ReadsOf
<1>6. Adds(x) /\ c \in Range(code'[x]) /\ \A b \in Blocks : code'[Entry(b)] = code[Entry(b)]
  BY <1>1, <1>2, <1>5, InsertedAdds
<1>7. Taken'
  BY <1>1, SameText DEF CodeInv, Taken
<1> QED
  BY <1>1, <1>3, <1>4, <1>6, <1>7, AddingKeeps DEF Writes

(* A store of a value without metadata is one of a constant.               *)
LEMMA StoreForm ==
  ASSUME IInv, stage = "instructions", NEW x, x = Ins(at), Op(x) = "store", NEW c, c.fun = "store_shadow",
         c.dest = Null,
         LET v == Args(x)[1]
         IN  c.reads = <<Reads(IF handleOperand(v) = Missing THEN Immediate(v) ELSE handleOperand(v), v)>>
  PROVE  Form(x, c)
<1> DEFINE v == Args(x)[1]
<1>0. Position /\ Tables /\ IsFunction(fn)
  BY DEF IInv, Position
<1>1. x \in Instrs /\ v \in Range(Args(x)) /\ v # x
  <2>1. x \in Instrs
    BY At
  <2>2. 1 \in DOMAIN Args(x)
    BY <1>0, <2>1, OperandsOf
  <2> QED
    BY <1>0, <2>1, <2>2, OperandsOf
<1>2. CASE handleOperand(v) # Missing
  <2>1. c.reads = <<Reads(handleOperand(v), v)>>
    BY <1>2
  <2>2. \A r \in Range(c.reads) : r = Reads(handleOperand(v), v)
    BY <2>1 DEF Range
  <2>3. ReadsOf(c, x)
    BY <1>1, <1>2, <2>2 DEF ReadsOf, IsRead
  <2> QED
    BY <2>3 DEF Form, IsStore
<1>3. CASE handleOperand(v) = Missing
  <2>1. Resolvable => Op(v) = "const"
    <3> SUFFICES ASSUME Resolvable, Op(v) # "const"
                 PROVE  FALSE
      OBVIOUS
    <3>1. v \in Used(x)
      BY <1>1 DEF Used
    <3>2. handleOperand(v) # Missing
      BY <1>0, <1>1, <3>1, Resolves
    <3> QED
      BY <1>3, <3>2
  <2>2. c.reads = <<Reads(Immediate(v), v)>>
    BY <1>3
  <2>3. IsStore(x, c)
    BY <1>1, <2>1, <2>2 DEF IsStore
  <2> QED
    BY <2>3 DEF Form
<1> QED
  BY <1>2, <1>3

LEMMA StoreCode == ASSUME IInv, IInv', CodeInv, handleStore PROVE CodeInv'
<1> DEFINE x == Ins(at)
           v == Args(x)[1]
           p == IF handleOperand(v) = Missing THEN Immediate(v) ELSE handleOperand(v)
           c == RuntimeCall("store_shadow", <<Reads(p, v)>>, Null)
<1>1. /\ Op(x) = "store" /\ stage = "instructions" /\ Tables /\ Insert(x, c) /\ Advance
      /\ UNCHANGED <<fn, total, index, GEPMap, ConsMap, MInsMap>> /\ arms' = arms /\ FCMPMap' = FCMPMap
  BY DEF handleStore, Here, IInv
<1>2. x \in Instrs
  BY <1>1, At
<1>3. Placing
  BY <1>1 DEF Placing
<1>4. c.fun = "store_shadow" /\ c.dest = Null /\ c.reads = <<Reads(p, v)>>
  BY DEF RuntimeCall
<1> HIDE DEF c
<1>5. Form(x, c)
  BY <1>1, <1>4, StoreForm
<1>6. Adds(x) /\ \A b \in Blocks : code'[Entry(b)] = code[Entry(b)]
  BY <1>1, <1>2, <1>5, InsertedAdds
<1>7. Taken'
  BY <1>1, SameText DEF CodeInv, Taken
<1> QED
  BY <1>1, <1>3, <1>6, <1>7, AddingKeeps

LEMMA CallCode == ASSUME IInv, IInv', CodeInv, handleCallInst PROVE CodeInv'
<1> DEFINE x == Ins(at)
           q == Slot(GEPMap[x])
           c1 == RuntimeCall("call", Operands(x), q)
           c2 == RuntimeCall("set_lib", << >>, q)
<1>1. /\ Op(x) \in {"call", "lib", "extern"} /\ stage = "instructions" /\ Tables /\ Position /\ IsFunction(fn)
      /\ Found(x) /\ MInsMap' = Extend(MInsMap, x, q) /\ Advance
      /\ UNCHANGED <<fn, total, index, GEPMap, ConsMap>> /\ arms' = arms /\ FCMPMap' = FCMPMap
  BY DEF handleCallInst, Here, IInv, Position
<1>2. x \in Instrs /\ x \in DOMAIN GEPMap /\ x \in DOMAIN code
  BY <1>1, At DEF HasEntry
<1>3. Placing
  BY <1>1 DEF Placing, Extend
<1>4. /\ c1.fun = "call" /\ c1.dest = q /\ c1.reads = Operands(x)
      /\ c2.fun = "set_lib" /\ c2.dest = q /\ Range(c2.reads) = {}
  BY DEF RuntimeCall, Range
<1>5. code' = [code EXCEPT ![x] = @ \o
        CASE Op(x) = "call" -> <<c1>> [] Op(x) = "lib" -> <<c2>> [] Op(x) = "extern" -> << >>]
  BY DEF handleCallInst
<1>6. \/ Op(x) = "call" /\ code' = [code EXCEPT ![x] = @ \o <<c1>>]
      \/ Op(x) = "lib" /\ code' = [code EXCEPT ![x] = @ \o <<c2>>]
      \/ Op(x) = "extern" /\ code' = [code EXCEPT ![x] = @ \o << >>]
  <2> HIDE DEF x, c1, c2
  <2> QED
    BY <1>1, <1>5
<1>7. Form(x, c1) /\ (Op(x) = "lib" => Form(x, c2))
  <2> HIDE DEF c1, c2
  <2>1. ReadsOf(c1, x) /\ ReadsOf(c2, x)
    BY <1>1, <1>2, <1>4, OperandsRead DEF ReadsOf
  <2> QED
    BY <1>1, <1>2, <1>4, <2>1 DEF Form, IsWrite, Writes, Drawn
<1>8. /\ DOMAIN code = Instrs \cup {Entry(b) : b \in Blocks}
      /\ \A z \in DOMAIN code : IsList(code[z])
      /\ \A b \in Blocks : Entry(b) # x
  BY <1>1 DEF Tables, Entry, Ins
<1> HIDE DEF c1, c2, x
<1>9. /\ \A c : IsList(<<c>>) /\ Range(<<c>>) = {c}
      /\ IsList(<< >>) /\ Range(<< >>) = {}
  <2>1. ASSUME NEW c PROVE <<c>> \in Seq({c}) /\ Range(<<c>>) = {c}
    BY DEF Range
  <2> QED
    BY <2>1, NoCalls DEF IsList
<1>10. PICK cs : /\ code' = [code EXCEPT ![x] = @ \o cs] /\ IsList(cs)
                 /\ \/ Op(x) = "call" /\ Range(cs) = {c1}
                    \/ Op(x) = "lib" /\ Range(cs) = {c2}
                    \/ Op(x) = "extern" /\ Range(cs) = {}
  <2>1. CASE Op(x) = "call"
    BY <1>6, <1>9, <2>1
  <2>2. CASE Op(x) = "lib"
    BY <1>6, <1>9, <2>2
  <2>3. CASE Op(x) = "extern"
    BY <1>6, <1>9, <2>3
  <2> QED
    BY <1>1, <2>1, <2>2, <2>3
<1>11. /\ \A z \in DOMAIN code : z # x => code'[z] = code[z]
       /\ Range(code'[x]) = Range(code[x]) \cup Range(cs)
  <2>1. code'[x] = code[x] \o cs
    BY <1>2, <1>10
  <2> QED
    BY <1>2, <1>8, <1>10, <2>1, Joined
<1>12. Adds(x)
  BY <1>1, <1>7, <1>8, <1>10, <1>11 DEF Adds
<1>13. \A b \in Blocks : code'[Entry(b)] = code[Entry(b)]
  BY <1>8, <1>11
<1>14. Op(x) \in {"call", "lib"} => \E c \in Range(code'[x]) : c.fun \in Writes
  BY <1>4, <1>10, <1>11 DEF Writes
<1>15. Taken'
  BY <1>1, SameText DEF CodeInv, Taken
<1> QED
  BY <1>1, <1>3, <1>12, <1>13, <1>14, <1>15, AddingKeeps DEF x

(* A select adds no call, but chooses, and may take a comparison.          *)
LEMMA SelectCode == ASSUME IInv, IInv', CodeInv, handleSelect PROVE CodeInv'
<1> DEFINE x == Ins(at)
           g == [k \in DOMAIN Args(x) |-> handleOperand(Args(x)[k])]
<1>1. /\ Op(x) = "select" /\ stage = "instructions" /\ Tables /\ Tables' /\ Position /\ IsFunction(fn) /\ Found(x)
      /\ arms' = Extend(arms, x, g) /\ MInsMap' = Extend(MInsMap, x, Chosen(x)) /\ Advance
      /\ UNCHANGED <<fn, total, index, GEPMap, ConsMap, code>>
      /\ FCMPMap' = IF Instr(x).cond \in DOMAIN FCMPMap \cup {None} THEN FCMPMap
                    ELSE Extend(FCMPMap, Instr(x).cond, x)
  BY DEF handleSelect, Here, IInv, Position
<1>2. x \in Instrs
  BY <1>1, At
<1>3. Placing
  BY <1>1 DEF Placing, Extend
<1>4. Adds(x) /\ \A b \in Blocks : code'[Entry(b)] = code[Entry(b)]
  BY <1>1 DEF Adds
<1>5. Instrs' = Instrs /\ \A z : Instr(z)' = Instr(z) /\ Op(z)' = Op(z) /\ Args(z)' = Args(z)
  BY <1>1, SameText
<1>6. Taken'
  <2>1. \A z \in DOMAIN FCMPMap : FCMPMap[z] \in Instrs /\ Instr(FCMPMap[z]).cond = z
    BY DEF CodeInv, Taken
  <2> HIDE DEF x
  <2>2. \A z \in DOMAIN FCMPMap' : \/ z \in DOMAIN FCMPMap /\ FCMPMap'[z] = FCMPMap[z]
                                   \/ z = Instr(x).cond /\ FCMPMap'[z] = x
    BY <1>1 DEF Extend
  <2> QED
    BY <1>2, <1>5, <2>1, <2>2 DEF Taken
<1>7. Chooses'
  <2>1. \A v : handleOperand(v) # Missing => handleOperand(v)' = handleOperand(v)
    BY <1>1, <1>3, OperandStays DEF Placing
  <2>2. ASSUME NEW z \in DOMAIN arms', Op(z) = "select", NEW k \in DOMAIN Args(z)
        PROVE  arms'[z][k] # Missing /\ arms'[z][k] = handleOperand(Args(z)[k])'
    <3>1. CASE z = x
      <4>1. arms'[z][k] = handleOperand(Args(z)[k])
        BY <1>1, <2>2, <3>1 DEF Extend
      <4>2. Args(z)[k] \in Range(Args(z))
        BY <1>1, <1>2, <2>2, <3>1, OperandsOf
      <4>3. handleOperand(Args(z)[k]) # Missing
        BY <1>1, <3>1, <4>2 DEF Found
      <4> QED
        BY <1>5, <2>1, <4>1, <4>3
    <3>2. CASE z # x
      <4>1. z \in DOMAIN arms /\ arms'[z] = arms[z]
        BY <1>1, <2>2, <3>2 DEF Extend
      <4>2. arms[z][k] # Missing /\ arms[z][k] = handleOperand(Args(z)[k])
        BY <2>2, <4>1 DEF CodeInv, Chooses
      <4> QED
        BY <1>5, <2>1, <4>1, <4>2
    <3> QED
      BY <3>1, <3>2
  <2>3. stage' \notin Clone
    BY <1>1, <1>3, Goes DEF Clone
  <2>4. \A z \in DOMAIN arms' : Op(z)' = "select" => \A k \in DOMAIN Args(z)' :
          arms'[z][k] # Missing /\ arms'[z][k] = handleOperand(Args(z)[k])'
    BY <1>5, <2>2
  <2> QED
    BY <2>3, <2>4 DEF Chooses, Missing
<1> QED
  BY <1>1, <1>3, <1>4, <1>6, <1>7, AddingKeeps

LEMMA NotHandledCode == ASSUME IInv, IInv', CodeInv, NotHandled PROVE CodeInv'
<1>1. /\ stage \in {"instructions", "returns", "compares"} /\ Advance
      /\ UNCHANGED <<fn, total, index, GEPMap, ConsMap, MInsMap, code>> /\ arms' = arms /\ FCMPMap' = FCMPMap
  BY DEF NotHandled, Handled
<1>2. ~(Op(Ins(at)) \in Handled[stage])
  BY DEF NotHandled, Here
<1>3. stage = "instructions" => Op(Ins(at)) \notin {"bin", "neg", "math", "call", "lib", "load", "phi"}
  BY <1>2 DEF Handled, Ops
<1>4. stage = "returns" => Op(Ins(at)) # "ret"
  BY <1>2 DEF Handled
<1>5. Placing
  BY <1>1 DEF Placing
<1>6. Adds(Ins(at)) /\ \A b \in Blocks : code'[Entry(b)] = code[Entry(b)]
  BY <1>1 DEF Adds
<1>7. Taken'
  BY <1>1, SameText DEF CodeInv, Taken
<1> QED
  BY <1>1, <1>3, <1>4, <1>5, <1>6, <1>7, AddingKeeps

(* Only branches and selects take a comparison.                            *)
LEMMA Takers ==
  ASSUME CodeInv, NEW x \in Instrs, NEW y \in Instrs, Instr(x).cond = y
  PROVE  Op(x) \in {"br", "select"} /\ Op(y) = "fcmp" /\ Dominates(fn, y[2], x[2])
<1>1. IsSSA(fn) /\ IsFunction(fn)
  BY FunctionsAssumption DEF CodeInv
<1>2. PICK k \in Texts : x = Ins(k) /\ x[1] = "ins" /\ x[2] = k
  BY Instruction, TextAt
<1>3. y[1] = "ins" /\ y # None
  BY DEF Instrs, Ins, None
<1>4. fn.text[k].cond # None /\ fn.text[k].cond = y
  BY <1>2, <1>3, TextAt
<1>5. fn.text[k].op \in {"br", "select"} /\ fn.text[y[2]].op = "fcmp" /\ Dominates(fn, y[2], k)
  BY <1>1, <1>4 DEF IsSSA, Texts
<1> QED
  BY <1>2, <1>3, <1>5 DEF Op, Instr

LEMMA FcmpCode == ASSUME IInv, IInv', CodeInv, handleFcmp PROVE CodeInv'
<1> DEFINE x == Ins(at)
           p == IF x \in DOMAIN FCMPMap THEN FCMPMap[x] ELSE x
           c == RuntimeCall("check_branch", Operands(x), Null)
<1>1. /\ Op(x) = "fcmp" /\ stage = "compares" /\ Tables /\ Position /\ IsFunction(fn) /\ Found(x)
      /\ Insert(p, c) /\ Advance
      /\ UNCHANGED <<fn, total, index, GEPMap, ConsMap, MInsMap>> /\ arms' = arms /\ FCMPMap' = FCMPMap
  BY DEF handleFcmp, Here, IInv, Position
<1>2. x \in Instrs
  BY <1>1, Text, TextAt DEF Position, Walks, N
<1>3. Placing
  BY <1>1 DEF Placing
<1>4. c.fun = "check_branch" /\ c.dest = Null /\ c.reads = Operands(x)
  BY DEF RuntimeCall
<1>5. p \in Instrs /\ (p = x \/ Instr(p).cond = x)
  BY <1>2 DEF CodeInv, Taken
<1> HIDE DEF c, p
<1>6. ReadsOf(c, x)
  BY <1>1, <1>2, <1>4, OperandsRead
<1>7. Form(p, c)
  <2>1. IsCheck(p, c)
    BY <1>1, <1>2, <1>4, <1>5, <1>6 DEF IsCheck
  <2> QED
    BY <2>1 DEF Form
<1>8. Op(p) # "ret"
  BY <1>1, <1>2, <1>5, Takers
<1>9. Adds(p) /\ \A b \in Blocks : code'[Entry(b)] = code[Entry(b)]
  BY <1>1, <1>5, <1>7, <1>8, InsertedAdds
<1>10. Taken'
  BY <1>1, SameText DEF CodeInv, Taken
<1> QED
  BY <1>1, <1>3, <1>9, <1>10, AddingKeeps

(* The copy of a phi goes behind those of the phis before it.              *)
LEMMA PhiCode == ASSUME IInv, IInv', CodeInv, handlePhi PROVE CodeInv'
<1> PICK k : k = at
  OBVIOUS
<1> PICK b : b = Instr(Ins(k)).block
  OBVIOUS
<1> DEFINE x == Ins(k)
           s == code[Entry(b)]
<1>1. /\ Op(x) = "phi" /\ stage = "instructions" /\ Tables /\ Tables' /\ Position /\ IsFunction(fn)
      /\ MInsMap' = Extend(MInsMap, x, Chosen(x)) /\ Insert(Entry(b), CopyOf(x)) /\ Advance
      /\ UNCHANGED <<fn, total, index, GEPMap, ConsMap>> /\ arms' = arms /\ FCMPMap' = FCMPMap
  BY DEF handlePhi, Here, IInv, Position, CopyOf
<1>2. x \in Instrs /\ x \in DOMAIN GEPMap /\ Entry(b) \in DOMAIN code /\ b \in Blocks
  <2>1. x \in Instrs /\ x \in DOMAIN GEPMap /\ Entry(b) \in DOMAIN code
    BY <1>1, At DEF HasEntry
  <2> QED
    BY <1>1, <2>1, Text, Instruction, TextAt DEF IsInstruction, Blocks
<1>3. Placing
  BY <1>1 DEF Placing, Extend
<1>4. /\ DOMAIN code = Instrs \cup {Entry(d) : d \in Blocks} /\ IsList(s)
      /\ \A z \in Instrs : z # Entry(b)
      /\ \A d : d # b => Entry(d) # Entry(b)
  BY <1>1, <1>2 DEF Tables, Entry, Instrs, Ins
<1>5. /\ code'[Entry(b)] = Append(s, CopyOf(x))
      /\ \A z \in DOMAIN code : z # Entry(b) => code'[z] = code[z]
  BY <1>1, <1>2 DEF Insert
<1>6. Range(Append(s, CopyOf(x))) = Range(s) \cup {CopyOf(x)}
  BY <1>4, Appended
<1>7. Adds(x)
  BY <1>4, <1>5 DEF Adds
<1>8. \A d \in Blocks : Range(code[Entry(d)]) \subseteq Range(code'[Entry(d)])
  BY <1>4, <1>5, <1>6
<1>9. k \in Texts /\ x[2] = k /\ Placed(k)'
  <2>1. k \in Texts /\ x[2] = k
    BY <1>1, Text DEF Position, N, Walks, Ins
  <2>2. N \in Nat /\ k \in 1 .. N
    BY <1>1, Text DEF Position, N, Walks
  <2>3. stage' = "returns" \/ (stage' = "instructions" /\ at' = k + 1)
    BY <1>1 DEF Advance, Following
  <2>4. Placed(k)'
    BY <2>2, <2>3 DEF Placed
  <2> QED
    BY <2>1, <2>4
<1>10. Copies'
  <2>1. Blocks' = Blocks /\ (\A d : PhisOf(d)' = PhisOf(d)) /\ \A z : CopyOf(z)' = CopyOf(z)
    BY <1>1, SameText DEF PhisOf, CopyOf
  <2>2. \A z : Copied(CopyOf(z)) = z
    BY DEF Copied, CopyOf, RuntimeCall, Reads
  <2>3. ASSUME NEW d, NEW c, IsCopy(d, c)
        PROVE  IsCopy(d, c)' /\ Copied(c)[2] < k
    <3>1. PICK y \in PhisOf(d) : y \in DOMAIN GEPMap /\ c = CopyOf(y) /\ Placed(y[2])
      BY <1>1, <2>3 DEF IsCopy
    <3>2. y[2] \in Texts
      BY <1>1, OperandsOf DEF PhisOf
    <3>3. Placed(y[2])'
      BY <1>1, <1>3, <3>1, <3>2, Goes
    <3>4. y[2] < k
      BY <1>1, <3>1 DEF Placed, Clone
    <3> QED
      BY <1>1, <2>1, <2>2, <3>1, <3>3, <3>4 DEF IsCopy
  <2>4. IsCopy(b, CopyOf(x))'
    <3>1. x \in PhisOf(b) /\ x \in DOMAIN GEPMap
      BY <1>1, <1>2 DEF PhisOf
    <3> HIDE DEF x
    <3>2. CopyOf(x)' = CopyOf(x)
      BY <2>1
    <3>3. Placed(x[2])'
      BY <1>9
    <3> QED
      BY <1>1, <2>1, <3>1, <3>2, <3>3 DEF IsCopy
  <2> HIDE DEF x
  <2>5. ASSUME NEW d \in Blocks, NEW t, t = code'[Entry(d)]
        PROVE  /\ \A j \in DOMAIN t : IsCopy(d, t[j])'
               /\ \A i, j \in DOMAIN t : i < j => Before(Copied(t[i]), Copied(t[j]))
    <3>1. /\ \A j \in DOMAIN code[Entry(d)] : IsCopy(d, code[Entry(d)][j])
          /\ \A i, j \in DOMAIN code[Entry(d)] :
                i < j => Before(Copied(code[Entry(d)][i]), Copied(code[Entry(d)][j]))
      BY DEF CodeInv, Copies
    <3>2. CASE d # b
      <4>1. t = code[Entry(d)]
        BY <1>4, <1>5, <2>5, <3>2
      <4> QED
        BY <2>3, <3>1, <4>1
    <3>3. CASE d = b
      <4>1. t = Append(s, CopyOf(x))
        BY <1>5, <2>5, <3>3
      <4> PICK n : n = Len(s)
        OBVIOUS
      <4>2. n \in Nat /\ DOMAIN s = 1 .. n /\ s \in Seq(Range(s))
        BY <1>4, ListOf DEF IsList
      <4>3. /\ DOMAIN t = 1 .. n + 1 /\ t[n + 1] = CopyOf(x)
            /\ \A j \in 1 .. n : t[j] = s[j]
        BY <4>1, <4>2
      <4>4. \A j \in 1 .. n : IsCopy(b, t[j]) /\ Copied(t[j])[2] < k
        BY <2>3, <3>1, <3>3, <4>2, <4>3
      <4>5. \A j \in DOMAIN t : IsCopy(d, t[j])'
        <5>1. \A j \in 1 .. n : IsCopy(d, t[j])'
          BY <2>3, <3>3, <4>4
        <5>2. IsCopy(d, t[n + 1])'
          <6>1. \A u : u = CopyOf(x) => IsCopy(b, u)'
            <7> TAKE u
            <7> HAVE u = CopyOf(x)
            <7>1. u = CopyOf(x)'
              BY <2>1
            <7> QED
              BY <2>4, <7>1 DEF IsCopy
          <6> QED
            BY <3>3, <4>3, <6>1
        <5> QED
          BY <4>2, <4>3, <5>1, <5>2
      <4>6. ASSUME NEW i \in DOMAIN t, NEW j \in DOMAIN t, i < j
            PROVE  Before(Copied(t[i]), Copied(t[j]))
        <5>1. CASE j \in 1 .. n
          <6>1. i \in 1 .. n
            BY <4>2, <4>3, <4>6, <5>1
          <6> QED
            BY <3>1, <3>3, <4>2, <4>3, <4>6, <5>1, <6>1
        <5>2. CASE j = n + 1
          <6>1. i \in 1 .. n
            BY <4>2, <4>3, <4>6, <5>2
          <6>2. Copied(t[j]) = x
            BY <2>2, <4>3, <5>2
          <6> QED
            BY <1>9, <4>4, <6>1, <6>2 DEF Before
        <5> QED
          BY <4>2, <4>3, <5>1, <5>2
      <4> QED
        BY <4>5, <4>6
    <3> QED
      BY <3>2, <3>3
  <2> QED
    BY <2>1, <2>5 DEF Copies, Entry, Before, Copied
<1> HIDE DEF x
<1>11. CopyOf(Ins(at)) \in Range(code'[Entry(Instr(Ins(at)).block)])
  BY <1>5, <1>6 DEF x
<1>12. Written'
  BY <1>1, <1>3, <1>7, <1>8, <1>11, PlacedWritten DEF x, Adds
<1>13. Forms' /\ (\A z \in Instrs : ClearsLast(code[z]))'
  BY <1>1, <1>3, <1>7, PlacedForms
<1>14. Leaves'
  BY <1>1, <1>3, <1>7, PlacedLeaves
<1>15. Taken'
  BY <1>1, SameText DEF CodeInv, Taken
<1>16. Chooses'
  BY <1>1, <1>3, Goes, PlacedChooses DEF Clone
<1> QED
  BY <1>1, <1>3, <1>10, <1>12, <1>13, <1>14, <1>15, <1>16, PlacedTogether

(* A list with others inserted behind its first m members.                 *)
Splice(s, cs, m) == SubSeq(s, 1, m) \o cs \o SubSeq(s, m + 1, Len(s))
LEMMA Spliced ==
  ASSUME NEW s, IsList(s), NEW cs, IsList(cs), NEW m \in 0 .. Len(s), NEW t, t = Splice(s, cs, m)
  PROVE  /\ DOMAIN t = 1 .. Len(s) + Len(cs)
         /\ \A j \in 1 .. m : t[j] = s[j]
         /\ \A j \in 1 .. Len(cs) : t[m + j] = cs[j]
         /\ \A j \in m + 1 .. Len(s) : t[j + Len(cs)] = s[j]
<1> DEFINE a == SubSeq(s, 1, m)
           b == SubSeq(s, m + 1, Len(s))
           R == Range(s) \cup Range(cs)
<1> PICK M : M = Len(s)
  OBVIOUS
<1> PICK L : L = Len(cs)
  OBVIOUS
<1>1. M \in Nat /\ L \in Nat /\ m \in Int /\ m >= 0 /\ m <= M
  BY ListOf DEF IsList
<1>2. /\ \A j \in 1 .. M : s[j] \in R
      /\ cs \in Seq(R)
  <2>1. Seq(Range(cs)) \subseteq Seq(R)
    OBVIOUS
  <2> QED
    BY <2>1, ListOf DEF IsList
<1>3. a \in Seq(R) /\ Len(a) = m /\ \A j \in 1 .. m : a[j] = s[j]
  <2>1. \A j \in 1 .. m : s[j] \in R
    BY <1>1, <1>2
  <2>2. /\ a \in Seq(R) /\ Len(a) = IF 1 <= m THEN m - 1 + 1 ELSE 0
        /\ \A j \in 1 .. m - 1 + 1 : a[j] = s[1 + j - 1]
    <3> HIDE DEF R
    <3> QED
      BY <1>1, <2>1, SubSeqProperties
  <2> HIDE DEF a, R
  <2>3. \A j \in 1 .. m : j \in 1 .. m - 1 + 1 /\ 1 + j - 1 = j
    BY <1>1
  <2> QED
    BY <1>1, <2>2, <2>3
<1>4. b \in Seq(R) /\ Len(b) = M - m /\ \A j \in 1 .. M - m : b[j] = s[m + j]
  <2>1. \A j \in m + 1 .. M : s[j] \in R
    BY <1>1, <1>2
  <2>2. /\ b \in Seq(R) /\ Len(b) = IF m + 1 <= M THEN M - (m + 1) + 1 ELSE 0
        /\ \A j \in 1 .. M - (m + 1) + 1 : b[j] = s[m + 1 + j - 1]
    <3> HIDE DEF R
    <3>1. m + 1 \in Int /\ M \in Int
      BY <1>1
    <3> QED
      BY <2>1, <3>1, SubSeqProperties
  <2> HIDE DEF b, R
  <2>3. M - (m + 1) + 1 = M - m /\ \A j \in 1 .. M - m : m + 1 + j - 1 = m + j
    BY <1>1
  <2> QED
    BY <1>1, <2>2, <2>3
<1> HIDE DEF a, b, R
<1>5. t = (a \o cs) \o b
  BY DEF a, b, Splice
<1>6. /\ a \o cs \in Seq(R) /\ Len(a \o cs) = m + L
      /\ \A j \in 1 .. m + L : (a \o cs)[j] = IF j <= m THEN a[j] ELSE cs[j - m]
  BY <1>2, <1>3, ConcatProperties
<1>7. /\ t \in Seq(R) /\ Len(t) = m + L + (M - m)
      /\ \A j \in 1 .. m + L + (M - m) : t[j] = IF j <= m + L THEN (a \o cs)[j] ELSE b[j - (m + L)]
  <2> PICK u : u = a \o cs
    OBVIOUS
  <2>1. u \in Seq(R) /\ Len(u) = m + L /\ t = u \o b
    BY <1>5, <1>6
  <2>2. /\ u \o b \in Seq(R) /\ Len(u \o b) = Len(u) + Len(b)
        /\ \A j \in 1 .. Len(u) + Len(b) : (u \o b)[j] = IF j <= Len(u) THEN u[j] ELSE b[j - Len(u)]
    <3>1. u \in Seq(R) /\ b \in Seq(R)
      BY <1>4, <2>1
    <3> QED
      BY <3>1, ConcatProperties
  <2> QED
    BY <1>4, <2>1, <2>2
<1>8. DOMAIN t = 1 .. M + L
  <2>1. m + L + (M - m) = M + L
    BY <1>1
  <2>2. DOMAIN t = 1 .. Len(t)
    BY <1>7, LenProperties
  <2> QED
    BY <1>7, <2>1, <2>2
<1>9. \A j \in 1 .. m : t[j] = s[j]
  <2> TAKE j \in 1 .. m
  <2>1. j \in 1 .. m + L + (M - m) /\ j \in 1 .. m + L /\ j <= m /\ j <= m + L
    BY <1>1
  <2> QED
    BY <1>3, <1>6, <1>7, <2>1
<1>10. \A j \in 1 .. L : t[m + j] = cs[j]
  <2> TAKE j \in 1 .. L
  <2>1. m + j \in 1 .. m + L /\ m + j \in 1 .. m + L + (M - m) /\ ~(m + j <= m) /\ (m + j) - m = j /\ m + j <= m + L
    BY <1>1
  <2>2. t[m + j] = (a \o cs)[m + j]
    BY <1>7, <2>1
  <2> QED
    BY <1>6, <2>1, <2>2
<1>11. \A j \in m + 1 .. M : t[j + L] = s[j]
  <2> TAKE j \in m + 1 .. M
  <2>1. /\ j + L \in 1 .. m + L + (M - m) /\ ~(j + L <= m + L) /\ (j + L) - (m + L) = j - m
        /\ j - m \in 1 .. M - m /\ m + (j - m) = j
    BY <1>1
  <2>2. t[j + L] = b[j - m]
    BY <1>7, <2>1
  <2> QED
    BY <1>4, <2>1, <2>2
<1> QED
  BY <1>1, <1>8, <1>9, <1>10, <1>11

(* Calls that are put before the calls that clear stay before them.        *)
LEMMA BeforeThem ==
  ASSUME NEW s, IsList(s), ClearsLast(s), NEW cs, IsList(cs), \A c \in Range(cs) : c.fun # "clear"
  PROVE  /\ ClearsLast(BeforeClears(s, cs)) /\ IsList(BeforeClears(s, cs))
         /\ Range(BeforeClears(s, cs)) = Range(s) \cup Range(cs)
         /\ (\A c \in Range(s) : c.fun = "clear") => BeforeClears(s, cs) = cs \o s
<1> DEFINE t == BeforeClears(s, cs)
<1> PICK M : M = Len(s)
  OBVIOUS
<1> PICK L : L = Len(cs)
  OBVIOUS
<1>1. /\ M \in Nat /\ DOMAIN s = 1 .. M /\ s \in Seq(Range(s)) /\ \A j \in 1 .. M : s[j] \in Range(s)
      /\ L \in Nat /\ DOMAIN cs = 1 .. L /\ cs \in Seq(Range(cs)) /\ \A j \in 1 .. L : cs[j] \in Range(cs)
  BY ListOf DEF IsList
<1>2. \E k \in 0 .. M : (\A j \in 1 .. k : s[j].fun # "clear") /\ (k = M \/ s[k + 1].fun = "clear")
  <2> DEFINE T == {j \in 1 .. M : s[j].fun = "clear"}
  <2>1. CASE T = {}
    <3>1. M \in 0 .. M /\ \A j \in 1 .. M : s[j].fun # "clear"
      BY <1>1, <2>1
    <3> QED
      BY <3>1
  <2>2. CASE T # {}
    <3>1. T \subseteq Nat
      BY <1>1
    <3> HIDE DEF T
    <3>2. PICK m \in T : \A j \in T : m <= j
      BY <2>2, <3>1, Smallest
    <3> USE DEF T
    <3>3. m \in 1 .. M /\ s[m].fun = "clear"
      BY <3>2
    <3>4. m - 1 \in 0 .. M /\ (m - 1) + 1 = m
      BY <1>1, <3>3
    <3>5. \A j \in 1 .. m - 1 : s[j].fun # "clear"
      BY <1>1, <3>2, <3>3
    <3> HIDE DEF T
    <3> QED
      BY <3>3, <3>4, <3>5
  <2> QED
    BY <2>1, <2>2
<1>3. PICK m \in 0 .. M : /\ \A j \in 1 .. m : s[j].fun # "clear"
                          /\ m = M \/ s[m + 1].fun = "clear"
                          /\ t = SubSeq(s, 1, m) \o cs \o SubSeq(s, m + 1, M)
  <2> DEFINE IsPlace(k) == (\A j \in 1 .. k : s[j].fun # "clear") /\ (k = M \/ s[k + 1].fun = "clear")
             n == CHOOSE k \in 0 .. M : IsPlace(k)
  <2>1. t = SubSeq(s, 1, n) \o cs \o SubSeq(s, n + 1, M)
    BY DEF BeforeClears
  <2>2. n \in 0 .. M /\ IsPlace(n)
    <3>1. \E k \in 0 .. M : IsPlace(k)
      BY <1>2
    <3> HIDE DEF IsPlace
    <3> QED
      BY <3>1
  <2> HIDE DEF n, t
  <2> QED
    BY <2>1, <2>2
<1>4. /\ DOMAIN t = 1 .. M + L
      /\ \A j \in 1 .. m : t[j] = s[j]
      /\ \A j \in 1 .. L : t[m + j] = cs[j]
      /\ \A j \in m + 1 .. M : t[j + L] = s[j]
  <2>1. m \in 0 .. Len(s) /\ t = Splice(s, cs, m)
    BY <1>3 DEF Splice
  <2> HIDE DEF t
  <2>2. /\ DOMAIN t = 1 .. Len(s) + Len(cs)
        /\ \A j \in 1 .. m : t[j] = s[j]
        /\ \A j \in 1 .. Len(cs) : t[m + j] = cs[j]
        /\ \A j \in m + 1 .. Len(s) : t[j + Len(cs)] = s[j]
    <3>1. IsList(s) /\ IsList(cs)
      OBVIOUS
    <3>2. DOMAIN t = 1 .. Len(s) + Len(cs)
      BY <2>1, <3>1, Spliced
    <3>3. \A j \in 1 .. m : t[j] = s[j]
      BY <2>1, <3>1, Spliced
    <3>4. \A j \in 1 .. Len(cs) : t[m + j] = cs[j]
      BY <2>1, <3>1, Spliced
    <3>5. \A j \in m + 1 .. Len(s) : t[j + Len(cs)] = s[j]
      BY <2>1, <3>1, Spliced
    <3> QED
      BY <3>2, <3>3, <3>4, <3>5
  <2> QED
    BY <2>2
<1>5. IsList(t) /\ Range(t) \subseteq Range(s) \cup Range(cs)
  BY BeforeClearsList
<1>6. ASSUME \A c \in Range(s) : c.fun = "clear"
      PROVE  t = cs \o s
  <2>1. m = 0
    <3> SUFFICES ASSUME m # 0
                 PROVE  FALSE
      OBVIOUS
    <3>1. 1 \in 1 .. m /\ 1 \in 1 .. M
      BY <1>1
    <3>2. s[1].fun # "clear"
      BY <1>3, <3>1
    <3>3. s[1] \in Range(s)
      BY <1>1, <3>1
    <3> QED
      BY <1>6, <3>2, <3>3
  <2>2. SubSeq(s, 1, 0) = << >> /\ SubSeq(s, 1, M) = s
    BY <1>1, SubSeqFull, SubSeqEmpty
  <2>3. << >> \o cs = cs
    BY <1>1, ConcatEmptySeq
  <2>4. t = SubSeq(s, 1, 0) \o cs \o SubSeq(s, 0 + 1, M)
    BY <1>3, <2>1
  <2> HIDE DEF t
  <2> QED
    BY <2>2, <2>3, <2>4
<1> HIDE DEF t
<1>7. Range(s) \cup Range(cs) \subseteq Range(t)
  <2>1. ASSUME NEW j \in 1 .. M
        PROVE  s[j] \in Range(t)
    <3>1. CASE j <= m
      <4>1. j \in 1 .. m /\ j \in DOMAIN t
        BY <1>1, <1>4, <3>1
      <4> QED
        BY <1>4, <4>1 DEF Range
    <3>2. CASE j > m
      <4>1. j \in m + 1 .. M /\ j + L \in DOMAIN t
        BY <1>1, <1>4, <3>2
      <4> QED
        BY <1>4, <4>1 DEF Range
    <3> QED
      BY <3>1, <3>2
  <2>2. ASSUME NEW j \in 1 .. L
        PROVE  cs[j] \in Range(t)
    <3>1. m + j \in DOMAIN t
      BY <1>1, <1>4
    <3> QED
      BY <1>4, <3>1 DEF Range
  <2> QED
    BY <1>1, <2>1, <2>2 DEF Range
<1>8. ClearsLast(t)
  <2> SUFFICES ASSUME NEW i \in 1 .. M + L, NEW j \in 1 .. M + L, i < j, t[i].fun = "clear"
               PROVE  t[j].fun = "clear"
    BY <1>4 DEF ClearsLast
  <2>1. i > m + L
    <3>1. CASE i <= m
      <4>1. i \in 1 .. m
        BY <1>1, <3>1
      <4>2. t[i] = s[i]
        BY <1>4, <4>1
      <4>3. s[i].fun # "clear"
        BY <1>3, <4>1
      <4> QED
        BY <4>2, <4>3
    <3>2. CASE i > m /\ i <= m + L
      <4>1. i - m \in 1 .. L /\ m + (i - m) = i
        BY <1>1, <3>2
      <4>2. t[i] = cs[i - m] /\ cs[i - m] \in Range(cs)
        BY <1>1, <1>4, <4>1
      <4> QED
        BY <4>2
    <3> QED
      BY <1>1, <3>1, <3>2
  <2>2. /\ i - L \in m + 1 .. M /\ j - L \in m + 1 .. M /\ i - L < j - L /\ (i - L) + L = i /\ (j - L) + L = j
        /\ i - L \in 1 .. M /\ j - L \in 1 .. M
    BY <1>1, <2>1
  <2>3. t[i] = s[i - L] /\ t[j] = s[j - L]
    BY <1>4, <2>2
  <2> QED
    BY <1>1, <2>2, <2>3 DEF ClearsLast
<1> QED
  BY <1>5, <1>6, <1>7, <1>8 DEF t

(* With one return, or nothing to clear, every return keeps its own place. *)
LEMMA ReturnsHere ==
  ASSUME IInv, CodeInv, OneReturn, NEW x \in Instrs, Op(x) = "ret"
  PROVE  /\ ReturnPlace(x) = x
         /\ \A y \in Instrs : Op(y) = "ret" => y = x \/ (total = 0 /\ ~fn.slice)
<1>0. Position /\ Tables /\ Counted /\ IsFunction(fn)
  BY DEF IInv, Position
<1>1. LastReturn \in Instrs /\ Op(LastReturn) = "ret"
  BY <1>0, LastReturnIs
<1>2. CASE Cardinality(Returns) = 1
  <2>1. IsFiniteSet(Returns)
    <3>1. N \in Nat /\ Texts = 1 .. N
      BY <1>0, Text
    <3>2. IsFiniteSet(1 .. N)
      BY <3>1, FS_Interval
    <3> DEFINE h == [y \in Instrs |-> y[2]]
    <3>3. IsFiniteSet(Instrs)
      <4>1. \A y \in Instrs : y[2] \in 1 .. N /\ y = Ins(y[2])
        BY <1>0, <3>1, OperandsOf
      <4>2. h \in [Instrs -> 1 .. N] /\ \A y, z \in Instrs : h[y] = h[z] => y = z
        BY <4>1
      <4>3. h \in Injection(Instrs, 1 .. N)
        BY <4>2 DEF Injection, IsInjective
      <4> HIDE DEF h
      <4> QED
        BY <3>2, <4>3, FS_Injection
    <3> QED
      BY <3>3, FS_Subset DEF Returns
  <2>2. PICK r : Returns = {r}
    BY <1>2, <2>1, FS_Singleton
  <2>3. \A y \in Instrs : Op(y) = "ret" => y = r
    BY <2>2 DEF Returns
  <2> QED
    BY <1>1, <2>3 DEF ReturnPlace
<1>3. CASE total = 0 /\ ~fn.slice
  <2>1. \A c \in Range(code[LastReturn]) : c.fun # "clear"
    <3> SUFFICES ASSUME NEW c \in Range(code[LastReturn]), c.fun = "clear"
                 PROVE  FALSE
      OBVIOUS
    <3>1. Form(LastReturn, c)
      BY <1>1 DEF CodeInv, Forms
    <3>2. c.dest[1] = "slot"
      BY <1>3, <3>1 DEF Form, IsClear, IsWrite, Writes, IsStore, IsCheck, IsGiven, IsExit
    <3>3. LastReturn \in DOMAIN code
      BY <1>0, <1>1 DEF Tables
    <3>4. c.dest[2] \in 1 .. index /\ index <= 0 /\ index \in Nat
      BY <1>0, <1>3, <3>2, <3>3 DEF Tables, Counted, Position
    <3> QED
      BY <3>4
  <2> QED
    BY <1>3, <2>1 DEF ReturnPlace
<1> QED
  BY <1>2, <1>3 DEF OneReturn

LEMMA ReturnCode == ASSUME IInv, IInv', CodeInv, handleReturn PROVE CodeInv'
<1> PICK k : k = at
  OBVIOUS
<1> DEFINE x == Ins(k)
           g == RuntimeCall(IF fn.slice THEN "check_error" ELSE "copy_return", Operands(x), Null)
           f == RuntimeCall("func_exit", << >>, Null)
           gives == IF Args(x) = << >> THEN << >> ELSE <<g>>
           cs == Append(gives, f)
           p == ReturnPlace(x)
<1>1. /\ Op(x) = "ret" /\ stage = "returns" /\ Tables /\ Tables' /\ Position /\ IsFunction(fn) /\ Found(x)
      /\ code' = [code EXCEPT ![p] = BeforeClears(@, cs)] /\ Advance
      /\ UNCHANGED <<fn, total, index, GEPMap, ConsMap, MInsMap>> /\ arms' = arms /\ FCMPMap' = FCMPMap
  BY DEF handleReturn, Here, IInv, Position
<1>2. k \in Texts /\ x \in Instrs /\ x[2] = k
  <2>1. k \in Texts
    BY <1>1, Text DEF Position, Walks, N
  <2> QED
    BY <2>1, TextAt
<1>3. Placing
  BY <1>1 DEF Placing
<1>4. p \in Instrs /\ Op(p) = "ret" /\ p \in DOMAIN code
  BY <1>1, <1>2, LastReturnIs DEF ReturnPlace, Tables
<1>5. /\ g.fun = (IF fn.slice THEN "check_error" ELSE "copy_return") /\ g.dest = Null /\ g.reads = Operands(x)
      /\ f.fun = "func_exit" /\ f.dest = Null /\ f.reads = << >>
  BY DEF RuntimeCall
<1> HIDE DEF g, f
<1>6. /\ IsList(cs) /\ Len(cs) \in {1, 2} /\ DOMAIN cs = 1 .. Len(cs) /\ cs[Len(cs)] = f
      /\ Args(x) = << >> => Range(cs) = {f} /\ Len(cs) = 1
      /\ Args(x) # << >> => Range(cs) = {g, f} /\ Len(cs) = 2 /\ cs[1] = g
  <2>1. CASE Args(x) = << >>
    <3>1. cs = <<f>>
      BY <2>1
    <3>2. <<f>> \in Seq({f}) /\ Range(<<f>>) = {f} /\ Len(<<f>>) = 1 /\ DOMAIN <<f>> = 1 .. 1 /\ <<f>>[1] = f
      BY DEF Range
    <3> HIDE DEF cs
    <3> QED
      BY <2>1, <3>1, <3>2 DEF IsList
  <2>2. CASE Args(x) # << >>
    <3>1. cs = <<g, f>>
      <4>1. gives = <<g>>
        BY <2>2
      <4>2. \A a, b : Append(<<a>>, b) = <<a, b>>
        <5> TAKE a, b
        <5>1. <<a>> \in Seq({a, b}) /\ <<a, b>> \in Seq({a, b}) /\ b \in {a, b}
          OBVIOUS
        <5>2. Append(<<a>>, b) \in Seq({a, b}) /\ Len(Append(<<a>>, b)) = 2
          BY <5>1
        <5>3. \A i \in 1 .. 2 : Append(<<a>>, b)[i] = <<a, b>>[i]
          BY <5>1
        <5> QED
          BY <5>1, <5>2, <5>3, SeqEqual
      <4> HIDE DEF gives
      <4> QED
        BY <4>1, <4>2
    <3>2. /\ <<g, f>> \in Seq({g, f}) /\ Range(<<g, f>>) = {g, f} /\ Len(<<g, f>>) = 2
          /\ DOMAIN <<g, f>> = 1 .. 2 /\ <<g, f>>[1] = g /\ <<g, f>>[2] = f
      BY DEF Range
    <3> HIDE DEF cs
    <3> QED
      BY <2>2, <3>1, <3>2 DEF IsList
  <2> QED
    BY <2>1, <2>2
<1> HIDE DEF cs, p
<1>7. \A c \in Range(cs) : c.fun # "clear" /\ (c = f \/ (c = g /\ Args(x) # << >>))
  BY <1>5, <1>6
<1>8. IsList(code[p]) /\ ClearsLast(code[p])
  BY <1>1, <1>4 DEF Tables, CodeInv
<1>9. /\ ClearsLast(code'[p]) /\ Range(code'[p]) = Range(code[p]) \cup Range(cs)
      /\ (\A c \in Range(code[p]) : c.fun = "clear") => code'[p] = cs \o code[p]
      /\ \A z \in DOMAIN code : z # p => code'[z] = code[z]
  <2>1. code'[p] = BeforeClears(code[p], cs) /\ \A z \in DOMAIN code : z # p => code'[z] = code[z]
    BY <1>1, <1>4
  <2>2. IsList(cs) /\ \A c \in Range(cs) : c.fun # "clear"
    BY <1>6, <1>7
  <2>3. ClearsLast(BeforeClears(code[p], cs))
    BY <1>8, <2>2, BeforeThem
  <2>4. Range(BeforeClears(code[p], cs)) = Range(code[p]) \cup Range(cs)
    BY <1>8, <2>2, BeforeThem
  <2>5. (\A c \in Range(code[p]) : c.fun = "clear") => BeforeClears(code[p], cs) = cs \o code[p]
    BY <1>8, <2>2, BeforeThem
  <2> QED
    BY <2>1, <2>3, <2>4, <2>5
<1>10. DOMAIN code = Instrs \cup {Entry(b) : b \in Blocks} /\ \A b : Entry(b) \notin Instrs
  BY <1>1 DEF Tables, Entry, Instrs, Ins
<1>11. Forms'
  <2>1. \A c \in Range(cs) : Form(p, c)
    <3> TAKE c \in Range(cs)
    <3>1. CASE c = f
      BY <1>4, <1>5, <3>1 DEF Form, IsExit
    <3>2. CASE c = g /\ Args(x) # << >>
      <4>1. Len(Args(x)) \in Nat /\ DOMAIN Args(x) = 1 .. Len(Args(x)) /\ Args(x) \in Seq(STRING \X Nat)
        BY <1>1, <1>2, OperandsOf
      <4>2. DOMAIN Operands(x) = DOMAIN Args(x)
        BY DEF Operands
      <4>3. 1 \in DOMAIN Operands(x)
        BY <3>2, <4>1, <4>2, EmptySeq
      <4>4. ReadsOf(g, x)
        BY <1>1, <1>2, <1>5, OperandsRead
      <4>5. OneReturn => p = x
        BY <1>1, <1>2, ReturnsHere DEF p
      <4> HIDE DEF x
      <4> QED
        BY <1>4, <1>5, <3>2, <4>3, <4>4, <4>5 DEF Form, IsGiven
    <3> QED
      BY <1>7, <3>1, <3>2
  <2>2. \A z \in Instrs : \A c \in Range(code'[z]) : c \in Range(code[z]) \/ Form(z, c)
    BY <1>9, <1>10, <2>1
  <2> QED
    BY <1>1, <1>3, <2>2, NewForms
<1>12. (\A z \in Instrs : ClearsLast(code[z]))'
  <2>1. \A z \in Instrs : ClearsLast(code'[z])
    BY <1>9, <1>10 DEF CodeInv
  <2> QED
    BY <1>1, <2>1, SameText
<1>13. \A b \in Blocks : code'[Entry(b)] = code[Entry(b)]
  BY <1>4, <1>9, <1>10
<1>14. Copies'
  BY <1>1, <1>3, <1>13, PlacedCopies
<1>15. Written'
  <2>1. \A z \in Instrs : Range(code[z]) \subseteq Range(code'[z])
    BY <1>9, <1>10
  <2> QED
    BY <1>1, <1>3, <1>13, <2>1, PlacedWritten
<1>16. Taken'
  BY <1>1, SameText DEF CodeInv, Taken
<1>17. Chooses'
  BY <1>1, <1>3, Goes, PlacedChooses DEF Clone
<1>18. Leaves'
  <2>1. /\ Texts' = Texts /\ \A z : Op(z)' = Op(z) /\ Args(z)' = Args(z)
    BY <1>1, SameText
  <2>2. OneReturn' => OneReturn
    BY <1>1, SameText DEF OneReturn
  <2>3. \A j \in Texts : Returned(j)' <=> Returned(j) \/ j = k
    BY <1>1, <1>3, Goes
  <2>4. ASSUME OneReturn, NEW j \in Texts, Op(Ins(j)) = "ret"
        PROVE  IF Returned(j)' THEN /\ OnlyExit(code'[Ins(j)])
                                    /\ ~fn.slice /\ Args(Ins(j)) # << >> => Gives(code'[Ins(j)])
               ELSE \A c \in Range(code'[Ins(j)]) : c.fun = "clear"
    <3>1. p = x
      BY <1>1, <1>2, <2>4, ReturnsHere DEF p
    <3>2. Ins(j) \in Instrs /\ Ins(j)[2] = j /\ stage # "failed"
      BY <1>1, TextAt
    <3>3. IF Returned(j) THEN /\ OnlyExit(code[Ins(j)])
                              /\ ~fn.slice /\ Args(Ins(j)) # << >> => Gives(code[Ins(j)])
          ELSE \A c \in Range(code[Ins(j)]) : c.fun = "clear"
      BY <2>4, <3>2 DEF CodeInv, Leaves
    <3>4. CASE j # k
      <4>1. code'[Ins(j)] = code[Ins(j)]
        BY <1>2, <1>9, <1>10, <3>1, <3>2, <3>4
      <4> QED
        BY <2>3, <3>3, <3>4, <4>1
    <3>5. CASE j = k
      <4>1. ~Returned(k)
        <5>1. k \in Nat
          BY <1>1, <1>2, Text
        <5> QED
          BY <1>1, <5>1 DEF Returned, Clone
      <4>2. \A c \in Range(code[p]) : c.fun = "clear"
        BY <3>1, <3>3, <3>5, <4>1
      <4>3. code'[p] = cs \o code[p]
        BY <1>9, <4>2
      <4> PICK s : s = code[p]
        OBVIOUS
      <4> PICK t : t = code'[p]
        OBVIOUS
      <4> DEFINE R == Range(s) \cup Range(cs)
      <4>4. s \in Seq(R) /\ cs \in Seq(R) /\ Len(s) \in Nat /\ Len(cs) \in Nat /\ \A i \in 1 .. Len(s) : s[i] \in Range(s)
        <5>1. s \in Seq(Range(s)) /\ cs \in Seq(Range(cs))
          BY <1>6, <1>8 DEF IsList
        <5>2. Seq(Range(s)) \subseteq Seq(R) /\ Seq(Range(cs)) \subseteq Seq(R)
          OBVIOUS
        <5> QED
          BY <1>6, <1>8, <5>1, <5>2, ListOf
      <4> HIDE DEF R
      <4>5. /\ t = cs \o s /\ t \in Seq(R) /\ Len(t) = Len(cs) + Len(s)
            /\ \A i \in 1 .. Len(cs) + Len(s) : t[i] = IF i <= Len(cs) THEN cs[i] ELSE s[i - Len(cs)]
        BY <4>3, <4>4, ConcatProperties
      <4>6. DOMAIN t = 1 .. Len(cs) + Len(s)
        BY <4>5, LenProperties
      <4>7. t[Len(cs)] = f /\ Len(cs) \in DOMAIN t
        BY <1>6, <4>4, <4>5, <4>6
      <4>8. \A i \in DOMAIN t : t[i].fun = "func_exit" => i = Len(cs)
        <5> TAKE i \in DOMAIN t
        <5>1. CASE i > Len(cs)
          <6>1. i - Len(cs) \in 1 .. Len(s) /\ t[i] = s[i - Len(cs)]
            BY <4>4, <4>5, <4>6, <5>1
          <6>2. t[i].fun = "clear"
            BY <4>2, <4>4, <6>1
          <6> QED
            BY <6>2
        <5>2. CASE i < Len(cs)
          <6>1. Len(cs) = 2 /\ i = 1 /\ Args(x) # << >>
            BY <1>6, <4>6, <5>2
          <6>2. t[i] = g
            BY <1>6, <4>4, <4>5, <4>6, <6>1
          <6> QED
            BY <1>5, <6>2
        <5> QED
          BY <4>4, <4>6, <5>1, <5>2
      <4>9. OnlyExit(t)
        BY <1>5, <4>7, <4>8 DEF OnlyExit
      <4>10. ~fn.slice /\ Args(x) # << >> => Gives(t)
        BY <1>5, <1>6, <1>9 DEF Gives
      <4> HIDE DEF x
      <4> QED
        BY <2>3, <3>1, <3>5, <4>9, <4>10 DEF x
    <3> QED
      BY <3>4, <3>5
  <2> QED
    BY <1>1, <2>1, <2>2, <2>4 DEF Leaves
<1> QED
  BY <1>1, <1>3, <1>11, <1>12, <1>14, <1>15, <1>16, <1>17, <1>18, PlacedTogether

-----------------------------------------------------------------------------
(* The other steps of the pass.  Where the tables stay, all that is known  *)
(* of an operand stays.                                                    *)
LEMMA SamePointers ==
  ASSUME UNCHANGED <<fn, GEPMap, ConsMap, MInsMap>>
  PROVE  \A v : handleOperand(v)' = handleOperand(v)
<1>1. \A z : Op(z)' = Op(z) /\ Args(z)' = Args(z)
  BY SameText
<1>2. \A v : ThroughCasts(v)' = ThroughCasts(v)
  BY <1>1 DEF ThroughCasts
<1> QED
  BY <1>1, <1>2 DEF handleOperand

(* Where the new phi has a pointer, and for which operand.                 *)
ArmsAt(a, f, x) == {f[j] : j \in {i \in DOMAIN a : a[i] # x}}
Incoming(a, f, x, b) == a[CHOOSE j \in {i \in DOMAIN a : a[i] # x} : f[j] = b]

LEMMA SameArms ==
  ASSUME UNCHANGED <<fn, GEPMap, ConsMap, MInsMap>>
  PROVE  \A x : PhiArms(x)' = PhiArms(x) /\ Incomings(x)' = Incomings(x)
<1>1. \A z : Args(z)' = Args(z) /\ Instr(z)' = Instr(z)
  BY SameText
<1>2. \A v : handleOperand(v)' = handleOperand(v)
  BY SamePointers
<1> TAKE x
<1>3. Incomings(x)' = Incomings(x)
  BY <1>1 DEF Incomings
<1>4. PhiArms(x) = [b \in ArmsAt(Args(x), Instr(x).from, x) |->
                      handleOperand(Incoming(Args(x), Instr(x).from, x, b))]
  BY DEF PhiArms, ArmsAt, Incoming
<1>5. PhiArms(x)' = [b \in ArmsAt(Args(x)', (Instr(x)').from, x) |->
                       handleOperand(Incoming(Args(x), Instr(x).from, x, b))']
  BY DEF PhiArms, ArmsAt, Incoming
<1>6. \A b : handleOperand(Incoming(Args(x), Instr(x).from, x, b))'
             = handleOperand(Incoming(Args(x), Instr(x).from, x, b))
  <2> TAKE b
  <2> PICK v : v = Incoming(Args(x), Instr(x).from, x, b)
    OBVIOUS
  <2>1. Incoming(Args(x), Instr(x).from, x, b)' = v
    BY <1>1 DEF Incoming
  <2>2. handleOperand(Incoming(Args(x), Instr(x).from, x, b))' = handleOperand(v)'
    BY <2>1
  <2> QED
    BY <1>2, <2>2
<1> QED
  BY <1>1, <1>3, <1>4, <1>5, <1>6

LEMMA SameChooses ==
  ASSUME CodeInv, UNCHANGED <<fn, GEPMap, ConsMap, MInsMap, arms>>, stage' \in Clone => stage \in Clone
  PROVE  Chooses'
<1>1. Phis' = Phis /\ \A z : Op(z)' = Op(z) /\ Args(z)' = Args(z) /\ Instr(z)' = Instr(z)
  BY SameText DEF Phis
<1>2. \A v : handleOperand(v)' = handleOperand(v)
  BY SamePointers
<1>3. \A x : PhiArms(x)' = PhiArms(x) /\ Incomings(x)' = Incomings(x)
  BY SameArms
<1>4. Chooses
  BY DEF CodeInv
<1>5. \A x \in DOMAIN arms : Op(x) = "select" => \A k \in DOMAIN Args(x) :
        arms[x][k] # Missing /\ arms[x][k] = handleOperand(Args(x)[k])
  BY <1>4 DEF Chooses
<1>6. stage \in Clone => \A x \in Phis : arms[x] = PhiArms(x) /\ \A v \in Incomings(x) : handleOperand(v) # Missing
  BY <1>4 DEF Chooses
<1>7. \A x \in DOMAIN arms' : Op(x)' = "select" => \A k \in DOMAIN Args(x)' :
        arms'[x][k] # Missing /\ arms'[x][k] = handleOperand(Args(x)[k])'
  BY <1>1, <1>2, <1>5
<1>8. stage' \in Clone => \A x \in Phis' : arms'[x] = PhiArms(x)' /\ \A v \in Incomings(x)' : handleOperand(v)' # Missing
  BY <1>1, <1>2, <1>3, <1>6
<1> QED
  BY <1>7, <1>8 DEF Chooses, Missing

LEMMA SteadyCode ==
  ASSUME IInv, IInv', CodeInv, UNCHANGED <<fn, GEPMap, ConsMap, MInsMap, code>>, OneReturn' => OneReturn,
         stage # "failed", \A k \in Texts : (HandedOut(k)' => HandedOut(k)) /\ (Placed(k)' => Placed(k)),
         \/ stage' = "failed"
         \/ \A k \in Texts : /\ HandedOut(k) => HandedOut(k)'
                             /\ Placed(k) => Placed(k)'
                             /\ Returned(k)' <=> Returned(k),
         stage' \in {"branches", "count", "alloca"} => stage \in {"branches", "count", "alloca"},
         Taken', Chooses'
  PROVE  CodeInv'
<1>0. Position /\ Tables /\ Tables' /\ IsFunction(fn)
  BY DEF IInv, Position
<1>1. /\ Instrs' = Instrs /\ Texts' = Texts /\ Blocks' = Blocks
      /\ \A z : Op(z)' = Op(z) /\ Args(z)' = Args(z) /\ Instr(z)' = Instr(z)
  BY SameText
<1>2. Forms'
  <2>1. \A x \in Instrs : \A c \in Range(code[x]) : Form(x, c)'
    BY <1>0, FormStays DEF CodeInv, Forms
  <2> QED
    BY <1>1, <2>1 DEF Forms
<1>3. Unshared' /\ (\A x \in Instrs : ClearsLast(code[x]))' /\ (fn \in Functions)'
  BY <1>1 DEF CodeInv, Unshared
<1>4. Early'
  <2>1. \A x \in DOMAIN GEPMap : HandedOut(x[2])' \/ stage' = "failed"
    <3> TAKE x \in DOMAIN GEPMap
    <3>1. x[2] \in Texts
      BY <1>0, OperandsOf DEF Tables
    <3> QED
      BY <3>1 DEF CodeInv, Early
  <2> QED
    BY <1>1, <2>1 DEF CodeInv, Early
<1>5. Copies'
  <2>1. (\A b : PhisOf(b)' = PhisOf(b)) /\ \A x : CopyOf(x)' = CopyOf(x)
    BY <1>1 DEF PhisOf, CopyOf
  <2>2. \A b, c : IsCopy(b, c) => IsCopy(b, c)'
    <3> TAKE b, c
    <3> HAVE IsCopy(b, c)
    <3>1. PICK x \in PhisOf(b) : x \in DOMAIN GEPMap /\ c = CopyOf(x) /\ Placed(x[2])
      BY DEF IsCopy
    <3>2. x[2] \in Texts
      BY <1>0, OperandsOf DEF PhisOf
    <3>3. Placed(x[2])' \/ stage' = "failed"
      BY <3>1, <3>2
    <3> QED
      BY <2>1, <3>1, <3>3 DEF IsCopy
  <2> QED
    BY <1>1, <2>2 DEF CodeInv, Copies, Entry, Copied
<1>6. Written'
  <2>1. \A x : CopyOf(x)' = CopyOf(x)
    BY DEF CopyOf
  <2> QED
    BY <1>1, <2>1 DEF CodeInv, Written
<1>7. Leaves'
  <2>1. stage' # "failed" => \A k \in Texts : Returned(k)' <=> Returned(k)
    OBVIOUS
  <2> QED
    BY <1>1, <2>1 DEF CodeInv, Leaves
<1> QED
  BY <1>2, <1>3, <1>4, <1>5, <1>6, <1>7 DEF CodeInv

LEMMA BranchCode == ASSUME IInv, IInv', CodeInv, handleBranch PROVE CodeInv'
<1>1. /\ stage = "branches" /\ stage' = "count"
      /\ UNCHANGED <<fn, at, total, GEPMap, ConsMap, MInsMap, arms, code>>
  BY DEF handleBranch
<1>2. \A k : ~HandedOut(k)' /\ ~HandedOut(k) /\ ~Placed(k) /\ ~Placed(k)' /\ ~Returned(k) /\ ~Returned(k)'
  BY <1>1 DEF HandedOut, Placed, Returned, Clone
<1>3. OneReturn' => OneReturn
  BY <1>1, SameText DEF OneReturn
<1>4. Taken'
  <2> DEFINE users(x) == {k \in DOMAIN fn.text : fn.text[k].op = "br" /\ fn.text[k].cond = x}
  <2>0. N \in Nat /\ Texts = 1 .. N
    BY Text DEF IInv, Position
  <2>1. FCMPMap' = [x \in {y \in Instrs : users(y) # {}} |-> Ins(Min(users(x)))]
    BY DEF handleBranch
  <2>2. ASSUME NEW x, users(x) # {}
        PROVE  Ins(Min(users(x))) \in Instrs /\ Instr(Ins(Min(users(x)))).cond = x
    <3>1. users(x) \subseteq Nat
      BY <2>0 DEF Texts
    <3>2. Min(users(x)) \in users(x)
      <4> HIDE DEF users
      <4> QED
        BY <2>2, <3>1, Minimum
    <3>3. Min(users(x)) \in Texts /\ fn.text[Min(users(x))].cond = x
      BY <3>2 DEF Texts
    <3> HIDE DEF users
    <3> QED
      BY <3>3, TextAt
  <2>3. Instrs' = Instrs /\ \A z : Instr(z)' = Instr(z)
    BY <1>1, SameText
  <2> HIDE DEF users
  <2>4. \A x \in DOMAIN FCMPMap' : FCMPMap'[x] \in Instrs /\ Instr(FCMPMap'[x]).cond = x
    BY <2>1, <2>2
  <2> QED
    BY <2>3, <2>4 DEF Taken
<1>5. Chooses'
  BY <1>1, SameChooses DEF Clone
<1> QED
  BY <1>1, <1>2, <1>3, <1>4, <1>5, SteadyCode

LEMMA CountCode == ASSUME IInv, IInv', CodeInv, getTotalFPInst PROVE CodeInv'
<1>1. /\ stage = "count" /\ stage' \in {"count", "alloca"} /\ (stage' = "alloca" => at' = 1)
      /\ total' = total + Count(Ins(at)) /\ UNCHANGED <<fn, GEPMap, ConsMap, MInsMap, FCMPMap, arms, code>>
  BY DEF getTotalFPInst, Advance, Following
<1>2. \A k \in Texts : ~HandedOut(k)' /\ ~HandedOut(k) /\ ~Placed(k) /\ ~Placed(k)' /\ ~Returned(k) /\ ~Returned(k)'
  <2>1. \A k \in Texts : k \in Nat /\ k >= 1
    BY Text DEF IInv, Position
  <2> QED
    BY <1>1, <2>1 DEF HandedOut, Placed, Returned, Clone
<1>3. OneReturn' => OneReturn
  <2>1. Count(Ins(at)) \in Nat /\ total \in Nat
    <3>1. IsFunction(fn) /\ at \in Texts /\ total \in Nat
      BY <1>1, Text DEF IInv, Position, Walks, N
    <3> QED
      BY <3>1, TextAt, Counts
  <2>2. total' = 0 => total = 0
    BY <1>1, <2>1
  <2> QED
    BY <1>1, <2>2, SameText DEF OneReturn
<1>4. Taken'
  BY <1>1, SameText DEF CodeInv, Taken
<1>5. Chooses'
  BY <1>1, SameChooses DEF Clone
<1> QED
  BY <1>1, <1>2, <1>3, <1>4, <1>5, SteadyCode

LEMMA FailCode ==
  ASSUME IInv, IInv', CodeInv, stage' = "failed", stage # "failed",
         UNCHANGED <<fn, total, GEPMap, ConsMap, MInsMap, FCMPMap, arms, code>>
  PROVE  CodeInv'
<1>1. \A k : ~HandedOut(k)' /\ ~Placed(k)' /\ ~Returned(k)'
  BY DEF HandedOut, Placed, Returned, Clone
<1>2. OneReturn' => OneReturn
  BY SameText DEF OneReturn
<1>3. Taken'
  BY SameText DEF CodeInv, Taken
<1>4. Chooses'
  BY SameChooses DEF Clone
<1> QED
  BY <1>1, <1>2, <1>3, <1>4, SteadyCode

LEMMA InitCode == Init => CodeInv
<1> SUFFICES ASSUME Init PROVE CodeInv
  OBVIOUS
<1>1. fn \in Functions /\ IsFunction(fn)
  BY FunctionsAssumption DEF Init
<1>2. /\ stage = "branches" /\ DOMAIN GEPMap = {} /\ DOMAIN ConsMap = {} /\ DOMAIN FCMPMap = {} /\ DOMAIN arms = {}
      /\ \A x \in Instrs : code[x] = IF x = LastReturn THEN ArgClears ELSE << >>
      /\ \A b \in Blocks : code[Entry(b)] = << >>
  <2>1. LastReturn \in Instrs
    BY <1>1, LastReturnIs
  <2>2. \A b : Entry(b) # LastReturn
    BY <2>1 DEF Entry, Instrs, Ins
  <2>3. /\ stage = "branches" /\ GEPMap = << >> /\ ConsMap = << >> /\ FCMPMap = << >> /\ arms = << >>
        /\ code = [x \in Instrs \cup {Entry(b) : b \in Blocks} |-> IF x = LastReturn THEN ArgClears ELSE << >>]
    BY DEF Init
  <2> QED
    BY <2>2, <2>3
<1>3. /\ \A c \in Range(ArgClears) : c.fun = "clear" /\ c.reads = << >> /\ fn.slice
      /\ \A j \in DOMAIN ArgClears : ArgClears[j] \in Range(ArgClears)
  <2>1. \A j \in DOMAIN ArgClears : ArgClears[j] \in Range(ArgClears)
    BY DEF Range
  <2>2. CASE ~fn.slice
    BY <2>1, <2>2, NoCalls DEF ArgClears
  <2>3. CASE fn.slice
    <3>1. ArgClears = [n \in 1 .. fn.args |-> RuntimeCall("clear", << >>, ArgPtr(n))]
      BY <2>3 DEF ArgClears
    <3>2. \A c \in Range(ArgClears) : \E n \in 1 .. fn.args : c = RuntimeCall("clear", << >>, ArgPtr(n))
      BY <3>1 DEF Range
    <3> QED
      BY <2>1, <2>3, <3>2 DEF RuntimeCall
  <2> QED
    BY <2>2, <2>3
<1>4. \A k : ~HandedOut(k) /\ ~Placed(k) /\ ~Returned(k)
  BY <1>2 DEF HandedOut, Placed, Returned, Clone
<1>5. \A x \in Instrs : \A c \in Range(code[x]) : x = LastReturn /\ c.fun = "clear" /\ c.reads = << >> /\ fn.slice
  BY <1>2, <1>3, NoCalls
<1>6. Unshared /\ Taken /\ Chooses
  BY <1>2 DEF Unshared, Taken, Chooses, Clone
<1>7. Early
  BY <1>2, <1>5 DEF Early
<1>8. Forms
  BY <1>5 DEF Forms, Form, IsClear
<1>9. \A x \in Instrs : ClearsLast(code[x])
  BY <1>2, <1>3 DEF ClearsLast
<1>10. Copies
  BY <1>2 DEF Copies
<1>11. Written
  BY <1>4 DEF Written
<1>12. Leaves
  <2>1. \A k \in Texts : ~Returned(k) /\ \A c \in Range(code[Ins(k)]) : c.fun = "clear"
    BY <1>4, <1>5, TextAt
  <2> QED
    BY <2>1 DEF Leaves
<1> QED
  BY <1>1, <1>6, <1>7, <1>8, <1>9, <1>10, <1>11, <1>12 DEF CodeInv

LEMMA NewPhiCode == ASSUME IInv, IInv', CodeInv, handleNewPhi PROVE CodeInv'
<1> DEFINE phis == {x \in Instrs : Op(x) = "phi"}
           found == \A x \in phis : \A v \in Incomings(x) : handleOperand(v) # Missing
<1>1. stage = "newphi" /\ UNCHANGED <<fn, total, GEPMap, ConsMap, MInsMap, FCMPMap, code>>
  BY DEF handleNewPhi
<1>2. CASE ~found
  <2>1. stage' = "failed" /\ arms' = arms
    BY <1>2 DEF handleNewPhi
  <2> QED
    BY <1>1, <2>1, FailCode
<1>3. CASE found
  <2>1. /\ stage' = "run"
        /\ arms' = [x \in DOMAIN arms \cup phis |-> IF x \in phis THEN PhiArms(x) ELSE arms[x]]
    BY <1>3 DEF handleNewPhi
  <2>2. \A k : /\ HandedOut(k) /\ HandedOut(k)' /\ Placed(k) /\ Placed(k)' /\ Returned(k) /\ Returned(k)'
    BY <1>1, <2>1 DEF HandedOut, Placed, Returned, Clone
  <2>3. /\ Phis' = Phis /\ phis = Phis
        /\ \A z : Op(z)' = Op(z) /\ Args(z)' = Args(z) /\ Instr(z)' = Instr(z)
    BY <1>1, SameText DEF Phis
  <2>4. OneReturn' => OneReturn
    BY <1>1, SameText DEF OneReturn
  <2>5. Taken'
    BY <1>1, SameText DEF CodeInv, Taken
  <2>6. (\A v : handleOperand(v)' = handleOperand(v)) /\ \A x : PhiArms(x)' = PhiArms(x) /\ Incomings(x)' = Incomings(x)
    BY <1>1, SamePointers, SameArms
  <2>7. Chooses'
    <3>1. ASSUME NEW x \in DOMAIN arms', Op(x) = "select", NEW k \in DOMAIN Args(x)
          PROVE  arms'[x][k] # Missing /\ arms'[x][k] = handleOperand(Args(x)[k])
      <4>1. x \in DOMAIN arms /\ arms'[x] = arms[x]
        BY <2>1, <3>1
      <4> QED
        BY <3>1, <4>1 DEF CodeInv, Chooses
    <3>2. \A x \in Phis : arms'[x] = PhiArms(x) /\ \A v \in Incomings(x) : handleOperand(v) # Missing
      BY <1>3, <2>1, <2>3
    <3>3. \A x \in DOMAIN arms' : Op(x)' = "select" => \A k \in DOMAIN Args(x)' :
            arms'[x][k] # Missing /\ arms'[x][k] = handleOperand(Args(x)[k])'
      BY <2>3, <2>6, <3>1
    <3>4. \A x \in Phis' : arms'[x] = PhiArms(x)' /\ \A v \in Incomings(x)' : handleOperand(v)' # Missing
      BY <2>3, <2>6, <3>2
    <3> QED
      BY <3>3, <3>4 DEF Chooses, Missing
  <2> QED
    BY <1>1, <2>1, <2>2, <2>4, <2>5, <2>7, SteadyCode
<1> QED
  BY <1>2, <1>3

(* The steps of the clone leave the tables alone.                          *)
LEMMA CloneCode ==
  ASSUME IInv, IInv', CodeInv, stage \in Clone, stage' \in Clone,
         UNCHANGED <<fn, total, GEPMap, ConsMap, MInsMap, FCMPMap, arms, code>>
  PROVE  CodeInv'
<1>1. \A k : HandedOut(k) /\ HandedOut(k)' /\ Placed(k) /\ Placed(k)' /\ Returned(k) /\ Returned(k)'
  BY DEF HandedOut, Placed, Returned, Clone
<1>2. OneReturn' => OneReturn
  BY SameText DEF OneReturn
<1>3. Taken'
  BY SameText DEF CodeInv, Taken
<1>4. Chooses'
  BY SameChooses
<1> QED
  BY <1>1, <1>2, <1>3, <1>4, SteadyCode DEF Clone

-----------------------------------------------------------------------------
(* The walk that hands out entries gives each value one of its own.        *)
LEMMA OwnEntries ==
  ASSUME Position, NEW x \in Instrs
  PROVE  /\ \A k \in Constants(x) : ConstantEntry(x, k) \in Nat /\ ConstantEntry(x, k) > index + Result(x)
         /\ \A j, k \in Constants(x) : j < k => ConstantEntry(x, j) < ConstantEntry(x, k)
<1> DEFINE T(k) == {j \in Constants(x) : j <= k}
<1>1. /\ IsFiniteSet(Constants(x)) /\ Result(x) \in {0, 1} /\ index \in Nat
      /\ Constants(x) \subseteq DOMAIN Args(x)
  BY Counts DEF Position
<1>2. \A k \in Constants(x) : k \in Nat
  BY <1>1, OperandsOf DEF Position
<1>3. \A k \in Constants(x) : IsFiniteSet(T(k)) /\ Cardinality(T(k)) \in Nat
  <2> TAKE k \in Constants(x)
  <2>1. T(k) \subseteq Constants(x)
    OBVIOUS
  <2> HIDE DEF T
  <2> QED
    BY <1>1, <2>1, FS_Subset, FS_CardinalityType
<1>4. \A k \in Constants(x) : Cardinality(T(k)) > 0
  <2> TAKE k \in Constants(x)
  <2>1. k \in T(k)
    BY <1>2
  <2> HIDE DEF T
  <2>2. Cardinality(T(k)) # 0
    BY <1>3, <2>1, FS_EmptySet
  <2> QED
    BY <1>3, <2>2
<1>5. \A j, k \in Constants(x) : j < k => Cardinality(T(j)) < Cardinality(T(k))
  <2> SUFFICES ASSUME NEW j \in Constants(x), NEW k \in Constants(x), j < k
               PROVE  Cardinality(T(j)) < Cardinality(T(k))
    OBVIOUS
  <2>1. T(j) \subseteq T(k) /\ k \in T(k) /\ k \notin T(j)
    BY <1>2
  <2> HIDE DEF T
  <2>2. Cardinality(T(j)) <= Cardinality(T(k)) /\ Cardinality(T(j)) # Cardinality(T(k))
    BY <1>3, <2>1, FS_Subset
  <2> QED
    BY <1>3, <2>2
<1>6. \A k : ConstantEntry(x, k) = index + Result(x) + Cardinality(T(k))
  BY DEF ConstantEntry
<1> HIDE DEF T
<1> QED
  BY <1>1, <1>3, <1>4, <1>5, <1>6

LEMMA CreateUnshared == ASSUME IInv, CodeInv, createGEP PROVE Unshared'
<1> DEFINE x == Ins(at)
           cs == {Args(x)[k] : k \in Constants(x)} \ DOMAIN ConsMap
           E(v) == ConstantEntry(x, FirstOperand(x, v))
<1>0. /\ Position /\ Tables /\ IsFunction(fn) /\ stage = "alloca" /\ UNCHANGED fn /\ index \in Nat /\ Unshared
      /\ GEPMap' = IF Result(x) = 1 THEN Extend(GEPMap, x, index + 1) ELSE GEPMap
      /\ ConsMap' = IF Op(x) = "conv" THEN Extend(ConsMap, x, index + 1)
                    ELSE [v \in DOMAIN ConsMap \cup cs |-> IF v \in cs THEN E(v) ELSE ConsMap[v]]
  BY DEF IInv, createGEP, Position, CodeInv
<1>1. x \in Instrs /\ x[1] = "ins"
  <2>1. at \in Texts
    BY <1>0, Text DEF Position, N, Walks
  <2> QED
    BY <2>1, TextAt
<1>2. /\ Result(x) \in {0, 1} /\ (Op(x) = "conv" => Result(x) = 1)
      /\ \A z \in DOMAIN GEPMap : GEPMap[z] \in 1 .. index
      /\ \A z \in DOMAIN ConsMap : ConsMap[z] \in 1 .. index
      /\ \A z \in DOMAIN ConsMap : z[1] = "const" \/ (z \in Instrs /\ Op(z) = "conv" /\ z[1] = "ins")
  BY <1>0 DEF Tables, Result, HasEntry, Instrs, Ins
<1>3. ASSUME NEW v \in cs
      PROVE  v[1] = "const" /\ E(v) \in Nat /\ E(v) > index + Result(x) /\ \A w \in cs : E(v) = E(w) => v = w
  <2>1. \A w \in cs : FirstOperand(x, w) \in Constants(x) /\ Args(x)[FirstOperand(x, w)] = w /\ w[1] = "const"
    <3> TAKE w \in cs
    <3> DEFINE T == {k \in Constants(x) : Args(x)[k] = w}
    <3>1. PICK k \in Constants(x) : Args(x)[k] = w
      OBVIOUS
    <3>2. Constants(x) \subseteq DOMAIN Args(x)
      BY <1>0, <1>1, Counts
    <3>3. w \in Range(Args(x)) /\ Op(w) = "const"
      BY <1>0, <1>1, <3>1, <3>2, OperandsOf DEF Constants, OperandsIn
    <3>4. IsOperand(fn, w)
      BY <1>0, <1>1, <3>3, OperandsOf
    <3>5. w[1] = "const"
      BY <1>0, <3>3, <3>4, OperandKinds DEF Valued, Ops
    <3>6. T \subseteq Nat /\ T # {}
      BY <1>0, <1>1, <3>1, <3>2, OperandsOf
    <3>7. FirstOperand(x, w) \in T
      BY <3>6, Minimum DEF FirstOperand
    <3> QED
      BY <3>5, <3>7
  <2> HIDE DEF cs, x
  <2>2. \A k \in Constants(x) : ConstantEntry(x, k) \in Nat /\ ConstantEntry(x, k) > index + Result(x)
    BY <1>0, <1>1, OwnEntries
  <2>3. \A j, k \in Constants(x) : j < k => ConstantEntry(x, j) < ConstantEntry(x, k)
    BY <1>0, <1>1, OwnEntries
  <2>4. \A k \in Constants(x) : k \in Nat
    BY <1>0, <1>1, Counts, OperandsOf
  <2>5. \A w \in cs : E(v) = E(w) => v = w
    <3> TAKE w \in cs
    <3> HAVE E(v) = E(w)
    <3> DEFINE j == FirstOperand(x, v)
               k == FirstOperand(x, w)
    <3>1. j \in Constants(x) /\ k \in Constants(x) /\ Args(x)[j] = v /\ Args(x)[k] = w
      BY <2>1
    <3>2. ConstantEntry(x, j) = ConstantEntry(x, k)
      OBVIOUS
    <3> HIDE DEF j, k
    <3>3. ~(j < k) /\ ~(k < j) /\ j \in Nat /\ k \in Nat
      BY <2>2, <2>3, <2>4, <3>1, <3>2
    <3> QED
      BY <3>1, <3>3
  <2> QED
    BY <2>1, <2>2, <2>5
<1> HIDE DEF x, cs, E
<1>4. /\ \A z \in DOMAIN GEPMap' : (z \in DOMAIN GEPMap /\ GEPMap'[z] = GEPMap[z]) \/ (z = x /\ Result(x) = 1 /\ GEPMap'[z] = index + 1)
      /\ \A z \in DOMAIN GEPMap : z # x \/ Result(x) = 0 => z \in DOMAIN GEPMap' /\ GEPMap'[z] = GEPMap[z]
      /\ Result(x) = 1 => x \in DOMAIN GEPMap' /\ GEPMap'[x] = index + 1
  BY <1>0, <1>2 DEF Extend
<1>5. \A v \in DOMAIN ConsMap' :
        \/ v \in DOMAIN ConsMap /\ ConsMap'[v] = ConsMap[v] /\ (Op(x) = "conv" => v # x)
        \/ v \in cs /\ ConsMap'[v] = E(v)
        \/ Op(x) = "conv" /\ v = x /\ ConsMap'[v] = index + 1
  <2>1. CASE Op(x) = "conv"
    BY <1>0, <2>1 DEF Extend
  <2>2. CASE Op(x) # "conv"
    <3>1. ConsMap' = [v \in DOMAIN ConsMap \cup cs |-> IF v \in cs THEN E(v) ELSE ConsMap[v]]
      BY <1>0, <2>2
    <3> QED
      BY <2>2, <3>1
  <2> QED
    BY <2>1, <2>2
<1>6. /\ \A y, z \in DOMAIN GEPMap : GEPMap[y] = GEPMap[z] => y = z
      /\ \A v, w \in DOMAIN ConsMap : ConsMap[v] = ConsMap[w] => v = w
      /\ \A v \in DOMAIN ConsMap : v[1] = "const" => \A y \in DOMAIN GEPMap : GEPMap[y] # ConsMap[v]
      /\ \A v \in DOMAIN ConsMap : v[1] # "const" => v \in DOMAIN GEPMap /\ GEPMap[v] = ConsMap[v]
  BY <1>0 DEF Unshared
<1>7. \A y, z \in DOMAIN GEPMap' : GEPMap'[y] = GEPMap'[z] => y = z
  <2> TAKE y, z \in DOMAIN GEPMap'
  <2> HAVE GEPMap'[y] = GEPMap'[z]
  <2>1. (y \in DOMAIN GEPMap => GEPMap[y] # index + 1) /\ (z \in DOMAIN GEPMap => GEPMap[z] # index + 1)
    BY <1>0, <1>2
  <2> QED
    BY <1>4, <1>6, <2>1
<1>8. \A v, w \in DOMAIN ConsMap' : ConsMap'[v] = ConsMap'[w] => v = w
  <2> TAKE v, w \in DOMAIN ConsMap'
  <2> HAVE ConsMap'[v] = ConsMap'[w]
  <2>1. \A u \in DOMAIN ConsMap : ConsMap[u] <= index /\ ConsMap[u] \in Nat
    BY <1>0, <1>2
  <2>2. \A u \in cs : E(u) \in Nat /\ E(u) > index
    BY <1>0, <1>2, <1>3
  <2>3. \A u \in cs : Op(x) # "conv" \/ E(u) > index + 1
    BY <1>0, <1>2, <1>3
  <2>4. CASE v \in DOMAIN ConsMap /\ ConsMap'[v] = ConsMap[v]
    <3>1. CASE w \in DOMAIN ConsMap /\ ConsMap'[w] = ConsMap[w]
      BY <1>6, <2>4, <3>1
    <3>2. CASE w \in cs /\ ConsMap'[w] = E(w)
      BY <1>0, <2>1, <2>2, <2>4, <3>2
    <3>3. CASE ConsMap'[w] = index + 1
      BY <1>0, <2>1, <2>4, <3>3
    <3> QED
      BY <1>5, <3>1, <3>2, <3>3
  <2>5. CASE v \in cs /\ ConsMap'[v] = E(v)
    <3>1. CASE w \in DOMAIN ConsMap /\ ConsMap'[w] = ConsMap[w]
      BY <1>0, <2>1, <2>2, <2>5, <3>1
    <3>2. CASE w \in cs /\ ConsMap'[w] = E(w)
      BY <1>3, <2>5, <3>2
    <3>3. CASE Op(x) = "conv" /\ ConsMap'[w] = index + 1
      BY <1>0, <2>2, <2>3, <2>5, <3>3
    <3> QED
      BY <1>5, <3>1, <3>2, <3>3
  <2>6. CASE Op(x) = "conv" /\ v = x /\ ConsMap'[v] = index + 1
    BY <1>0, <1>5, <2>1, <2>3, <2>6
  <2> QED
    BY <1>5, <2>4, <2>5, <2>6
<1>9. ASSUME NEW v \in DOMAIN ConsMap'
      PROVE  IF v[1] = "const" THEN \A y \in DOMAIN GEPMap' : GEPMap'[y] # ConsMap'[v]
             ELSE v \in DOMAIN GEPMap' /\ GEPMap'[v] = ConsMap'[v]
  <2>1. CASE v \in DOMAIN ConsMap /\ ConsMap'[v] = ConsMap[v] /\ (Op(x) = "conv" => v # x)
    <3>1. CASE v[1] = "const"
      BY <1>0, <1>2, <1>4, <1>6, <2>1, <3>1
    <3>2. CASE v[1] # "const"
      <4>1. Op(v) = "conv" /\ v # x
        BY <1>2, <2>1, <3>2
      <4> QED
        BY <1>4, <1>6, <2>1, <3>2, <4>1
    <3> QED
      BY <3>1, <3>2
  <2>2. CASE v \in cs /\ ConsMap'[v] = E(v)
    <3>1. v[1] = "const" /\ E(v) \in Nat /\ E(v) > index + Result(x)
      BY <1>3, <2>2
    <3> QED
      BY <1>0, <1>2, <1>4, <2>2, <3>1
  <2>3. CASE Op(x) = "conv" /\ v = x /\ ConsMap'[v] = index + 1
    BY <1>1, <1>2, <1>4, <2>3
  <2> QED
    BY <1>5, <2>1, <2>2, <2>3
<1> QED
  BY <1>7, <1>8, <1>9 DEF Unshared

(* What it inserts: the new metadata of a converted value, and calls that  *)
(* clear.                                                                  *)
LEMMA CreateInserts ==
  ASSUME IInv, createGEP, NEW x, x = Ins(at)
  PROVE  /\ \A z \in Instrs : \A c \in Range(code'[z]) :
              \/ c \in Range(code[z])
              \/ /\ z = x /\ Op(x) = "conv" /\ c.fun = "store_tempmeta" /\ c.reads = << >>
                 /\ c.dest = Slot(index + 1)
              \/ z = LastReturn /\ c.fun = "clear" /\ c.reads = << >> /\ c.dest[1] = "slot"
         /\ \A z \in Instrs : Range(code[z]) \subseteq Range(code'[z])
         /\ Op(x) = "conv" => \E c \in Range(code'[x]) : c.fun = "store_tempmeta"
         /\ \A b \in Blocks : code'[Entry(b)] = code[Entry(b)]
<1> DEFINE n == Result(x) + Cardinality(Constants(x))
           C == RuntimeCall("store_tempmeta", << >>, Slot(index + 1))
           mid == [code EXCEPT ![x] = IF Op(x) = "conv" THEN Append(@, C) ELSE @]
<1>0. Position /\ Tables /\ IsFunction(fn) /\ stage = "alloca"
  BY DEF IInv, createGEP, Position
<1>1. x \in Instrs
  <2>1. at \in Texts
    BY <1>0, Text DEF Position, N, Walks
  <2> QED
    BY <2>1, TextAt
<1>2. n \in Nat
  BY <1>0, <1>1, Counts
<1>3. /\ DOMAIN code = Instrs \cup {Entry(b) : b \in Blocks} /\ \A z \in DOMAIN code : IsList(code[z])
      /\ LastReturn \in Instrs /\ \A b : Entry(b) \notin Instrs
  BY <1>0, LastReturnIs DEF Tables, Entry, Instrs, Ins
<1>4. code' = [mid EXCEPT ![LastReturn] = @ \o Clears(n)]
  BY DEF createGEP
<1>5. IsList(Clears(n)) /\ \A c \in Range(Clears(n)) : c.fun = "clear" /\ c.reads = << >> /\ c.dest[1] = "slot"
  <2> DEFINE T == {RuntimeCall("clear", << >>, Slot(index + k)) : k \in 1 .. n}
  <2>1. Clears(n) \in [1 .. n -> T]
    BY DEF Clears
  <2>2. \A c \in T : c.fun = "clear" /\ c.reads = << >> /\ c.dest[1] = "slot"
    BY DEF RuntimeCall, Slot
  <2> HIDE DEF T, n
  <2> QED
    BY <1>2, <2>1, <2>2, Clearing
<1>6. C.fun = "store_tempmeta" /\ C.reads = << >> /\ C.dest = Slot(index + 1)
  BY DEF RuntimeCall
<1>7. DOMAIN mid = DOMAIN code /\ \A z \in DOMAIN code : z # x => mid[z] = code[z]
  BY <1>3
<1>8. /\ IsList(mid[x])
      /\ Op(x) = "conv" => Range(mid[x]) = Range(code[x]) \cup {C}
      /\ Op(x) # "conv" => Range(mid[x]) = Range(code[x])
  <2> HIDE DEF C
  <2>1. mid[x] = IF Op(x) = "conv" THEN Append(code[x], C) ELSE code[x]
    BY <1>1, <1>3
  <2>2. IsList(code[x])
    BY <1>1, <1>3
  <2> HIDE DEF mid
  <2> QED
    BY <2>1, <2>2, Appended
<1> HIDE DEF mid, C, n
<1>9. /\ Range(code'[LastReturn]) = Range(mid[LastReturn]) \cup Range(Clears(n))
      /\ \A z \in DOMAIN code : z # LastReturn => code'[z] = mid[z]
  <2>1. code'[LastReturn] = mid[LastReturn] \o Clears(n) /\ \A z \in DOMAIN code : z # LastReturn => code'[z] = mid[z]
    BY <1>3, <1>4, <1>7
  <2>2. IsList(mid[LastReturn])
    BY <1>3, <1>7, <1>8
  <2> QED
    BY <1>5, <2>1, <2>2, Joined
<1>10. \A z \in Instrs : /\ Range(code[z]) \subseteq Range(mid[z]) /\ Range(mid[z]) \subseteq Range(code'[z])
                         /\ \A c \in Range(mid[z]) : c \in Range(code[z]) \/ (z = x /\ Op(x) = "conv" /\ c = C)
                         /\ \A c \in Range(code'[z]) : c \in Range(mid[z]) \/ (z = LastReturn /\ c \in Range(Clears(n)))
  BY <1>3, <1>7, <1>8, <1>9
<1>11. \A z \in Instrs : \A c \in Range(code'[z]) :
         \/ c \in Range(code[z])
         \/ /\ z = x /\ Op(x) = "conv" /\ c.fun = "store_tempmeta" /\ c.reads = << >>
            /\ c.dest = Slot(index + 1)
         \/ z = LastReturn /\ c.fun = "clear" /\ c.reads = << >> /\ c.dest[1] = "slot"
  BY <1>5, <1>6, <1>10
<1>12. \A z \in Instrs : Range(code[z]) \subseteq Range(code'[z])
  BY <1>10
<1>13. Op(x) = "conv" => \E c \in Range(code'[x]) : c.fun = "store_tempmeta"
  BY <1>1, <1>6, <1>8, <1>10
<1>14. \A b \in Blocks : code'[Entry(b)] = code[Entry(b)]
  <2>1. \A b \in Blocks : Entry(b) \in DOMAIN code /\ Entry(b) # x /\ Entry(b) # LastReturn
    BY <1>1, <1>3
  <2> QED
    BY <1>7, <1>9, <2>1
<1> QED
  BY <1>11, <1>12, <1>13, <1>14

LEMMA CreateCode == ASSUME IInv, IInv', CodeInv, createGEP PROVE CodeInv'
<1> PICK x : x = Ins(at)
  OBVIOUS
<1>0. /\ Position /\ Tables /\ Pointing /\ IsFunction(fn) /\ stage = "alloca" /\ index \in Nat
      /\ UNCHANGED <<fn, total, MInsMap, FCMPMap, arms>> /\ Advance /\ DOMAIN MInsMap = {}
      /\ GEPMap' = IF Result(x) = 1 THEN Extend(GEPMap, x, index + 1) ELSE GEPMap
  BY DEF IInv, createGEP, Position, Tables
<1>1. at \in Texts /\ at \in Nat /\ x \in Instrs /\ x[2] = at /\ \A k \in Texts : k \in Nat /\ k >= 1
  <2>1. at \in Texts
    BY <1>0, Text DEF Position, N, Walks
  <2> QED
    BY <1>0, <2>1, Text, TextAt
<1>2. /\ stage' \in {"alloca", "instructions"} /\ \A k : ~Placed(k) /\ ~Returned(k)
      /\ \A k \in Texts : ~Placed(k)' /\ ~Returned(k)' /\ (HandedOut(k)' <=> HandedOut(k) \/ k = at)
  <2>1. \/ stage' = "alloca" /\ at' = at + 1
        \/ stage' = "instructions" /\ at' = 1 /\ at = N /\ Texts = 1 .. N
    BY <1>0, Text DEF Advance, Following, N
  <2>2. \A k : ~Placed(k) /\ ~Returned(k)
    BY <1>0 DEF Placed, Returned, Clone
  <2>3. \A k \in Texts : ~Placed(k)' /\ ~Returned(k)'
    BY <1>1, <2>1 DEF Placed, Returned, Clone
  <2>4. \A k \in Texts : HandedOut(k)' <=> HandedOut(k) \/ k = at
    <3> TAKE k \in Texts
    <3>1. HandedOut(k) <=> k < at
      BY <1>0 DEF HandedOut, Clone
    <3>2. CASE stage' = "alloca" /\ at' = at + 1
      <4>1. HandedOut(k)' <=> k < at + 1
        BY <3>2 DEF HandedOut, Clone
      <4> QED
        BY <1>1, <3>1, <4>1
    <3>3. CASE stage' = "instructions" /\ at = N /\ Texts = 1 .. N
      <4>1. HandedOut(k)' /\ k <= at
        BY <1>0, <1>1, <3>3, Text DEF HandedOut
      <4> QED
        BY <1>1, <3>1, <4>1
    <3> QED
      BY <2>1, <3>2, <3>3
  <2> QED
    BY <2>1, <2>2, <2>3, <2>4
<1>3. /\ Instrs' = Instrs /\ Texts' = Texts /\ Blocks' = Blocks /\ LastReturn' = LastReturn
      /\ \A z : Op(z)' = Op(z) /\ Args(z)' = Args(z) /\ Instr(z)' = Instr(z)
  BY <1>0, SameText
<1>4. /\ \A z \in DOMAIN GEPMap : z # x /\ z \in DOMAIN GEPMap' /\ GEPMap'[z] = GEPMap[z]
      /\ Result(x) = 1 => x \in DOMAIN GEPMap' /\ GEPMap'[x] = index + 1
      /\ \A z \in DOMAIN GEPMap' : z \in DOMAIN GEPMap \/ z = x
  <2>1. x \notin DOMAIN GEPMap
    <3>1. ~HandedOut(at)
      BY <1>0, <1>1 DEF HandedOut, Clone
    <3> QED
      BY <1>0, <1>1, <3>1 DEF CodeInv, Early
  <2> QED
    BY <1>0, <2>1 DEF Extend
<1>5. \A z \in Instrs : \A c \in Range(code'[z]) :
         \/ c \in Range(code[z])
         \/ /\ z = x /\ Op(x) = "conv" /\ c.fun = "store_tempmeta" /\ c.reads = << >>
            /\ c.dest = Slot(index + 1)
         \/ z = LastReturn /\ c.fun = "clear" /\ c.reads = << >> /\ c.dest[1] = "slot"
  BY CreateInserts
<1>6. /\ \A z \in Instrs : Range(code[z]) \subseteq Range(code'[z])
      /\ Op(x) = "conv" => \E c \in Range(code'[x]) : c.fun = "store_tempmeta"
      /\ \A b \in Blocks : code'[Entry(b)] = code[Entry(b)]
  <2>1. \A z \in Instrs : Range(code[z]) \subseteq Range(code'[z])
    BY CreateInserts
  <2>2. Op(x) = "conv" => \E c \in Range(code'[x]) : c.fun = "store_tempmeta"
    BY CreateInserts
  <2>3. \A b \in Blocks : code'[Entry(b)] = code[Entry(b)]
    BY CreateInserts
  <2> QED
    BY <2>1, <2>2, <2>3
<1>7. ASSUME NEW z \in Instrs, NEW c \in Range(code'[z])
      PROVE  /\ c.fun \in {"clear", "store_tempmeta"} /\ c.reads = << >>
             /\ IsClear(z, c)' \/ IsWrite(z, c)'
             /\ c.fun = "clear" => z = LastReturn
             /\ Op(z) = "ret" => c.fun = "clear"
  <2>1. CASE c \in Range(code[z])
    <3>1. c.fun \in {"clear", "store_tempmeta"} /\ c.reads = << >>
      BY <1>0, <2>1 DEF CodeInv, Early
    <3>2. Form(z, c)
      BY <2>1 DEF CodeInv, Forms
    <3>3. CASE IsClear(z, c)
      BY <1>0, <1>3, <3>1, <3>3 DEF IsClear
    <3>4. CASE IsWrite(z, c)
      <4>1. ReadsOf(c, z)'
        BY <3>1, NoCalls DEF ReadsOf
      <4>2. IsWrite(z, c)'
        BY <1>3, <1>4, <3>4, <4>1 DEF IsWrite
      <4>3. Op(z) # "ret" /\ c.fun # "clear"
        BY <3>4 DEF IsWrite, Drawn, Writes
      <4> QED
        BY <3>1, <4>2, <4>3
    <3> QED
      BY <3>1, <3>2, <3>3, <3>4 DEF Form, IsStore, IsCheck, IsGiven, IsExit
  <2>2. CASE z = x /\ Op(x) = "conv" /\ c.fun = "store_tempmeta" /\ c.reads = << >> /\ c.dest = Slot(index + 1)
    <3>1. ReadsOf(c, z)'
      BY <2>2, NoCalls DEF ReadsOf
    <3>2. x \in DOMAIN GEPMap' /\ GEPMap'[x] = index + 1
      BY <1>4, <2>2 DEF Result, HasEntry
    <3>3. IsWrite(z, c)'
      BY <1>3, <2>2, <3>1, <3>2 DEF IsWrite, Writes, Drawn, Slot
    <3> QED
      BY <2>2, <3>3
  <2>3. CASE z = LastReturn /\ c.fun = "clear" /\ c.reads = << >> /\ c.dest[1] = "slot"
    BY <1>3, <2>3 DEF IsClear
  <2> QED
    BY <1>5, <2>1, <2>2, <2>3
<1>8. (fn \in Functions)' /\ Unshared' /\ Taken'
  BY <1>0, <1>3, CreateUnshared DEF CodeInv, Taken
<1>9. Forms'
  BY <1>3, <1>7 DEF Forms, Form
<1>10. Early'
  <2>1. \A z \in DOMAIN GEPMap' : HandedOut(z[2])'
    <3> TAKE z \in DOMAIN GEPMap'
    <3>1. CASE z = x
      BY <1>1, <1>2, <3>1
    <3>2. CASE z \in DOMAIN GEPMap
      <4>1. z[2] \in Texts /\ HandedOut(z[2])
        BY <1>0, <3>2, OperandsOf DEF Tables, CodeInv, Early
      <4> QED
        BY <1>2, <4>1
    <3> QED
      BY <1>4, <3>1, <3>2
  <2> QED
    BY <1>3, <1>7, <2>1 DEF Early
<1>11. (\A z \in Instrs : ClearsLast(code[z]))'
  <2>1. \A z \in Instrs : ClearsLast(code'[z])
    <3> TAKE z \in Instrs
    <3>1. CASE z = LastReturn
      <4>1. \A c \in Range(code'[z]) : c.fun = "clear"
        BY <1>0, <1>7, <3>1, LastReturnIs
      <4> QED
        BY <4>1 DEF ClearsLast, Range
    <3>2. CASE z # LastReturn
      <4>1. \A c \in Range(code'[z]) : c.fun # "clear"
        BY <1>7, <3>2
      <4> QED
        BY <4>1 DEF ClearsLast, Range
    <3> QED
      BY <3>1, <3>2
  <2> QED
    BY <1>3, <2>1
<1>12. Copies'
  <2>1. \A b \in Blocks : DOMAIN code[Entry(b)] = {}
    <3> SUFFICES ASSUME NEW b \in Blocks, NEW j \in DOMAIN code[Entry(b)]
                 PROVE  FALSE
      OBVIOUS
    <3>1. IsCopy(b, code[Entry(b)][j])
      BY DEF CodeInv, Copies
    <3> QED
      BY <1>0, <1>2, <3>1 DEF IsCopy
  <2>2. \A b \in Blocks : DOMAIN code'[Entry(b)] = {}
    BY <1>6, <2>1
  <2> QED
    BY <1>3, <2>2 DEF Copies, Entry
<1>13. Written'
  <2>1. \A k \in Texts : HandedOut(k)' /\ Op(Ins(k)) = "conv" => \E c \in Range(code'[Ins(k)]) : c.fun \in Writes
    <3> TAKE k \in Texts
    <3> HAVE HandedOut(k)' /\ Op(Ins(k)) = "conv"
    <3>1. CASE k = at
      BY <1>6, <3>1 DEF Writes
    <3>2. CASE HandedOut(k)
      <4>1. \E c \in Range(code[Ins(k)]) : c.fun \in Writes
        BY <3>2 DEF CodeInv, Written
      <4> QED
        BY <1>6, <4>1, TextAt
    <3> QED
      BY <1>2, <3>1, <3>2
  <2> QED
    BY <1>2, <1>3, <2>1 DEF Written
<1>14. Leaves'
  <2>1. \A k \in Texts : Op(Ins(k)) = "ret" => ~Returned(k)' /\ \A c \in Range(code'[Ins(k)]) : c.fun = "clear"
    BY <1>2, <1>7, TextAt
  <2> QED
    BY <1>3, <2>1 DEF Leaves
<1>15. Chooses'
  <2>1. DOMAIN arms = {}
    BY <1>0 DEF Pointing
  <2> QED
    BY <1>0, <1>2, <2>1 DEF Chooses, Clone
<1> QED
  BY <1>8, <1>9, <1>10, <1>11, <1>12, <1>13, <1>14, <1>15 DEF CodeInv

LEMMA StillCode == ASSUME CodeInv, UNCHANGED passVars PROVE CodeInv'
<1>1. UNCHANGED <<fn, stage, at, total, index, GEPMap, ConsMap, MInsMap, FCMPMap, arms, code>>
  BY DEF passVars
<1>2. /\ Instrs' = Instrs /\ Texts' = Texts /\ Blocks' = Blocks /\ LastReturn' = LastReturn /\ Returns' = Returns
      /\ \A z : Op(z)' = Op(z) /\ Args(z)' = Args(z) /\ Instr(z)' = Instr(z)
  BY <1>1, SameText
<1>3. \A v : handleOperand(v)' = handleOperand(v)
  BY <1>1, SamePointers
<1>4. \A k : HandedOut(k)' = HandedOut(k) /\ Placed(k)' = Placed(k) /\ Returned(k)' = Returned(k)
  BY <1>1 DEF HandedOut, Placed, Returned
<1>5. OneReturn' = OneReturn /\ Resolvable' = Resolvable
  BY <1>1, <1>2, SameOrder DEF OneReturn
<1>6. Chooses'
  BY <1>1, SameChooses
<1>7. (fn \in Functions)' /\ Unshared' /\ Early' /\ (\A x \in Instrs : ClearsLast(code[x]))' /\ Taken'
  BY <1>1, <1>2, <1>4 DEF CodeInv, Unshared, Early, Taken
<1>8. \A x, c : Form(x, c) => Form(x, c)'
  <2>1. \A r, v : IsRead(r, v)' = IsRead(r, v)
    BY <1>3 DEF IsRead
  <2>2. \A c, y : ReadsOf(c, y)' = ReadsOf(c, y)
    BY <1>2, <2>1 DEF ReadsOf
  <2> TAKE x, c
  <2> HAVE Form(x, c)
  <2>3. /\ IsClear(x, c) => IsClear(x, c)'
        /\ IsWrite(x, c) => IsWrite(x, c)'
        /\ IsExit(x, c) => IsExit(x, c)'
    BY <1>1, <1>2, <2>2 DEF IsClear, IsWrite, IsExit
  <2>4. IsStore(x, c) => IsStore(x, c)'
    BY <1>2, <1>5, <2>2 DEF IsStore
  <2>5. IsCheck(x, c) => IsCheck(x, c)'
    BY <1>2, <2>2 DEF IsCheck
  <2>6. IsGiven(x, c) => IsGiven(x, c)'
    BY <1>2, <1>5, <2>2 DEF IsGiven
  <2> QED
    BY <2>3, <2>4, <2>5, <2>6 DEF Form
<1>9. Forms'
  BY <1>1, <1>2, <1>8 DEF CodeInv, Forms
<1>10. Copies'
  <2>1. (\A b : PhisOf(b)' = PhisOf(b)) /\ \A x : CopyOf(x)' = CopyOf(x)
    BY <1>1, <1>2 DEF PhisOf, CopyOf
  <2>2. \A b, c : IsCopy(b, c)' = IsCopy(b, c)
    BY <1>1, <1>4, <2>1 DEF IsCopy
  <2> QED
    BY <1>1, <1>2, <2>2 DEF CodeInv, Copies, Entry, Copied
<1>11. Written'
  <2>1. \A x : CopyOf(x)' = CopyOf(x)
    BY <1>1 DEF CopyOf
  <2> QED
    BY <1>1, <1>2, <1>4, <2>1 DEF CodeInv, Written
<1>12. Leaves'
  BY <1>1, <1>2, <1>4, <1>5 DEF CodeInv, Leaves
<1> QED
  BY <1>6, <1>7, <1>9, <1>10, <1>11, <1>12 DEF CodeInv

LEMMA CodeKeeps == ASSUME IInv, CodeInv, [Next]_vars PROVE CodeInv'
<1>1. IInv'
  BY NextKeeps
<1>2. CASE handleBranch \/ getTotalFPInst \/ createGEP
  BY <1>1, <1>2, BranchCode, CountCode, CreateCode
<1>3. CASE handlePhi
  BY <1>1, <1>3, PhiCode
<1>4. CASE handleBinOp \/ handleFNeg \/ handleMathLibFunc
  BY <1>1, <1>4, ComputeCode DEF handleBinOp, handleFNeg, handleMathLibFunc
<1>5. CASE handleLoad \/ handleStore \/ handleCallInst \/ handleSelect
  BY <1>1, <1>5, LoadCode, StoreCode, CallCode, SelectCode
<1>6. CASE handleReturn \/ handleFcmp \/ NotHandled \/ handleNewPhi
  BY <1>1, <1>6, ReturnCode, FcmpCode, NotHandledCode, NewPhiCode
<1>7. ASSUME NEW s, NEW ops, MetadataNotFound(s, ops), s # "failed"
      PROVE  CodeInv'
  BY <1>1, <1>7, FailCode DEF MetadataNotFound, Here
<1>8. CASE Step
  <2>1. UNCHANGED <<fn, total, GEPMap, ConsMap, MInsMap, FCMPMap, arms, code>> /\ stage \in Clone /\ stage' \in Clone
    BY <1>8 DEF Step, Clone
  <2> QED
    BY <1>1, <2>1, CloneCode
<1>9. CASE Call
  BY <1>9, StillCode DEF Call
<1>10. CASE \E b \in Blocks : Jump(b)
  <2>1. UNCHANGED <<fn, total, GEPMap, ConsMap, MInsMap, FCMPMap, arms, code>> /\ stage \in Clone /\ stage' \in Clone
    BY <1>10 DEF Jump, Clone
  <2> QED
    BY <1>1, <2>1, CloneCode
<1>11. CASE Return
  <2>1. UNCHANGED <<fn, total, GEPMap, ConsMap, MInsMap, FCMPMap, arms, code>> /\ stage \in Clone /\ stage' \in Clone
    BY <1>11 DEF Return, Clone
  <2> QED
    BY <1>1, <2>1, CloneCode
<1>12. CASE UNCHANGED vars
  BY <1>12, StillCode DEF vars
<1> QED
  BY <1>2, <1>3, <1>4, <1>5, <1>6, <1>7, <1>8, <1>9, <1>10, <1>11, <1>12 DEF Next, Pass

-----------------------------------------------------------------------------
(* Dominance, as the sets of blocks that leave a block out give it.        *)
LEMMA BlockTransitive ==
  ASSUME NEW a, NEW b, NEW c, BlockDominates(fn, a, b), BlockDominates(fn, b, c)
  PROVE  BlockDominates(fn, a, c)
<1>1. PICK R \in SUBSET Blocks : 1 \in R /\ b \notin R /\ \A d \in R \ {a} : fn.next[d] \subseteq R
  BY DEF BlockDominates, Blocks
<1>2. PICK S \in SUBSET Blocks : 1 \in S /\ c \notin S /\ \A d \in S \ {b} : fn.next[d] \subseteq S
  BY DEF BlockDominates, Blocks
<1> DEFINE T == R \cap S
<1>3. T \in SUBSET Blocks /\ 1 \in T /\ c \notin T /\ \A d \in T \ {a} : fn.next[d] \subseteq T
  BY <1>1, <1>2
<1> HIDE DEF T
<1> QED
  BY <1>3 DEF BlockDominates, Blocks

(* Of two blocks that dominate each other neither is reached.              *)
LEMMA BlockApart ==
  ASSUME NEW a, NEW b, Reached(a), BlockDominates(fn, a, b), BlockDominates(fn, b, a)
  PROVE  FALSE
<1>1. PICK R \in SUBSET Blocks : 1 \in R /\ b \notin R /\ \A d \in R \ {a} : fn.next[d] \subseteq R
  BY DEF BlockDominates, Blocks
<1>2. PICK S \in SUBSET Blocks : 1 \in S /\ a \notin S /\ \A d \in S \ {b} : fn.next[d] \subseteq S
  BY DEF BlockDominates, Blocks
<1> DEFINE T == R \cap S
<1>3. T \in SUBSET Blocks /\ 1 \in T /\ a \notin T /\ \A d \in T : fn.next[d] \subseteq T
  BY <1>1, <1>2
<1> HIDE DEF T
<1> QED
  BY <1>3 DEF Reached

LEMMA BlockBack ==
  ASSUME NEW a, NEW c \in Blocks, NEW b \in fn.next[c], BlockDominates(fn, a, b)
  PROVE  a = c \/ BlockDominates(fn, a, c)
<1>1. PICK R \in SUBSET Blocks : 1 \in R /\ b \notin R /\ \A d \in R \ {a} : fn.next[d] \subseteq R
  BY DEF BlockDominates, Blocks
<1>2. a # c => c \notin R
  BY <1>1
<1> QED
  BY <1>1, <1>2 DEF BlockDominates, Blocks

LEMMA NoneBeforeFirst == ASSUME NEW a, BlockDominates(fn, a, 1) PROVE FALSE
BY DEF BlockDominates

LEMMA ReachedFirst == Reached(1)
BY DEF Reached

LEMMA ReachedNext == ASSUME NEW c, Reached(c), NEW b \in fn.next[c] PROVE Reached(b)
BY DEF Reached

LEMMA DominatesTransitive ==
  ASSUME IsFunction(fn), NEW j \in Texts, NEW k \in Texts, NEW l \in Texts,
         Dominates(fn, j, k), Dominates(fn, k, l)
  PROVE  Dominates(fn, j, l)
<1>1. j \in Nat /\ k \in Nat /\ l \in Nat
  BY Text
<1>2. CASE BlockDominates(fn, fn.text[j].block, fn.text[k].block)
  <2>1. CASE BlockDominates(fn, fn.text[k].block, fn.text[l].block)
    BY <1>2, <2>1, BlockTransitive DEF Dominates
  <2>2. CASE fn.text[k].block = fn.text[l].block
    BY <1>2, <2>2 DEF Dominates
  <2> QED
    BY <2>1, <2>2 DEF Dominates
<1>3. CASE fn.text[j].block = fn.text[k].block /\ j < k
  BY <1>1, <1>3 DEF Dominates
<1> QED
  BY <1>2, <1>3 DEF Dominates

(* An operand comes before its use, on every path.                         *)
LEMMA ArgDominates ==
  ASSUME IsFunction(fn), fn \in Functions, NEW x \in Instrs, Op(x) # "phi", NEW v \in Range(Args(x)), v[1] = "ins"
  PROVE  v \in Instrs /\ Dominates(fn, v[2], x[2])
<1>1. PICK k \in Texts : x = Ins(k)
  BY Instruction
<1>2. IsSSA(fn) /\ x[2] = k /\ Op(x) = fn.text[k].op /\ Args(x) = fn.text[k].args
  BY <1>1, TextAt, FunctionsAssumption
<1>3. Dominates(fn, v[2], k)
  BY <1>2 DEF IsSSA, Texts
<1> QED
  BY <1>2, <1>3, OperandsOf, OperandKinds

-----------------------------------------------------------------------------
(* What a value stands for is the least that has it and, with a cast or a  *)
(* select, its operands.                                                   *)
LEMMA Itself == ASSUME NEW v PROVE v \in StandsFor(v)
BY DEF StandsFor

LEMMA StandsLeast ==
  ASSUME NEW v, NEW P, v \in P, \A x \in Through : x \in P => Range(Args(x)) \subseteq P
  PROVE  StandsFor(v) \subseteq P
<1> DEFINE T == {x \in Through : x \in P}
<1>1. T \in Chains(v)
  <2>1. T \in SUBSET Through /\ (v \in Through => v \in T)
    OBVIOUS
  <2>2. \A x \in T : Range(Args(x)) \cap Through \subseteq T
    OBVIOUS
  <2> QED
    BY <2>1, <2>2 DEF Chains
<1> SUFFICES ASSUME NEW w \in StandsFor(v), w # v
             PROVE  w \in P
  OBVIOUS
<1>2. \E x \in T : w \in Range(Args(x))
  BY <1>1 DEF StandsFor
<1> QED
  BY <1>2

LEMMA StandsClosed ==
  ASSUME NEW v, NEW y \in StandsFor(v), y \in Through
  PROVE  Range(Args(y)) \subseteq StandsFor(v)
<1>1. \A T \in Chains(v) : y \in T
  <2> TAKE T \in Chains(v)
  <2>1. (v \in Through => v \in T) /\ \A x \in T : Range(Args(x)) \cap Through \subseteq T
    BY DEF Chains
  <2>2. y = v \/ \E x \in T : y \in Range(Args(x))
    BY DEF StandsFor
  <2> QED
    BY <2>1, <2>2
<1> SUFFICES ASSUME NEW w \in Range(Args(y))
             PROVE  w \in StandsFor(v)
  OBVIOUS
<1>2. w \in UNION {Range(Args(x)) : x \in Through}
  OBVIOUS
<1>3. \A T \in Chains(v) : \E x \in T : w \in Range(Args(x))
  BY <1>1
<1> QED
  BY <1>2, <1>3 DEF StandsFor

LEMMA StandsArg ==
  ASSUME NEW v \in Through, NEW u \in Range(Args(v))
  PROVE  u \in StandsFor(v) /\ StandsFor(u) \subseteq StandsFor(v)
<1>1. u \in StandsFor(v)
  BY Itself, StandsClosed
<1>2. \A x \in Through : x \in StandsFor(v) => Range(Args(x)) \subseteq StandsFor(v)
  BY StandsClosed
<1> QED
  BY <1>1, <1>2, StandsLeast

LEMMA StandsAlone == ASSUME NEW v, v \notin Through PROVE StandsFor(v) = {v}
<1> DEFINE P == {v}
<1>1. v \in P /\ \A x \in Through : x \in P => Range(Args(x)) \subseteq P
  OBVIOUS
<1> HIDE DEF P
<1>2. StandsFor(v) \subseteq P
  BY <1>1, StandsLeast
<1> QED
  BY <1>2, Itself DEF P

LEMMA StandsDominates ==
  ASSUME IsFunction(fn), fn \in Functions, NEW v \in Instrs, NEW y \in StandsFor(v), y \in Instrs, y # v
  PROVE  Dominates(fn, y[2], v[2])
<1> DEFINE P == {w \in {v} \cup UNION {Range(Args(x)) : x \in Through} :
                   w = v \/ w \notin Instrs \/ Dominates(fn, w[2], v[2])}
<1>1. ASSUME NEW x \in Through, x \in P, NEW w \in Range(Args(x))
      PROVE  w \in P
  <2>1. x \in Instrs /\ Op(x) # "phi"
    BY DEF Through
  <2>2. CASE w \in Instrs
    <3>1. w[1] = "ins"
      BY <2>2 DEF Instrs, Ins
    <3>2. Dominates(fn, w[2], x[2])
      BY <2>1, <3>1, ArgDominates
    <3>3. x[2] \in Texts /\ w[2] \in Texts /\ v[2] \in Texts
      BY <2>1, <2>2, OperandsOf
    <3>4. Dominates(fn, w[2], v[2])
      <4>1. CASE x = v
        BY <3>2, <4>1
      <4>2. CASE Dominates(fn, x[2], v[2])
        BY <3>2, <3>3, <4>2, DominatesTransitive
      <4> QED
        BY <1>1, <2>1, <4>1, <4>2
    <3> QED
      BY <3>4
  <2>3. CASE w \notin Instrs
    BY <2>3
  <2> QED
    BY <2>2, <2>3
<1>2. v \in P
  OBVIOUS
<1> HIDE DEF P
<1>3. StandsFor(v) \subseteq P
  BY <1>1, <1>2, StandsLeast
<1> QED
  BY <1>3 DEF P

-----------------------------------------------------------------------------
(* Blocks follow each other in the text.                                   *)
BlockAt(k) == fn.text[k].block

LEMMA InText ==
  ASSUME IsFunction(fn), NEW k \in Texts
  PROVE  /\ k \in Nat /\ k >= 1 /\ k <= N /\ BlockAt(k) \in Blocks /\ BlockAt(k) \in Nat /\ Instr(Ins(k)).block = BlockAt(k)
         /\ Op(Ins(k)) \notin {"br", "ret"} => k + 1 \in Texts /\ BlockAt(k + 1) = BlockAt(k)
         /\ k < N => k + 1 \in Texts /\ BlockAt(k + 1) \in {BlockAt(k), BlockAt(k) + 1}
         /\ k < N /\ Op(Ins(k)) \in {"br", "ret"} => BlockAt(k + 1) = BlockAt(k) + 1
<1>1. N \in Nat /\ Texts = 1 .. N /\ IsInstruction(fn, k) /\ k \in 1 .. N
  BY Text
<1>2. Op(Ins(k)) = fn.text[k].op /\ Instr(Ins(k)) = fn.text[k]
  BY TextAt
<1>3. /\ BlockAt(k) \in Blocks
      /\ Op(Ins(k)) \in {"br", "ret"} <=> (k = N \/ BlockAt(k + 1) # BlockAt(k))
      /\ ~(k = N \/ BlockAt(k + 1) # BlockAt(k)) => BlockAt(k + 1) = BlockAt(k)
      /\ (k = N \/ BlockAt(k + 1) # BlockAt(k)) /\ k < N => BlockAt(k + 1) = BlockAt(k) + 1
  BY <1>1, <1>2 DEF IsInstruction, BlockAt, Blocks, N
<1>4. Blocks \subseteq Nat
  <2>1. fn.next \in Seq(SUBSET Nat)
    BY DEF IsFunction
  <2>2. Blocks = 1 .. Len(fn.next) /\ Len(fn.next) \in Nat
    BY <2>1, LenProperties DEF Blocks
  <2> QED
    BY <2>2
<1>5. k < N => k + 1 \in Texts
  BY <1>1
<1>6. k # N => k < N
  BY <1>1
<1>7. k \in Nat /\ k >= 1 /\ k <= N /\ BlockAt(k) \in Nat /\ Instr(Ins(k)).block = BlockAt(k)
  <2>1. k \in Nat /\ k >= 1 /\ k <= N
    BY <1>1
  <2>2. Instr(Ins(k)).block = BlockAt(k)
    BY <1>2 DEF BlockAt
  <2> QED
    BY <1>3, <1>4, <2>1, <2>2
<1> QED
  BY <1>3, <1>5, <1>6, <1>7

LEMMA InOrder ==
  ASSUME IsFunction(fn), NEW j \in Texts, NEW k \in Texts, j <= k
  PROVE  BlockAt(j) <= BlockAt(k)
<1> DEFINE T == {i \in Texts : j <= i /\ ~(BlockAt(j) <= BlockAt(i))}
<1> SUFFICES ASSUME T # {}
             PROVE  FALSE
  OBVIOUS
<1>1. N \in Nat /\ Texts = 1 .. N /\ \A i \in Texts : i \in Nat
  BY Text, InText
<1>2. T \subseteq Nat
  BY <1>1
<1>3. PICK m \in T : \A i \in T : m <= i
  BY <1>2, Smallest
<1>4. m \in Texts /\ m # j /\ j \in Nat /\ BlockAt(j) \in Nat /\ m \in Nat /\ j <= m /\ ~(BlockAt(j) <= BlockAt(m))
  BY <1>1, InText
<1> PICK i : i = m - 1
  OBVIOUS
<1>5. i \in Texts /\ i + 1 = m /\ j <= i /\ i < N /\ ~(m <= i)
  BY <1>1, <1>4
<1>6. BlockAt(j) <= BlockAt(i)
  BY <1>3, <1>5
<1>7. BlockAt(i) \in Nat /\ (BlockAt(i + 1) = BlockAt(i) \/ BlockAt(i + 1) = BlockAt(i) + 1)
  BY <1>5, InText
<1>8. BlockAt(m) = BlockAt(i) \/ BlockAt(m) = BlockAt(i) + 1
  BY <1>5, <1>7
<1> HIDE DEF T
<1> QED
  BY <1>4, <1>6, <1>7, <1>8

LEMMA LastOf ==
  ASSUME IsFunction(fn), NEW j \in Texts, NEW k \in Texts, j < k, Op(Ins(j)) \in {"br", "ret"}
  PROVE  BlockAt(j) < BlockAt(k)
<1>1. j \in Nat /\ k \in Nat /\ k <= N /\ N \in Nat /\ BlockAt(j) \in Nat /\ BlockAt(k) \in Nat
  BY InText, Text
<1>2. j < N /\ j + 1 <= k
  BY <1>1
<1>3. j + 1 \in Texts /\ BlockAt(j + 1) = BlockAt(j) + 1
  BY <1>2, InText
<1>4. BlockAt(j + 1) <= BlockAt(k)
  BY <1>2, <1>3, InOrder
<1> QED
  BY <1>1, <1>3, <1>4

(* Where a jump leads: all that is before it in its block are the phis.    *)
LEMMA LandsAt ==
  ASSUME IsFunction(fn), NEW b \in Blocks, NEW a,
         a = Max({0} \cup {x[2] : x \in {y \in Instrs : Instr(y).block < b} \cup PhisOf(b)})
  PROVE  /\ a \in Nat /\ a + 1 \in Texts /\ BlockAt(a + 1) = b
         /\ \A k \in Texts : k <= a /\ BlockAt(k) = b => Op(Ins(k)) = "phi"
         /\ \A x \in PhisOf(b) : x[2] <= a
<1> DEFINE S == {y \in Instrs : Instr(y).block < b} \cup PhisOf(b)
           T == {0} \cup {x[2] : x \in S}
<1>1. a \in T /\ (\A k \in T : k <= a) /\ a \in Nat /\ a < N
  BY JumpsInto
<1>2. N \in Nat /\ Texts = 1 .. N
  BY Text
<1>3. a + 1 \in Texts /\ BlockAt(a + 1) \in Nat
  <2>1. a + 1 \in Texts
    BY <1>1, <1>2
  <2> QED
    BY <2>1, InText
<1>4. b \in Nat /\ b >= 1
  <2>1. fn.next \in Seq(SUBSET Nat)
    BY DEF IsFunction
  <2>2. Blocks = 1 .. Len(fn.next) /\ Len(fn.next) \in Nat
    BY <2>1, LenProperties DEF Blocks
  <2> QED
    BY <2>2
<1>5. \A x \in S : x[2] \in T
  OBVIOUS
<1>6. \A x \in PhisOf(b) : x[2] <= a
  BY <1>1, <1>5
<1>7. ~(BlockAt(a + 1) < b)
  <2> SUFFICES ASSUME BlockAt(a + 1) < b
               PROVE  FALSE
    OBVIOUS
  <2>1. Ins(a + 1) \in S /\ Ins(a + 1)[2] = a + 1
    BY <1>3, TextAt DEF BlockAt
  <2>2. a + 1 <= a
    BY <1>1, <1>5, <2>1
  <2> QED
    BY <1>1, <2>2
<1>8. a = 0 \/ \E x \in S : a = x[2]
  BY <1>1
<1>9. CASE a = 0
  <2>1. BlockAt(a + 1) = 1
    BY <1>9 DEF IsFunction, BlockAt
  <2>2. BlockAt(a + 1) = b
    BY <1>3, <1>4, <1>7, <2>1
  <2>3. \A k \in Texts : ~(k <= a)
    BY <1>2, <1>9
  <2> QED
    BY <1>1, <1>3, <1>6, <2>2, <2>3
<1>10. CASE \E x \in Instrs : Instr(x).block < b /\ a = x[2]
  <2>1. PICK x \in Instrs : Instr(x).block < b /\ a = x[2]
    BY <1>10
  <2>2. a \in Texts /\ x = Ins(a)
    BY <2>1, OperandsOf
  <2>3. BlockAt(a) < b /\ BlockAt(a) \in Nat /\ BlockAt(a + 1) \in {BlockAt(a), BlockAt(a) + 1}
    BY <1>1, <2>1, <2>2, InText
  <2>4. BlockAt(a + 1) = b
    BY <1>4, <1>7, <2>3
  <2>5. ASSUME NEW k \in Texts, k <= a
        PROVE  BlockAt(k) # b
    <3>1. BlockAt(k) <= BlockAt(a) /\ BlockAt(k) \in Nat
      BY <2>2, <2>5, InOrder, InText
    <3> QED
      BY <1>4, <2>3, <3>1
  <2> QED
    BY <1>1, <1>3, <1>6, <2>4, <2>5
<1>11. CASE \E x \in PhisOf(b) : a = x[2]
  <2>1. PICK x \in PhisOf(b) : a = x[2]
    BY <1>11
  <2>2. a \in Texts /\ x = Ins(a) /\ Op(x) = "phi" /\ Instr(x).block = b
    BY <2>1, OperandsOf DEF PhisOf
  <2>3. BlockAt(a) = b /\ BlockAt(a + 1) = b
    BY <2>2, InText
  <2> DEFINE U == {k \in Texts : k <= a /\ BlockAt(k) = b /\ Op(Ins(k)) # "phi"}
  <2>4. U = {}
    <3> SUFFICES ASSUME U # {}
                 PROVE  FALSE
      OBVIOUS
    <3>1. U \subseteq 0 .. N
      BY <1>2
    <3>2. Max(U) \in U /\ \A k \in U : k <= Max(U)
      <4> HIDE DEF U
      <4> QED
        BY <1>2, <3>1, Maximum
    <3> PICK m : m = Max(U)
      OBVIOUS
    <3>3. m \in Texts /\ m <= a /\ BlockAt(m) = b /\ Op(Ins(m)) # "phi" /\ m \in Nat /\ m # a
      BY <2>2, <3>2, InText
    <3>4. m < N /\ m + 1 <= a /\ ~(m + 1 <= m)
      BY <1>1, <1>2, <3>3
    <3>5. m + 1 \in Texts /\ BlockAt(m + 1) = b
      <4>1. m + 1 \in Texts
        BY <3>3, <3>4, InText
      <4>2. BlockAt(m) <= BlockAt(m + 1) /\ BlockAt(m + 1) <= BlockAt(a) /\ BlockAt(m + 1) \in Nat
        <5>1. m <= m + 1
          BY <3>3
        <5> QED
          BY <2>2, <3>3, <3>4, <4>1, <5>1, InOrder, InText
      <4> QED
        BY <1>4, <2>3, <3>3, <4>1, <4>2
    <3>6. m + 1 \notin U
      <4> HIDE DEF U
      <4> QED
        BY <3>2, <3>4
    <3>7. Op(Ins(m + 1)) = "phi" /\ IsInstruction(fn, m + 1)
      BY <3>4, <3>5, <3>6, Text
    <3>8. fn.text[(m + 1) - 1].op \in {"phi", "br", "ret"}
      BY <3>5, <3>7, TextAt DEF IsInstruction
    <3>9. Op(Ins(m)) \in {"br", "ret"}
      <4>1. (m + 1) - 1 = m
        BY <3>3
      <4> QED
        BY <3>3, <3>8, <4>1, TextAt
    <3>10. BlockAt(m + 1) = BlockAt(m) + 1
      BY <3>3, <3>4, <3>9, InText
    <3> QED
      BY <1>4, <3>3, <3>5, <3>10
  <2> QED
    BY <1>1, <1>3, <1>6, <2>3, <2>4
<1> QED
  BY <1>8, <1>9, <1>10, <1>11

-----------------------------------------------------------------------------
(* Which pointers stand for which values in a clone.                       *)
LEMMA Pointers ==
  ASSUME IInv, CodeInv, stage \in Clone, NEW v \in Instrs
  PROVE  /\ Op(v) = "phi" => v \in DOMAIN GEPMap /\ handleOperand(v) = Slot(GEPMap[v])
         /\ Op(v) \in Drawn /\ handleOperand(v) # Missing =>
              v \in DOMAIN GEPMap /\ handleOperand(v) = Slot(GEPMap[v])
         /\ Op(v) = "select" => handleOperand(v) = Chosen(v)
         /\ Op(v) \in {"fcmp", "store", "br", "ret", "known"} => handleOperand(v) = Missing
         /\ Op(v) \notin {"cast", "select"} => \A y : handleOperand(v) # Chosen(y)
<1>1. Tables /\ Complete /\ Unshared /\ IsFunction(fn) /\ v[1] = "ins" /\ v[2] \in Texts /\ v = Ins(v[2])
  BY OperandsOf DEF IInv, CodeInv, Position
<1>2. /\ v \in DOMAIN MInsMap => Op(v) \in Named /\ v \notin DOMAIN ConsMap /\ MInsMap[v] = Names(v)
                                 /\ (Op(v) # "select" => v \in DOMAIN GEPMap)
      /\ v \in DOMAIN ConsMap => Op(v) = "conv" /\ v \in DOMAIN GEPMap /\ GEPMap[v] = ConsMap[v]
      /\ handleOperand(v) = IF Op(v) = "cast" THEN Behind(v) ELSE Pointer(v)
      /\ HandedOut(v[2]) /\ Placed(v[2])
  <2>1. v \in DOMAIN MInsMap => Op(v) \in Named /\ v \notin DOMAIN ConsMap
    BY <1>1, Apart
  <2>2. v \in DOMAIN ConsMap => Op(v) = "conv" /\ v \in DOMAIN GEPMap /\ GEPMap[v] = ConsMap[v]
    BY <1>1 DEF Tables, Unshared
  <2>3. handleOperand(v) = IF Op(v) = "cast" THEN Behind(v) ELSE Pointer(v)
    BY <1>1, PointerOf
  <2> QED
    BY <1>1, <2>1, <2>2, <2>3 DEF Tables, HandedOut, Placed
<1>3. CASE Op(v) = "phi"
  <2>1. v \in DOMAIN GEPMap
    BY <1>1, <1>2, <1>3 DEF Complete, HasEntry
  <2> QED
    BY <1>2, <1>3, <2>1 DEF Pointer, Drawn, Slot, Chosen
<1>4. CASE Op(v) = "select"
  <2>1. v \in DOMAIN MInsMap
    BY <1>1, <1>2, <1>4 DEF Complete, Named
  <2> QED
    BY <1>2, <1>4, <2>1 DEF Pointer, Drawn, Names, Choosing
<1>5. CASE Op(v) \in {"fcmp", "store", "br", "ret", "known"}
  <2>1. v \notin DOMAIN MInsMap /\ v \notin DOMAIN ConsMap
    BY <1>2, <1>5 DEF Named
  <2>2. handleOperand(v) = Missing
    BY <1>2, <1>5, <2>1 DEF Pointer
  <2> QED
    BY <1>5, <2>2 DEF Missing, Chosen
<1>6. CASE Op(v) \in Drawn /\ Op(v) # "known"
  <2>1. Op(v) \notin {"phi", "select", "cast", "fcmp", "store", "br", "ret", "known", "arg", "undef"}
    BY <1>6 DEF Drawn
  <2>2. handleOperand(v) = Pointer(v)
    BY <1>2, <2>1
  <2>3. \/ handleOperand(v) = Missing
        \/ v \in DOMAIN GEPMap /\ handleOperand(v) = Slot(GEPMap[v])
    <3>1. CASE v \in DOMAIN ConsMap
      BY <1>2, <2>2, <3>1 DEF Pointer
    <3>2. CASE v \in DOMAIN MInsMap
      <4>1. MInsMap[v] = Slot(GEPMap[v]) /\ v \in DOMAIN GEPMap /\ v \notin DOMAIN ConsMap
        BY <1>2, <2>1, <3>2 DEF Names, Choosing
      <4> QED
        BY <2>1, <2>2, <3>2, <4>1 DEF Pointer
    <3>3. CASE v \notin DOMAIN MInsMap /\ v \notin DOMAIN ConsMap
      BY <2>1, <2>2, <3>3 DEF Pointer
    <3> QED
      BY <3>1, <3>2, <3>3
  <2>4. \A y : handleOperand(v) # Chosen(y)
    BY <2>3 DEF Slot, Missing, Chosen
  <2> QED
    BY <2>1, <2>3, <2>4
<1>7. CASE Op(v) = "cast"
  BY <1>7 DEF Drawn
<1>8. Op(v) \in Ops
  BY <1>1, OperandsOf
<1> QED
  BY <1>3, <1>4, <1>5, <1>6, <1>7, <1>8 DEF Ops, Drawn

LEMMA OtherPointers ==
  ASSUME IInv, NEW v, IsOperand(fn, v), v[1] # "ins"
  PROVE  /\ v[1] = "const" => handleOperand(v) = IF v \in DOMAIN ConsMap THEN Slot(ConsMap[v]) ELSE Missing
         /\ v[1] = "arg" => handleOperand(v) = ArgPtr(v[2]) /\ v[2] \in 1 .. fn.args /\ v = Arg(v[2])
         /\ v[1] = "undef" => v = Undef
         /\ v[1] \in {"const", "arg", "undef"} /\ v \notin Instrs
         /\ \A y : handleOperand(v) # Chosen(y)
<1>1. Tables /\ IsFunction(fn)
  BY DEF IInv, Position
<1>2. Op(v) = v[1] /\ v[1] \in {"const", "arg", "undef"} /\ v \notin Instrs
  BY <1>1, OperandKinds DEF Instrs, Ins
<1>3. v \notin DOMAIN MInsMap /\ (v \in DOMAIN ConsMap => v[1] = "const")
  BY <1>1, <1>2 DEF Tables
<1>4. handleOperand(v) = Pointer(v)
  BY <1>1, <1>2, PointerOf
<1>5. v = <<v[1], v[2]>>
  BY DEF IsOperand
<1>6. CASE v[1] = "const"
  BY <1>2, <1>3, <1>4, <1>6 DEF Pointer, Slot, Missing, Chosen
<1>7. CASE v[1] = "arg"
  <2>1. v[2] \in 1 .. fn.args
    BY <1>7 DEF IsOperand, Undef
  <2> QED
    BY <1>2, <1>3, <1>4, <1>5, <1>7, <2>1 DEF Pointer, ArgPtr, Chosen, Arg
<1>8. CASE v[1] = "undef"
  <2>1. v = Undef
    BY <1>8 DEF IsOperand
  <2> QED
    BY <1>2, <1>3, <1>4, <1>8, <2>1 DEF Pointer, Null, Chosen
<1> QED
  BY <1>2, <1>6, <1>7, <1>8

(* A cast has the pointer of what it casts.                                *)
LEMMA CastPointer ==
  ASSUME Tables, NEW v, Op(v) = "cast", NEW u, u = Args(v)[1], handleOperand(v) # Missing, Op(u) # "phi"
  PROVE  /\ handleOperand(v) = handleOperand(u)
         /\ Op(u) = "cast" => Op(Args(u)[1]) # "cast"
<1>1. /\ \A z \in DOMAIN MInsMap : Op(z) \in Named /\ z \notin DOMAIN ConsMap
      /\ \A z \in DOMAIN ConsMap : Op(z) \in {"const", "conv"}
  BY Apart
<1>2. handleOperand(v) = Behind(v)
  BY PointerOf
<1>3. handleOperand(u) = IF Op(u) = "cast" THEN Behind(u) ELSE Pointer(u)
  BY PointerOf
<1> PICK w : w = Args(u)[1]
  OBVIOUS
<1>4. CASE Op(u) = "cast"
  <2>1. Behind(v) = IF w \in DOMAIN MInsMap THEN MInsMap[w] ELSE Missing
    BY <1>4 DEF Behind
  <2>2. w \in DOMAIN MInsMap
    BY <1>2, <2>1
  <2>3. Op(w) # "cast"
    BY <1>1, <2>2 DEF Named
  <2>4. Behind(u) = MInsMap[w]
    BY <2>2, <2>3 DEF Behind
  <2> QED
    BY <1>2, <1>3, <1>4, <2>1, <2>2, <2>3, <2>4
<1>5. CASE Op(u) # "cast"
  <2>1. Behind(v) = IF u \in DOMAIN MInsMap THEN MInsMap[u]
                    ELSE IF u \in DOMAIN ConsMap THEN Slot(ConsMap[u])
                    ELSE IF Op(u) = "arg" THEN ArgPtr(u[2]) ELSE Missing
    BY <1>5 DEF Behind
  <2>2. u \in DOMAIN MInsMap => u \notin DOMAIN ConsMap /\ Op(u) # "arg"
    BY <1>1 DEF Named
  <2> QED
    BY <1>2, <1>3, <1>5, <2>1, <2>2 DEF Pointer
<1> QED
  BY <1>4, <1>5

LEMMA CastArg ==
  ASSUME IsFunction(fn), NEW v \in Instrs, Op(v) = "cast"
  PROVE  /\ v \in Through /\ Args(v)[1] \in Range(Args(v)) /\ IsOperand(fn, Args(v)[1]) /\ Args(v)[1] # v
         /\ Args(v)[1] \in StandsFor(v) /\ StandsFor(Args(v)[1]) \subseteq StandsFor(v)
<1>1. 1 \in DOMAIN Args(v)
  BY OperandsOf
<1>2. Args(v)[1] \in Range(Args(v)) /\ IsOperand(fn, Args(v)[1]) /\ Args(v)[1] # v
  BY <1>1, OperandsOf
<1>3. v \in Through
  BY DEF Through
<1> QED
  BY <1>2, <1>3, StandsArg

(* A pointer that is chosen, other than a phi's, is chosen by a select     *)
(* that the value stands for.                                              *)
LEMMA ChosenPointer ==
  ASSUME IInv, CodeInv, stage \in Clone, ~CastsOfPhis, NEW v, v \in Instrs \/ (IsOperand(fn, v) /\ v[1] # "ins"),
         NEW y, handleOperand(v) = Chosen(y)
  PROVE  y \in Instrs /\ Op(y) = "select" /\ y \in StandsFor(v)
<1>1. Tables /\ IsFunction(fn)
  BY DEF IInv, Position
<1>2. ASSUME NEW z, z \in Instrs \/ (IsOperand(fn, z) /\ z[1] # "ins"), Op(z) # "cast", handleOperand(z) = Chosen(y)
      PROVE  z = y /\ y \in Instrs /\ Op(y) = "select"
  <2>1. z \in Instrs
    BY <1>2, OtherPointers
  <2>2. Op(z) = "select"
    BY <1>2, <2>1, Pointers
  <2>3. handleOperand(z) = Chosen(z)
    BY <2>1, <2>2, Pointers
  <2> QED
    BY <1>2, <2>1, <2>2, <2>3 DEF Chosen
<1>3. CASE Op(v) # "cast"
  BY <1>2, <1>3, Itself
<1>4. CASE Op(v) = "cast"
  <2>1. v \in Instrs
    <3>1. IsOperand(fn, v) /\ v[1] # "ins" => Op(v) # "cast"
      BY <1>1, OperandKinds
    <3> QED
      BY <1>4, <3>1
  <2> PICK u : u = Args(v)[1]
    OBVIOUS
  <2>2. u \in StandsFor(v) /\ StandsFor(u) \subseteq StandsFor(v) /\ IsOperand(fn, u)
    BY <1>1, <1>4, <2>1, CastArg
  <2>3. Op(u) # "phi" /\ handleOperand(v) # Missing
    BY <1>4, <2>1, <2>2 DEF CastsOfPhis, IsCast, Chosen, Missing
  <2>4. handleOperand(u) = Chosen(y) /\ (Op(u) = "cast" => Op(Args(u)[1]) # "cast")
    BY <1>1, <1>4, <2>3, CastPointer
  <2>5. u \in Instrs \/ (IsOperand(fn, u) /\ u[1] # "ins")
    BY <1>1, <2>2, OperandKinds
  <2>6. CASE Op(u) # "cast"
    BY <1>2, <2>2, <2>4, <2>5, <2>6
  <2>7. CASE Op(u) = "cast"
    <3>1. u \in Instrs
      <4>1. IsOperand(fn, u) /\ u[1] # "ins" => Op(u) # "cast"
        BY <1>1, OperandKinds
      <4> QED
        BY <2>5, <2>7, <4>1
    <3> PICK w : w = Args(u)[1]
      OBVIOUS
    <3>2. w \in StandsFor(u) /\ IsOperand(fn, w)
      BY <1>1, <2>7, <3>1, CastArg
    <3>3. w \in StandsFor(v)
      BY <2>2, <3>2
    <3>4. Op(w) # "phi" /\ handleOperand(u) # Missing
      BY <1>4, <2>1, <2>4, <3>3 DEF CastsOfPhis, IsCast, Chosen, Missing
    <3>5. handleOperand(w) = Chosen(y)
      BY <1>1, <2>4, <2>7, <3>4, CastPointer
    <3>6. w \in Instrs \/ (IsOperand(fn, w) /\ w[1] # "ins")
      BY <1>1, <3>2, OperandKinds
    <3>7. Op(w) # "cast"
      BY <2>4, <2>7
    <3> QED
      BY <1>2, <3>3, <3>5, <3>6, <3>7
  <2> QED
    BY <2>6, <2>7
<1> QED
  BY <1>3, <1>4

-----------------------------------------------------------------------------
(* The clone's steps leave the text and the tables alone.                  *)
LEMMA SameStands == ASSUME fn' = fn PROVE \A v : StandsFor(v)' = StandsFor(v)
<1>1. Instrs' = Instrs /\ \A z : Op(z)' = Op(z) /\ Args(z)' = Args(z)
  BY SameText
<1>2. Through' = Through
  BY <1>1 DEF Through
<1> TAKE v
<1>3. Chains(v)' = Chains(v)
  BY <1>1, <1>2 DEF Chains
<1> QED
  BY <1>1, <1>2, <1>3 DEF StandsFor

LEMMA SameSupported == ASSUME UNCHANGED <<fn, total>> PROVE Supported' = Supported
<1>1. /\ Instrs' = Instrs /\ Returns' = Returns /\ Resolvable' = Resolvable
      /\ \A z : Op(z)' = Op(z) /\ Args(z)' = Args(z) /\ Instr(z)' = Instr(z)
      /\ \A v : StandsFor(v)' = StandsFor(v)
  BY SameText, SameOrder, SameStands
<1>2. \A b : PhisOf(b)' = PhisOf(b)
  BY <1>1 DEF PhisOf
<1>3. CopiesApart' = CopiesApart
  BY <1>1, <1>2 DEF CopiesApart, Before
<1>4. CastsOfPhis' = CastsOfPhis
  BY <1>1 DEF CastsOfPhis, IsCast
<1>5. Listed' = Listed /\ OneReturn' = OneReturn
  BY <1>1 DEF Listed, OneReturn
<1> QED
  BY <1>1, <1>3, <1>4, <1>5 DEF Supported

LEMMA AvailableIs ==
  ASSUME IsFunction(fn), NEW v \in Available
  PROVE  /\ v \in Instrs \/ (IsOperand(fn, v) /\ v[1] # "ins" /\ v \notin Instrs)
         /\ v \in Instrs => Live(v)
<1>1. CASE v \in Instrs /\ Live(v)
  BY <1>1
<1>2. CASE v \in UNION {Range(Args(x)) : x \in Instrs} /\ v[1] # "ins"
  <2>1. PICK x \in Instrs : v \in Range(Args(x))
    BY <1>2
  <2>2. IsOperand(fn, v)
    BY <2>1, OperandsOf
  <2> QED
    BY <1>2, <2>2 DEF Instrs, Ins
<1> QED
  BY <1>1, <1>2 DEF Available

LEMMA ArgAvailable ==
  ASSUME IsFunction(fn), fn \in Functions, NEW x \in Instrs, Op(x) # "phi", NEW v \in Range(Args(x)),
         v[1] = "ins" => Live(v)
  PROVE  v \in Available
<1>1. v[1] = "ins" => v \in Instrs
  BY ArgDominates
<1> QED
  BY <1>1 DEF Available

LEMMA LiveBefore ==
  ASSUME IsFunction(fn), at \in Nat, NEW x \in Instrs, NEW y \in Instrs, Dominates(fn, y[2], x[2]),
         Live(x) \/ (Instr(x).block = Now /\ x[2] = at + 1)
  PROVE  Live(y)
<1>1. x[2] \in Nat /\ y[2] \in Nat
  BY OperandsOf, InText
<1>2. Instr(x) = fn.text[x[2]] /\ Instr(y) = fn.text[y[2]]
  BY DEF Instr
<1>3. CASE Instr(y).block = Instr(x).block /\ y[2] < x[2]
  BY <1>1, <1>3 DEF Live
<1>4. CASE BlockDominates(fn, Instr(y).block, Instr(x).block)
  BY <1>4, BlockTransitive DEF Live
<1> QED
  BY <1>2, <1>3, <1>4 DEF Dominates

LEMMA StandsLive ==
  ASSUME IsFunction(fn), fn \in Functions, at \in Nat, NEW v \in Available, NEW y \in StandsFor(v), y \in Instrs
  PROVE  Live(y)
<1>1. CASE v \in Instrs
  <2>1. Live(v)
    BY <1>1, AvailableIs
  <2>2. y = v \/ Dominates(fn, y[2], v[2])
    BY <1>1, StandsDominates
  <2> QED
    BY <1>1, <2>1, <2>2, LiveBefore
<1>2. CASE v \notin Instrs
  <2>1. StandsFor(v) = {v}
    BY <1>2, StandsAlone DEF Through
  <2> QED
    BY <1>2, <2>1
<1> QED
  BY <1>1, <1>2

(* Nothing that is there stands for the value computed last, or for a phi  *)
(* just entered, but that value itself.                                    *)
LEMMA Stale ==
  ASSUME IsFunction(fn), fn \in Functions, at \in Nat, Reached(Now), NEW z \in Instrs, Instr(z).block = Now,
         \A w \in Instrs : Instr(w).block = Now /\ z[2] < w[2] /\ w[2] <= at => Op(w) = "phi",
         NEW v \in Available, z \in StandsFor(v)
  PROVE  v = z
<1> SUFFICES ASSUME v # z
             PROVE  FALSE
  OBVIOUS
<1>1. v \in Through
  BY StandsAlone
<1>2. v \in Instrs /\ Op(v) # "phi" /\ Live(v)
  BY <1>1, AvailableIs DEF Through
<1>3. Dominates(fn, z[2], v[2])
  BY <1>2, StandsDominates
<1>4. Instr(z) = fn.text[z[2]] /\ Instr(v) = fn.text[v[2]]
  BY DEF Instr
<1>5. CASE Instr(v).block = Now
  <2>1. ~BlockDominates(fn, Now, Now)
    BY BlockApart
  <2>2. z[2] < v[2] /\ v[2] <= at
    BY <1>2, <1>3, <1>4, <1>5, <2>1 DEF Dominates, Live
  <2> QED
    BY <1>2, <1>5, <2>2
<1>6. CASE Instr(v).block # Now
  <2>1. BlockDominates(fn, Instr(v).block, Now) /\ BlockDominates(fn, Now, Instr(v).block)
    BY <1>2, <1>3, <1>4, <1>6 DEF Dominates, Live
  <2> QED
    BY <2>1, BlockApart
<1> QED
  BY <1>5, <1>6

-----------------------------------------------------------------------------
(* Steps of the clone.                                                     *)
LEMMA ChosenForm ==
  ASSUME Tables, NEW v, handleOperand(v) # Missing, handleOperand(v)[1] = "chosen"
  PROVE  handleOperand(v) = Chosen(handleOperand(v)[2])
<1> DEFINE F(p) == p[1] = "chosen" => p = Chosen(p[2])
<1>1. F(Null) /\ \A n : F(Slot(n)) /\ F(ArgPtr(n))
  BY DEF Null, Slot, ArgPtr
<1>2. ASSUME NEW x \in DOMAIN MInsMap
      PROVE  F(MInsMap[x])
  <2>1. MInsMap[x] = Names(x)
    BY DEF Tables
  <2>2. MInsMap[x] = Chosen(x) \/ MInsMap[x] = Slot(GEPMap[x])
    BY <2>1 DEF Names
  <2>3. F(Chosen(x))
    BY DEF Chosen
  <2> QED
    BY <1>1, <2>2, <2>3
<1> HIDE DEF F
<1>3. ThroughCasts(v) = Missing \/ F(ThroughCasts(v))
  <2> DEFINE u == Args(v)[1]
             w == Args(u)[1]
  <2>1. \/ w \in DOMAIN MInsMap /\ ThroughCasts(v) = MInsMap[w]
        \/ u \in DOMAIN MInsMap /\ ThroughCasts(v) = MInsMap[u]
        \/ ThroughCasts(v) \in {Slot(ConsMap[u]), ArgPtr(u[2]), Missing}
    <3> HIDE DEF Missing
    <3> QED
      BY DEF ThroughCasts
  <2> QED
    BY <1>1, <1>2, <2>1
<1>4. \/ handleOperand(v) \in {Slot(ConsMap[v]), ArgPtr(v[2]), Slot(GEPMap[v]), ThroughCasts(v), Null}
      \/ v \in DOMAIN MInsMap /\ handleOperand(v) = MInsMap[v]
  <2> HIDE DEF Missing
  <2> QED
    BY DEF handleOperand
<1>5. F(handleOperand(v))
  BY <1>1, <1>2, <1>3, <1>4
<1> QED
  BY <1>5 DEF F

(* The value u found right, and the value v that has taken its pointer and *)
(* its place are right in the next state.                                  *)
LEMMA TargetStays ==
  ASSUME NEW q, q[1] = "chosen" => ptr'[q[2]] = ptr[q[2]]
  PROVE  Target(q)' = Target(q)
BY DEF Target

LEMMA RightStays ==
  ASSUME UNCHANGED <<fn, GEPMap, ConsMap, MInsMap>>, NEW v, NEW u, StandsFor(u) \subseteq StandsFor(v),
         Value(u) = Undef \/ Right(u), Value(v)' = Value(u), DOMAIN temp' = DOMAIN temp,
         Target(handleOperand(v))' = Target(handleOperand(u)),
         \A p \in DOMAIN temp : p = Target(handleOperand(u)) => temp'[p] = temp[p]
  PROVE  Value(v)' = Undef \/ Right(v)'
<1>1. CASE Value(u) = Undef
  BY <1>1
<1>2. CASE Right(u)
  <2> PICK p : p = Target(handleOperand(u))
    OBVIOUS
  <2>1. p \in DOMAIN temp /\ temp[p] = Value(u) /\ \A x \in DOMAIN GEPMap : Slot(GEPMap[x]) = p => x \in StandsFor(u)
    BY <1>2 DEF Right
  <2>2. p \in DOMAIN temp' /\ temp'[p] = Value(v)'
    BY <2>1
  <2>3. \A x \in DOMAIN GEPMap' : Slot(GEPMap[x])' = p => x \in StandsFor(v)'
    <3>1. StandsFor(v)' = StandsFor(v)
      BY SameStands
    <3>2. \A x : Slot(GEPMap[x])' = Slot(GEPMap[x])
      BY DEF Slot
    <3> QED
      BY <2>1, <3>1, <3>2
  <2> QED
    BY <2>2, <2>3 DEF Right
<1> QED
  BY <1>1, <1>2

LEMMA StepTo ==
  ASSUME IInv, Step, NEW x, x = Ins(at + 1)
  PROVE  /\ x \in Instrs /\ x[2] = at + 1 /\ Instr(x).block = Now /\ Now' = Now
         /\ stage = "run" /\ at \in Nat /\ stage' = (IF Op(x) \in {"br", "ret"} THEN "leave" ELSE "run")
         /\ at' = at + 1 /\ x = Ins(at') /\ todo = << >> /\ todo' = code[x]
         /\ UNCHANGED <<fn, total, index, counted, GEPMap, ConsMap, MInsMap, FCMPMap, arms, code, temp, exits, result>>
         /\ Available' = Available \cup {x}
<1>1. IsFunction(fn) /\ stage = "run" /\ at \in 0 .. N /\ at < N /\ N \in Nat
  BY Text DEF IInv, Position, Step, N
<1>2. /\ at' = at + 1 /\ stage' = (IF Op(x) \in {"br", "ret"} THEN "leave" ELSE "run")
      /\ todo = << >> /\ todo' = code[x]
      /\ UNCHANGED <<fn, total, index, counted, GEPMap, ConsMap, MInsMap, FCMPMap, arms, code, temp, exits, result>>
  BY <1>1 DEF Step
<1>3. at + 1 \in Texts /\ at \in Nat
  BY <1>1, Text
<1>4. x \in Instrs /\ x[2] = at + 1 /\ Instr(x).block = BlockAt(at + 1) /\ Op(x) = Op(Ins(at + 1))
  BY <1>1, <1>3, TextAt, InText
<1>5. Now = BlockAt(at + 1)
  BY <1>1 DEF Now, BlockAt
<1>6. Now' = Now
  <2>1. Now' = fn.text[IF stage' = "run" THEN (at + 1) + 1 ELSE at + 1].block
    BY <1>2 DEF Now
  <2>2. CASE Op(x) \in {"br", "ret"}
    BY <1>2, <1>5, <2>1, <2>2 DEF BlockAt
  <2>3. CASE Op(x) \notin {"br", "ret"}
    <3>1. BlockAt((at + 1) + 1) = BlockAt(at + 1)
      BY <1>1, <1>3, <1>4, <2>3, InText
    <3> QED
      BY <1>2, <1>5, <2>1, <2>3, <3>1 DEF BlockAt
  <2> QED
    BY <2>2, <2>3
<1>7. /\ Instrs' = Instrs /\ \A z : Args(z)' = Args(z) /\ Instr(z)' = Instr(z)
  BY <1>2, SameText
<1>8. \A y \in Instrs : Live(y)' <=> (Live(y) \/ y = x)
  <2> TAKE y \in Instrs
  <2>1. Live(y)' <=> (Instr(y).block = Now /\ y[2] <= at + 1) \/ BlockDominates(fn, Instr(y).block, Now)
    BY <1>2, <1>6, <1>7 DEF Live
  <2>2. y[2] \in Nat /\ y = Ins(y[2])
    BY <1>1, OperandsOf, InText
  <2>3. y[2] <= at + 1 <=> y[2] <= at \/ y[2] = at + 1
    BY <1>3, <2>2
  <2>4. y[2] = at + 1 <=> y = x
    BY <1>4, <2>2
  <2> QED
    BY <1>4, <1>5, <2>1, <2>3, <2>4 DEF Live
<1>9. Available' = Available \cup {x}
  <2>1. Available' = {y \in Instrs : Live(y)'} \cup {v \in UNION {Range(Args(y)) : y \in Instrs} : v[1] # "ins"}
    BY <1>7 DEF Available
  <2> DEFINE A == {y \in Instrs : Live(y)}
             B == {y \in Instrs : Live(y)'}
             C == {v \in UNION {Range(Args(y)) : y \in Instrs} : v[1] # "ins"}
  <2>2. B = A \cup {x}
    BY <1>4, <1>8
  <2>3. Available = A \cup C /\ Available' = B \cup C
    BY <2>1 DEF Available
  <2> HIDE DEF A, B, C
  <2> QED
    BY <2>2, <2>3
<1> QED
  BY <1>1, <1>2, <1>3, <1>4, <1>5, <1>6, <1>9

(* The instruction passed: what it takes is there.                         *)
LEMMA Takes ==
  ASSUME IInv, CodeInv, stage = "run", NEW x \in Instrs, x[2] = at + 1, Instr(x).block = Now, Op(x) # "phi",
         NEW v \in Range(Args(x))
  PROVE  v \in Available /\ v # x
<1>1. IsFunction(fn) /\ fn \in Functions /\ at \in Nat
  BY Text DEF IInv, CodeInv, Position, N
<1>2. v # x
  BY <1>1, OperandsOf
<1>3. ASSUME v[1] = "ins" PROVE Live(v)
  <2>1. v \in Instrs /\ Dominates(fn, v[2], x[2])
    BY <1>1, <1>3, ArgDominates
  <2> QED
    BY <1>1, <2>1, LiveBefore
<1> QED
  BY <1>1, <1>2, <1>3, ArgAvailable

LEMMA NotYet ==
  ASSUME IInv, Reached(Now), NEW x \in Instrs, x[2] = at + 1, Instr(x).block = Now
  PROVE  x \notin Available
<1>1. IsFunction(fn) /\ at \in Nat
  BY Text DEF IInv, Position, N
<1>2. ~Live(x)
  <2>1. ~BlockDominates(fn, Now, Now)
    BY BlockApart
  <2> QED
    BY <1>1, <2>1 DEF Live
<1>3. x[1] = "ins"
  BY <1>1, OperandsOf
<1> QED
  BY <1>2, <1>3 DEF Available

(* A value that is there before the step keeps its shadow.                 *)
LEMMA StepChanges ==
  ASSUME IInv, Frame, Step, NEW x, x = Ins(at + 1)
  PROVE  /\ \A y \in Instrs : y # x => env'[y] = env[y]
         /\ \A y \in Choosers : y # x => ptr'[y] = ptr[y]
         /\ DOMAIN env' = Instrs
<1>1. DOMAIN env = Instrs /\ (stage = "run" => DOMAIN ptr = Choosers)
  BY DEF Frame, IInv, Pointing, Clone
<1>2. stage = "run" /\ \/ UNCHANGED <<env, ptr>>
                       \/ \E e : env' = [env EXCEPT ![x] = e] /\ (ptr' = ptr \/ \E p : ptr' = [ptr EXCEPT ![x] = p])
  <2>1. stage = "run"
    BY DEF Step
  <2>2. CASE Op(x) \in Drawn
    <3>1. env' = [env EXCEPT ![x] = <<"drawn", clock'>>] /\ ptr' = ptr
      BY <2>2 DEF Step, Drawn
    <3> QED
      BY <2>1, <3>1
  <2>3. CASE Op(x) = "cast"
    <3>1. env' = [env EXCEPT ![x] = Value(Args(x)[1])] /\ ptr' = ptr
      BY <2>3 DEF Step, Drawn
    <3> QED
      BY <2>1, <3>1
  <2>4. CASE Op(x) = "select"
    <3>1. PICK k \in DOMAIN Args(x) : /\ env' = [env EXCEPT ![x] = Value(Args(x)[k])]
                                      /\ ptr' = [ptr EXCEPT ![x] = Target(arms[x][k])]
      BY <2>4 DEF Step, Drawn
    <3> QED
      BY <2>1, <3>1
  <2>5. CASE Op(x) \in {"fcmp", "store", "br", "ret"}
    <3>1. env' = env /\ ptr' = ptr
      BY <2>5 DEF Step, Drawn
    <3> QED
      BY <2>1, <3>1
  <2> QED
    BY <2>2, <2>3, <2>4, <2>5 DEF Step
<1> QED
  BY <1>1, <1>2

LEMMA StepOthers ==
  ASSUME IInv, CodeInv, Supported, Reached(Now), Frame, Step, NEW x, x = Ins(at + 1),
         NEW v \in Available, handleOperand(v) # Missing
  PROVE  Value(v)' = Value(v) /\ Target(handleOperand(v))' = Target(handleOperand(v))
<1>1. /\ IsFunction(fn) /\ fn \in Functions /\ at \in Nat /\ ~CastsOfPhis /\ Tables /\ stage = "run"
      /\ x \in Instrs /\ x[2] = at + 1 /\ Instr(x).block = Now
      /\ UNCHANGED <<fn, total, GEPMap, ConsMap, MInsMap, temp>>
  BY StepTo DEF CodeInv, IInv, Position, Supported
<1>2. x \notin Available
  BY <1>1, NotYet
<1>3. /\ \A y \in Instrs : y # x => env'[y] = env[y]
      /\ \A y \in Choosers : y # x => ptr'[y] = ptr[y]
  BY StepChanges
<1>4. v \in Instrs \/ (IsOperand(fn, v) /\ v[1] # "ins" /\ v \notin Instrs)
  BY <1>1, AvailableIs
<1>5. Value(v)' = Value(v)
  <2>1. v # x
    BY <1>2
  <2>2. v \in Instrs => v[1] = "ins"
    BY <1>1, OperandsOf
  <2> QED
    BY <1>3, <1>4, <2>1, <2>2 DEF Value
<1> PICK q : q = handleOperand(v)
  OBVIOUS
<1>6. ASSUME q[1] = "chosen" PROVE ptr'[q[2]] = ptr[q[2]]
  <2>1. q = Chosen(q[2])
    BY <1>1, <1>6, ChosenForm
  <2> PICK y : y = q[2]
    OBVIOUS
  <2>2. y \in Instrs /\ Op(y) = "select" /\ y \in StandsFor(v)
    BY <1>1, <1>4, <2>1, ChosenPointer DEF Clone
  <2>3. Live(y)
    BY <1>1, <2>2, StandsLive
  <2>4. y # x
    BY <1>2, <2>2, <2>3 DEF Available
  <2> QED
    BY <1>3, <2>2, <2>4 DEF Choosers, Choosing
<1>7. handleOperand(v)' = q
  BY <1>1, SamePointers
<1>8. Target(q)' = Target(q)
  BY <1>6, TargetStays
<1>9. Target(handleOperand(v))' = Target(q)'
  BY <1>7 DEF Target
<1> QED
  BY <1>5, <1>8, <1>9

(* The value of the instruction passed has its shadow now, or will have it *)
(* when the calls inserted there are made.                                 *)
LEMMA WrittenHere ==
  ASSUME IInv, CodeInv, Listed, stage \in Clone, NEW x \in Instrs, Op(x) \in Drawn, handleOperand(x) # Missing
  PROVE  x \in DOMAIN GEPMap /\ \E c \in Range(code[x]) : c.fun # "clear" /\ c.dest = Slot(GEPMap[x])
<1>1. IsFunction(fn) /\ Written /\ Forms /\ x[2] \in Texts /\ x = Ins(x[2])
  BY OperandsOf DEF IInv, Position, CodeInv
<1>2. Op(x) # "known" /\ Op(x) # "extern"
  BY Pointers DEF Listed, Missing
<1>3. Placed(x[2]) /\ HandedOut(x[2])
  BY DEF Placed, HandedOut
<1>4. PICK c \in Range(code[x]) : c.fun \in Writes
  <2>1. Op(x) \in {"bin", "neg", "math", "call", "lib", "load", "conv"}
    BY <1>2 DEF Drawn
  <2> QED
    BY <1>1, <1>3, <2>1 DEF Written
<1>5. Form(x, c)
  BY <1>1 DEF Forms
<1>6. c.dest = Slot(GEPMap[x]) /\ x \in DOMAIN GEPMap /\ c.fun # "clear"
  BY <1>4, <1>5 DEF Form, IsClear, IsWrite, IsStore, IsCheck, IsGiven, IsExit, Writes
<1> QED
  BY <1>6

LEMMA StepOwn ==
  ASSUME IInv, CodeInv, Supported, Reached(Now), Frame, Shadows, Step, NEW x, x = Ins(at + 1),
         handleOperand(x) # Missing, ~Pending(x)'
  PROVE  Value(x)' = Undef \/ Right(x)'
<1>1. /\ IsFunction(fn) /\ fn \in Functions /\ at \in Nat /\ ~CastsOfPhis /\ Listed /\ Tables /\ stage = "run"
      /\ x \in Instrs /\ x[2] = at + 1 /\ Instr(x).block = Now /\ x[1] = "ins" /\ Op(x) \in Ops
      /\ todo = << >> /\ todo' = code[x]
      /\ UNCHANGED <<fn, total, GEPMap, ConsMap, MInsMap, temp>>
  BY StepTo, OperandsOf DEF CodeInv, IInv, Position, Supported
<1>2. DOMAIN env = Instrs /\ DOMAIN ptr = Choosers
  BY <1>1 DEF Frame, IInv, Pointing, Clone
<1>3. ASSUME NEW u \in Range(Args(x)), Op(x) # "phi", handleOperand(u) # Missing
      PROVE  /\ u \in Available /\ (Value(u) = Undef \/ Right(u))
             /\ Value(u)' = Value(u) /\ Target(handleOperand(u))' = Target(handleOperand(u))
  <2>1. u \in Available
    BY <1>1, <1>3, Takes
  <2>2. ~Pending(u) /\ ~Cleared
    <3>1. Range(todo) = {}
      BY <1>1, NoCalls
    <3> QED
      BY <1>1, <3>1 DEF Pending, Cleared, AtReturn
  <2>3. Value(u) = Undef \/ Right(u)
    BY <1>3, <2>1, <2>2 DEF Shadows
  <2> QED
    BY <1>3, <2>1, <2>3, StepOthers
<1>4. handleOperand(x)' = handleOperand(x)
  BY <1>1, SamePointers
<1>5. CASE Op(x) \in Drawn
  <2>1. x \in DOMAIN GEPMap /\ \E c \in Range(code[x]) : c.fun # "clear" /\ c.dest = Slot(GEPMap[x])
    BY <1>1, <1>5, WrittenHere DEF Clone
  <2>2. Pending(x)'
    BY <1>1, <2>1 DEF Pending, Slot
  <2> QED
    BY <2>2
<1>6. CASE Op(x) = "cast"
  <2> PICK u : u = Args(x)[1]
    OBVIOUS
  <2>1. u \in Range(Args(x)) /\ StandsFor(u) \subseteq StandsFor(x) /\ u \in StandsFor(x)
    BY <1>1, <1>6, CastArg
  <2>2. Op(u) # "phi"
    BY <1>1, <1>6, <2>1 DEF CastsOfPhis, IsCast
  <2>3. handleOperand(x) = handleOperand(u)
    BY <1>1, <1>6, <2>2, CastPointer
  <2>4. /\ (Value(u) = Undef \/ Right(u)) /\ Target(handleOperand(u))' = Target(handleOperand(u))
    BY <1>3, <1>6, <2>1, <2>3
  <2>5. Value(x)' = Value(u)
    <3>1. env' = [env EXCEPT ![x] = Value(Args(x)[1])]
      BY <1>6 DEF Step, Drawn
    <3> QED
      BY <1>1, <1>2, <3>1 DEF Value
  <2>6. Target(handleOperand(x))' = Target(handleOperand(u))
    <3>1. handleOperand(u)' = handleOperand(x)'
      BY <1>1, <2>3, SamePointers
    <3>2. Target(handleOperand(x))' = Target(handleOperand(u))'
      BY <3>1 DEF Target
    <3> QED
      BY <2>4, <3>2
  <2> QED
    BY <1>1, <2>1, <2>4, <2>5, <2>6, RightStays
<1>7. CASE Op(x) = "select"
  <2>1. PICK k \in DOMAIN Args(x) : env' = [env EXCEPT ![x] = Value(Args(x)[k])]
                                    /\ ptr' = [ptr EXCEPT ![x] = Target(arms[x][k])]
    BY <1>7 DEF Step, Drawn
  <2> PICK u : u = Args(x)[k]
    OBVIOUS
  <2>2. u \in Range(Args(x)) /\ x \in Choosers /\ x \in Through
    BY <1>1, <1>7, OperandsOf DEF Choosers, Choosing, Through
  <2>3. StandsFor(u) \subseteq StandsFor(x)
    BY <2>2, StandsArg
  <2>4. arms[x][k] = handleOperand(u) /\ handleOperand(u) # Missing
    <3>1. x \in DOMAIN arms
      BY <1>1, <2>2 DEF IInv, Pointing, Clone
    <3> QED
      BY <1>7, <3>1 DEF CodeInv, Chooses
  <2>5. (Value(u) = Undef \/ Right(u))
    BY <1>3, <1>7, <2>2, <2>4
  <2>6. Value(x)' = Value(u)
    BY <1>1, <1>2, <2>1 DEF Value
  <2>7. Target(handleOperand(x))' = Target(handleOperand(u))
    <3>1. handleOperand(x)' = Chosen(x)
      BY <1>1, <1>4, <1>7, Pointers DEF Clone
    <3>2. ptr'[x] = Target(handleOperand(u))
      BY <1>2, <2>1, <2>2, <2>4
    <3>3. Target(handleOperand(x))' = ptr'[x]
      BY <3>1 DEF Target, Chosen
    <3> QED
      BY <3>2, <3>3
  <2> QED
    BY <1>1, <2>3, <2>5, <2>6, <2>7, RightStays
<1>8. CASE Op(x) \in {"fcmp", "store", "br", "ret"}
  BY <1>1, <1>8, Pointers DEF Clone
<1> QED
  BY <1>5, <1>6, <1>7, <1>8 DEF Step

LEMMA StepShadows ==
  ASSUME IInv, CodeInv, Supported, Follows, Step
  PROVE  Shadows'
<1> PICK x : x = Ins(at + 1)
  OBVIOUS
<1>1. /\ Available' = Available \cup {x} /\ todo = << >> /\ stage = "run"
      /\ UNCHANGED <<fn, GEPMap, ConsMap, MInsMap, temp>>
      /\ Reached(Now) /\ Frame /\ Shadows
  BY StepTo DEF Follows
<1>2. ~Cleared /\ \A v : ~Pending(v)
  <2>1. Range(todo) = {}
    BY <1>1, NoCalls
  <2> QED
    BY <1>1, <2>1 DEF Cleared, AtReturn, Pending
<1> SUFFICES ASSUME NEW v \in Available', handleOperand(v)' # Missing', ~Pending(v)'
             PROVE  Value(v)' = Undef \/ Right(v)'
  BY DEF Shadows, Undef
<1>3. handleOperand(v) # Missing
  BY <1>1, SamePointers DEF Missing
<1>4. CASE v \in Available
  <2>1. Value(v) = Undef \/ Right(v)
    BY <1>1, <1>2, <1>3, <1>4 DEF Shadows
  <2>2. Value(v)' = Value(v) /\ Target(handleOperand(v))' = Target(handleOperand(v))
    BY <1>1, <1>3, <1>4, StepOthers
  <2> QED
    BY <1>1, <2>1, <2>2, RightStays
<1>5. CASE v = x
  BY <1>1, <1>3, <1>5, StepOwn
<1> QED
  BY <1>1, <1>4, <1>5

LEMMA NoCopies ==
  ASSUME Forms, NEW x \in Instrs, NEW c \in Range(code[x])
  PROVE  c.fun # "copy_phi"
<1>1. Form(x, c)
  BY DEF Forms
<1> QED
  BY <1>1 DEF Form, IsClear, IsWrite, IsStore, IsCheck, IsGiven, IsExit, Writes

LEMMA Exits ==
  ASSUME Forms, NEW x \in Instrs, NEW c \in Range(code[x]), c.fun = "func_exit"
  PROVE  Op(x) = "ret"
<1>1. Form(x, c)
  BY DEF Forms
<1> QED
  BY <1>1 DEF Form, IsClear, IsWrite, IsStore, IsCheck, IsGiven, IsExit, Writes

LEMMA AtNext ==
  ASSUME fn' = fn, NEW x, x = Ins(at')
  PROVE  /\ Op(Ins(at))' = Op(x) /\ Args(Ins(at))' = Args(x) /\ Instr(Ins(at))' = Instr(x)
         /\ Ins(at)' = x
BY DEF Op, Args, Instr, Ins

LEMMA ReachedNow == ASSUME fn' = fn, NEW b, Reached(b), b = Now' PROVE Reached(Now)'
BY DEF Reached, Blocks

LEMMA StepFollows ==
  ASSUME IInv, CodeInv, Supported, Follows, Step
  PROVE  Follows'
<1> PICK x : x = Ins(at + 1)
  OBVIOUS
<1>1. /\ x \in Instrs /\ x[2] = at + 1 /\ Instr(x).block = Now /\ Now' = Now
      /\ stage = "run" /\ at \in Nat /\ stage' = (IF Op(x) \in {"br", "ret"} THEN "leave" ELSE "run")
      /\ at' = at + 1 /\ x = Ins(at') /\ todo = << >> /\ todo' = code[x]
      /\ UNCHANGED <<fn, total, code, temp, exits, result>>
  BY StepTo
<1>2. Reached(Now) /\ Frame /\ Leaving /\ Forms /\ Leaves /\ OneReturn /\ Tables
  BY DEF Follows, CodeInv, Supported, IInv
<1>3. /\ Instrs' = Instrs /\ \A z : Op(z)' = Op(z) /\ Args(z)' = Args(z) /\ Instr(z)' = Instr(z)
  BY <1>1, SameText
<1>4. /\ IsList(code[x]) /\ ClearsLast(code[x])
      /\ \A j \in DOMAIN code[x] : code[x][j] \in Range(code[x])
  <2>1. IsList(code[x]) /\ ClearsLast(code[x])
    BY <1>1, <1>2 DEF Tables, CodeInv
  <2> QED
    BY <2>1 DEF Range
<1>5. Reached(Now)'
  <2> PICK b : b = Now
    OBVIOUS
  <2> QED
    BY <1>1, <1>2, ReachedNow
<1>6. Frame'
  <2>1. DOMAIN env' = Instrs
    BY <1>2, StepChanges
  <2> QED
    BY <1>1, <1>2, <1>3, <2>1 DEF Frame, Slot, ArgPtr
<1>7. Doing'
  <2>1. IsList(todo)' /\ ClearsLast(todo)'
    BY <1>1, <1>4 DEF IsList, ClearsLast
  <2>2. Passing'
    <3>1. at' > 0 /\ Instr(Ins(at))' = Instr(x) /\ Ins(at)' = x
      BY <1>1, AtNext
    <3>2. Range(todo') = Range(code'[x])
      BY <1>1
    <3> QED
      BY <1>1, <3>1, <3>2 DEF Passing
  <2> QED
    BY <2>1, <2>2 DEF Doing
<1>8. Shadows'
  BY StepShadows
<1>9. Ready'
  <2>1. \A j \in DOMAIN todo' : todo'[j].fun # "copy_phi"
    BY <1>1, <1>2, <1>4, NoCopies
  <2> QED
    BY <2>1 DEF Ready
<1>10. Leaving'
  <2>1. exits = 0 /\ ~AtReturn
    BY <1>1, <1>2 DEF Leaving, AtReturn
  <2>2. AtReturn' <=> Op(x) = "ret"
    <3>1. Op(Ins(at))' = Op(x)
      BY <1>1, AtNext
    <3> QED
      BY <1>1, <3>1 DEF AtReturn
  <2>3. CASE Op(x) # "ret"
    <3>1. NoExit(todo)' /\ exits' = 0
      BY <1>1, <1>2, <1>4, <2>1, <2>3, Exits DEF NoExit
    <3>2. stage' # "done"
      BY <1>1
    <3> QED
      BY <2>2, <2>3, <3>1, <3>2 DEF Leaving
  <2>4. CASE Op(x) = "ret"
    <3>1. OnlyExit(code[x]) /\ (~fn.slice /\ Args(x) # << >> => Gives(code[x]))
      <4>1. x[2] \in Texts /\ x = Ins(x[2])
        BY <1>1, OperandsOf DEF IInv, Position
      <4>2. Returned(x[2])
        BY <1>1 DEF Returned, Clone
      <4> QED
        BY <1>1, <1>2, <2>4, <4>1, <4>2 DEF Leaves
    <3>2. OnlyExit(todo)' /\ exits' = 0
      BY <1>1, <2>1, <3>1 DEF OnlyExit
    <3>3. ~fn.slice' /\ Args(Ins(at))' # << >> => Gives(todo)'
      <4>1. Args(Ins(at))' = Args(x)
        BY <1>1, AtNext
      <4> QED
        BY <1>1, <3>1, <4>1 DEF Gives
    <3>4. stage' # "done"
      BY <1>1
    <3> QED
      BY <2>2, <2>4, <3>2, <3>3, <3>4 DEF Leaving
  <2> QED
    BY <2>3, <2>4
<1> QED
  BY <1>5, <1>6, <1>7, <1>8, <1>9, <1>10 DEF Follows

-----------------------------------------------------------------------------
(* The calls that the clone makes.                                         *)
LEMMA HeadTail ==
  ASSUME NEW s, IsList(s), s # << >>
  PROVE  /\ Head(s) = s[1] /\ Head(s) \in Range(s) /\ 1 \in DOMAIN s /\ Len(s) \in Nat /\ DOMAIN s = 1 .. Len(s)
         /\ IsList(Tail(s)) /\ DOMAIN Tail(s) = 1 .. Len(s) - 1
         /\ \A j \in DOMAIN Tail(s) : j \in Nat /\ j > 0 /\ j + 1 \in DOMAIN s /\ Tail(s)[j] = s[j + 1]
         /\ Range(s) = {Head(s)} \cup Range(Tail(s)) /\ Range(Tail(s)) \subseteq Range(s)
<1>1. s \in Seq(Range(s)) /\ Len(s) \in Nat /\ DOMAIN s = 1 .. Len(s)
  BY ListOf DEF IsList
<1>2. Len(s) > 0
  BY <1>1, EmptySeq
<1>3. Head(s) = s[1] /\ 1 \in DOMAIN s
  BY <1>1, <1>2, HeadTailProperties
<1>4. Tail(s) \in Seq(Range(s)) /\ Len(Tail(s)) = Len(s) - 1 /\ \A i \in 1 .. Len(Tail(s)) : Tail(s)[i] = s[i + 1]
  BY <1>1, <1>2, HeadTailProperties
<1>5. DOMAIN Tail(s) = 1 .. Len(s) - 1 /\ IsList(Tail(s))
  <2>1. DOMAIN Tail(s) = 1 .. Len(Tail(s)) /\ IsList(Tail(s))
    BY <1>4, ListOf
  <2> QED
    BY <1>4, <2>1
<1>6. \A j \in DOMAIN Tail(s) : j \in Nat /\ j > 0 /\ j + 1 \in DOMAIN s /\ Tail(s)[j] = s[j + 1]
  BY <1>1, <1>4, <1>5
<1>7. Head(s) \in Range(s) /\ Range(Tail(s)) \subseteq Range(s)
  BY <1>3, <1>6 DEF Range
<1>8. Range(s) \subseteq {Head(s)} \cup Range(Tail(s))
  <2> SUFFICES ASSUME NEW i \in DOMAIN s
               PROVE  s[i] \in {Head(s)} \cup Range(Tail(s))
    BY DEF Range
  <2>1. CASE i = 1
    BY <1>3, <2>1
  <2>2. CASE i # 1
    <3> PICK j : j = i - 1
      OBVIOUS
    <3>1. j \in DOMAIN Tail(s) /\ i = j + 1
      BY <1>1, <1>5, <2>2
    <3>2. s[i] = Tail(s)[j]
      BY <1>6, <3>1
    <3> QED
      BY <3>1, <3>2 DEF Range
  <2> QED
    BY <2>1, <2>2
<1> QED
  BY <1>1, <1>3, <1>5, <1>6, <1>7, <1>8

LEMMA SameAvailable ==
  ASSUME UNCHANGED <<fn, stage, at>>
  PROVE  /\ Now' = Now /\ Available' = Available /\ (\A x : Live(x)' <=> Live(x)) /\ (AtReturn' <=> AtReturn)
<1>1. Instrs' = Instrs /\ \A z : Args(z)' = Args(z) /\ Instr(z)' = Instr(z) /\ Op(z)' = Op(z)
  BY SameText
<1>2. Now' = Now
  BY DEF Now
<1>3. \A x : Live(x)' <=> Live(x)
  BY <1>1, <1>2 DEF Live
<1>4. Available' = Available
  BY <1>1, <1>3 DEF Available
<1>5. AtReturn' <=> AtReturn
  <2> PICK x : x = Ins(at)
    OBVIOUS
  <2>1. x = Ins(at')
    OBVIOUS
  <2>2. Op(Ins(at))' = Op(x)
    BY <2>1, AtNext
  <2> QED
    BY <2>2 DEF AtReturn
<1> QED
  BY <1>2, <1>3, <1>4, <1>5

(* A call that writes no entry.                                            *)
LEMMA ReadsOnly ==
  ASSUME Tables, CodeInv, Supported, Follows, UNCHANGED <<passVars, env, ptr, temp>>, ~Cleared,
         IsList(todo), todo # << >>, todo' = Tail(todo), Head(todo).dest[1] # "slot"
  PROVE  Shadows'
<1>1. UNCHANGED <<fn, stage, at, GEPMap, ConsMap, MInsMap, temp, env, ptr>>
  BY DEF passVars
<1> SUFFICES ASSUME NEW v \in Available', handleOperand(v)' # Missing', ~Pending(v)'
             PROVE  Value(v)' = Undef \/ Right(v)'
  BY DEF Shadows, Undef
<1>2. v \in Available /\ handleOperand(v) # Missing
  BY <1>1, SameAvailable, SamePointers DEF Missing
<1>3. ~Pending(v)
  <2> SUFFICES ASSUME v \in DOMAIN GEPMap, NEW c \in Range(todo), c.fun # "clear", c.dest = Slot(GEPMap[v])
               PROVE  FALSE
    BY DEF Pending
  <2>1. c # Head(todo)
    BY DEF Slot
  <2>2. c \in Range(todo')
    BY <2>1, HeadTail
  <2> QED
    BY <1>1, <2>2 DEF Pending, Slot
<1>4. Value(v) = Undef \/ Right(v)
  BY <1>2, <1>3 DEF Follows, Shadows
<1>5. Value(v)' = Value(v) /\ Target(handleOperand(v))' = Target(handleOperand(v))
  BY <1>1, SamePointers DEF Value, Target
<1> QED
  BY <1>1, <1>4, <1>5, RightStays

LEMMA Basics ==
  ASSUME IInv, CodeInv
  PROVE  /\ IsFunction(fn) /\ fn \in Functions /\ at \in Nat /\ at \in 0 .. N /\ N \in Nat
         /\ Tables /\ Unshared /\ Forms /\ DOMAIN GEPMap \subseteq Instrs
         /\ \A x \in Instrs : x[1] = "ins" /\ x[2] \in Texts /\ x = Ins(x[2]) /\ Op(x) \in Ops
<1>1. IsFunction(fn) /\ fn \in Functions /\ Tables /\ Unshared /\ Forms /\ at \in 0 .. N
  BY DEF IInv, CodeInv, Position, N
<1>2. N \in Nat /\ at \in Nat
  BY <1>1, Text
<1>3. \A x \in Instrs : x[1] = "ins" /\ x[2] \in Texts /\ x = Ins(x[2]) /\ Op(x) \in Ops
  BY <1>1, OperandsOf
<1> QED
  BY <1>1, <1>2, <1>3 DEF Tables

(* A call that writes the entry of the value computed last, or of a phi    *)
(* just entered: the values that are there and had found their shadows in  *)
(* that entry are that value itself.                                       *)
LEMMA Overwrites ==
  ASSUME IInv, CodeInv, stage \in Clone, Supported, Follows, UNCHANGED <<passVars, env, ptr>>, ~Cleared,
         todo # << >>, todo' = Tail(todo),
         NEW x \in DOMAIN GEPMap, Instr(x).block = Now, x[2] <= at, Op(x) = "phi" \/ Op(x) \in Drawn,
         \A w \in Instrs : Instr(w).block = Now /\ x[2] < w[2] /\ w[2] <= at => Op(w) = "phi",
         NEW d, d = Slot(GEPMap[x]), Head(todo).dest = d,
         DOMAIN temp' = DOMAIN temp, \A p \in DOMAIN temp : p # d => temp'[p] = temp[p],
         env[x] = Undef \/ temp'[d] = env[x]
  PROVE  Shadows'
<1>1. /\ UNCHANGED <<fn, stage, at, GEPMap, ConsMap, MInsMap, env, ptr>>
      /\ IsFunction(fn) /\ fn \in Functions /\ at \in Nat /\ Tables /\ x \in Instrs /\ x[1] = "ins" /\ Unshared
      /\ Reached(Now) /\ Frame /\ Shadows /\ IsList(todo)
  BY Basics DEF passVars, Follows, Doing
<1>2. d \in DOMAIN temp
  <2>1. GEPMap[x] \in 1 .. index /\ index <= total /\ index \in Nat /\ total \in Nat
    BY <1>1 DEF IInv, Position, Counted, Tables
  <2>2. GEPMap[x] \in 1 .. total
    BY <2>1
  <2> QED
    BY <1>1, <2>2 DEF Frame
<1> SUFFICES ASSUME NEW v \in Available', handleOperand(v)' # Missing', ~Pending(v)'
             PROVE  Value(v)' = Undef \/ Right(v)'
  BY DEF Shadows, Undef
<1>3. v \in Available /\ handleOperand(v) # Missing /\ handleOperand(v)' = handleOperand(v)
  BY <1>1, SameAvailable, SamePointers DEF Missing
<1>4. Value(v)' = Value(v) /\ Target(handleOperand(v))' = Target(handleOperand(v))
  BY <1>1, <1>3 DEF Value, Target
<1>5. CASE v = x
  <2>1. handleOperand(x) = d
    BY <1>1, <1>3, <1>5, Pointers
  <2>2. Target(handleOperand(v))' = d /\ Value(v)' = env[x]
    BY <1>1, <1>4, <1>5, <2>1 DEF Target, Slot, Value
  <2>3. \A y \in DOMAIN GEPMap : Slot(GEPMap[y]) = d => y = x
    BY <1>1 DEF Slot, Unshared
  <2>4. x \in StandsFor(x)'
    BY <1>1, Itself, SameStands
  <2>5. \A y \in DOMAIN GEPMap' : Slot(GEPMap[y])' = d => y \in StandsFor(v)'
    BY <1>1, <1>5, <2>3, <2>4 DEF Slot
  <2> QED
    BY <1>2, <2>2, <2>5 DEF Right
<1>6. CASE v # x
  <2>1. ~Pending(v)
    <3> SUFFICES ASSUME v \in DOMAIN GEPMap, NEW c \in Range(todo), c.fun # "clear", c.dest = Slot(GEPMap[v])
                 PROVE  FALSE
      BY DEF Pending
    <3>1. c # Head(todo)
      BY <1>1, <1>6 DEF Slot, Unshared
    <3>2. c \in Range(todo')
      BY <1>1, <3>1, HeadTail
    <3> QED
      BY <1>1, <3>2 DEF Pending, Slot
  <2>2. Value(v) = Undef \/ Right(v)
    BY <1>1, <1>3, <2>1 DEF Shadows
  <2>3. CASE Value(v) = Undef
    BY <1>4, <2>3
  <2>4. CASE Right(v)
    <3>1. Target(handleOperand(v)) # d
      <4> SUFFICES ASSUME Target(handleOperand(v)) = d
                   PROVE  FALSE
        OBVIOUS
      <4>1. x \in StandsFor(v)
        BY <2>4 DEF Right
      <4> QED
        BY <1>1, <1>3, <1>6, <4>1, Stale
    <3> QED
      BY <1>1, <1>4, <2>2, <3>1, RightStays
  <2> QED
    BY <2>2, <2>3, <2>4
<1> QED
  BY <1>5, <1>6

LEMMA CallFrame ==
  ASSUME Frame, Call
  PROVE  /\ DOMAIN temp' = DOMAIN temp /\ Frame'
         /\ \A p : p # Head(todo).dest /\ p \in DOMAIN temp => temp'[p] = temp[p]
<1>1. temp' = temp \/ \E v : temp' = [temp EXCEPT ![Head(todo).dest] = v]
  BY DEF Call
<1>2. UNCHANGED <<fn, total, env>>
  BY DEF Call, passVars
<1>3. DOMAIN temp' = DOMAIN temp
  BY <1>1
<1>4. Frame'
  BY <1>2, <1>3, SameText DEF Frame, Slot, ArgPtr
<1> QED
  BY <1>1, <1>3, <1>4

LEMMA EnteredCopy ==
  ASSUME IInv, CodeInv, Entering, NEW c \in Range(todo)
  PROVE  \E x \in PhisOf(Now) : /\ x \in DOMAIN GEPMap /\ c = CopyOf(x) /\ x[2] <= at
                                /\ c.fun = "copy_phi" /\ c.dest = Slot(GEPMap[x]) /\ Copied(c) = x
                                /\ c.reads[1].ptr = Chosen(x)
<1>1. stage = "run" /\ c \in Range(code[Entry(Now)]) /\ Copied(c)[2] <= at
  BY DEF Entering
<1>2. Now \in Blocks
  <2>1. at + 1 \in Texts
    BY <1>1, Basics, Text DEF IInv, Position, N
  <2> QED
    BY <1>1, <2>1, Basics, InText DEF Now, BlockAt
<1>3. PICK j \in DOMAIN code[Entry(Now)] : c = code[Entry(Now)][j]
  BY <1>1 DEF Range
<1>4. PICK x \in PhisOf(Now) : x \in DOMAIN GEPMap /\ c = CopyOf(x)
  BY <1>2, <1>3 DEF CodeInv, Copies, IsCopy
<1>5. c.fun = "copy_phi" /\ c.dest = Slot(GEPMap[x]) /\ Copied(c) = x /\ c.reads[1].ptr = Chosen(x)
  BY <1>4 DEF CopyOf, Copied, RuntimeCall, Reads
<1> QED
  BY <1>1, <1>4, <1>5

LEMMA EnteringShadows ==
  ASSUME IInv, CodeInv, stage \in Clone, Supported, Follows, Call, Entering
  PROVE  Shadows'
<1> PICK c : c = Head(todo)
  OBVIOUS
<1>1. /\ todo # << >> /\ IsList(todo) /\ c = todo[1] /\ 1 \in DOMAIN todo /\ c \in Range(todo) /\ todo' = Tail(todo)
      /\ UNCHANGED <<passVars, env, ptr>> /\ Frame /\ Ready
  BY HeadTail DEF Call, Follows, Doing
<1>2. PICK x \in PhisOf(Now) : /\ x \in DOMAIN GEPMap /\ c = CopyOf(x) /\ x[2] <= at
                               /\ c.fun = "copy_phi" /\ c.dest = Slot(GEPMap[x]) /\ Copied(c) = x
                               /\ c.reads[1].ptr = Chosen(x)
  BY <1>1, EnteredCopy
<1>3. x \in Instrs /\ Instr(x).block = Now /\ Op(x) = "phi"
  BY DEF PhisOf
<1> PICK d : d = Slot(GEPMap[x])
  OBVIOUS
<1>4. DOMAIN temp' = DOMAIN temp /\ \A p \in DOMAIN temp : p # d => temp'[p] = temp[p]
  BY <1>1, <1>2, CallFrame
<1>5. env[x] = Undef \/ (ptr[x] \in DOMAIN temp /\ temp[ptr[x]] = env[x])
  BY <1>1, <1>2 DEF Ready
<1>6. env[x] = Undef \/ temp'[d] = env[x]
  <2> SUFFICES ASSUME env[x] # Undef
               PROVE  temp'[d] = env[x]
    OBVIOUS
  <2>1. ptr[x] \in DOMAIN temp /\ temp[ptr[x]] = env[x]
    BY <1>5
  <2>2. ptr[x] # Null
    BY <1>1, <2>1 DEF Frame, Null, Slot, ArgPtr
  <2>3. Target(c.reads[1].ptr) = ptr[x] /\ Holds(c.reads[1].ptr) = temp[ptr[x]]
    <3>1. Target(Chosen(x)) = ptr[x] /\ Chosen(x)[1] # "immediate"
      BY DEF Target, Chosen
    <3>2. Holds(Chosen(x)) = temp[ptr[x]]
      BY <2>1, <3>1 DEF Holds
    <3> QED
      BY <1>2, <3>1, <3>2
  <2>4. temp' = [temp EXCEPT ![d] = temp[ptr[x]]]
    BY <1>2, <2>2, <2>3 DEF Call
  <2>5. d \in DOMAIN temp
    <3>1. GEPMap[x] \in 1 .. index /\ index <= total /\ index \in Nat /\ total \in Nat
      BY <1>2 DEF IInv, Position, Counted, Tables
    <3>2. GEPMap[x] \in 1 .. total
      BY <3>1
    <3> QED
      BY <1>1, <3>2 DEF Frame
  <2> QED
    BY <2>1, <2>4, <2>5
<1>7. \A w \in Instrs : Instr(w).block = Now /\ x[2] < w[2] /\ w[2] <= at => Op(w) = "phi"
  BY DEF Entering
<1>8. ~Cleared
  BY <1>1, <1>2 DEF Cleared
<1> QED
  BY <1>1, <1>2, <1>3, <1>4, <1>6, <1>7, <1>8, Overwrites

LEMMA PassedAt ==
  ASSUME IInv, CodeInv, stage \in Clone, Passing
  PROVE  /\ Ins(at) \in Instrs /\ Ins(at)[2] = at /\ Instr(Ins(at)).block = Now
         /\ stage = "run" => Op(Ins(at)) \notin {"br", "ret"}
         /\ Op(Ins(at)) = "ret" => AtReturn
<1>1. at > 0 /\ Instr(Ins(at)).block = Now /\ at \in Texts /\ IsFunction(fn) /\ N \in Nat
  BY Basics, Text DEF Passing
<1>2. Ins(at) \in Instrs /\ Ins(at)[2] = at
  BY <1>1, TextAt
<1>3. ASSUME stage = "run", Op(Ins(at)) \in {"br", "ret"}
      PROVE  FALSE
  <2>1. at < N /\ Now = BlockAt(at + 1)
    BY <1>3 DEF IInv, Position, N, Now, BlockAt
  <2>2. BlockAt(at + 1) = BlockAt(at) + 1 /\ BlockAt(at) \in Nat /\ Instr(Ins(at)).block = BlockAt(at)
    BY <1>1, <1>3, <2>1, InText
  <2> QED
    BY <1>1, <2>1, <2>2
<1>4. Op(Ins(at)) = "ret" => AtReturn
  BY <1>3 DEF AtReturn, Clone
<1> QED
  BY <1>1, <1>2, <1>3, <1>4

LEMMA ClearingShadows ==
  ASSUME IInv, CodeInv, stage \in Clone, Follows, Call, Passing, IsClear(Ins(at), Head(todo))
  PROVE  Shadows'
<1>1. /\ todo # << >> /\ IsList(todo) /\ ClearsLast(todo) /\ Head(todo).fun = "clear" /\ Head(todo) = todo[1]
      /\ todo' = Tail(todo) /\ UNCHANGED <<fn, stage, at>> /\ IsFunction(fn)
  BY HeadTail, Basics DEF Call, Follows, Doing, IsClear, passVars
<1>2. AtReturn'
  <2>1. Op(LastReturn) = "ret"
    BY <1>1, LastReturnIs
  <2>2. AtReturn
    BY <2>1, PassedAt DEF IsClear
  <2> QED
    BY <1>1, <2>2, SameAvailable
<1> PICK t : t = Tail(todo)
  OBVIOUS
<1>3. t = << >> \/ Head(t).fun = "clear"
  <2> SUFFICES ASSUME t # << >>
               PROVE  Head(t).fun = "clear"
    OBVIOUS
  <2>1. IsList(t)
    BY <1>1, HeadTail
  <2>2. Head(t) = t[1] /\ 1 \in DOMAIN t
    BY <2>1, HeadTail
  <2>3. 1 + 1 \in DOMAIN todo /\ t[1] = todo[1 + 1] /\ 1 \in DOMAIN todo
    BY <1>1, <2>2, HeadTail
  <2> QED
    BY <1>1, <2>2, <2>3 DEF ClearsLast
<1>4. Cleared'
  BY <1>1, <1>2, <1>3 DEF Cleared
<1> QED
  BY <1>4 DEF Shadows

LEMMA PassingShadows ==
  ASSUME IInv, CodeInv, stage \in Clone, Supported, Follows, Call, Passing
  PROVE  Shadows'
<1> PICK c : c = Head(todo)
  OBVIOUS
<1> PICK z : z = Ins(at)
  OBVIOUS
<1>1. /\ todo # << >> /\ IsList(todo) /\ c \in Range(todo) /\ todo' = Tail(todo)
      /\ UNCHANGED <<passVars, env, ptr>> /\ Frame
  BY HeadTail DEF Call, Follows, Doing
<1>2. /\ z \in Instrs /\ z[2] = at /\ Instr(z).block = Now /\ Form(z, c) /\ Tables /\ at \in Nat
  <2>1. z \in Instrs /\ z[2] = at /\ Instr(z).block = Now
    BY PassedAt
  <2>2. c \in Range(code[z]) /\ Forms /\ Tables /\ at \in Nat
    BY <1>1, Basics DEF Passing
  <2> QED
    BY <2>1, <2>2 DEF Forms
<1>3. CASE IsClear(z, c)
  BY <1>3, ClearingShadows
<1>4. CASE ~IsClear(z, c)
  <2>1. c.fun \notin {"clear", "copy_phi"} /\ (c.dest = Null \/ IsWrite(z, c))
    BY <1>2, <1>4 DEF Form, IsWrite, IsStore, IsCheck, IsGiven, IsExit, Writes
  <2>2. ~Cleared
    BY <1>1, <2>1 DEF Cleared
  <2>3. temp' = IF c.dest \in DOMAIN temp THEN [temp EXCEPT ![c.dest] = env[z]] ELSE temp
    BY <2>1 DEF Call
  <2>4. CASE c.dest = Null
    <3>1. Null \notin DOMAIN temp
      BY <1>1 DEF Frame, Null, Slot, ArgPtr
    <3>2. temp' = temp /\ c.dest[1] # "slot"
      BY <2>3, <2>4, <3>1 DEF Null
    <3>3. UNCHANGED <<passVars, env, ptr, temp>>
      BY <1>1, <3>2
    <3> QED
      BY <1>1, <1>2, <2>2, <3>2, <3>3, ReadsOnly
  <2>5. CASE IsWrite(z, c)
    <3>1. z \in DOMAIN GEPMap /\ c.dest = Slot(GEPMap[z]) /\ Op(z) \in Drawn
      BY <2>5 DEF IsWrite
    <3> PICK d : d = Slot(GEPMap[z])
      OBVIOUS
    <3>2. d \in DOMAIN temp
      <4>1. GEPMap[z] \in 1 .. index /\ index <= total /\ index \in Nat /\ total \in Nat
        BY <3>1 DEF IInv, Position, Counted, Tables
      <4>2. GEPMap[z] \in 1 .. total
        BY <4>1
      <4> QED
        BY <1>1, <4>2 DEF Frame
    <3>3. DOMAIN temp' = DOMAIN temp /\ (\A p \in DOMAIN temp : p # d => temp'[p] = temp[p]) /\ temp'[d] = env[z]
      BY <2>3, <3>1, <3>2
    <3>4. \A w \in Instrs : Instr(w).block = Now /\ z[2] < w[2] /\ w[2] <= at => Op(w) = "phi"
      <4>1. \A w \in Instrs : w[2] \in Nat
        BY Basics, InText
      <4> QED
        BY <1>2, <4>1
    <3>5. z[2] <= at
      BY <1>2
    <3> QED
      BY <1>1, <1>2, <2>2, <3>1, <3>3, <3>4, <3>5, Overwrites
  <2> QED
    BY <2>1, <2>4, <2>5
<1> QED
  BY <1>3, <1>4

(* What a call reads.                                                      *)
LEMMA PendingHere ==
  ASSUME IInv, CodeInv, stage \in Clone, Passing, NEW v, Pending(v)
  PROVE  v = Ins(at) /\ Op(v) \in Drawn
<1> PICK z : z = Ins(at)
  OBVIOUS
<1>1. PICK c \in Range(todo) : c.fun # "clear" /\ c.dest = Slot(GEPMap[v]) /\ v \in DOMAIN GEPMap
  BY DEF Pending
<1>2. Form(z, c)
  <2>1. c \in Range(code[z]) /\ z \in Instrs /\ Forms
    BY PassedAt, Basics DEF Passing
  <2> QED
    BY <2>1 DEF Forms
<1>3. c.dest # Null
  BY <1>1 DEF Slot, Null
<1>4. IsWrite(z, c)
  BY <1>1, <1>2, <1>3 DEF Form, IsClear, IsStore, IsCheck, IsGiven, IsExit
<1>5. z \in DOMAIN GEPMap /\ GEPMap[z] = GEPMap[v] /\ Op(z) \in Drawn
  BY <1>1, <1>4 DEF IsWrite, Slot
<1>6. z = v
  BY <1>1, <1>5, Basics DEF Unshared
<1> QED
  BY <1>5, <1>6

LEMMA ReadRight ==
  ASSUME IInv, CodeInv, stage \in Clone, Supported, Follows, Passing, ~Cleared,
         NEW y \in Instrs, Live(y), Op(y) # "phi", y = Ins(at) \/ Op(Ins(at)) \notin Drawn,
         NEW v \in Range(Args(y)), handleOperand(v) # Missing
  PROVE  Value(v) = Undef \/ (Target(handleOperand(v)) \in DOMAIN temp /\ Holds(handleOperand(v)) = Value(v))
<1>1. IsFunction(fn) /\ fn \in Functions /\ at \in Nat
  BY Basics
<1>2. v \in Available
  <2>1. ASSUME v[1] = "ins" PROVE Live(v)
    <3>1. v \in Instrs /\ Dominates(fn, v[2], y[2])
      BY <1>1, <2>1, ArgDominates
    <3> QED
      BY <1>1, <3>1, LiveBefore
  <2> QED
    BY <1>1, <2>1, ArgAvailable
<1>3. ~Pending(v)
  <2>1. v # y
    BY <1>1, OperandsOf
  <2> QED
    BY <2>1, PendingHere
<1>4. Value(v) = Undef \/ Right(v)
  BY <1>2, <1>3 DEF Follows, Shadows
<1> PICK p : p = handleOperand(v)
  OBVIOUS
<1>5. CASE Right(v)
  <2>1. Target(p) \in DOMAIN temp /\ temp[Target(p)] = Value(v)
    BY <1>5 DEF Right
  <2>2. p[1] # "immediate"
    BY Basics, OperandPointers DEF Arm
  <2>3. Holds(p) = temp[Target(p)]
    BY <2>1, <2>2 DEF Holds
  <2> QED
    BY <2>1, <2>3
<1> QED
  BY <1>4, <1>5

LEMMA PassedLive ==
  ASSUME IInv, CodeInv, stage \in Clone, Passing
  PROVE  Live(Ins(at))
BY PassedAt, Basics DEF Live

LEMMA GivenArg ==
  ASSUME IsFunction(fn), NEW z \in Instrs, Op(z) = "ret", NEW v \in Range(Args(z))
  PROVE  v = Args(z)[1] /\ Args(z) # << >>
<1>1. Len(Args(z)) <= 1
  <2>1. IsInstruction(fn, z[2]) /\ z[2] \in Texts /\ z = Ins(z[2])
    BY OperandsOf, Text
  <2>2. fn.text[z[2]].op = "ret" /\ fn.text[z[2]].args = Args(z)
    BY <2>1, TextAt
  <2> QED
    BY <2>1, <2>2 DEF IsInstruction
<1>2. DOMAIN Args(z) = 1 .. Len(Args(z)) /\ Len(Args(z)) \in Nat
  BY OperandsOf
<1>3. PICK j \in DOMAIN Args(z) : v = Args(z)[j]
  BY DEF Range
<1>4. j = 1
  BY <1>1, <1>2
<1> QED
  BY <1>3, <1>4

LEMMA ResultRight ==
  ASSUME IInv, CodeInv, stage \in Clone, Supported, Follows, Call, Passing, Head(todo).fun = "copy_return"
  PROVE  Value(Args(Ins(at))[1]) \in {Undef, result'}
<1> PICK c : c = Head(todo)
  OBVIOUS
<1> PICK z : z = Ins(at)
  OBVIOUS
<1>1. todo # << >> /\ c \in Range(todo) /\ IsList(todo)
  BY HeadTail DEF Call, Follows, Doing
<1>2. z \in Instrs /\ Form(z, c) /\ Frame /\ IsFunction(fn) /\ Op(z) # "phi"
  <2>1. z \in Instrs /\ c \in Range(code[z]) /\ Forms /\ Frame /\ IsFunction(fn)
    BY <1>1, PassedAt, Basics DEF Passing, Follows
  <2>2. Form(z, c)
    BY <2>1 DEF Forms
  <2> QED
    BY <2>1, <2>2 DEF Form, IsClear, IsWrite, IsStore, IsCheck, IsGiven, IsExit, Writes
<1>3. IsGiven(z, c)
  BY <1>2 DEF Form, IsClear, IsWrite, IsStore, IsCheck, IsExit, Writes
<1>4. Op(z) = "ret" /\ 1 \in DOMAIN c.reads /\ ReadsOf(c, z)
  BY <1>3 DEF IsGiven, Supported
<1>5. c.reads[1] \in Range(c.reads)
  BY <1>4 DEF Range
<1>6. PICK v \in Range(Args(z)) : handleOperand(v) # Missing /\ c.reads[1] = Reads(handleOperand(v), v)
  BY <1>4, <1>5 DEF ReadsOf, IsRead
<1>7. v = Args(z)[1]
  BY <1>2, <1>4, <1>6, GivenArg
<1>8. ~Cleared
  BY <1>1 DEF Cleared
<1>9. Live(z) /\ Op(z) \notin Drawn
  BY <1>4, PassedLive DEF Drawn
<1>10. Value(v) = Undef \/ (Target(handleOperand(v)) \in DOMAIN temp /\ Holds(handleOperand(v)) = Value(v))
  BY <1>2, <1>6, <1>8, <1>9, ReadRight
<1>11. c.reads[1].ptr = handleOperand(v)
  BY <1>6 DEF Reads
<1>12. CASE Target(handleOperand(v)) \in DOMAIN temp /\ Holds(handleOperand(v)) = Value(v)
  <2>1. Target(c.reads[1].ptr) # Null
    BY <1>2, <1>11, <1>12 DEF Frame, Null, Slot, ArgPtr
  <2>2. result' = Holds(c.reads[1].ptr)
    BY <2>1 DEF Call
  <2> QED
    BY <1>7, <1>11, <1>12, <2>2
<1> QED
  BY <1>7, <1>10, <1>12

LEMMA CallReady ==
  ASSUME Follows, Call
  PROVE  Ready'
<1>1. /\ IsList(todo) /\ todo # << >> /\ todo' = Tail(todo) /\ UNCHANGED <<env, ptr>> /\ Frame /\ Ready
  BY DEF Follows, Doing, Call
<1>2. /\ DOMAIN temp' = DOMAIN temp /\ \A p : p # Head(todo).dest /\ p \in DOMAIN temp => temp'[p] = temp[p]
  BY <1>1, CallFrame
<1> PICK t : t = Tail(todo)
  OBVIOUS
<1> SUFFICES ASSUME NEW j \in DOMAIN t, t[j].fun = "copy_phi",
                    NEW x, x = Copied(t[j]), env[x] # Undef
             PROVE  /\ ptr[x] \in DOMAIN temp' /\ temp'[ptr[x]] = env[x]
                    /\ \A i \in 1 .. j - 1 : t[i].dest # ptr[x]
  BY <1>1 DEF Ready, Copied, Undef
<1>3. j \in Nat /\ j > 0 /\ j + 1 \in DOMAIN todo /\ t[j] = todo[j + 1] /\ Head(todo) = todo[1]
  BY <1>1, HeadTail
<1>4. ptr[x] \in DOMAIN temp /\ temp[ptr[x]] = env[x] /\ \A i \in 1 .. (j + 1) - 1 : todo[i].dest # ptr[x]
  BY <1>1, <1>3 DEF Ready
<1>5. todo[1].dest # ptr[x]
  <2>1. 1 \in 1 .. (j + 1) - 1
    BY <1>3
  <2> QED
    BY <1>4, <2>1
<1>6. ptr[x] \in DOMAIN temp' /\ temp'[ptr[x]] = env[x]
  BY <1>2, <1>3, <1>4, <1>5
<1>7. ASSUME NEW i \in 1 .. j - 1
      PROVE  t[i].dest # ptr[x]
  <2>1. i + 1 \in 1 .. (j + 1) - 1 /\ i \in DOMAIN t
    <3>1. DOMAIN t = 1 .. Len(todo) - 1 /\ Len(todo) \in Nat
      BY <1>1, HeadTail
    <3> QED
      BY <1>3, <3>1
  <2>2. t[i] = todo[i + 1]
    BY <1>1, <2>1, HeadTail
  <2> QED
    BY <1>4, <2>1, <2>2
<1> QED
  BY <1>6, <1>7

LEMMA CallLeaving ==
  ASSUME IInv, CodeInv, stage \in Clone, Supported, Follows, Call
  PROVE  Leaving'
<1> PICK c : c = Head(todo)
  OBVIOUS
<1> PICK t : t = Tail(todo)
  OBVIOUS
<1>1. /\ IsList(todo) /\ todo # << >> /\ todo' = t /\ Leaving /\ Doing
      /\ UNCHANGED <<fn, stage, at, env>>
      /\ exits' = IF c.fun = "func_exit" THEN exits + 1 ELSE exits
      /\ c.fun # "copy_return" => result' = result
  BY DEF Follows, Doing, Call, passVars
<1>2. /\ c = todo[1] /\ 1 \in DOMAIN todo /\ c \in Range(todo) /\ Range(todo) = {c} \cup Range(t)
      /\ \A j \in DOMAIN t : j \in Nat /\ j > 0 /\ j + 1 \in DOMAIN todo /\ t[j] = todo[j + 1]
      /\ Len(todo) \in Nat /\ DOMAIN todo = 1 .. Len(todo) /\ DOMAIN t = 1 .. Len(todo) - 1
  BY <1>1, HeadTail
<1>3. AtReturn' <=> AtReturn
  BY <1>1, SameAvailable
<1>4. stage # "done"
  BY <1>1 DEF Leaving
<1>5. NoExit(todo) => NoExit(t) /\ exits' = exits
  BY <1>1, <1>2 DEF NoExit
<1>6. OnlyExit(todo) /\ exits = 0 => (NoExit(t) /\ exits' = 1) \/ (OnlyExit(t) /\ exits' = 0)
  <2> SUFFICES ASSUME OnlyExit(todo), exits = 0
               PROVE  (NoExit(t) /\ exits' = 1) \/ (OnlyExit(t) /\ exits' = 0)
    OBVIOUS
  <2>1. PICK i \in DOMAIN todo : todo[i].fun = "func_exit" /\ \A j \in DOMAIN todo : todo[j].fun = "func_exit" => j = i
    BY DEF OnlyExit
  <2>2. CASE i = 1
    <3>1. NoExit(t)
      <4> SUFFICES ASSUME NEW j \in DOMAIN t, t[j].fun = "func_exit"
                   PROVE  FALSE
        BY DEF NoExit
      <4>1. j + 1 = 1 /\ j \in Nat /\ j > 0
        BY <1>2, <2>1, <2>2
      <4> QED
        BY <4>1
    <3>2. exits' = 1
      BY <1>1, <1>2, <2>1, <2>2
    <3> QED
      BY <3>1, <3>2
  <2>3. CASE i # 1
    <3> PICK k : k = i - 1
      OBVIOUS
    <3>1. k \in DOMAIN t /\ t[k] = todo[i]
      <4>1. k \in DOMAIN t /\ k + 1 = i
        BY <1>2, <2>3
      <4> QED
        BY <1>2, <4>1
    <3>2. ASSUME NEW j \in DOMAIN t, t[j].fun = "func_exit"
          PROVE  j = k
      <4>1. j + 1 = i /\ j \in Nat
        BY <1>2, <2>1, <3>2
      <4> QED
        BY <4>1
    <3>3. OnlyExit(t)
      BY <2>1, <3>1, <3>2 DEF OnlyExit
    <3>4. exits' = 0
      BY <1>1, <1>2, <2>1, <2>3
    <3> QED
      BY <3>3, <3>4
  <2> QED
    BY <2>2, <2>3
<1>7. ~AtReturn => NoExit(t) /\ exits' = 0
  BY <1>1, <1>5 DEF Leaving
<1>8. AtReturn => (NoExit(t) /\ exits' = 1) \/ (OnlyExit(t) /\ exits' = 0)
  BY <1>1, <1>5, <1>6 DEF Leaving
<1> PICK z : z = Ins(at)
  OBVIOUS
<1>9. AtReturn /\ ~fn.slice /\ Args(z) # << >> => Gives(t) \/ Value(Args(z)[1]) \in {Undef, result'}
  <2> SUFFICES ASSUME AtReturn, ~fn.slice, Args(z) # << >>
               PROVE  Gives(t) \/ Value(Args(z)[1]) \in {Undef, result'}
    OBVIOUS
  <2>1. CASE c.fun = "copy_return"
    <3>1. Passing
      BY <1>1 DEF AtReturn, Doing, Entering
    <3> QED
      BY <2>1, <3>1, ResultRight
  <2>2. CASE c.fun # "copy_return"
    <3>1. Gives(todo) \/ Value(Args(z)[1]) \in {Undef, result}
      BY <1>1 DEF Leaving
    <3>2. Gives(todo) => Gives(t)
      BY <1>2, <2>2 DEF Gives
    <3> QED
      BY <1>1, <2>2, <3>1, <3>2
  <2> QED
    BY <2>1, <2>2
<1>10. /\ (~AtReturn => NoExit(todo) /\ exits = 0)'
       /\ (AtReturn => (NoExit(todo) /\ exits = 1) \/ (OnlyExit(todo) /\ exits = 0))'
  BY <1>1, <1>3, <1>7, <1>8 DEF NoExit, OnlyExit
<1>11. (AtReturn /\ ~fn.slice /\ Args(Ins(at)) # << >> =>
         Gives(todo) \/ Value(Args(Ins(at))[1]) \in {Undef, result})'
  <2>1. Args(Ins(at))' = Args(z)
    BY <1>1, AtNext
  <2>2. Gives(todo)' <=> Gives(t)
    BY <1>1 DEF Gives
  <2>3. Value(Args(Ins(at))[1])' = Value(Args(z)[1])
    BY <1>1, <2>1 DEF Value
  <2> QED
    BY <1>1, <1>3, <1>9, <2>1, <2>2, <2>3 DEF Undef
<1> QED
  BY <1>1, <1>4, <1>10, <1>11 DEF Leaving

LEMMA CallFollows ==
  ASSUME IInv, CodeInv, stage \in Clone, Supported, Follows, Call
  PROVE  Follows'
<1>1. /\ IsList(todo) /\ todo # << >> /\ todo' = Tail(todo) /\ Doing /\ ClearsLast(todo) /\ Reached(Now) /\ Frame
      /\ UNCHANGED <<fn, stage, at, code>>
  BY DEF Follows, Doing, Call, passVars
<1> PICK t : t = Tail(todo)
  OBVIOUS
<1>2. /\ IsList(t) /\ Range(t) \subseteq Range(todo) /\ DOMAIN t = 1 .. Len(todo) - 1 /\ Len(todo) \in Nat
      /\ \A j \in DOMAIN t : j \in Nat /\ j + 1 \in DOMAIN todo /\ t[j] = todo[j + 1]
  BY <1>1, HeadTail
<1>3. Now' = Now /\ Instrs' = Instrs /\ \A z : Op(z)' = Op(z) /\ Instr(z)' = Instr(z)
  BY <1>1, SameAvailable, SameText
<1>4. Reached(Now)'
  <2> PICK b : b = Now
    OBVIOUS
  <2> QED
    BY <1>1, <1>3, ReachedNow
<1>5. Doing'
  <2>1. ClearsLast(t)
    <3> SUFFICES ASSUME NEW i \in DOMAIN t, NEW j \in DOMAIN t, i < j, t[i].fun = "clear"
                 PROVE  t[j].fun = "clear"
      BY DEF ClearsLast
    <3>1. i + 1 < j + 1
      BY <1>2
    <3> QED
      BY <1>1, <1>2, <3>1 DEF ClearsLast
  <2>2. IsList(todo)' /\ ClearsLast(todo)'
    BY <1>1, <1>2, <2>1 DEF IsList, ClearsLast
  <2>3. CASE Entering
    <3>1. \A c \in Range(t) : Copied(c)[2] <= at
      BY <1>2, <2>3 DEF Entering
    <3>2. Range(t) \subseteq Range(code[Entry(Now)])
      BY <1>2, <2>3 DEF Entering
    <3>3. \A x \in Instrs : Instr(x).block = Now /\ x[2] <= at => Op(x) = "phi"
      BY <2>3 DEF Entering
    <3>4. Entering'
      BY <1>1, <1>3, <2>3, <3>1, <3>2, <3>3 DEF Entering, Copied, Entry
    <3> QED
      BY <2>2, <3>4 DEF Doing
  <2>4. CASE Passing
    <3>1. Ins(at)' = Ins(at) /\ Instr(Ins(at))' = Instr(Ins(at))
      BY <1>1 DEF Ins, Instr
    <3>2. at > 0 /\ Instr(Ins(at)).block = Now /\ Range(t) \subseteq Range(code[Ins(at)])
      BY <1>2, <2>4 DEF Passing
    <3>3. Passing'
      BY <1>1, <1>3, <3>1, <3>2 DEF Passing
    <3> QED
      BY <2>2, <3>3 DEF Doing
  <2> QED
    BY <1>1, <2>3, <2>4 DEF Doing
<1>6. Shadows'
  BY <1>1, EnteringShadows, PassingShadows DEF Doing
<1>7. Frame'
  BY <1>1, CallFrame
<1> QED
  BY <1>4, <1>5, <1>6, <1>7, CallReady, CallLeaving DEF Follows

LEMMA ReturnFollows ==
  ASSUME Follows, Return
  PROVE  Follows'
<1>1. /\ stage = "leave" /\ stage' = "done" /\ todo = << >> /\ Op(Ins(at)) = "ret"
      /\ UNCHANGED <<fn, at, total, code, todo, temp, env, exits, result>>
      /\ Reached(Now) /\ Frame /\ Doing /\ Leaving
  BY DEF Follows, Return, runVars
<1>2. Now' = Now /\ Instrs' = Instrs
  BY <1>1, SameText DEF Now
<1>3. Ins(at)' = Ins(at) /\ Instr(Ins(at))' = Instr(Ins(at)) /\ Op(Ins(at))' = "ret" /\ Args(Ins(at))' = Args(Ins(at))
  BY <1>1 DEF Ins, Instr, Op, Args
<1>4. AtReturn /\ AtReturn'
  BY <1>1, <1>3 DEF AtReturn
<1>5. Reached(Now)'
  <2> PICK b : b = Now
    OBVIOUS
  <2> QED
    BY <1>1, <1>2, ReachedNow
<1>6. Frame'
  BY <1>1, <1>2 DEF Frame, Slot, ArgPtr
<1>7. Doing'
  <2>1. Passing
    BY <1>1 DEF Doing, Entering
  <2>2. Passing'
    BY <1>1, <1>2, <1>3, <2>1 DEF Passing
  <2>3. IsList(todo)' /\ ClearsLast(todo)'
    BY <1>1 DEF Doing, IsList, ClearsLast
  <2> QED
    BY <2>2, <2>3 DEF Doing
<1>8. Shadows'
  BY <1>1, <1>4 DEF Shadows, Cleared
<1>9. Ready'
  BY <1>1, NoCalls DEF Ready
<1>10. Leaving'
  <2>1. (NoExit(todo) /\ exits = 1) \/ (OnlyExit(todo) /\ exits = 0)
    BY <1>1, <1>4 DEF Leaving
  <2>2. ((NoExit(todo) /\ exits = 1) \/ (OnlyExit(todo) /\ exits = 0))'
    BY <1>1, <2>1 DEF NoExit, OnlyExit
  <2>3. ~fn.slice /\ Args(Ins(at)) # << >> => Gives(todo) \/ Value(Args(Ins(at))[1]) \in {Undef, result}
    BY <1>1, <1>4 DEF Leaving
  <2>4. (~fn.slice /\ Args(Ins(at)) # << >> => Gives(todo) \/ Value(Args(Ins(at))[1]) \in {Undef, result})'
    BY <1>1, <1>3, <2>3 DEF Gives, Value, Undef
  <2> QED
    BY <1>1, <1>4, <2>2, <2>4 DEF Leaving
<1> QED
  BY <1>5, <1>6, <1>7, <1>8, <1>9, <1>10 DEF Follows

-----------------------------------------------------------------------------
(* Jumps.                                                                  *)
LEMMA JumpTo ==
  ASSUME IInv, CodeInv, Follows, NEW b \in Blocks, Jump(b)
  PROVE  /\ stage = "leave" /\ stage' = "run" /\ todo = << >> /\ todo' = code[Entry(b)] /\ at \in Texts
         /\ Op(Ins(at)) = "br" /\ b \in fn.next[Now] /\ Now \in Blocks /\ Now' = b /\ Now = fn.text[at].block
         /\ UNCHANGED <<fn, total, GEPMap, ConsMap, MInsMap, arms, code, temp, exits, result>>
         /\ \A k \in Texts : k <= at' /\ BlockAt(k) = b => Op(Ins(k)) = "phi"
         /\ \A x \in PhisOf(b) : x[2] <= at'
         /\ \A k \in Texts : BlockAt(k) = Now => k <= at
         /\ ~Cleared /\ \A v : ~Pending(v)
<1>1. /\ stage = "leave" /\ stage' = "run" /\ todo = << >> /\ todo' = code[Entry(b)]
      /\ Op(Ins(at)) = "br" /\ b \in fn.next[fn.text[at].block]
      /\ UNCHANGED <<fn, total, GEPMap, ConsMap, MInsMap, arms, code, temp, exits, result>>
  BY DEF Jump
<1>2. IsFunction(fn) /\ at \in 0 .. N /\ N \in Nat /\ at > 0
  BY <1>1, Basics DEF IInv, Position
<1>3. at \in Texts
  BY <1>2, Text
<1>4. Now = BlockAt(at) /\ Now \in Blocks
  BY <1>1, <1>2, <1>3, InText DEF Now, BlockAt
<1> PICK a : a = Max({0} \cup {x[2] : x \in {y \in Instrs : Instr(y).block < b} \cup PhisOf(b)})
  OBVIOUS
<1>5. at' = a
  BY DEF Jump
<1>6. /\ a \in Nat /\ a + 1 \in Texts /\ BlockAt(a + 1) = b
      /\ \A k \in Texts : k <= a /\ BlockAt(k) = b => Op(Ins(k)) = "phi"
      /\ \A x \in PhisOf(b) : x[2] <= a
  BY <1>2, LandsAt
<1>7. Now' = b
  BY <1>1, <1>5, <1>6 DEF Now, BlockAt
<1>8. ASSUME NEW k \in Texts, BlockAt(k) = Now
      PROVE  k <= at
  <2>1. k \in Nat /\ at \in Nat /\ BlockAt(k) \in Nat
    BY <1>2, <1>3, InText
  <2>2. ~(at < k)
    <3> SUFFICES ASSUME at < k
                 PROVE  FALSE
      OBVIOUS
    <3>1. BlockAt(at) < BlockAt(k)
      BY <1>1, <1>2, <1>3, LastOf
    <3> QED
      BY <1>4, <1>8, <2>1, <3>1
  <2> QED
    BY <2>1, <2>2
<1>9. ~Cleared /\ \A v : ~Pending(v)
  <2>1. Range(todo) = {}
    BY <1>1, NoCalls
  <2> QED
    BY <1>1, <2>1 DEF Cleared, AtReturn, Pending
<1>10. b \in fn.next[Now] /\ Now = fn.text[at].block
  BY <1>1, <1>4 DEF BlockAt
<1> QED
  BY <1>1, <1>3, <1>4, <1>5, <1>6, <1>7, <1>8, <1>9, <1>10

LEMMA EntryCopies ==
  ASSUME IInv, CodeInv, NEW b \in Blocks, NEW s, s = code[Entry(b)]
  PROVE  /\ IsList(s)
         /\ \A j \in DOMAIN s : j \in Nat /\ s[j] \in Range(s) /\ s[j].fun = "copy_phi" /\ Copied(s[j]) \in PhisOf(b)
                                /\ Copied(s[j]) \in DOMAIN GEPMap /\ s[j].dest = Slot(GEPMap[Copied(s[j])])
         /\ \A c \in Range(s) : c.fun = "copy_phi" /\ Copied(c) \in PhisOf(b)
         /\ \A i, j \in DOMAIN s : i < j => Before(Copied(s[i]), Copied(s[j]))
<1>1. IsList(s)
  BY DEF IInv, Tables
<1>2. ASSUME NEW j \in DOMAIN s
      PROVE  /\ j \in Nat /\ s[j] \in Range(s) /\ s[j].fun = "copy_phi" /\ Copied(s[j]) \in PhisOf(b)
             /\ Copied(s[j]) \in DOMAIN GEPMap /\ s[j].dest = Slot(GEPMap[Copied(s[j])])
  <2>1. PICK x \in PhisOf(b) : x \in DOMAIN GEPMap /\ s[j] = CopyOf(x)
    BY <1>2 DEF CodeInv, Copies, IsCopy
  <2>2. s[j].fun = "copy_phi" /\ Copied(s[j]) = x /\ s[j].dest = Slot(GEPMap[x])
    BY <2>1 DEF CopyOf, Copied, RuntimeCall, Reads
  <2>3. j \in Nat
    BY <1>1, ListOf DEF IsList
  <2> QED
    BY <2>1, <2>2, <2>3 DEF Range
<1>3. \A c \in Range(s) : c.fun = "copy_phi" /\ Copied(c) \in PhisOf(b)
  BY <1>2 DEF Range
<1>4. \A i, j \in DOMAIN s : i < j => Before(Copied(s[i]), Copied(s[j]))
  BY DEF CodeInv, Copies
<1> QED
  BY <1>1, <1>2, <1>3, <1>4

LEMMA CopiedThere ==
  ASSUME IInv, CodeInv, stage \in Clone, NEW b \in Blocks, NEW x \in PhisOf(b)
  PROVE  x \in DOMAIN GEPMap /\ \E c \in Range(code[Entry(b)]) : c.fun # "clear" /\ c.dest = Slot(GEPMap[x])
<1>1. x \in Instrs /\ Op(x) = "phi" /\ Instr(x).block = b /\ x[2] \in Texts /\ x = Ins(x[2]) /\ Written
  BY Basics DEF PhisOf, CodeInv
<1>2. CopyOf(x) \in Range(code[Entry(b)])
  <2>1. Placed(x[2])
    BY DEF Placed
  <2> QED
    BY <1>1, <2>1 DEF Written
<1>3. CopyOf(x).fun = "copy_phi" /\ CopyOf(x).dest = Slot(GEPMap[x])
  BY DEF CopyOf, RuntimeCall
<1> QED
  BY <1>1, <1>2, <1>3, Pointers

LEMMA JumpChanges ==
  ASSUME IInv, stage \in Clone, NEW b, Jump(b)
  PROVE  /\ DOMAIN env' = Instrs /\ DOMAIN ptr = Choosers
         /\ \A x \in Instrs : env'[x] = IF x \in PhisOf(b) THEN Value(Along(x, fn.text[at].block)) ELSE env[x]
         /\ \A x \in Choosers : x \notin PhisOf(b) => ptr'[x] = ptr[x]
         /\ \A x \in Choosers : x \in PhisOf(b) /\ fn.text[at].block \in DOMAIN arms[x] =>
              ptr'[x] = Target(arms[x][fn.text[at].block])
<1>1. DOMAIN ptr = Choosers
  BY DEF IInv, Pointing
<1>2. env' = [x \in Instrs |-> IF x \in PhisOf(b) THEN Value(Along(x, fn.text[at].block)) ELSE env[x]]
  BY DEF Jump
<1>3. ptr' = [x \in DOMAIN ptr |->
        IF x \notin PhisOf(b) THEN ptr[x]
        ELSE IF fn.text[at].block \in DOMAIN arms[x] THEN Target(arms[x][fn.text[at].block]) ELSE Missing]
  BY DEF Jump
<1> QED
  BY <1>1, <1>2, <1>3

LEMMA JumpShadows ==
  ASSUME IInv, CodeInv, Supported, Follows, NEW b \in Blocks, Jump(b)
  PROVE  Shadows'
<1>1. /\ stage = "leave" /\ stage' = "run" /\ todo = << >> /\ todo' = code[Entry(b)] /\ at \in Texts
      /\ b \in fn.next[Now] /\ Now \in Blocks /\ Now' = b
      /\ UNCHANGED <<fn, GEPMap, ConsMap, MInsMap, temp>>
      /\ \A k \in Texts : k <= at' /\ BlockAt(k) = b => Op(Ins(k)) = "phi"
      /\ \A k \in Texts : BlockAt(k) = Now => k <= at
      /\ ~Cleared /\ (\A v : ~Pending(v)) /\ Shadows
  BY JumpTo DEF Follows
<1>2. /\ IsFunction(fn) /\ fn \in Functions /\ at \in Nat /\ Tables /\ ~CastsOfPhis
      /\ \A x \in Instrs : x[1] = "ins" /\ x[2] \in Texts /\ x = Ins(x[2])
      /\ stage \in Clone
  BY <1>1, Basics DEF Supported, Clone
<1>3. /\ \A x \in Instrs : x \notin PhisOf(b) => env'[x] = env[x]
      /\ \A x \in Choosers : x \notin PhisOf(b) => ptr'[x] = ptr[x]
  BY <1>2, JumpChanges
<1> SUFFICES ASSUME NEW v \in Available', handleOperand(v)' # Missing', ~Pending(v)'
             PROVE  Value(v)' = Undef \/ Right(v)'
  BY DEF Shadows, Undef
<1>4. handleOperand(v) # Missing /\ handleOperand(v)' = handleOperand(v)
  BY <1>1, SamePointers DEF Missing
<1>5. v \notin PhisOf(b)
  <2> SUFFICES ASSUME v \in PhisOf(b)
               PROVE  Pending(v)'
    OBVIOUS
  <2>1. v \in DOMAIN GEPMap /\ \E c \in Range(code[Entry(b)]) : c.fun # "clear" /\ c.dest = Slot(GEPMap[v])
    BY <1>2, CopiedThere
  <2> QED
    BY <1>1, <2>1 DEF Pending, Slot
<1>6. v \in Available
  <2>1. \/ v \in Instrs /\ Live(v)'
        \/ v \in UNION {Range(Args(x)) : x \in Instrs} /\ v[1] # "ins"
    <3>1. Instrs' = Instrs /\ \A z : Args(z)' = Args(z)
      BY <1>1, SameText
    <3> QED
      BY <3>1 DEF Available
  <2>2. CASE v \in UNION {Range(Args(x)) : x \in Instrs} /\ v[1] # "ins"
    BY <2>2 DEF Available
  <2>3. CASE v \in Instrs /\ Live(v)'
    <3>1. Instr(v).block = BlockAt(v[2]) /\ v[2] \in Texts /\ v = Ins(v[2])
      BY <1>2, <2>3, InText
    <3>2. (Instr(v).block = b /\ v[2] <= at') \/ BlockDominates(fn, Instr(v).block, b)
      <4>1. Instr(v)' = Instr(v)
        BY <1>1, SameText
      <4> QED
        BY <1>1, <2>3, <4>1 DEF Live
    <3>3. ~(Instr(v).block = b /\ v[2] <= at')
      BY <1>1, <1>5, <2>3, <3>1 DEF PhisOf
    <3>4. Instr(v).block = Now \/ BlockDominates(fn, Instr(v).block, Now)
      BY <1>1, <3>2, <3>3, BlockBack
    <3>5. Live(v)
      BY <1>1, <3>1, <3>4 DEF Live
    <3> QED
      BY <2>3, <3>5 DEF Available
  <2> QED
    BY <2>1, <2>2, <2>3
<1>7. Value(v) = Undef \/ Right(v)
  BY <1>1, <1>4, <1>6 DEF Shadows
<1>8. v \in Instrs \/ (IsOperand(fn, v) /\ v[1] # "ins" /\ v \notin Instrs)
  BY <1>2, <1>6, AvailableIs
<1>9. Value(v)' = Value(v)
  BY <1>2, <1>3, <1>5, <1>8 DEF Value
<1> PICK q : q = handleOperand(v)
  OBVIOUS
<1>10. ASSUME q[1] = "chosen" PROVE ptr'[q[2]] = ptr[q[2]]
  <2>1. q = Chosen(q[2])
    BY <1>2, <1>4, <1>10, ChosenForm
  <2> PICK y : y = q[2]
    OBVIOUS
  <2>2. y \in Instrs /\ Op(y) = "select"
    BY <1>2, <1>8, <2>1, ChosenPointer
  <2>3. y \in Choosers /\ y \notin PhisOf(b)
    BY <2>2 DEF Choosers, Choosing, PhisOf
  <2> QED
    BY <1>3, <2>3
<1>11. Target(q)' = Target(q)
  BY <1>10, TargetStays
<1>12. Target(handleOperand(v))' = Target(q)'
  BY <1>4 DEF Target
<1> QED
  BY <1>1, <1>7, <1>9, <1>11, <1>12, RightStays

(* What a phi takes along the jump, and the pointer of its new phi.        *)
LEMMA AlongArm ==
  ASSUME IInv, CodeInv, Supported, Follows, stage = "leave", NEW b \in Blocks, Jump(b), NEW x \in PhisOf(b),
         NEW u, u = Along(x, Now)
  PROVE  /\ u \in Range(Args(x)) /\ u \in Available /\ handleOperand(u) # Missing
         /\ env'[x] = Value(u) /\ ptr'[x] = Target(handleOperand(u))
<1>1. /\ b \in fn.next[Now] /\ Now \in Blocks /\ Now = fn.text[at].block
      /\ \A k \in Texts : BlockAt(k) = Now => k <= at
  BY JumpTo
<1>2. /\ x \in Instrs /\ Op(x) = "phi" /\ Instr(x).block = b /\ IsFunction(fn) /\ fn \in Functions /\ stage \in Clone
      /\ x[2] \in Texts /\ x = Ins(x[2])
  BY Basics DEF PhisOf, Clone
<1>3. Instr(x) = fn.text[x[2]] /\ Args(x) = fn.text[x[2]].args /\ Op(x) = fn.text[x[2]].op
  BY <1>2, TextAt
<1>4. IsInstruction(fn, x[2]) /\ IsSSA(fn)
  BY <1>2, Text, FunctionsAssumption
<1>5. DOMAIN Instr(x).from = DOMAIN Args(x)
  BY <1>2, <1>3, <1>4 DEF IsInstruction
<1> DEFINE from == Instr(x).from
<1>6. Now \in Range(from)
  BY <1>1, <1>2, <1>3, <1>4 DEF IsSSA, Blocks, Texts
<1>7. PICK i \in DOMAIN Args(x) : from[i] = Now
  BY <1>5, <1>6 DEF Range
<1> PICK k : k = CHOOSE j \in DOMAIN Args(x) : Instr(x).from[j] = Now
  OBVIOUS
<1>8. k \in DOMAIN Args(x) /\ Instr(x).from[k] = Now /\ u = Args(x)[k]
  BY <1>7 DEF Along
<1>9. u \in Range(Args(x)) /\ IsOperand(fn, u)
  BY <1>2, <1>8, OperandsOf
<1>10. \A j \in DOMAIN Args(x) : Args(x)[j] # x
  BY <1>2, OperandsOf DEF Supported, CopiesApart
<1>11. {j \in DOMAIN Args(x) : Args(x)[j] # x} = DOMAIN Args(x)
  BY <1>10
<1>12. Now \in DOMAIN PhiArms(x) /\ PhiArms(x)[Now] = handleOperand(u)
  <2> DEFINE js == {j \in DOMAIN Args(x) : Args(x)[j] # x}
  <2>1. PhiArms(x) = [c \in {Instr(x).from[j] : j \in js} |->
                       handleOperand(Args(x)[CHOOSE j \in js : Instr(x).from[j] = c])]
    BY DEF PhiArms
  <2>2. js = DOMAIN Args(x)
    BY <1>11
  <2> HIDE DEF js
  <2>3. Now \in {Instr(x).from[j] : j \in js}
    BY <1>8, <2>2
  <2>4. PhiArms(x)[Now] = handleOperand(Args(x)[CHOOSE j \in js : Instr(x).from[j] = Now])
    BY <2>1, <2>3
  <2>5. Now \in DOMAIN PhiArms(x)
    BY <2>1, <2>3
  <2> QED
    BY <1>8, <2>2, <2>4, <2>5
<1>13. arms[x] = PhiArms(x) /\ handleOperand(u) # Missing
  <2>1. u # x
    BY <1>8, <1>10
  <2> QED
    BY <1>2, <1>9, <2>1 DEF CodeInv, Chooses, Phis, Incomings
<1>14. env'[x] = Value(u) /\ ptr'[x] = Target(handleOperand(u))
  <2>1. x \in Choosers
    BY <1>2 DEF Choosers, Choosing
  <2>2. env'[x] = Value(u)
    BY <1>1, <1>2, JumpChanges
  <2>3. ptr'[x] = Target(arms[x][Now])
    BY <1>1, <1>2, <1>12, <1>13, <2>1, JumpChanges
  <2> QED
    BY <1>12, <1>13, <2>2, <2>3
<1>15. u \in Available
  <2>1. ASSUME u[1] = "ins" PROVE u \in Instrs /\ Live(u)
    <3>1. u \in Instrs /\ u[2] \in Texts
      BY <1>2, <1>9, <2>1, OperandKinds, OperandsOf
    <3>2. fn.text[u[2]].block = Now \/ BlockDominates(fn, fn.text[u[2]].block, Now)
      <4>1. \A j \in DOMAIN fn.text[x[2]].args : fn.text[x[2]].args[j][1] = "ins" =>
              \/ fn.text[fn.text[x[2]].args[j][2]].block = fn.text[x[2]].from[j]
              \/ BlockDominates(fn, fn.text[fn.text[x[2]].args[j][2]].block, fn.text[x[2]].from[j])
        BY <1>2, <1>3, <1>4 DEF IsSSA, Texts
      <4>2. k \in DOMAIN fn.text[x[2]].args /\ u = fn.text[x[2]].args[k] /\ fn.text[x[2]].from[k] = Now
        BY <1>3, <1>8
      <4> QED
        BY <2>1, <4>1, <4>2
    <3> QED
      BY <1>1, <3>1, <3>2 DEF Live, Instr, BlockAt
  <2> QED
    BY <1>2, <1>9, <2>1 DEF Available
<1> QED
  BY <1>9, <1>13, <1>14, <1>15

LEMMA JumpReady ==
  ASSUME IInv, CodeInv, Supported, Follows, NEW b \in Blocks, Jump(b)
  PROVE  Ready'
<1> PICK s : s = code[Entry(b)]
  OBVIOUS
<1>1. /\ stage = "leave" /\ todo' = s /\ UNCHANGED <<fn, GEPMap, temp>>
      /\ ~Cleared /\ (\A v : ~Pending(v)) /\ Shadows
  BY JumpTo DEF Follows
<1>2. /\ \A j \in DOMAIN s : /\ j \in Nat /\ Copied(s[j]) \in PhisOf(b) /\ Copied(s[j]) \in DOMAIN GEPMap
                             /\ s[j].dest = Slot(GEPMap[Copied(s[j])])
      /\ \A i, j \in DOMAIN s : i < j => Before(Copied(s[i]), Copied(s[j]))
  BY EntryCopies
<1>3. DOMAIN s = 1 .. Len(s) /\ Len(s) \in Nat
  <2>1. IsList(s)
    BY EntryCopies
  <2> QED
    BY <2>1, ListOf DEF IsList
<1> SUFFICES ASSUME NEW j \in DOMAIN s, NEW x, x = Copied(s[j]), env'[x] # Undef
             PROVE  /\ ptr'[x] \in DOMAIN temp' /\ temp'[ptr'[x]] = env'[x]
                    /\ \A i \in 1 .. j - 1 : s[i].dest # ptr'[x]
  BY <1>1 DEF Ready, Copied, Undef
<1>4. x \in PhisOf(b) /\ x \in Instrs /\ Op(x) = "phi" /\ Instr(x).block = b
  BY <1>2 DEF PhisOf
<1> PICK u : u = Along(x, Now)
  OBVIOUS
<1>5. /\ u \in Range(Args(x)) /\ u \in Available /\ handleOperand(u) # Missing
      /\ env'[x] = Value(u) /\ ptr'[x] = Target(handleOperand(u))
  BY <1>1, <1>4, AlongArm
<1>6. Right(u)
  BY <1>1, <1>5 DEF Shadows
<1> PICK p : p = Target(handleOperand(u))
  OBVIOUS
<1>7. p \in DOMAIN temp /\ temp[p] = Value(u) /\ \A y \in DOMAIN GEPMap : Slot(GEPMap[y]) = p => y \in StandsFor(u)
  BY <1>6 DEF Right
<1>8. ASSUME NEW i \in 1 .. j - 1
      PROVE  s[i].dest # p
  <2>1. i \in DOMAIN s /\ i < j
    BY <1>2, <1>3
  <2> PICK y : y = Copied(s[i])
    OBVIOUS
  <2>2. y \in PhisOf(b) /\ y \in DOMAIN GEPMap /\ s[i].dest = Slot(GEPMap[y]) /\ Before(y, x)
    BY <1>2, <2>1
  <2>3. ~(y \in StandsFor(u))
    BY <1>4, <1>5, <2>2 DEF Supported, CopiesApart
  <2> QED
    BY <1>7, <2>2, <2>3
<1> QED
  BY <1>1, <1>5, <1>7, <1>8

LEMMA JumpFollows ==
  ASSUME IInv, CodeInv, Supported, Follows, NEW b \in Blocks, Jump(b)
  PROVE  Follows'
<1> PICK s : s = code[Entry(b)]
  OBVIOUS
<1>1. /\ stage = "leave" /\ stage' = "run" /\ todo = << >> /\ todo' = s
      /\ Op(Ins(at)) = "br" /\ b \in fn.next[Now] /\ Now \in Blocks /\ Now' = b
      /\ UNCHANGED <<fn, total, code, temp, exits, result>>
      /\ \A k \in Texts : k <= at' /\ BlockAt(k) = b => Op(Ins(k)) = "phi"
      /\ \A x \in PhisOf(b) : x[2] <= at'
  BY JumpTo
<1>2. /\ IsList(s) /\ \A c \in Range(s) : c.fun = "copy_phi" /\ Copied(c) \in PhisOf(b)
      /\ \A j \in DOMAIN s : s[j].fun = "copy_phi"
  BY EntryCopies
<1>3. /\ Instrs' = Instrs /\ \A z : Op(z)' = Op(z) /\ Instr(z)' = Instr(z)
  BY <1>1, SameText
<1>4. Reached(Now)'
  <2>1. Reached(b)
    BY <1>1, ReachedNext DEF Follows
  <2> QED
    BY <1>1, <2>1, ReachedNow
<1>5. Frame'
  <2>1. DOMAIN env' = Instrs
    BY <1>1, JumpChanges DEF Clone
  <2> QED
    BY <1>1, <1>3, <2>1 DEF Follows, Frame, Slot, ArgPtr
<1>6. Doing'
  <2>1. IsList(todo)' /\ ClearsLast(todo)'
    BY <1>1, <1>2 DEF IsList, ClearsLast
  <2>2. \A c \in Range(s) : Copied(c)[2] <= at'
    BY <1>1, <1>2
  <2>3. \A x \in Instrs : Instr(x).block = b /\ x[2] <= at' => Op(x) = "phi"
    <3> TAKE x \in Instrs
    <3>1. x[2] \in Texts /\ x = Ins(x[2]) /\ Instr(x).block = BlockAt(x[2])
      BY Basics, InText
    <3> QED
      BY <1>1, <3>1
  <2>4. Entering'
    BY <1>1, <1>3, <2>2, <2>3 DEF Entering, Copied, Entry
  <2> QED
    BY <2>1, <2>4 DEF Doing
<1>7. Leaving'
  <2>1. NoExit(todo) /\ exits = 0
    BY <1>1 DEF Follows, Leaving, AtReturn
  <2>2. NoExit(s) /\ ~AtReturn' /\ stage' # "done"
    BY <1>1, <1>2 DEF NoExit, AtReturn
  <2> QED
    BY <1>1, <2>1, <2>2 DEF Leaving, NoExit
<1> QED
  BY <1>4, <1>5, <1>6, <1>7, JumpShadows, JumpReady DEF Follows

-----------------------------------------------------------------------------
(* The pass ends and the clone enters its first block: what is there are   *)
(* the constants and the arguments.                                        *)
NewTemp(p) ==
  LET cs == {v \in DOMAIN ConsMap : Op(v) = "const" /\ Slot(ConsMap[v]) = p}
  IN  CASE p[1] = "argptr" -> Arg(p[2])
        [] cs # {} -> CHOOSE v \in cs : TRUE
        [] OTHER -> None

LEMMA NewTemps ==
  ASSUME IInv, CodeInv, NEW v, IsOperand(fn, v), v[1] # "ins", handleOperand(v) # Missing,
         NEW p, p = handleOperand(v)
  PROVE  \/ v = Undef
         \/ /\ p \in {Slot(n) : n \in 1 .. total} \cup {ArgPtr(n) : n \in 1 .. fn.args}
            /\ NewTemp(p) = v /\ p[1] # "chosen" /\ \A x \in DOMAIN GEPMap : Slot(GEPMap[x]) # p
<1>1. IsFunction(fn) /\ Tables /\ Unshared
  BY Basics
<1>2. v[1] \in {"const", "arg", "undef"} /\ Op(v) = v[1]
  BY <1>1, OtherPointers, OperandKinds
<1>3. CASE v[1] = "undef"
  BY <1>3, OtherPointers
<1>4. CASE v[1] = "arg"
  <2>1. p = ArgPtr(v[2]) /\ v[2] \in 1 .. fn.args /\ v = Arg(v[2])
    BY <1>4, OtherPointers
  <2>2. p[1] = "argptr" /\ p[2] = v[2]
    BY <2>1 DEF ArgPtr
  <2> DEFINE cs == {w \in DOMAIN ConsMap : Op(w) = "const" /\ Slot(ConsMap[w]) = p}
  <2>3. NewTemp(p) = v
    <3>1. cs = {}
      BY <2>2 DEF Slot
    <3> HIDE DEF cs
    <3>2. NewTemp(p) = CASE p[1] = "argptr" -> Arg(p[2])
                         [] cs # {} -> CHOOSE w \in cs : TRUE
                         [] OTHER -> None
      BY DEF NewTemp, cs
    <3> QED
      BY <2>1, <2>2, <3>1, <3>2
  <2>4. \A n : Slot(n) # p
    BY <2>2 DEF Slot
  <2> QED
    BY <2>1, <2>2, <2>3, <2>4
<1>5. CASE v[1] = "const"
  <2>1. v \in DOMAIN ConsMap /\ p = Slot(ConsMap[v])
    <3>1. handleOperand(v) = IF v \in DOMAIN ConsMap THEN Slot(ConsMap[v]) ELSE Missing
      BY <1>5, OtherPointers
    <3> QED
      BY <3>1
  <2> DEFINE cs == {w \in DOMAIN ConsMap : Op(w) = "const" /\ Slot(ConsMap[w]) = p}
  <2>2. cs = {v}
    BY <1>1, <1>2, <1>5, <2>1 DEF Unshared, Slot
  <2>3. p[1] = "slot"
    BY <2>1 DEF Slot
  <2>4. NewTemp(p) = CHOOSE w \in cs : TRUE
    <3>1. cs # {}
      BY <2>2
    <3> HIDE DEF cs
    <3>2. NewTemp(p) = CASE p[1] = "argptr" -> Arg(p[2])
                         [] cs # {} -> CHOOSE w \in cs : TRUE
                         [] OTHER -> None
      BY DEF NewTemp, cs
    <3> QED
      BY <2>3, <3>1, <3>2
  <2>5. NewTemp(p) = v
    BY <2>2, <2>4
  <2>6. p \in {Slot(n) : n \in 1 .. total}
    <3>1. ConsMap[v] \in 1 .. index /\ index <= total /\ index \in Nat /\ total \in Nat
      BY <1>1, <2>1 DEF IInv, Position, Counted, Tables
    <3>2. ConsMap[v] \in 1 .. total
      BY <3>1
    <3> QED
      BY <2>1, <3>2
  <2>7. \A x \in DOMAIN GEPMap : Slot(GEPMap[x]) # p
    BY <1>1, <1>5, <2>1 DEF Unshared, Slot
  <2> QED
    BY <2>3, <2>5, <2>6, <2>7
<1> QED
  BY <1>2, <1>3, <1>4, <1>5

LEMMA NewPhiFollows ==
  ASSUME IInv, CodeInv, handleNewPhi, stage' # "failed", todo = << >>, exits = 0, DOMAIN env = Instrs
  PROVE  Follows'
<1>1. /\ stage' = "run" /\ at' = 0 /\ todo' = << >> /\ exits' = 0
      /\ UNCHANGED <<fn, total, GEPMap, ConsMap, MInsMap, code, env>>
      /\ temp' = [p \in {Slot(n) : n \in 1 .. total} \cup {ArgPtr(n) : n \in 1 .. fn.args} |-> NewTemp(p)]
  BY DEF handleNewPhi, NewTemp
<1>2. IsFunction(fn) /\ fn.text[1].block = 1
  BY Basics DEF IsFunction
<1>3. Now' = 1
  BY <1>1, <1>2 DEF Now
<1>4. Instrs' = Instrs /\ (\A z : Args(z)' = Args(z) /\ Instr(z)' = Instr(z)) /\ \A x \in Instrs : ~(x[2] <= 0)
  <2>1. \A x \in Instrs : ~(x[2] <= 0)
    <3> TAKE x \in Instrs
    <3>1. x[2] \in Texts
      BY Basics
    <3>2. x[2] \in Nat /\ x[2] >= 1
      BY <1>2, <3>1, InText
    <3> QED
      BY <3>2
  <2> QED
    BY <1>1, <2>1, SameText
<1>5. Reached(Now)'
  BY <1>1, <1>3, ReachedFirst, ReachedNow
<1>6. Frame'
  BY <1>1, <1>4 DEF Frame, Slot, ArgPtr
<1>7. Doing'
  <2>1. IsList(<< >>) /\ Range(<< >>) = {} /\ DOMAIN << >> = {}
    BY NoCalls
  <2>2. IsList(todo)' /\ ClearsLast(todo)'
    BY <1>1, <2>1 DEF IsList, ClearsLast
  <2>3. Entering'
    <3>1. \A x \in Instrs' : Instr(x)'.block = Now' /\ x[2] <= at' => Op(x)' = "phi"
      BY <1>1, <1>4
    <3>2. Range(todo)' = {}
      BY <1>1, <2>1
    <3> QED
      BY <1>1, <3>1, <3>2 DEF Entering
  <2> QED
    BY <2>2, <2>3 DEF Doing
<1>8. Shadows'
  <2> SUFFICES ASSUME NEW v \in Available', handleOperand(v)' # Missing'
               PROVE  Value(v)' = Undef \/ Right(v)'
    BY DEF Shadows, Undef
  <2>1. ~Live(v)' \/ v \notin Instrs
    BY <1>1, <1>3, <1>4, NoneBeforeFirst DEF Live
  <2>2. v \in UNION {Range(Args(x)) : x \in Instrs} /\ v[1] # "ins"
    BY <1>4, <2>1 DEF Available
  <2>3. IsOperand(fn, v)
    <3>1. PICK x \in Instrs : v \in Range(Args(x))
      BY <2>2
    <3> QED
      BY <1>2, <3>1, OperandsOf
  <2> PICK p : p = handleOperand(v)
    OBVIOUS
  <2>4. handleOperand(v)' = p /\ p # Missing
    BY <1>1, SamePointers DEF Missing
  <2>5. \/ v = Undef
        \/ /\ p \in {Slot(n) : n \in 1 .. total} \cup {ArgPtr(n) : n \in 1 .. fn.args}
           /\ NewTemp(p) = v /\ p[1] # "chosen" /\ \A x \in DOMAIN GEPMap : Slot(GEPMap[x]) # p
    BY <2>2, <2>3, <2>4, NewTemps
  <2>6. Value(v)' = v
    BY <2>2 DEF Value
  <2>7. CASE v # Undef
    <3>1. Target(handleOperand(v))' = p
      BY <2>4, <2>5, <2>7 DEF Target
    <3>2. p \in DOMAIN temp' /\ temp'[p] = v
      BY <1>1, <2>5, <2>7
    <3>3. \A x \in DOMAIN GEPMap' : Slot(GEPMap[x])' # p
      BY <1>1, <2>5, <2>7 DEF Slot
    <3> QED
      BY <2>6, <3>1, <3>2, <3>3 DEF Right
  <2> QED
    BY <2>6, <2>7
<1>9. Ready'
  BY <1>1, NoCalls DEF Ready
<1>10. Leaving'
  <2>1. NoExit(<< >>)
    BY DEF NoExit
  <2> QED
    BY <1>1, <2>1 DEF Leaving, AtReturn, NoExit
<1> QED
  BY <1>5, <1>6, <1>7, <1>8, <1>9, <1>10 DEF Follows

LEMMA PassStays ==
  ASSUME Pass
  PROVE  stage \notin Clone /\ (handleNewPhi \/ (stage' \notin Clone /\ UNCHANGED <<fn, runVars>>))
<1>1. ASSUME Advance, stage \in Walks
      PROVE  stage' \notin Clone
  BY <1>1 DEF Advance, Following, Walks, Clone
<1>2. CASE handleBranch \/ getTotalFPInst \/ createGEP
  BY <1>1, <1>2 DEF handleBranch, getTotalFPInst, createGEP, Walks, Clone
<1>3. CASE handlePhi \/ handleBinOp \/ handleFNeg \/ handleMathLibFunc \/ handleLoad \/ handleStore
  BY <1>1, <1>3 DEF handlePhi, Compute, handleBinOp, handleFNeg, handleMathLibFunc, handleLoad, handleStore, Here, Walks, Clone
<1>4. CASE handleCallInst \/ handleSelect \/ handleReturn \/ handleFcmp
  BY <1>1, <1>4 DEF handleCallInst, handleSelect, handleReturn, handleFcmp, Here, Walks, Clone
<1>5. CASE NotHandled
  <2>1. stage \in {"instructions", "returns", "compares"}
    BY <1>5 DEF NotHandled, Handled
  <2> QED
    BY <1>1, <1>5, <2>1 DEF NotHandled, Walks, Clone
<1>6. CASE handleNewPhi
  BY <1>6 DEF handleNewPhi, Clone
<1>7. ASSUME NEW st \in {"instructions", "returns", "compares"}, NEW ops, MetadataNotFound(st, ops)
      PROVE  stage \notin Clone /\ stage' \notin Clone /\ UNCHANGED <<fn, runVars>>
  BY <1>7 DEF MetadataNotFound, Here, Clone
<1> QED
  BY <1>2, <1>3, <1>4, <1>5, <1>6, <1>7 DEF Pass

(* Nothing else changes while the pass runs.                               *)
LEMMA PassRests ==
  ASSUME IInv, stage \notin Clone, RunInv, Next \/ UNCHANGED vars
  PROVE  \/ handleNewPhi /\ stage' # "failed" /\ todo = << >> /\ exits = 0 /\ DOMAIN env = Instrs
         \/ stage' \notin Clone /\ RunInv'
<1>1. todo = << >> /\ exits = 0 /\ DOMAIN env = Instrs
  BY DEF RunInv
<1>2. CASE handleNewPhi
  <2>1. CASE stage' = "failed"
    <3>1. UNCHANGED <<fn, todo, exits, env>> /\ stage' \notin Clone
      BY <1>2, <2>1 DEF handleNewPhi, Clone
    <3> QED
      BY <1>1, <3>1, SameText DEF RunInv
  <2> QED
    BY <1>1, <1>2, <2>1
<1>3. ASSUME stage' \notin Clone, UNCHANGED <<fn, todo, exits, env>>
      PROVE  RunInv'
  BY <1>1, <1>3, SameText DEF RunInv
<1>4. CASE Pass /\ ~handleNewPhi
  <2>1. UNCHANGED <<fn, runVars>> /\ stage' \notin Clone
    BY <1>4, PassStays
  <2> QED
    BY <1>3, <2>1 DEF runVars
<1>5. CASE UNCHANGED vars
  BY <1>3, <1>5 DEF vars, runVars, passVars
<1>6. ~Step /\ ~Call /\ ~(\E b \in Blocks : Jump(b)) /\ ~Return
  BY <1>1 DEF Step, Call, Jump, Return, Clone
<1> QED
  BY <1>2, <1>4, <1>5, <1>6 DEF Next

LEMMA StillFollows == ASSUME Follows, UNCHANGED vars PROVE Follows'
<1>1. UNCHANGED <<fn, stage, at, total, GEPMap, ConsMap, MInsMap, code, todo, env, ptr, temp, exits, result>>
  BY DEF vars, passVars, runVars
<1>2. /\ Now' = Now /\ Available' = Available /\ (AtReturn' <=> AtReturn)
      /\ Instrs' = Instrs /\ \A z : Op(z)' = Op(z) /\ Instr(z)' = Instr(z) /\ Args(z)' = Args(z)
  BY <1>1, SameAvailable, SameText
<1>3. Reached(Now)'
  <2> PICK b : b = Now
    OBVIOUS
  <2> QED
    BY <1>1, <1>2, ReachedNow DEF Follows
<1>4. Frame'
  BY <1>1, <1>2 DEF Follows, Frame, Slot, ArgPtr
<1> PICK z : z = Ins(at)
  OBVIOUS
<1>5. Ins(at)' = z /\ Instr(Ins(at))' = Instr(z) /\ Op(Ins(at))' = Op(z) /\ Args(Ins(at))' = Args(z)
  BY <1>1, AtNext
<1>6. Doing'
  <2>1. IsList(todo)' /\ ClearsLast(todo)'
    BY <1>1 DEF Follows, Doing, IsList, ClearsLast
  <2>2. Entering => Entering'
    BY <1>1, <1>2 DEF Entering, Copied, Entry
  <2>3. Passing => Passing'
    BY <1>1, <1>2, <1>5 DEF Passing
  <2> QED
    BY <2>1, <2>2, <2>3 DEF Follows, Doing
<1>7. Shadows'
  <2>1. Cleared' <=> Cleared
    BY <1>1, <1>2 DEF Cleared
  <2> SUFFICES ASSUME ~Cleared, NEW v \in Available', handleOperand(v)' # Missing', ~Pending(v)'
               PROVE  Value(v)' = Undef \/ Right(v)'
    BY <2>1 DEF Shadows, Undef
  <2>2. handleOperand(v)' = handleOperand(v) /\ handleOperand(v) # Missing
    BY <1>1, SamePointers DEF Missing
  <2>3. ~Pending(v)
    BY <1>1 DEF Pending, Slot
  <2>4. Value(v) = Undef \/ Right(v)
    BY <1>2, <2>2, <2>3 DEF Follows, Shadows
  <2>5. Value(v)' = Value(v) /\ Target(handleOperand(v))' = Target(handleOperand(v))
    BY <1>1, <2>2 DEF Value, Target
  <2> QED
    BY <1>1, <2>4, <2>5, RightStays
<1>8. Ready'
  BY <1>1 DEF Follows, Ready, Copied, Undef
<1>9. Leaving'
  <2>1. /\ ~AtReturn => NoExit(todo) /\ exits = 0
        /\ AtReturn => (NoExit(todo) /\ exits = 1) \/ (OnlyExit(todo) /\ exits = 0)
        /\ AtReturn /\ ~fn.slice /\ Args(z) # << >> => Gives(todo) \/ Value(Args(z)[1]) \in {Undef, result}
        /\ stage = "done" => AtReturn /\ todo = << >>
    BY DEF Follows, Leaving
  <2>2. /\ NoExit(todo)' <=> NoExit(todo)
        /\ OnlyExit(todo)' <=> OnlyExit(todo)
        /\ Gives(todo)' <=> Gives(todo)
    BY <1>1 DEF NoExit, OnlyExit, Gives
  <2>3. Value(Args(Ins(at))[1])' = Value(Args(z)[1])
    BY <1>1, <1>5 DEF Value
  <2> QED
    BY <1>1, <1>2, <1>5, <2>1, <2>2, <2>3 DEF Leaving, Undef
<1> QED
  BY <1>3, <1>4, <1>6, <1>7, <1>8, <1>9 DEF Follows

LEMMA RunKeepsInv == ASSUME IInv, CodeInv, RunInv, [Next]_vars PROVE RunInv'
<1>1. CASE stage \notin Clone
  <2>1. CASE stage' \notin Clone
    <3>1. ~(handleNewPhi /\ stage' # "failed")
      BY <2>1 DEF handleNewPhi, Clone
    <3> QED
      BY <1>1, <3>1, PassRests
  <2>2. CASE stage' \in Clone
    <3>1. handleNewPhi /\ stage' # "failed" /\ todo = << >> /\ exits = 0 /\ DOMAIN env = Instrs
      BY <1>1, <2>2, PassRests
    <3>2. Follows'
      BY <3>1, NewPhiFollows
    <3> QED
      BY <2>2, <3>2 DEF RunInv, Clone
  <2> QED
    BY <2>1, <2>2
<1>2. CASE stage \in Clone
  <2>1. ~Pass
    BY <1>2, PassStays
  <2>2. Step \/ Call \/ (\E b \in Blocks : Jump(b)) \/ Return \/ UNCHANGED vars
    BY <2>1 DEF Next
  <2>3. stage' \in Clone /\ UNCHANGED <<fn, total>>
    <3>1. CASE Step
      BY <1>2, <3>1 DEF Step, Clone
    <3>2. CASE Call
      BY <1>2, <3>2 DEF Call, passVars
    <3>3. CASE \E b \in Blocks : Jump(b)
      BY <3>3 DEF Jump, Clone
    <3>4. CASE Return
      BY <3>4 DEF Return, Clone
    <3>5. CASE UNCHANGED vars
      BY <1>2, <3>5 DEF vars, passVars
    <3> QED
      BY <2>2, <3>1, <3>2, <3>3, <3>4, <3>5
  <2>4. ASSUME Supported PROVE Follows'
    <3>1. Follows
      BY <1>2, <2>4 DEF RunInv
    <3>2. CASE Step
      BY <2>4, <3>1, <3>2, StepFollows
    <3>3. CASE Call
      BY <1>2, <2>4, <3>1, <3>3, CallFollows
    <3>4. CASE \E b \in Blocks : Jump(b)
      BY <2>4, <3>1, <3>4, JumpFollows
    <3>5. CASE Return
      BY <3>1, <3>5, ReturnFollows
    <3>6. CASE UNCHANGED vars
      BY <3>1, <3>6, StillFollows
    <3> QED
      BY <2>2, <3>2, <3>3, <3>4, <3>5, <3>6
  <2>5. Supported' <=> Supported
    BY <2>3, SameSupported
  <2>6. (IF stage \in Clone THEN Supported => Follows
         ELSE todo = << >> /\ exits = 0 /\ DOMAIN env = Instrs)'
    BY <2>3, <2>4, <2>5 DEF Clone
  <2> QED
    BY <2>6 DEF RunInv
<1> QED
  BY <1>1, <1>2

-----------------------------------------------------------------------------
(* What follows.                                                           *)
LEMMA InitRun == Init => RunInv
<1> SUFFICES ASSUME Init PROVE RunInv
  OBVIOUS
<1>1. stage = "branches" /\ todo = << >> /\ exits = 0 /\ env = [x \in Instrs |-> None]
  BY DEF Init
<1> QED
  BY <1>1 DEF RunInv, Clone

LEMMA EnteringRight ==
  ASSUME IInv, CodeInv, stage \in Clone, Follows, Entering, todo # << >>, NEW r \in Range(Head(todo).reads)
  PROVE  Value(r.val) \in {Undef, Holds(r.ptr)}
<1> PICK c : c = Head(todo)
  OBVIOUS
<1>1. c \in Range(todo) /\ c = todo[1] /\ 1 \in DOMAIN todo /\ Ready /\ Frame
  BY HeadTail DEF Follows, Doing
<1>2. PICK x \in PhisOf(Now) : /\ x \in DOMAIN GEPMap /\ c = CopyOf(x) /\ c.fun = "copy_phi" /\ Copied(c) = x
  BY <1>1, EnteredCopy
<1>3. c.reads = <<Reads(Chosen(x), x)>>
  BY <1>2 DEF CopyOf, RuntimeCall
<1>4. r = Reads(Chosen(x), x)
  BY <1>3 DEF Range
<1>5. r.val = x /\ r.ptr = Chosen(x) /\ x[1] = "ins"
  BY <1>4, Basics DEF Reads, PhisOf
<1>6. Value(x) = env[x]
  BY <1>5 DEF Value
<1>7. env[x] = Undef \/ (ptr[x] \in DOMAIN temp /\ temp[ptr[x]] = env[x])
  BY <1>1, <1>2 DEF Ready
<1>8. Target(Chosen(x)) = ptr[x] /\ Chosen(x)[1] # "immediate"
  BY DEF Target, Chosen
<1>9. ptr[x] \in DOMAIN temp => Holds(Chosen(x)) = temp[ptr[x]]
  BY <1>8 DEF Holds
<1> QED
  BY <1>5, <1>6, <1>7, <1>9

LEMMA PassingRight ==
  ASSUME IInv, CodeInv, stage \in Clone, Supported, Follows, Passing, todo # << >>, NEW r \in Range(Head(todo).reads)
  PROVE  Value(r.val) \in {Undef, Holds(r.ptr)}
<1> PICK c : c = Head(todo)
  OBVIOUS
<1> PICK z : z = Ins(at)
  OBVIOUS
<1>1. /\ z \in Instrs /\ Form(z, c) /\ Frame /\ IsFunction(fn) /\ Live(z)
  <2>1. c \in Range(todo)
    BY HeadTail DEF Follows, Doing
  <2>2. z \in Instrs /\ c \in Range(code[z]) /\ Forms /\ Frame /\ IsFunction(fn) /\ Live(z)
    BY <2>1, PassedAt, PassedLive, Basics DEF Passing, Follows
  <2> QED
    BY <2>2 DEF Forms
<1>2. ASSUME NEW y \in Instrs, Live(y), Op(y) # "phi", y = z \/ Op(z) \notin Drawn, ReadsOf(c, y), c.fun # "clear"
      PROVE  Value(r.val) \in {Undef, Holds(r.ptr)}
  <2>1. PICK v \in Range(Args(y)) : handleOperand(v) # Missing /\ r = Reads(handleOperand(v), v)
    BY <1>2 DEF ReadsOf, IsRead
  <2>2. ~Cleared
    BY <1>2 DEF Cleared
  <2>3. Value(v) = Undef \/ Holds(handleOperand(v)) = Value(v)
    BY <1>2, <2>1, <2>2, ReadRight
  <2>4. r.val = v /\ r.ptr = handleOperand(v)
    BY <2>1 DEF Reads
  <2> QED
    BY <2>3, <2>4
<1>3. CASE IsClear(z, c) \/ IsExit(z, c)
  <2>1. c.reads = << >>
    BY <1>3 DEF IsClear, IsExit
  <2> QED
    BY <2>1, NoCalls
<1>4. CASE IsWrite(z, c)
  BY <1>1, <1>2, <1>4 DEF IsWrite, Writes, Drawn
<1>5. CASE IsStore(z, c)
  <2>1. c.fun # "clear" /\ Op(z) = "store"
    BY <1>5 DEF IsStore
  <2>2. CASE ReadsOf(c, z)
    BY <1>1, <1>2, <2>1, <2>2
  <2>3. CASE \E v \in Range(Args(z)) : c.reads = <<Reads(Immediate(v), v)>> /\ (Resolvable => Op(v) = "const")
    <3>1. PICK v \in Range(Args(z)) : c.reads = <<Reads(Immediate(v), v)>> /\ Op(v) = "const"
      BY <2>3 DEF Supported
    <3>2. r = Reads(Immediate(v), v)
      BY <3>1 DEF Range
    <3>3. r.val = v /\ r.ptr = Immediate(v)
      BY <3>2 DEF Reads
    <3>4. Value(v) = v
      <4>1. IsOperand(fn, v)
        BY <1>1, OperandsOf
      <4>2. v[1] # "ins"
        BY <1>1, <3>1, <4>1, OperandKinds DEF Valued, Ops
      <4> QED
        BY <4>2 DEF Value
    <3>5. Target(Immediate(v)) = Immediate(v) /\ Immediate(v)[1] = "immediate" /\ Immediate(v)[2] = v
      BY DEF Target, Immediate
    <3>6. Immediate(v) \notin DOMAIN temp
      BY <1>1 DEF Frame, Immediate, Slot, ArgPtr
    <3>7. Holds(Immediate(v)) = v
      BY <3>1, <3>5, <3>6 DEF Holds
    <3> QED
      BY <3>3, <3>4, <3>7
  <2> QED
    BY <1>5, <2>2, <2>3 DEF IsStore
<1>6. CASE IsCheck(z, c)
  <2>1. PICK y \in Instrs : Op(y) = "fcmp" /\ (z = y \/ Instr(z).cond = y) /\ ReadsOf(c, y)
    BY <1>6 DEF IsCheck
  <2>2. c.fun # "clear"
    BY <1>6 DEF IsCheck
  <2>3. CASE z = y
    BY <1>1, <1>2, <2>1, <2>2, <2>3
  <2>4. CASE Instr(z).cond = y
    <3>1. Op(z) \in {"br", "select"} /\ Dominates(fn, y[2], z[2])
      BY <1>1, <2>1, <2>4, Takers
    <3>2. Live(y)
      BY <1>1, <3>1, LiveBefore, Basics
    <3> QED
      BY <1>2, <2>1, <2>2, <3>1, <3>2 DEF Drawn
  <2> QED
    BY <2>1, <2>3, <2>4
<1>7. CASE IsGiven(z, c)
  BY <1>1, <1>2, <1>7 DEF IsGiven, Supported
<1> QED
  BY <1>1, <1>3, <1>4, <1>5, <1>6, <1>7 DEF Form

(* What the pass has inserted and where the clone's shadows are, at every  *)
(* moment of every pass and of every run of a clone: each call reads the   *)
(* pointers of the operands that it was inserted for and writes the one    *)
(* entry of its own value; and of the values that are there, on whatever   *)
(* path the clone came, each that no call is still to write is in the      *)
(* entry that its pointer leads to.                                        *)
THEOREM RunInvariant == Spec => []RInv
<1>1. Init => RInv
  BY InitHolds, InitCode, InitRun DEF RInv
<1>2. RInv /\ [Next]_vars => RInv'
  <2> SUFFICES ASSUME RInv, [Next]_vars PROVE RInv'
    OBVIOUS
  <2>1. IInv /\ CodeInv /\ RunInv
    BY DEF RInv
  <2>2. IInv' /\ CodeInv' /\ RunInv'
    BY <2>1, NextKeeps, CodeKeeps, RunKeepsInv
  <2> QED
    BY <2>2 DEF RInv
<1> QED
  BY <1>1, <1>2, PTL DEF Spec

(* Whenever the clone calls the runtime, on every path through a function  *)
(* of any form that the pass supports, each pointer that it passes leads   *)
(* to the shadow of the value that the program's instruction had.          *)
THEOREM ShadowsRight == Spec => []RightShadows
<1>1. RInv => RightShadows
  <2> SUFFICES ASSUME RInv, todo # << >>, Supported, NEW r \in Range(Head(todo).reads)
               PROVE  Value(r.val) \in {Undef, Holds(r.ptr)}
    BY DEF RightShadows
  <2>1. IInv /\ CodeInv /\ stage \in Clone /\ Follows
    BY DEF RInv, RunInv
  <2>2. Entering \/ Passing
    BY <2>1 DEF Follows, Doing
  <2> QED
    BY <2>1, <2>2, EnteringRight, PassingRight
<1> QED
  BY <1>1, RunInvariant, PTL

(* A clone that has returned called fpsan_func_exit exactly once, and gave *)
(* its caller the shadow of the value that the program's function returns. *)
THEOREM LeavesOnce == Spec => []LeftOnce
<1>1. RInv => LeftOnce
  <2> SUFFICES ASSUME RInv, stage = "done", Supported
               PROVE  /\ exits = 1
                      /\ ~fn.slice => \A v \in Range(Args(Ins(at))) : Value(v) \in {Undef, result}
    BY DEF LeftOnce
  <2>1. IInv /\ CodeInv /\ Leaving /\ Doing
    BY DEF RInv, RunInv, Clone, Follows
  <2>2. AtReturn /\ todo = << >> /\ Op(Ins(at)) = "ret"
    BY <2>1 DEF Leaving, AtReturn
  <2>3. ~OnlyExit(todo) /\ ~Gives(todo)
    BY <2>2, NoCalls DEF OnlyExit, Gives
  <2>4. exits = 1
    BY <2>1, <2>2, <2>3 DEF Leaving
  <2>5. ASSUME ~fn.slice, NEW v \in Range(Args(Ins(at)))
        PROVE  Value(v) \in {Undef, result}
    <3>1. Ins(at) \in Instrs /\ IsFunction(fn)
      <4>1. Passing
        BY <2>1 DEF Doing, Entering
      <4> QED
        BY <2>1, <4>1, PassedAt, Basics DEF Clone
    <3>2. v = Args(Ins(at))[1] /\ Args(Ins(at)) # << >>
      BY <2>2, <2>5, <3>1, GivenArg
    <3> QED
      BY <2>1, <2>2, <2>3, <2>5, <3>2 DEF Leaving
  <2> QED
    BY <2>4, <2>5
<1> QED
  BY <1>1, RunInvariant, PTL

=============================================================================
