------------------------ MODULE ShadowPlacementInv ------------------------
(***************************************************************************)
(* The inductive invariants behind ShadowPlacement.  IInv is about the     *)
(* tables: what each of them has when a loop of the pass has come to an    *)
(* instruction, that what is handed out never exceeds what was counted,    *)
(* and where pointers can lead when the clone runs.  RInv adds what the    *)
(* inserted calls are, and which entries hold which shadows while the      *)
(* clone runs.                                                             *)
(***************************************************************************)
EXTENDS ShadowPlacement

Texts == DOMAIN fn.text
IsList(s) == s \in Seq(Range(s))
Named == {"phi", "bin", "neg", "math", "call", "lib", "extern", "load", "select"}
Choosing == {"phi", "select"}
Phis == {x \in Instrs : Op(x) = "phi"}
Choosers == {x \in Instrs : Op(x) \in Choosing}

(* What the loops have done: stage s has come past instruction k.          *)
Walks == {"count", "alloca", "instructions", "returns", "compares"}
Clone == {"run", "leave", "done"}
HandedOut(k) ==
  \/ stage \in {"instructions", "returns", "compares", "newphi"} \cup Clone
  \/ stage = "alloca" /\ k < at
Placed(k) ==
  \/ stage \in {"returns", "compares", "newphi"} \cup Clone
  \/ stage = "instructions" /\ k < at

Position ==
  /\ IsFunction(fn)
  /\ stage \in Walks \cup Clone \cup {"branches", "newphi", "failed"}
  /\ at \in 0 .. Len(fn.text)
  /\ stage \in Walks \cup {"leave", "done"} => at > 0
  /\ stage \in {"branches", "newphi"} => at = 1
  /\ stage = "run" => at < Len(fn.text)
  /\ total \in Nat /\ index \in Nat /\ clock \in Nat /\ exits \in Nat
  /\ jumps \in 0 .. MaxJumps

(* The one walk hands out no more at an instruction than the other counted *)
(* there, so it is never ahead.                                            *)
UpTo(k) == IF k = 0 THEN 0 ELSE counted[k]
Counted ==
  /\ counted \in Seq(Nat)
  /\ Len(counted) = IF stage = "branches" THEN 0
                    ELSE IF stage = "count" THEN at - 1 ELSE Len(fn.text)
  /\ \A k \in 1 .. Len(counted) : UpTo(k) = UpTo(k - 1) + Count(Ins(k)) /\ UpTo(k) <= total
  /\ total = UpTo(Len(counted))
  /\ stage \in {"branches", "count"} => index = 0
  /\ stage = "alloca" => index <= UpTo(at - 1)
  /\ index <= total

(* The pointer to an instruction's own entry, or the one it chooses.       *)
Names(x) == IF Op(x) \in Choosing THEN Chosen(x) ELSE Slot(GEPMap[x])
Tables ==
  /\ DOMAIN GEPMap \subseteq Instrs /\ \A x \in DOMAIN GEPMap : GEPMap[x] \in 1 .. index
  /\ \A v \in DOMAIN ConsMap : ConsMap[v] \in 1 .. index
  /\ \A v \in DOMAIN ConsMap : v[1] = "const" \/ (v \in Instrs /\ Op(v) = "conv")
  /\ DOMAIN MInsMap \subseteq {x \in Instrs : Op(x) \in Named}
  /\ stage \in {"branches", "count", "alloca"} => DOMAIN MInsMap = {}
  /\ \A x \in DOMAIN MInsMap : MInsMap[x] = Names(x) /\ (Op(x) # "select" => x \in DOMAIN GEPMap)
  /\ DOMAIN code = Instrs \cup {Entry(b) : b \in Blocks}
  /\ \A x \in DOMAIN code :
       /\ IsList(code[x])
       /\ \A c \in Range(code[x]) : c.dest[1] = "slot" => c.dest[2] \in 1 .. index

(* What is in them, up to where the loops are.                             *)
Complete ==
  \A k \in Texts :
    LET x == Ins(k) IN
    /\ HandedOut(k) /\ Op(x) \in HasEntry => x \in DOMAIN GEPMap
    /\ HandedOut(k) /\ Op(x) = "conv" => x \in DOMAIN ConsMap
    /\ HandedOut(k) => \A j \in Constants(x) : Args(x)[j] \in DOMAIN ConsMap
    /\ Placed(k) /\ Op(x) \in Named => x \in DOMAIN MInsMap
    /\ Placed(k) /\ Op(x) = "select" => x \in DOMAIN arms

(* The pointers that new phis and selects choose from.                     *)
Arm(p) == p[1] \in {"slot", "argptr", "null"} \/ (p[1] = "chosen" /\ p[2] \in Choosers)
Pointing ==
  /\ DOMAIN arms \subseteq {x \in DOMAIN MInsMap : x \in Choosers}
  /\ \A x \in DOMAIN arms : stage \in Clone \/ Op(x) = "select"
  /\ \A x \in DOMAIN arms : \A k \in DOMAIN arms[x] : Arm(arms[x][k])
  /\ \A x \in DOMAIN arms : Op(x) = "select" => DOMAIN arms[x] = DOMAIN Args(x)
  /\ stage \in Clone => DOMAIN arms = Choosers /\ DOMAIN ptr = Choosers
  /\ stage \notin Clone => ptr = << >>
  /\ \A x \in DOMAIN ptr : ptr[x][1] \in {"slot", "argptr", "null", "missing"}

IInv == Position /\ Counted /\ Tables /\ Complete /\ Pointing /\ NothingMissing

-----------------------------------------------------------------------------
(* The calls inserted.  No two values share an entry.                      *)
Unshared ==
  /\ \A x, y \in DOMAIN GEPMap : GEPMap[x] = GEPMap[y] => x = y
  /\ \A v, w \in DOMAIN ConsMap : ConsMap[v] = ConsMap[w] => v = w
  /\ \A v \in DOMAIN ConsMap :
       IF v[1] = "const" THEN \A x \in DOMAIN GEPMap : GEPMap[x] # ConsMap[v]
       ELSE v \in DOMAIN GEPMap /\ GEPMap[v] = ConsMap[v]

(* Entries are handed out in one walk, with the calls that they need.      *)
Early ==
  /\ \A x \in DOMAIN GEPMap : HandedOut(x[2]) \/ stage = "failed"
  /\ stage \in {"branches", "count", "alloca"} =>
       \A x \in Instrs : \A c \in Range(code[x]) : c.fun \in {"clear", "store_tempmeta"} /\ c.reads = << >>

(* A call that is inserted at an instruction reads the operands of that    *)
(* instruction, or of the comparison that it takes, and writes the entry   *)
(* of that instruction or none.                                            *)
Writes == {"store_tempmeta", "compute", "load_shadow", "call", "set_lib"}
IsRead(r, v) == handleOperand(v) # Missing /\ r = Reads(handleOperand(v), v)
ReadsOf(c, y) == \A r \in Range(c.reads) : \E v \in Range(Args(y)) : IsRead(r, v)
IsClear(x, c) ==
  /\ c.fun = "clear" /\ x = LastReturn /\ c.reads = << >>
  /\ c.dest[1] = "slot" \/ fn.slice
IsWrite(x, c) ==
  /\ c.fun \in Writes /\ Op(x) \in Drawn
  /\ x \in DOMAIN GEPMap /\ c.dest = Slot(GEPMap[x]) /\ ReadsOf(c, x)
IsStore(x, c) ==
  /\ c.fun = "store_shadow" /\ Op(x) = "store" /\ c.dest = Null
  /\ \/ ReadsOf(c, x)
     \/ \E v \in Range(Args(x)) : c.reads = <<Reads(Immediate(v), v)>> /\ (Resolvable => Op(v) = "const")
IsCheck(x, c) ==
  /\ c.fun = "check_branch" /\ c.dest = Null
  /\ \E y \in Instrs : Op(y) = "fcmp" /\ (x = y \/ Instr(x).cond = y) /\ ReadsOf(c, y)
IsGiven(x, c) ==
  /\ c.fun \in {"check_error", "copy_return"} /\ Op(x) = "ret" /\ c.dest = Null
  /\ 1 \in DOMAIN c.reads /\ (OneReturn => ReadsOf(c, x))
IsExit(x, c) == c.fun = "func_exit" /\ Op(x) = "ret" /\ c.dest = Null /\ c.reads = << >>

Form(x, c) ==
  IsClear(x, c) \/ IsWrite(x, c) \/ IsStore(x, c) \/ IsCheck(x, c) \/ IsGiven(x, c) \/ IsExit(x, c)
Forms == \A x \in Instrs : \A c \in Range(code[x]) : Form(x, c)
ClearsLast(s) == \A i, j \in DOMAIN s : i < j /\ s[i].fun = "clear" => s[j].fun = "clear"

(* A block begins with the copies of its phis, in the order of the text.   *)
CopyOf(x) == RuntimeCall("copy_phi", <<Reads(Chosen(x), x)>>, Slot(GEPMap[x]))
Copied(c) == c.reads[1].val
IsCopy(b, c) ==
  \E x \in PhisOf(b) : x \in DOMAIN GEPMap /\ c = CopyOf(x) /\ (Placed(x[2]) \/ stage = "failed")
Copies ==
  \A b \in Blocks :
    LET s == code[Entry(b)] IN
    /\ \A j \in DOMAIN s : IsCopy(b, s[j])
    /\ \A i, j \in DOMAIN s : i < j => Before(Copied(s[i]), Copied(s[j]))

(* What is to be written is written.                                       *)
Written ==
  \A k \in Texts :
    LET x == Ins(k) IN
    /\ \/ Placed(k) /\ Op(x) \in {"bin", "neg", "math", "call", "lib", "load"}
       \/ HandedOut(k) /\ Op(x) = "conv"
       => \E c \in Range(code[x]) : c.fun \in Writes
    /\ Placed(k) /\ Op(x) = "phi" => CopyOf(x) \in Range(code[Entry(Instr(x).block)])

(* A return gives and leaves, if it is the only one.                       *)
Returned(k) == stage \in {"compares", "newphi"} \cup Clone \/ (stage = "returns" /\ k < at)
OnlyExit(s) == \E i \in DOMAIN s : s[i].fun = "func_exit" /\ \A j \in DOMAIN s : s[j].fun = "func_exit" => j = i
Gives(s) == \E c \in Range(s) : c.fun = "copy_return"
Leaves ==
  OneReturn /\ stage # "failed" => \A k \in Texts : Op(Ins(k)) = "ret" =>
    IF Returned(k) THEN /\ OnlyExit(code[Ins(k)])
                        /\ ~fn.slice /\ Args(Ins(k)) # << >> => Gives(code[Ins(k)])
    ELSE \A c \in Range(code[Ins(k)]) : c.fun = "clear"

(* Where comparisons are read, and what selects and phis choose from.      *)
Taken == \A x \in DOMAIN FCMPMap : FCMPMap[x] \in Instrs /\ Instr(FCMPMap[x]).cond = x
Chooses ==
  /\ \A x \in DOMAIN arms : Op(x) = "select" =>
       \A k \in DOMAIN Args(x) : arms[x][k] # Missing /\ arms[x][k] = handleOperand(Args(x)[k])
  /\ stage \in Clone => \A x \in Phis :
       arms[x] = PhiArms(x) /\ \A v \in Incomings(x) : handleOperand(v) # Missing

CodeInv ==
  /\ fn \in Functions
  /\ Unshared /\ Early /\ Forms /\ (\A x \in Instrs : ClearsLast(code[x])) /\ Copies /\ Written
  /\ Leaves /\ Taken /\ Chooses

-----------------------------------------------------------------------------
(* The clone runs.  The block it is in can be reached, and the values that *)
(* are there are those computed in it or in blocks that dominate it.       *)
Now == fn.text[IF stage = "run" THEN at + 1 ELSE at].block
Reached(b) == \A R \in SUBSET Blocks : 1 \in R /\ (\A c \in R : fn.next[c] \subseteq R) => b \in R
Live(x) == \/ Instr(x).block = Now /\ x[2] <= at
           \/ BlockDominates(fn, Instr(x).block, Now)
Available == {x \in Instrs : Live(x)} \cup {v \in UNION {Range(Args(x)) : x \in Instrs} : v[1] # "ins"}

Frame ==
  /\ DOMAIN temp = {Slot(n) : n \in 1 .. total} \cup {ArgPtr(n) : n \in 1 .. fn.args}
  /\ DOMAIN env = Instrs

(* The calls to be made are of the block just entered or of the            *)
(* instruction just passed.                                                *)
Entering ==
  /\ stage = "run" /\ Range(todo) \subseteq Range(code[Entry(Now)])
  /\ \A c \in Range(todo) : Copied(c)[2] <= at
  /\ \A x \in Instrs : Instr(x).block = Now /\ x[2] <= at => Op(x) = "phi"
Passing ==
  /\ at > 0 /\ Instr(Ins(at)).block = Now
  /\ Range(todo) \subseteq Range(code[Ins(at)])
Doing == IsList(todo) /\ ClearsLast(todo) /\ (Entering \/ Passing)

(* The shadow of a value is where its pointer leads, and if that is the    *)
(* entry of another value, the one stands for the other.  A copy to be     *)
(* made finds its shadow, and the copies before it leave that alone.       *)
Right(v) ==
  LET p == Target(handleOperand(v)) IN
  /\ p \in DOMAIN temp /\ temp[p] = Value(v)
  /\ \A x \in DOMAIN GEPMap : Slot(GEPMap[x]) = p => x \in StandsFor(v)
Pending(v) ==
  v \in DOMAIN GEPMap /\ \E c \in Range(todo) : c.fun # "clear" /\ c.dest = Slot(GEPMap[v])
AtReturn == stage \in {"leave", "done"} /\ Op(Ins(at)) = "ret"
Cleared == AtReturn /\ (todo = << >> \/ Head(todo).fun = "clear")
Shadows ==
  ~Cleared => \A v \in Available : handleOperand(v) # Missing /\ ~Pending(v) => Value(v) = Undef \/ Right(v)
Ready ==
  \A j \in DOMAIN todo : todo[j].fun = "copy_phi" =>
    LET x == Copied(todo[j]) IN
    \/ env[x] = Undef
    \/ ptr[x] \in DOMAIN temp /\ temp[ptr[x]] = env[x] /\ \A i \in 1 .. j - 1 : todo[i].dest # ptr[x]

(* The clone leaves its frame once, and gives its result before.           *)
NoExit(s) == \A j \in DOMAIN s : s[j].fun # "func_exit"
Leaving ==
  /\ ~AtReturn => NoExit(todo) /\ exits = 0
  /\ AtReturn => (NoExit(todo) /\ exits = 1) \/ (OnlyExit(todo) /\ exits = 0)
  /\ AtReturn /\ ~fn.slice /\ Args(Ins(at)) # << >> =>
       Gives(todo) \/ Value(Args(Ins(at))[1]) \in {Undef, result}
  /\ stage = "done" => AtReturn /\ todo = << >>

Follows == Reached(Now) /\ Frame /\ Doing /\ Shadows /\ Ready /\ Leaving
RunInv ==
  IF stage \in Clone THEN Supported => Follows
  ELSE todo = << >> /\ exits = 0 /\ DOMAIN env = Instrs
RInv == IInv /\ CodeInv /\ RunInv
=============================================================================
