--------------------------- MODULE ShadowPlacement ---------------------------
(***************************************************************************)
(* Where a clone keeps its shadow values.  Every floating point value of a *)
(* function has its shadow in a temp_entry of an array that the pass puts  *)
(* into the clone's frame; loops overwrite the entries, phis copy them,    *)
(* selects only choose between pointers to them.  The pass decides once    *)
(* and for all, walking over the function in the order of its text, which  *)
(* entry each shadow operation reads and writes; the clone then follows    *)
(* the program's path through the function.  Whatever the path, an         *)
(* operation must find the shadows of the values that the program's        *)
(* instruction had.                                                        *)
(*                                                                         *)
(* First the pass handles one function, then its clone is run once, with   *)
(* the program's values next to it.  A value is a number drawn when it is  *)
(* computed, and its shadow that same number, so that the model says whose *)
(* shadow an entry holds.  Callees keep to what LeftOnce says of them.     *)
(*                                                                         *)
(* Source: src/llvm-pass/FPSan/FPSanitizer.cpp.                            *)
(***************************************************************************)
EXTENDS Integers, Sequences, FiniteSets, SequencesExt, FiniteSetsExt

CONSTANTS
  Functions, (* the functions considered                                   *)
  MaxJumps   (* bound: the jumps of a run                                  *)


(* Operands: constants, arguments, undef, and instructions, which are      *)
(* named by their place in the text.  Blocks are numbered in the order of  *)
(* the text; the first is the entry.                                       *)
Const(c) == <<"const", c>>
Arg(n) == <<"arg", n>>
Ins(k) == <<"ins", k>>
Undef == <<"undef", 0>>
None == <<"none", 0>>

(* "conv" is a value converted from an integer, "cast" fptrunc or fpext,   *)
(* "math" a function of mathFunc.txt.  The calls are of functions that     *)
(* have a clone ("call"), of declared functions listed in libFunc.txt      *)
(* ("lib") or not ("extern"), and of those that LLVM knows but mathFunc.txt *)
(* does not ("known").  A call is direct unless it is through a pointer,   *)
(* which is a "call" too.  The last instruction of a block is "br" or      *)
(* "ret".                                                                  *)
Ops == {"phi", "bin", "neg", "math", "call", "lib", "extern", "known", "load",
        "conv", "cast", "select", "fcmp", "store", "br", "ret"}

(* What LLVM guarantees of a function: blocks follow each other in the     *)
(* text, each ends with its only terminator and begins with its phis, and  *)
(* operands are values; some block returns.                                *)
Valued == Ops \ {"fcmp", "store", "br", "ret"}
IsOperand(f, v) ==
  /\ v \in STRING \X Nat
  /\ \/ v[1] = "const" \/ v = Undef
     \/ v[1] = "arg" /\ v[2] \in 1 .. f.args
     \/ v[1] = "ins" /\ v[2] \in DOMAIN f.text /\ f.text[v[2]].op \in Valued
IsInstruction(f, k) ==
  LET i == f.text[k]
      last == k = Len(f.text) \/ f.text[k + 1].block # i.block
  IN  /\ i.op \in Ops /\ i.block \in DOMAIN f.next
      /\ i.args \in Seq(STRING \X Nat) /\ \A v \in Range(i.args) : IsOperand(f, v)
      /\ i.op \in {"br", "ret"} <=> last
      /\ ~last => f.text[k + 1].block = i.block
      /\ last /\ k < Len(f.text) => f.text[k + 1].block = i.block + 1
      /\ i.op = "phi" => /\ DOMAIN i.from = DOMAIN i.args
                         /\ k > 1 /\ f.text[k - 1].op \in {"phi", "br", "ret"}
      /\ i.op # "phi" => Ins(k) \notin Range(i.args)
      /\ i.direct \in BOOLEAN /\ (i.direct \/ i.op = "call")
      /\ i.op \in {"cast", "neg", "store"} => Len(i.args) = 1
      /\ i.op = "ret" => Len(i.args) <= 1
IsFunction(f) ==
  /\ f.text \in Seq(Range(f.text)) /\ f.text # << >> /\ f.args \in Nat
  /\ f.next \in Seq(SUBSET Nat)
  /\ f.text[1].block = 1 /\ f.text[Len(f.text)].block = Len(f.next)
  /\ \A k \in DOMAIN f.text : IsInstruction(f, k)
  /\ \A b \in DOMAIN f.next : f.next[b] \subseteq DOMAIN f.next
  /\ \E k \in DOMAIN f.text : f.text[k].op = "ret"

(* A block dominates another if no path from the entry reaches the other   *)
(* around it: some set of blocks without the other has the entry and is    *)
(* only left from the one.  A value is there when it is used, and, for a   *)
(* phi, at the end of the block that it comes from.                        *)
BlockDominates(f, a, b) ==
  \E R \in SUBSET DOMAIN f.next :
    1 \in R /\ b \notin R /\ \A c \in R \ {a} : f.next[c] \subseteq R
Dominates(f, j, k) ==
  \/ f.text[j].block = f.text[k].block /\ j < k
  \/ BlockDominates(f, f.text[j].block, f.text[k].block)
IsSSA(f) ==
  \A k \in DOMAIN f.text :
    LET i == f.text[k] IN
    /\ i.op # "phi" => \A v \in Range(i.args) : v[1] = "ins" => Dominates(f, v[2], k)
    /\ i.op = "phi" =>
         /\ \A j \in DOMAIN i.args : i.args[j][1] = "ins" =>
              LET b == f.text[i.args[j][2]].block
              IN  b = i.from[j] \/ BlockDominates(f, b, i.from[j])
         /\ \A b \in DOMAIN f.next : i.block \in f.next[b] => b \in Range(i.from)
    /\ i.cond # None => /\ i.op \in {"br", "select"} /\ i.cond \in {Ins(j) : j \in DOMAIN f.text}
                        /\ f.text[i.cond[2]].op = "fcmp" /\ Dominates(f, i.cond[2], k)

ASSUME FunctionsAssumption == \A f \in Functions : IsFunction(f) /\ IsSSA(f)
ASSUME JumpsAssumption == MaxJumps \in Nat

VARIABLES
  fn,        (* the function: its text, the successors of its blocks, the   *)
             (* number of its arguments and whether it is a slice          *)
  stage,     (* the loop of runOnModule that is running, or "run", ...      *)
  at,        (* the instruction it is at                                   *)
  total,     (* how many entries are allocated                             *)
  index,     (* how many of them have been handed out                      *)
  counted,   (* history: total after each instruction                      *)
  GEPMap,    (* the entry of an instruction                                *)
  ConsMap,   (* the entry of a constant or a converted value               *)
  MInsMap,   (* the pointer that stands for an instruction's shadow        *)
  FCMPMap,   (* where the outcome of a comparison is read, if elsewhere    *)
  arms,      (* my_phi and my_select: the pointers they choose from        *)
  code,      (* the calls inserted at instructions and at block entries    *)
  todo,      (* the calls that the clone makes before it goes on           *)
  env,       (* the program's value of each instruction                    *)
  ptr,       (* the pointers that my_phi and my_select have chosen         *)
  temp,      (* the value whose shadow each entry holds                    *)
  clock, jumps,
  exits,     (* how often fpsan_func_exit was called                       *)
  result     (* what the clone has given to its caller                     *)

passVars == <<fn, stage, at, total, index, counted, GEPMap, ConsMap, MInsMap, FCMPMap, arms, code>>
runVars == <<todo, env, ptr, temp, clock, jumps, exits, result>>
vars == <<passVars, runVars>>

Blocks == DOMAIN fn.next
Instrs == {Ins(k) : k \in DOMAIN fn.text}
Instr(x) == fn.text[x[2]]
Op(v) == IF v[1] = "ins" THEN Instr(v).op ELSE v[1]
Args(x) == Instr(x).args
Before(x, y) == x[2] < y[2]
Returns == {x \in Instrs : Op(x) = "ret"}
LastReturn == Ins(Max({x[2] : x \in Returns}))
Entry(b) == <<"entry", b>>
Extend(f, x, y) == [z \in DOMAIN f \cup {x} |-> IF z = x THEN y ELSE f[z]]

(* Pointers to entries: of the frame, of an argument, chosen while the     *)
(* clone runs; the null pointer; and none at all: a value written into the *)
(* code itself, which exists only if it is a constant.                     *)
Slot(n) == <<"slot", n>>
ArgPtr(n) == <<"argptr", n>>
Chosen(x) == <<"chosen", x>>
Null == <<"null", 0>>
Immediate(v) == <<"immediate", v>>
Missing == <<"missing", 0>>

(* A call to the runtime: what it reads, and of which values it should be  *)
(* the shadow, and where it writes.                                        *)
Reads(p, v) == [ptr |-> p, val |-> v]
RuntimeCall(f, rs, d) == [fun |-> f, reads |-> rs, dest |-> d]

(* Of a slice's clone, the arguments are cleared at the last return.       *)
ArgClears == IF fn.slice THEN [n \in 1 .. fn.args |-> RuntimeCall("clear", << >>, ArgPtr(n))]
             ELSE << >>

Init ==
  /\ fn \in Functions /\ stage = "branches" /\ at = 1
  /\ total = 0 /\ index = 0 /\ counted = << >>
  /\ GEPMap = << >> /\ ConsMap = << >> /\ MInsMap = << >> /\ FCMPMap = << >>
  /\ arms = << >>
  /\ code = [x \in Instrs \cup {Entry(b) : b \in Blocks} |->
               IF x = LastReturn THEN ArgClears ELSE << >>]
  /\ todo = << >> /\ ptr = << >> /\ temp = << >>
  /\ env = [x \in Instrs |-> None]
  /\ clock = 0 /\ jumps = 0 /\ exits = 0 /\ result = None

-----------------------------------------------------------------------------
(* The clone's branches read the outcome of their comparison; of several   *)
(* branches on one comparison, the first is noted.                         *)
handleBranch ==
  LET users(x) == {k \in DOMAIN fn.text : fn.text[k].op = "br" /\ fn.text[k].cond = x} IN
  /\ stage = "branches" /\ stage' = "count"
  /\ FCMPMap' = [x \in {y \in Instrs : users(y) # {}} |-> Ins(Min(users(x)))]
  /\ UNCHANGED <<fn, at, total, index, counted, GEPMap, ConsMap, MInsMap, arms, code, runVars>>

(* The loops of the pass: at each instruction of the text in turn, all but *)
(* the first and the last; a loop that has nothing to do there goes on.    *)
EarlyReturns == [count |-> "alloca", alloca |-> "returns", returns |-> "instructions",
                 instructions |-> "compares", compares |-> "newphi"]
Following == [count |-> "alloca", alloca |-> "instructions", instructions |-> "returns",
              returns |-> "compares", compares |-> "newphi"]
Advance ==
  IF at = Len(fn.text) THEN at' = 1 /\ stage' = Following[stage]
  ELSE at' = at + 1 /\ stage' = stage
Here(s, ops) == stage = s /\ Op(Ins(at)) \in ops

(* Allocation: one walk counts the entries, for results and for operands   *)
(* that are constants or, in comparisons, called by name; another hands    *)
(* them out.  Each lists by itself which instructions have which.          *)
Called == {"call", "lib", "extern", "known"}
OperandsIn(x, ops) == {k \in DOMAIN Args(x) : Op(Args(x)[k]) \in ops}
CalledByName(x) == {k \in OperandsIn(x, Called) : Instr(Args(x)[k]).direct}
CountedResults == {"neg", "bin", "conv", "load", "math", "call", "lib", "extern", "known", "phi"}
NotReturned == {"bin", "fcmp", "math", "call", "lib", "extern", "known", "select", "phi"}
CountedConstants == {"bin", "fcmp", "math", "call", "lib", "extern", "known", "select", "phi", "ret"}

Count(x) ==
  (IF Op(x) \in CountedResults THEN 1 ELSE 0)
  + (IF Op(x) \in CountedConstants THEN Cardinality(OperandsIn(x, {"const"})) ELSE 0)
  + (IF Op(x) = "fcmp" THEN Cardinality(CalledByName(x)) ELSE 0)

getTotalFPInst ==
  /\ stage = "count"
  /\ total' = total + Count(Ins(at)) /\ counted' = Append(counted, total')
  /\ Advance
  /\ UNCHANGED <<fn, index, GEPMap, ConsMap, MInsMap, FCMPMap, arms, code, runVars>>

(* What has an entry, as createGEP lists it.                               *)
HasEntry == {"phi", "bin", "neg", "math", "call", "lib", "extern", "known", "load", "conv"}
HasConstants == {"phi", "bin", "math", "call", "lib", "extern", "known", "select", "fcmp", "ret"}
Result(x) == IF Op(x) \in HasEntry THEN 1 ELSE 0
Constants(x) == IF Op(x) \in HasConstants THEN OperandsIn(x, {"const"}) ELSE {}

(* The insert of a std::map keeps the entry that a constant got first.     *)
ConstantEntry(x, k) == index + Result(x) + Cardinality({j \in Constants(x) : j <= k})
FirstOperand(x, v) == Min({k \in Constants(x) : Args(x)[k] = v})
Clears(n) == [k \in 1 .. n |-> RuntimeCall("clear", << >>, Slot(index + k))]

createGEP ==
  LET x == Ins(at)
      cs == {Args(x)[k] : k \in Constants(x)} \ DOMAIN ConsMap
      n == Result(x) + Cardinality(Constants(x))
  IN
  /\ stage = "alloca"
  /\ index' = index + n
  /\ GEPMap' = IF Result(x) = 1 THEN Extend(GEPMap, x, index + 1) ELSE GEPMap
  /\ ConsMap' = IF Op(x) = "conv" THEN Extend(ConsMap, x, index + 1)
                ELSE [v \in DOMAIN ConsMap \cup cs |->
                        IF v \in cs THEN ConstantEntry(x, FirstOperand(x, v)) ELSE ConsMap[v]]
  /\ code' = [[code EXCEPT ![x] =
                  IF Op(x) = "conv" THEN Append(@, RuntimeCall("store_tempmeta", << >>, Slot(index + 1)))
                  ELSE @]
               EXCEPT ![LastReturn] = @ \o Clears(n)]
  /\ Advance
  /\ UNCHANGED <<fn, total, counted, MInsMap, FCMPMap, arms, runVars>>

-----------------------------------------------------------------------------
(* The pointer to the shadow of an operand, as far as the pass has come.   *)
ThroughCasts(v) ==
  LET v1 == Args(v)[1]
  IN  CASE Op(v1) = "cast" ->
             (IF Args(v1)[1] \in DOMAIN MInsMap THEN MInsMap[Args(v1)[1]] ELSE Missing)
        [] v1 \in DOMAIN MInsMap -> MInsMap[v1]
        [] v1 \in DOMAIN ConsMap -> Slot(ConsMap[v1])
        [] Op(v1) = "arg" -> ArgPtr(v1[2])
        [] OTHER -> Missing

NoCasts(v) ==
  CASE v \in DOMAIN ConsMap -> Slot(ConsMap[v])
    [] Op(v) = "arg" -> ArgPtr(v[2])
    [] Op(v) = "phi" -> Slot(GEPMap[v])
    [] Op(v) # "phi" /\ v \in DOMAIN MInsMap -> MInsMap[v]
    [] Op(v) = "undef" -> Null
    [] OTHER -> Missing
PhiByMIns(v) ==
  CASE v \in DOMAIN ConsMap -> Slot(ConsMap[v])
    [] Op(v) = "arg" -> ArgPtr(v[2])
    [] v \in DOMAIN MInsMap -> MInsMap[v]
    [] Op(v) = "cast" -> ThroughCasts(v)
    [] Op(v) = "undef" -> Null
    [] OTHER -> Missing
handleOperand(v) ==
  CASE v \in DOMAIN ConsMap -> Slot(ConsMap[v])
    [] Op(v) = "arg" -> ArgPtr(v[2])
    [] Op(v) = "phi" -> Slot(GEPMap[v])
    [] Op(v) # "phi" /\ v \in DOMAIN MInsMap -> MInsMap[v]
    [] Op(v) = "cast" -> ThroughCasts(v)
    [] Op(v) = "undef" -> Null
    [] OTHER -> Missing

Found(x) == \A v \in Range(Args(x)) : handleOperand(v) # Missing
Operands(x) == [k \in DOMAIN Args(x) |-> Reads(handleOperand(Args(x)[k]), Args(x)[k])]
Insert(x, c) == code' = [code EXCEPT ![x] = Append(@, c)]

(* Without a pointer for an operand the pass exits: "metadata not found".  *)
MetadataNotFound(s, ops) ==
  /\ Here(s, ops) /\ ~Found(Ins(at))
  /\ stage' = "failed"
  /\ UNCHANGED <<fn, at, total, index, counted, GEPMap, ConsMap, MInsMap, FCMPMap, arms, code, runVars>>

(* A phi is known by the pointer that a new phi chooses, and is copied     *)
(* from there; the copy goes behind the copies of the phis before it.      *)
handlePhi ==
  LET x == Ins(at) IN
  /\ Here("instructions", {"phi"})
  /\ MInsMap' = Extend(MInsMap, x, Chosen(x))
  /\ Insert(Entry(Instr(x).block), RuntimeCall("copy_phi", <<Reads(Chosen(x), x)>>, Slot(GEPMap[x])))
  /\ Advance
  /\ UNCHANGED <<fn, total, index, counted, GEPMap, ConsMap, FCMPMap, arms, runVars>>

Compute(op) ==
  LET x == Ins(at) IN
  /\ Here("instructions", {op}) /\ Found(x)
  /\ MInsMap' = Extend(MInsMap, x, Slot(GEPMap[x]))
  /\ Insert(x, RuntimeCall("compute", Operands(x), Slot(GEPMap[x])))
  /\ Advance
  /\ UNCHANGED <<fn, total, index, counted, GEPMap, ConsMap, FCMPMap, arms, runVars>>

handleBinOp == Compute("bin")
handleFNeg == Compute("neg")
handleMathLibFunc == Compute("math")

handleLoad ==
  LET x == Ins(at) IN
  /\ Here("instructions", {"load"})
  /\ MInsMap' = Extend(MInsMap, x, Slot(GEPMap[x]))
  /\ Insert(x, RuntimeCall("load_shadow", << >>, Slot(GEPMap[x])))
  /\ Advance
  /\ UNCHANGED <<fn, total, index, counted, GEPMap, ConsMap, FCMPMap, arms, runVars>>

(* A value without metadata is stored as if it were a constant.            *)
handleStore ==
  LET x == Ins(at)
      v == Args(x)[1]
      p == IF handleOperand(v) = Missing THEN Immediate(v) ELSE handleOperand(v)
  IN
  /\ Here("instructions", {"store"})
  /\ Insert(x, RuntimeCall("store_shadow", <<Reads(p, v)>>, Null))
  /\ Advance
  /\ UNCHANGED <<fn, total, index, counted, GEPMap, ConsMap, MInsMap, FCMPMap, arms, runVars>>

(* A call of a function or through a pointer: the clone of the callee      *)
(* writes the result where it is told to; a declared function's result is  *)
(* read from the buffer, if it is listed.                                  *)
handleCallInst ==
  LET x == Ins(at) IN
  /\ Here("instructions", {"call", "lib", "extern"}) /\ Found(x)
  /\ MInsMap' = Extend(MInsMap, x, Slot(GEPMap[x]))
  /\ code' = [code EXCEPT ![x] = @ \o
       CASE Op(x) = "call" -> <<RuntimeCall("call", Operands(x), Slot(GEPMap[x]))>>
         [] Op(x) = "lib" -> <<RuntimeCall("set_lib", << >>, Slot(GEPMap[x]))>>
         [] Op(x) = "extern" -> << >>]
  /\ Advance
  /\ UNCHANGED <<fn, total, index, counted, GEPMap, ConsMap, FCMPMap, arms, runVars>>

(* The outcome of the comparison that decides is read here.                *)
handleSelect ==
  LET x == Ins(at) IN
  /\ Here("instructions", {"select"}) /\ Found(x)
  /\ arms' = Extend(arms, x, [k \in DOMAIN Args(x) |-> handleOperand(Args(x)[k])])
  /\ MInsMap' = Extend(MInsMap, x, Chosen(x))
  /\ FCMPMap' = IF Instr(x).cond \in DOMAIN FCMPMap \cup {None} THEN FCMPMap
                ELSE Extend(FCMPMap, Instr(x).cond, x)
  /\ Advance
  /\ UNCHANGED <<fn, total, index, counted, GEPMap, ConsMap, code, runVars>>

(* Every return places its calls before the first of the calls that clear  *)
(* the entries, and these are at the last return of the text.              *)
InPlace(s, cs) == s \o cs
BeforeClears(s, cs) ==
  LET n == CHOOSE k \in 0 .. Len(s) :
             /\ \A j \in 1 .. k : s[j].fun # "clear"
             /\ k = Len(s) \/ s[k + 1].fun = "clear"
  IN  SubSeq(s, 1, n) \o cs \o SubSeq(s, n + 1, Len(s))
ReturnPlace(x) ==
  IF \E c \in Range(code[LastReturn]) : c.fun = "clear" THEN LastReturn ELSE x

handleReturn ==
  LET x == Ins(at)
      gives == IF Args(x) = << >> THEN << >>
               ELSE <<RuntimeCall(IF fn.slice THEN "check_error" ELSE "copy_return",
                                  Operands(x), Null)>>
  IN
  /\ Here("returns", {"ret"}) /\ Found(x)
  /\ code' = [code EXCEPT ![ReturnPlace(x)] =
                BeforeClears(@, Append(gives, RuntimeCall("func_exit", << >>, Null)))]
  /\ Advance
  /\ UNCHANGED <<fn, total, index, counted, GEPMap, ConsMap, MInsMap, FCMPMap, arms, runVars>>

handleFcmp ==
  LET x == Ins(at)
      place == IF x \in DOMAIN FCMPMap THEN FCMPMap[x] ELSE x
  IN
  /\ Here("compares", {"fcmp"}) /\ Found(x)
  /\ Insert(place, RuntimeCall("check_branch", Operands(x), Null))
  /\ Advance
  /\ UNCHANGED <<fn, total, index, counted, GEPMap, ConsMap, MInsMap, FCMPMap, arms, runVars>>

(* The pointers of the new phi; a phi that takes itself gets none there.   *)
PhiArms(x) ==
  LET js == {j \in DOMAIN Args(x) : Args(x)[j] # x}
  IN  [b \in {Instr(x).from[j] : j \in js} |->
         handleOperand(Args(x)[CHOOSE j \in js : Instr(x).from[j] = b])]
Incomings(x) == {v \in Range(Args(x)) : v # x}

handleNewPhi ==
  LET phis == {x \in Instrs : Op(x) = "phi"} IN
  /\ stage = "newphi"
  /\ IF \A x \in phis : \A v \in Incomings(x) : handleOperand(v) # Missing
     THEN /\ stage' = "run"
          /\ arms' = [x \in DOMAIN arms \cup phis |->
                        IF x \in phis THEN PhiArms(x) ELSE arms[x]]
          /\ ptr' = [x \in DOMAIN arms' |-> Missing]
          /\ temp' = [p \in {Slot(n) : n \in 1 .. total} \cup {ArgPtr(n) : n \in 1 .. fn.args} |->
               LET cs == {v \in DOMAIN ConsMap : Op(v) = "const" /\ Slot(ConsMap[v]) = p}
               IN  CASE p[1] = "argptr" -> Arg(p[2])
                     [] cs # {} -> CHOOSE v \in cs : TRUE
                     [] OTHER -> None]
     ELSE stage' = "failed" /\ UNCHANGED <<arms, ptr, temp>>
  /\ at' = 0
  /\ UNCHANGED <<fn, total, index, counted, GEPMap, ConsMap, MInsMap, FCMPMap, code,
                 todo, env, clock, jumps, exits, result>>

(* Instructions that a loop has no handler for.  A call of a function that *)
(* LLVM knows is left alone.                                               *)
Handled == [instructions |-> Ops \ {"br", "ret", "cast", "conv", "fcmp", "known"},
            returns |-> {"ret"}, compares |-> {"fcmp"}]
NotHandled ==
  /\ stage \in DOMAIN Handled /\ ~Here(stage, Handled[stage])
  /\ Advance
  /\ UNCHANGED <<fn, total, index, counted, GEPMap, ConsMap, MInsMap, FCMPMap, arms, code, runVars>>

Pass ==
  \/ handleBranch \/ getTotalFPInst \/ createGEP \/ handlePhi \/ handleBinOp \/ handleFNeg
  \/ handleMathLibFunc \/ handleLoad \/ handleStore \/ handleCallInst \/ handleSelect
  \/ handleReturn \/ handleFcmp \/ handleNewPhi \/ NotHandled
  \/ MetadataNotFound("instructions", {"bin", "neg", "math", "call", "lib", "extern", "select"})
  \/ MetadataNotFound("returns", {"ret"})
  \/ MetadataNotFound("compares", {"fcmp"})

-----------------------------------------------------------------------------
(* The clone runs, and the program's values are drawn at the instructions  *)
(* that it passes.  at is the last of them.                                *)
Value(v) == IF v[1] = "ins" THEN env[v] ELSE v
Target(p) == IF p[1] = "chosen" THEN ptr[p[2]] ELSE p
Holds(p) ==
  CASE Target(p) \in DOMAIN temp -> temp[Target(p)]
    [] p[1] = "immediate" /\ Op(p[2]) = "const" -> p[2]
    [] OTHER -> None

Drawn == {"bin", "neg", "math", "call", "lib", "extern", "known", "load", "conv"}

Step ==
  LET x == Ins(at + 1) IN
  /\ stage = "run" /\ todo = << >>
  /\ at' = at + 1
  /\ stage' = IF Op(x) \in {"br", "ret"} THEN "leave" ELSE stage
  /\ \/ /\ Op(x) \in Drawn
        /\ clock' = clock + 1
        /\ env' = [env EXCEPT ![x] = <<"drawn", clock'>>]
        /\ UNCHANGED ptr
     \/ /\ Op(x) = "cast"
        /\ env' = [env EXCEPT ![x] = Value(Args(x)[1])]
        /\ UNCHANGED <<clock, ptr>>
     \/ /\ Op(x) = "select"
        /\ \E k \in DOMAIN Args(x) :
             /\ env' = [env EXCEPT ![x] = Value(Args(x)[k])]
             /\ ptr' = [ptr EXCEPT ![x] = Target(arms[x][k])]
        /\ UNCHANGED clock
     \/ /\ Op(x) \in {"fcmp", "store", "br", "ret"}
        /\ UNCHANGED <<clock, env, ptr>>
  /\ todo' = code[x]
  /\ UNCHANGED <<fn, total, index, counted, GEPMap, ConsMap, MInsMap, FCMPMap, arms, code,
                 temp, jumps, exits, result>>

(* The calls inserted at the last instruction, or at the block entered.    *)
Call ==
  LET c == Head(todo) IN
  /\ todo # << >>
  /\ todo' = Tail(todo)
  /\ temp' = CASE c.fun = "clear" -> [temp EXCEPT ![c.dest] = None]
               [] c.fun = "copy_phi" /\ Target(c.reads[1].ptr) # Null ->
                    [temp EXCEPT ![c.dest] = Holds(c.reads[1].ptr)]
               [] c.dest \in DOMAIN temp /\ c.fun \notin {"clear", "copy_phi"} ->
                    [temp EXCEPT ![c.dest] = env[Ins(at)]]
               [] OTHER -> temp
  /\ exits' = IF c.fun = "func_exit" THEN exits + 1 ELSE exits
  /\ result' = IF c.fun = "copy_return" /\ Target(c.reads[1].ptr) # Null
               THEN Holds(c.reads[1].ptr) ELSE result
  /\ UNCHANGED <<passVars, env, ptr, clock, jumps>>

(* The phis of a block take their values, and the new phis their pointers, *)
(* all at once.                                                            *)
PhisOf(b) == {x \in Instrs : Instr(x).block = b /\ Op(x) = "phi"}
Along(x, b) == Args(x)[CHOOSE j \in DOMAIN Args(x) : Instr(x).from[j] = b]

Jump(b) ==
  LET from == fn.text[at].block IN
  /\ stage = "leave" /\ todo = << >> /\ Op(Ins(at)) = "br" /\ stage' = "run"
  /\ b \in fn.next[from]
  /\ jumps < MaxJumps /\ jumps' = jumps + 1
  /\ env' = [x \in Instrs |-> IF x \in PhisOf(b) THEN Value(Along(x, from)) ELSE env[x]]
  /\ ptr' = [x \in DOMAIN ptr |->
        IF x \notin PhisOf(b) THEN ptr[x]
        ELSE IF from \in DOMAIN arms[x] THEN Target(arms[x][from]) ELSE Missing]
  /\ todo' = code[Entry(b)]
  /\ at' = Max({0} \cup {x[2] : x \in {y \in Instrs : Instr(y).block < b} \cup PhisOf(b)})
  /\ UNCHANGED <<fn, total, index, counted, GEPMap, ConsMap, MInsMap, FCMPMap, arms, code,
                 temp, clock, exits, result>>

Return ==
  /\ stage = "leave" /\ todo = << >> /\ Op(Ins(at)) = "ret"
  /\ stage' = "done"
  /\ UNCHANGED <<fn, at, total, index, counted, GEPMap, ConsMap, MInsMap, FCMPMap, arms, code, runVars>>

Next == Pass \/ Step \/ Call \/ (\E b \in Blocks : Jump(b)) \/ Return
Spec == Init /\ [][Next]_vars

-----------------------------------------------------------------------------
(* What is asked of a function.                                            *)
Used(x) == Range(Args(x)) \ {x}
IsCast(v) == Op(v) = "cast"

(* handleOperand looks through two casts.  What it finds comes before the  *)
(* use in the text too, unless the use is by a phi, a return or a          *)
(* comparison, which are handled last; casts nest no deeper; negations and *)
(* casts of constants are LLVM's to compute; and the result of a function  *)
(* that LLVM knows and mathFunc.txt does not list is not used.             *)
Shadowed(v) ==
  /\ Op(v) # "known"
  /\ IsCast(v) => LET u == Args(v)[1] IN
       IF IsCast(u) THEN LET w == Args(u)[1] IN w[1] = "ins" /\ Op(w) \notin {"cast", "conv", "known"}
       ELSE Op(u) \notin {"known", "undef", "const"}
Source(v) ==
  IF ~IsCast(v) THEN v
  ELSE IF IsCast(Args(v)[1]) THEN Args(Args(v)[1])[1] ELSE Args(v)[1]
InTextOrder ==
  \A x \in Instrs : \A v \in Used(x) :
    Op(x) \in {"phi", "ret", "fcmp", "cast"} \/ Source(v)[1] # "ins" \/ Before(Source(v), x)
Resolvable ==
  /\ InTextOrder
  /\ \A x \in Instrs : \A v \in Used(x) :
       IsCast(x) \/ (Shadowed(v) /\ (Op(x) = "neg" => Op(v) # "const"))

(* The values that a value may stand for: itself, and what it is chosen    *)
(* from or cast from, through any number of selects and casts.             *)
Through == {x \in Instrs : Op(x) \in {"select", "cast"}}
Chains(v) ==
  LET through == Through
  IN  {T \in SUBSET through :
         /\ v \in through => v \in T
         /\ \A x \in T : Range(Args(x)) \cap through \subseteq T}
StandsFor(v) ==
  LET chains == Chains(v)
  IN  {v} \cup {w \in UNION {Range(Args(x)) : x \in Through} :
                 \A T \in chains : \E x \in T : w \in Range(Args(x))}

(* No phi takes a phi of its block whose copy is made before its own, nor  *)
(* itself.                                                                 *)
CopiesApart ==
  \A x \in Instrs : Op(x) = "phi" =>
    \A v \in Range(Args(x)) :
      v # x /\ \A y \in StandsFor(v) : ~(y \in PhisOf(Instr(x).block) /\ Before(y, x))
CastsOfPhis == \E x \in Instrs : IsCast(x) /\ \E y \in StandsFor(x) : Op(y) = "phi"
Listed == \A x \in Instrs : Op(x) # "extern"
OneReturn == Cardinality(Returns) = 1 \/ (total = 0 /\ ~fn.slice)
Supported == Resolvable /\ CopiesApart /\ ~CastsOfPhis /\ Listed /\ OneReturn

(* Properties.                                                             *)
(* Every table and pointer has the form that the pass gives it.            *)
TypeOK ==
  /\ at \in 0 .. Len(fn.text) /\ total \in Nat /\ index \in Nat /\ clock \in Nat
  /\ stage \in {"branches", "count", "alloca", "instructions", "returns", "compares", "newphi",
                "failed", "run", "leave", "done"}
  /\ DOMAIN GEPMap \subseteq Instrs /\ DOMAIN MInsMap \subseteq Instrs
  /\ DOMAIN arms \subseteq DOMAIN MInsMap
  /\ \A x \in DOMAIN ptr : ptr[x][1] \in {"slot", "argptr", "null", "missing"}
  /\ exits \in Nat /\ jumps \in 0 .. MaxJumps

(* Every entry that createGEP hands out is in the array that createAlloca  *)
(* allocates: its size is what getTotalFPInst counted, in a walk of its    *)
(* own, with a list of its own of what needs an entry.                     *)
EntriesFit ==
  \A x \in DOMAIN code : \A c \in Range(code[x]) : c.dest[1] = "slot" => c.dest[2] <= total

(* The pass does not stop for want of metadata at a function in text order. *)
NothingMissing == stage = "failed" => ~Resolvable

(* Whenever the clone calls the runtime, each pointer that it passes leads *)
(* to the shadow of the value that the program's instruction had, on every *)
(* path through the function, also after values were overwritten by later  *)
(* iterations, chosen by selects and copied for phis.                      *)
RightShadows ==
  todo # << >> =>
    \A r \in Range(Head(todo).reads) :
      Value(r.val) \in {Undef, Holds(r.ptr)} \/ ~Supported

(* A clone that returns has left its frame exactly once, and, unless it is *)
(* a slice's, has given its caller the shadow of the value it returns.     *)
LeftOnce ==
  stage = "done" /\ Supported =>
    /\ exits = 1
    /\ ~fn.slice => \A v \in Range(Args(Ins(at))) : Value(v) \in {Undef, result}
=============================================================================
