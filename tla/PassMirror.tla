----------------------------- MODULE PassMirror -----------------------------
(***************************************************************************)
(* What the pass makes of a slice.  Into the program's own functions it    *)
(* inserts pushes of the values that the analysis cannot recompute: branch *)
(* conditions, outcomes of comparisons, addresses, loaded and converted    *)
(* values.  Of every function it makes a clone that has only the shadow    *)
(* computation left and reads those values back.  Nothing in a buffer says *)
(* what a value is, so the clone must read exactly what was pushed, in the *)
(* same order, although the two sides are instrumented by different code   *)
(* in a different order.                                                   *)
(*                                                                         *)
(* First the pass runs over the functions, one loop of runOnModule after   *)
(* the other, then the program and the workers run the result.  Buffers    *)
(* are large enough for a slice here (SliceQueues has the switching).      *)
(*                                                                         *)
(* Source: src/llvm-pass/FPSan/FPSanitizer.cpp.                            *)
(***************************************************************************)
EXTENDS Integers, Sequences, FiniteSets

CONSTANTS
  Bodies,    (* the pairs of functions considered: a slice "S", a callee "F" *)
  Workers,   (* the worker threads                                         *)
  NumBufs,   (* how many buffers there are                                 *)
  BufSize,   (* bound: the values of a slice                               *)
  MaxSlices  (* bound: how often the slice is executed                     *)

ASSUME SizesAssumption ==
  /\ NumBufs \in Nat \ {0} /\ BufSize \in Nat /\ MaxSlices \in Nat

Funcs == {"S", "F"}
NoBuf == -1

(* Instructions are of the kinds that one side or the other tells apart.   *)
(* cond is the comparison that a branch or select uses, by its position,   *)
(* or 0 if its condition is computed from integers.  "lib" is a call of a  *)
(* declared function listed in libFunc.txt, "plain" what neither side has  *)
(* anything to exchange for: arithmetic, math functions, printf, integers. *)
Ops == {"arg", "start", "end", "br", "select", "fcmp", "lib", "call", "icall",
        "cast", "memset", "memcpy", "load", "store", "plain"}

VARIABLES
  body,          (* the two functions                                      *)
  stage,         (* the next loop of runOnModule                           *)
  push, read,    (* what is pushed and read at each instruction            *)
  FCMPMapPush,   (* the comparisons pushed by a branch or select           *)
  FCMPMap,       (* the comparisons whose outcome a branch or select reads *)
  untested,      (* the functions that push without testing the slice flag *)
  pstack,        (* the program's activations                              *)
  slice, SliceFlag, QIdx, p_queue_idx, CurIndex,
  empty_list, task_queue, queue,
  cstack,        (* the activations of each worker's clone                 *)
  task, CBuf, CQIdx,
  sent,          (* history: the values pushed in each slice               *)
  trail,         (* history: the activations that each slice went through  *)
  got            (* history: what each running clone wanted and what it got *)

passVars == <<body, stage, push, read, FCMPMapPush, FCMPMap, untested>>
runVars == <<pstack, slice, SliceFlag, QIdx, p_queue_idx, CurIndex, empty_list,
             task_queue, queue, cstack, task, CBuf, CQIdx, sent, trail, got>>
vars == <<passVars, runVars>>

Empty == [f \in Funcs |-> [i \in DOMAIN body[f] |-> << >>]]
Item(s, f, i, k, o) == [slice |-> s, fn |-> f, pos |-> i, kind |-> k, out |-> o]
Zero == Item(0, "S", 0, "none", FALSE)

Init ==
  /\ body \in Bodies /\ stage = "clone"
  /\ push = Empty /\ read = Empty
  /\ FCMPMapPush = {} /\ FCMPMap = {} /\ untested = {}
  /\ pstack = << >> /\ slice = 0 /\ SliceFlag = FALSE
  /\ QIdx = 0 /\ p_queue_idx = NoBuf /\ CurIndex = NoBuf
  /\ empty_list = [i \in 1 .. NumBufs |-> i - 1]
  /\ task_queue = << >>
  /\ queue = [b \in 0 .. NumBufs - 1 |-> [i \in 0 .. BufSize - 1 |-> Zero]]
  /\ cstack = [w \in Workers |-> << >>] /\ task = [w \in Workers |-> 0]
  /\ CBuf = [w \in Workers |-> 0] /\ CQIdx = [w \in Workers |-> 0]
  /\ sent = << >> /\ trail = << >> /\ got = [w \in Workers |-> << >>]

-----------------------------------------------------------------------------
(* The pass.  What the loops do to one function does not depend on the     *)
(* others, so each loop is one step for both functions.                    *)
Insert(table, kinds) ==
  [f \in Funcs |-> [i \in DOMAIN body[f] |->
     IF body[f][i].op \in DOMAIN kinds
     THEN table[f][i] \o kinds[body[f][i].op] ELSE table[f][i]]]

InsertCompares(table, elsewhere) ==
  [f \in Funcs |-> [i \in DOMAIN body[f] |->
     IF body[f][i].op = "fcmp" /\ <<f, i>> \notin elsewhere
     THEN Append(table[f][i], "cond") ELSE table[f][i]]]

ConditionsOf(op) ==
  UNION {{<<f, body[f][i].cond>> : i \in {j \in DOMAIN body[f] :
            body[f][j].op = op /\ body[f][j].cond # 0}} : f \in Funcs}

(* What either side exchanges for an instruction.  A load pushes address   *)
(* and value; the stored value is shadowed and only its address is needed. *)
ArgPush == <<"val">>
ArgRead == <<"val">>
BranchPush == <<"cond">>
BranchRead == <<"cond">>
LibPush == <<"val">>
LibRead == <<"val">>
SelectPush == <<"cond">>
SelectRead == <<"cond">>
ICallPush == <<"func">>
ICallRead == <<"func">>
CastPush == <<"val">>
CastRead == <<"val">>
MemsetPush == <<"addr", "size">>
MemsetRead == <<"addr", "size">>
MemCpyPush == <<"to", "from", "size">>
MemCpyRead == <<"to", "from", "size">>
LoadPush == <<"addr", "val">>
LoadRead == <<"addr", "val">>
StoreWithValue == <<"addr", "val">>
StorePush == <<"addr">>
StoreRead == <<"addr">>

(* cloneFunction and, for a slice, removeArgs: the clone of a slice reads  *)
(* its floating point arguments.                                           *)
CloneFunctions ==
  /\ stage = "clone" /\ stage' = "branches"
  /\ read' = Insert(read, [arg |-> ArgRead])
  /\ UNCHANGED <<body, push, FCMPMapPush, FCMPMap, untested, runVars>>

HandleBranches ==
  /\ stage = "branches" /\ stage' = "conditions"
  /\ read' = Insert(read, [br |-> BranchRead])
  /\ FCMPMap' = FCMPMap \cup ConditionsOf("br")
  /\ UNCHANGED <<body, push, FCMPMapPush, untested, runVars>>

PushConditions ==
  /\ stage = "conditions" /\ stage' = "calls"
  /\ push' = Insert(push, [arg |-> ArgPush, br |-> BranchPush])
  /\ FCMPMapPush' = FCMPMapPush \cup ConditionsOf("br")
  /\ UNCHANGED <<body, read, FCMPMap, untested, runVars>>

SelectsForgotten == {}
SelectPushes == ConditionsOf("select")

PushCalls ==
  /\ stage = "calls" /\ stage' = "icalls"
  /\ push' = Insert(push, [lib |-> LibPush, select |-> SelectPush])
  /\ FCMPMapPush' = FCMPMapPush \cup SelectPushes
  /\ UNCHANGED <<body, read, FCMPMap, untested, runVars>>

PushICalls ==
  /\ stage = "icalls" /\ stage' = "compares"
  /\ push' = Insert(push, [icall |-> ICallPush])
  /\ UNCHANGED <<body, read, FCMPMapPush, FCMPMap, untested, runVars>>

PushCompares ==
  /\ stage = "compares" /\ stage' = "allocas"
  /\ push' = InsertCompares(push, FCMPMapPush)
  /\ UNCHANGED <<body, read, FCMPMapPush, FCMPMap, untested, runVars>>

(* createMpfrAlloca, where conversions are read while their temporaries    *)
(* are allocated.                                                          *)
AllocateTemps ==
  /\ stage = "allocas" /\ stage' = "instructions"
  /\ read' = Insert(read, [cast |-> CastRead])
  /\ UNCHANGED <<body, push, FCMPMapPush, FCMPMap, untested, runVars>>

HandleInstructions ==
  /\ stage = "instructions" /\ stage' = "shadow_compares"
  /\ read' = Insert(read, [lib |-> LibRead, select |-> SelectRead,
                           icall |-> ICallRead, memset |-> MemsetRead,
                           memcpy |-> MemCpyRead, load |-> LoadRead,
                           store |-> StoreRead])
  /\ FCMPMap' = FCMPMap \cup ConditionsOf("select")
  /\ UNCHANGED <<body, push, FCMPMapPush, untested, runVars>>

HandleCompares ==
  /\ stage = "shadow_compares" /\ stage' = "memory"
  /\ read' = InsertCompares(read, FCMPMap)
  /\ UNCHANGED <<body, push, FCMPMapPush, FCMPMap, untested, runVars>>

PushMemory ==
  /\ stage = "memory" /\ stage' = "flags"
  /\ push' = Insert(push, [cast |-> CastPush, memset |-> MemsetPush,
                           memcpy |-> MemCpyPush, load |-> LoadPush,
                           store |-> StorePush])
  /\ UNCHANGED <<body, read, FCMPMapPush, FCMPMap, untested, runVars>>

(* The flag that a slice function has loaded at its entry is still 0: its  *)
(* pushes are made unconditional.                                          *)
RemoveFlagTests ==
  /\ stage = "flags" /\ stage' = "run"
  /\ untested' = {f \in Funcs : \E i \in DOMAIN body[f] : body[f][i].op = "end"}
  /\ UNCHANGED <<body, push, read, FCMPMapPush, FCMPMap, runVars>>

Pass ==
  \/ CloneFunctions \/ HandleBranches \/ PushConditions \/ PushCalls
  \/ PushICalls \/ PushCompares \/ AllocateTemps \/ HandleInstructions
  \/ HandleCompares \/ PushMemory \/ RemoveFlagTests

-----------------------------------------------------------------------------
(* The instrumented program.                                               *)
Top(stack) == stack[Len(stack)]
Pop(stack) == SubSeq(stack, 1, Len(stack) - 1)
InFunction(stack) == stack # << >> /\ Top(stack).pos <= Len(body[Top(stack).fn])
Instr(stack) == body[Top(stack).fn][Top(stack).pos]
Goto(stack, i) == [stack EXCEPT ![Len(stack)].pos = i]

(* A branch that is taken skips the next instruction.                      *)
Following(stack, o) ==
  Goto(stack, Top(stack).pos + IF Instr(stack).op = "br" /\ o THEN 2 ELSE 1)

(* fpsanx_get_buf_addr at the entry of a function.  SliceFlag is loaded    *)
(* there once.                                                             *)
GetBufAddr ==
  IF p_queue_idx = NoBuf
  THEN /\ empty_list # << >>
       /\ p_queue_idx' = Head(empty_list) /\ empty_list' = Tail(empty_list)
       /\ CurIndex' = Head(empty_list)
  ELSE CurIndex' = p_queue_idx /\ UNCHANGED <<p_queue_idx, empty_list>>

Activation(f) == [fn |-> f, pos |-> 1, flag |-> SliceFlag,
                  out |-> [i \in DOMAIN body[f] |-> FALSE]]

(* Where the program is, with the number of values pushed so far, is noted *)
(* up to end_slice.                                                        *)
Frame(f) == [fn |-> f, pos |-> 1]
Places(stack) == [j \in DOMAIN stack |-> [fn |-> stack[j].fn, pos |-> stack[j].pos]]
Point(stack, values) == [at |-> Places(stack), n |-> Len(values)]

EnterSlice ==
  /\ stage = "run" /\ pstack = << >> /\ slice < MaxSlices
  /\ GetBufAddr
  /\ pstack' = <<Activation("S")>> /\ slice' = slice + 1
  /\ sent' = Append(sent, << >>)
  /\ trail' = Append(trail, <<Point(pstack', << >>)>>)
  /\ UNCHANGED <<passVars, SliceFlag, QIdx, task_queue, queue, cstack, task,
                 CBuf, CQIdx, got>>

(* The outcomes that an instruction can have.                              *)
Outcomes ==
  CASE Instr(pstack).op = "fcmp" -> BOOLEAN
    [] Instr(pstack).op \in {"br", "select"} ->
         IF Instr(pstack).cond = 0 THEN BOOLEAN
         ELSE {Top(pstack).out[Instr(pstack).cond]}
    [] OTHER -> {FALSE}

(* What is pushed after end_slice belongs to no slice.                     *)
Ended == \E i \in DOMAIN body["S"] :
           body["S"][i].op = "end" /\ pstack # << >> /\ pstack[1].pos > i

Note ==
  trail' = IF Ended THEN trail
           ELSE [trail EXCEPT ![slice] = Append(@, Point(pstack', sent'[slice]))]

Values(o) ==
  IF Top(pstack).fn \in untested \/ Top(pstack).flag
  THEN LET f == Top(pstack).fn
           i == Top(pstack).pos
       IN [k \in 1 .. Len(push[f][i]) |-> Item(slice, f, i, push[f][i][k], o)]
  ELSE << >>

(* The pushes of an instruction go to the buffer in CurIndex.              *)
Push(items) ==
  /\ QIdx + Len(items) <= BufSize
  /\ queue' = IF items = << >> THEN queue
              ELSE [queue EXCEPT ![CurIndex] = [i \in DOMAIN @ |->
                      IF i \in QIdx .. QIdx + Len(items) - 1
                      THEN items[i - QIdx + 1] ELSE @[i]]]
  /\ QIdx' = QIdx + Len(items)
  /\ sent' = IF Ended THEN sent ELSE [sent EXCEPT ![slice] = @ \o items]

Step(o) ==
  /\ InFunction(pstack) /\ Instr(pstack).op \notin {"start", "end", "call", "icall"}
  /\ o \in Outcomes
  /\ Push(Values(o))
  /\ pstack' = [Following(pstack, o) EXCEPT ![Len(pstack)].out[Top(pstack).pos] = o]
  /\ Note
  /\ UNCHANGED <<passVars, slice, SliceFlag, p_queue_idx, CurIndex, empty_list,
                 task_queue, cstack, task, CBuf, CQIdx, got>>

(* A call of a function that has a clone; an indirect one pushes the       *)
(* function's address first.                                               *)
Call ==
  /\ InFunction(pstack) /\ Instr(pstack).op \in {"call", "icall"}
  /\ Push(Values(FALSE))
  /\ GetBufAddr
  /\ pstack' = Append(Following(pstack, FALSE), Activation("F"))
  /\ Note
  /\ UNCHANGED <<passVars, slice, SliceFlag, task_queue, cstack, task, CBuf,
                 CQIdx, got>>

Return ==
  /\ pstack # << >> /\ ~InFunction(pstack)
  /\ pstack' = Pop(pstack)
  /\ UNCHANGED sent /\ Note
  /\ UNCHANGED <<passVars, slice, SliceFlag, QIdx, p_queue_idx, CurIndex,
                 empty_list, task_queue, queue, cstack, task, CBuf, CQIdx, got>>

StartSlice ==
  /\ InFunction(pstack) /\ Instr(pstack).op = "start"
  /\ SliceFlag' = TRUE
  /\ pstack' = Following(pstack, FALSE)
  /\ UNCHANGED sent /\ Note
  /\ UNCHANGED <<passVars, slice, QIdx, p_queue_idx, CurIndex, empty_list,
                 task_queue, queue, cstack, task, CBuf, CQIdx, got>>

KeepBuffer == QIdx' = 0 /\ UNCHANGED p_queue_idx
ResetProducer == QIdx' = 0 /\ p_queue_idx' = NoBuf

HandOverLate == task_queue' = Append(task_queue, [task |-> slice, buf |-> NoBuf])
HandOver == task_queue' = Append(task_queue, [task |-> slice, buf |-> p_queue_idx])

EndSlice ==
  /\ InFunction(pstack) /\ Instr(pstack).op = "end"
  /\ SliceFlag' = FALSE
  /\ HandOver /\ ResetProducer
  /\ pstack' = Following(pstack, FALSE)
  /\ UNCHANGED <<passVars, slice, CurIndex, empty_list, queue, cstack, task,
                 CBuf, CQIdx, sent, trail, got>>

Producer == EnterSlice \/ (\E o \in BOOLEAN : Step(o)) \/ Call \/ Return
            \/ StartSlice \/ EndSlice

-----------------------------------------------------------------------------
(* The clones.                                                             *)
Steal(w) ==
  /\ cstack[w] = << >> /\ task_queue # << >>
  /\ cstack' = [cstack EXCEPT ![w] = <<Frame("S")>>]
  /\ task' = [task EXCEPT ![w] = Head(task_queue).task]
  /\ CBuf' = [CBuf EXCEPT ![w] = Head(task_queue).buf]
  /\ task_queue' = Tail(task_queue)
  /\ got' = [got EXCEPT ![w] = << >>]
  /\ UNCHANGED <<passVars, pstack, slice, SliceFlag, QIdx, p_queue_idx, CurIndex,
                 empty_list, queue, CQIdx, sent, trail>>

(* The values that an instruction of the clone reads: what it takes each   *)
(* for, and what is in the buffer.                                         *)
Wanted(w) == read[Top(cstack[w]).fn][Top(cstack[w]).pos]
Got(w) == [k \in 1 .. Len(Wanted(w)) |->
             [fn |-> Top(cstack[w]).fn, pos |-> Top(cstack[w]).pos,
              kind |-> Wanted(w)[k], item |-> queue[CBuf[w]][CQIdx[w] + k - 1]]]

(* After end_slice nothing that the clone reads is used.                   *)
Past(w) == \E i \in DOMAIN body["S"] :
             body["S"][i].op = "end" /\ cstack[w] # << >> /\ cstack[w][1].pos > i

(* A clone is followed as long as it gets what was pushed for it.          *)
Meant(g) == g.item.fn = g.fn /\ g.item.pos = g.pos /\ g.item.kind = g.kind
Sane(w) == \A i \in 1 .. Len(got[w]) : Meant(got[w][i]) /\ got[w][i].item.slice = task[w]
CanRun(w) == InFunction(cstack[w]) /\ Sane(w)

ReadFromBuf(w) ==
  /\ CQIdx[w] + Len(Wanted(w)) <= BufSize
  /\ CQIdx' = [CQIdx EXCEPT ![w] = @ + Len(Wanted(w))]
  /\ got' = IF Past(w) THEN got ELSE [got EXCEPT ![w] = @ \o Got(w)]

(* A branch of the clone goes where the condition it reads says.           *)
Taken(w) == Instr(cstack[w]).op = "br" /\ Got(w)[1].item.out

CloneStep(w) ==
  /\ CanRun(w) /\ Instr(cstack[w]).op \notin {"end", "call", "icall"}
  /\ ReadFromBuf(w)
  /\ cstack' = [cstack EXCEPT ![w] = Following(@, Taken(w))]
  /\ UNCHANGED <<passVars, pstack, slice, SliceFlag, QIdx, p_queue_idx, CurIndex,
                 empty_list, task_queue, queue, task, CBuf, sent, trail>>

CloneCall(w) ==
  /\ CanRun(w) /\ Instr(cstack[w]).op \in {"call", "icall"}
  /\ ReadFromBuf(w)
  /\ cstack' = [cstack EXCEPT ![w] = Append(Following(@, FALSE), Frame("F"))]
  /\ UNCHANGED <<passVars, pstack, slice, SliceFlag, QIdx, p_queue_idx, CurIndex,
                 empty_list, task_queue, queue, task, CBuf, sent, trail>>

ResetCursor(w) == CQIdx' = [CQIdx EXCEPT ![w] = 0]

CloneEnd(w) ==
  /\ CanRun(w) /\ Instr(cstack[w]).op = "end"
  /\ ResetCursor(w)
  /\ cstack' = [cstack EXCEPT ![w] = Following(@, FALSE)]
  /\ UNCHANGED <<passVars, pstack, slice, SliceFlag, QIdx, p_queue_idx, CurIndex,
                 empty_list, task_queue, queue, task, CBuf, sent, trail, got>>

(* The worker gives the buffer back when the slice's clone has returned.   *)
CloneReturn(w) ==
  /\ cstack[w] # << >> /\ ~InFunction(cstack[w])
  /\ cstack' = [cstack EXCEPT ![w] = Pop(@)]
  /\ empty_list' = IF Len(cstack[w]) = 1 THEN Append(empty_list, CBuf[w])
                   ELSE empty_list
  /\ UNCHANGED <<passVars, pstack, slice, SliceFlag, QIdx, p_queue_idx, CurIndex,
                 task_queue, queue, task, CBuf, CQIdx, sent, trail,
                 got>>

Clone(w) == Steal(w) \/ CloneStep(w) \/ CloneCall(w) \/ CloneEnd(w) \/ CloneReturn(w)

(* All slices of the bounded execution have been shadowed.                 *)
Done ==
  /\ slice = MaxSlices /\ pstack = << >> /\ task_queue = << >>
  /\ \A w \in Workers : cstack[w] = << >>
  /\ UNCHANGED vars

Next == Pass \/ Producer \/ (\E w \in Workers : Clone(w)) \/ Done

Spec == Init /\ [][Next]_vars

-----------------------------------------------------------------------------
Kinds == {"none", "val", "cond", "func", "addr", "size", "to", "from"}
Items == [slice : 0 .. MaxSlices, fn : Funcs, pos : Nat, kind : Kinds, out : BOOLEAN]
TypeOK ==
  /\ DOMAIN body = Funcs
  /\ \A f \in Funcs : \A i \in DOMAIN body[f] :
       push[f][i] \in Seq(Kinds) /\ read[f][i] \in Seq(Kinds)
  /\ slice \in 0 .. MaxSlices /\ SliceFlag \in BOOLEAN
  /\ QIdx \in 0 .. BufSize /\ CQIdx \in [Workers -> 0 .. BufSize]
  /\ p_queue_idx \in NoBuf .. NumBufs - 1 /\ CurIndex \in NoBuf .. NumBufs - 1
  /\ \A i \in 1 .. Len(task_queue) : task_queue[i].buf \in 0 .. NumBufs - 1
  /\ queue \in [0 .. NumBufs - 1 -> [0 .. BufSize - 1 -> Items]]
  /\ \A w \in Workers : \A j \in 1 .. Len(cstack[w]) : cstack[w][j].fn \in Funcs

(* A clone takes every value for what it was pushed for, reads them in the *)
(* order in which its slice pushed them, and skips none.                   *)
Mirrored ==
  \A w \in Workers :
    /\ Sane(w)
    /\ Len(got[w]) <= IF task[w] = 0 THEN 0 ELSE Len(sent[task[w]])
    /\ \A i \in 1 .. Len(got[w]) : got[w][i].item = sent[task[w]][i]

(* When the clone of a slice reaches end_slice, it has read everything     *)
(* that the slice has pushed.                                              *)
ReadsAll ==
  \A w \in Workers :
    InFunction(cstack[w]) /\ Instr(cstack[w]).op = "end" =>
      Len(got[w]) = Len(sent[task[w]])

(* The program never writes to a buffer it has handed over: one that waits *)
(* in a queue or that a clone reads.                                       *)
NotOurs(b) ==
  \/ \E i \in 1 .. Len(task_queue) : task_queue[i].buf = b
  \/ \E i \in 1 .. Len(empty_list) : empty_list[i] = b
  \/ \E w \in Workers : cstack[w] # << >> /\ CBuf[w] = b
OwnBufferOnly ==
  [][\A b \in 0 .. NumBufs - 1 : NotOurs(b) => queue'[b] = queue[b]]_vars
=============================================================================
