--------------------------- MODULE PassMirrorInv ---------------------------
(***************************************************************************)
(* The inductive invariant behind PassMirror: what the pass has inserted   *)
(* after each of its loops, so that in the end every instruction reads in  *)
(* the clone what it pushes in the program; and that a clone, as long as   *)
(* it gets what was pushed, goes through the activations that its slice    *)
(* went through, in the same order.                                        *)
(***************************************************************************)
EXTENDS PassMirror

(* The bodies that the pass is made for: one start_slice and one end_slice *)
(* after it, both in the slice function and left out by no branch; calls   *)
(* of functions with clones are between them, and what comes after         *)
(* end_slice exchanges nothing.                                            *)
Instructions == [op : Ops, cond : Nat]
IsAt(b, i, op) == i \in DOMAIN b["S"] /\ b["S"][i].op = op
Bracketed(b, st, e) ==
  /\ IsAt(b, st, "start") /\ IsAt(b, e, "end") /\ st < e
  /\ \A i \in DOMAIN b["S"] :
       /\ b["S"][i].op = "start" => i = st
       /\ b["S"][i].op = "end" => i = e
       /\ b["S"][i].op \in {"call", "icall"} => st < i /\ i < e
       /\ b["S"][i].op = "br" => i + 1 # st /\ i + 1 # e
       /\ i > e => b["S"][i].op = "plain"
Supported(b) ==
  /\ b \in [Funcs -> Seq(Instructions)]
  /\ \E st, e \in DOMAIN b["S"] : Bracketed(b, st, e)
  /\ \A i \in DOMAIN b["F"] : b["F"][i].op \notin {"start", "end"}

-----------------------------------------------------------------------------
(* The tables of the pass after each loop.                                 *)
Stages == {"clone", "branches", "conditions", "calls", "icalls", "compares", "allocas",
           "instructions", "shadow_compares", "memory", "flags", "run"}
Early == {"clone", "branches", "conditions"}
Late == {"flags", "run"}

PushedOps ==
  (IF stage \in Early THEN {} ELSE {"arg", "br"})
  \cup (IF stage \in Early \cup {"calls"} THEN {} ELSE {"lib", "select"})
  \cup (IF stage \in Early \cup {"calls", "icalls"} THEN {} ELSE {"icall"})
  \cup (IF stage \in Early \cup {"calls", "icalls", "compares"} THEN {} ELSE {"fcmp"})
  \cup (IF stage \in Late THEN {"cast", "memset", "memcpy", "load", "store"} ELSE {})
ReadOps ==
  (IF stage = "clone" THEN {} ELSE {"arg"})
  \cup (IF stage \in {"clone", "branches"} THEN {} ELSE {"br"})
  \cup (IF stage \in Late \cup {"instructions", "shadow_compares", "memory"}
        THEN {"cast"} ELSE {})
  \cup (IF stage \in Late \cup {"shadow_compares", "memory"}
        THEN {"lib", "select", "icall", "memset", "memcpy", "load", "store"} ELSE {})
  \cup (IF stage \in Late \cup {"memory"} THEN {"fcmp"} ELSE {})

Exchanges(op) ==
  IF op \in {"arg", "lib", "cast"} THEN <<"val">>
  ELSE IF op \in {"br", "select"} THEN <<"cond">>
  ELSE IF op = "icall" THEN <<"func">>
  ELSE IF op = "memset" THEN <<"addr", "size">>
  ELSE IF op = "memcpy" THEN <<"to", "from", "size">>
  ELSE IF op = "load" THEN <<"addr", "val">>
  ELSE IF op = "store" THEN <<"addr">> ELSE << >>

(* The comparisons that a branch or a select takes to itself.              *)
Shared == ConditionsOf("br") \cup ConditionsOf("select")
Exchange(f, i) ==
  IF body[f][i].op # "fcmp" THEN Exchanges(body[f][i].op)
  ELSE IF <<f, i>> \in Shared THEN << >> ELSE <<"cond">>

Inserted(ops) ==
  [f \in Funcs |-> [i \in DOMAIN body[f] |->
     IF body[f][i].op \in ops THEN Exchange(f, i) ELSE << >>]]

Tables ==
  /\ stage \in Stages /\ Supported(body)
  /\ push = Inserted(PushedOps) /\ read = Inserted(ReadOps)
  /\ FCMPMapPush = IF stage \in Early THEN {}
                   ELSE IF stage = "calls" THEN ConditionsOf("br") ELSE Shared
  /\ FCMPMap = IF stage \in {"clone", "branches"} THEN {}
               ELSE IF stage \in Late \cup {"shadow_compares", "memory"} THEN Shared
               ELSE ConditionsOf("br")
  /\ untested = IF stage = "run" THEN {"S"} ELSE {}

(* Nothing runs before the pass has finished.                              *)
Idle ==
  /\ pstack = << >> /\ slice = 0 /\ sent = << >> /\ trail = << >> /\ task_queue = << >>
  /\ SliceFlag = FALSE /\ QIdx = 0 /\ p_queue_idx = NoBuf
  /\ \A w \in Workers : cstack[w] = << >> /\ got[w] = << >> /\ CQIdx[w] = 0 /\ task[w] = 0

-----------------------------------------------------------------------------
Slices == 1 .. slice
Bufs == 0 .. NumBufs - 1
StartAt == CHOOSE i \in DOMAIN body["S"] : body["S"][i].op = "start"
EndAt == CHOOSE i \in DOMAIN body["S"] : body["S"][i].op = "end"

Activations == [fn : Funcs, pos : Nat, flag : BOOLEAN, out : Seq(BOOLEAN)]
Frames == [fn : Funcs, pos : Nat]
Points == [at : Seq(Frames), n : Nat]
Gots == [fn : Funcs, pos : Nat, kind : Kinds, item : Items]

Types ==
  /\ pstack \in Seq(Activations)
  /\ slice \in 0 .. MaxSlices /\ SliceFlag \in BOOLEAN
  /\ QIdx \in 0 .. BufSize /\ CQIdx \in [Workers -> 0 .. BufSize]
  /\ p_queue_idx \in Bufs \cup {NoBuf} /\ CurIndex \in Bufs \cup {NoBuf}
  /\ empty_list \in Seq(Bufs)
  /\ task_queue \in Seq([task : Nat, buf : Bufs])
  /\ queue \in [Bufs -> [0 .. BufSize - 1 -> Items]]
  /\ cstack \in [Workers -> Seq(Frames)] /\ task \in [Workers -> 0 .. slice]
  /\ CBuf \in [Workers -> Bufs]
  /\ sent \in Seq(Seq(Items)) /\ Len(sent) = slice
  /\ trail \in Seq(Seq(Points)) /\ Len(trail) = slice
  /\ got \in [Workers -> Seq(Gots)]

(* Every buffer is in one place at most.                                   *)
Running(w) == cstack[w] # << >>
Owned ==
  /\ \A i, j \in 1 .. Len(empty_list) : empty_list[i] = empty_list[j] => i = j
  /\ \A i, j \in 1 .. Len(task_queue) : task_queue[i].buf = task_queue[j].buf => i = j
  /\ \A i \in 1 .. Len(empty_list) : empty_list[i] # p_queue_idx
  /\ \A i \in 1 .. Len(task_queue) : task_queue[i].buf # p_queue_idx
  /\ \A i \in 1 .. Len(empty_list), j \in 1 .. Len(task_queue) :
       empty_list[i] # task_queue[j].buf
  /\ \A w \in Workers : Running(w) =>
       /\ CBuf[w] # p_queue_idx
       /\ \A i \in 1 .. Len(empty_list) : empty_list[i] # CBuf[w]
       /\ \A i \in 1 .. Len(task_queue) : task_queue[i].buf # CBuf[w]
       /\ \A v \in Workers : Running(v) /\ CBuf[v] = CBuf[w] => v = w

(* A slice is under way from its entry to end_slice.                       *)
Filling == pstack # << >> /\ pstack[1].pos <= EndAt
Producing ==
  /\ pstack # << >> => slice > 0 /\ pstack[1].fn = "S" /\ pstack[1].pos > 0
  /\ \A j \in 2 .. Len(pstack) :
       /\ pstack[j].fn = "F" /\ pstack[j].flag /\ pstack[j].pos > 0
       /\ StartAt < pstack[1].pos /\ Filling
  /\ SliceFlag <=> Filling /\ StartAt < pstack[1].pos
  /\ Filling => p_queue_idx # NoBuf /\ CurIndex = p_queue_idx
  /\ ~Filling => QIdx = 0 /\ p_queue_idx = NoBuf

(* The buffer has what the slice has pushed.                               *)
Has(b, s) ==
  Len(sent[s]) <= BufSize /\ \A i \in 1 .. Len(sent[s]) : queue[b][i - 1] = sent[s][i]
Filled ==
  Filling =>
    /\ QIdx = Len(sent[slice]) /\ Has(p_queue_idx, slice)
    /\ trail[slice] # << >>
    /\ trail[slice][Len(trail[slice])] = Point(pstack, sent[slice])

(* How a slice went from one of its activations to the next.               *)
Unit(a) == body[Top(a).fn][Top(a).pos]
AtEnd(a) == InFunction(a) /\ Instr(a).op = "end"
After(a, o) ==
  IF Instr(a).op \in {"call", "icall"} THEN Append(Following(a, o), Frame("F"))
  ELSE Following(a, o)
Exchanged(s, a, n, o) ==
  LET p == push[Top(a).fn][Top(a).pos]
  IN  \A k \in 1 .. Len(p) : sent[s][n + k] = Item(s, Top(a).fn, Top(a).pos, p[k], o)
Leads(s, x, y) ==
  IF InFunction(x.at)
  THEN /\ ~AtEnd(x.at)
       /\ y.n = x.n + Len(push[Top(x.at).fn][Top(x.at).pos]) /\ y.n <= Len(sent[s])
       /\ \E o \in BOOLEAN : Exchanged(s, x.at, x.n, o) /\ y.at = After(x.at, o)
  ELSE y.n = x.n /\ y.at = Pop(x.at)

(* The places of a slice up to end_slice.                                  *)
InSlice(x, s) ==
  /\ x.at # << >> /\ x.at[1].fn = "S" /\ 0 < x.at[1].pos /\ x.at[1].pos <= EndAt
  /\ \A j \in 2 .. Len(x.at) : x.at[j].fn = "F" /\ x.at[j].pos > 0
  /\ x.n <= Len(sent[s])

Given(s) == s < slice \/ (s = slice /\ ~Filling)
RecordedAt(s) ==
  /\ trail[s] # << >> /\ trail[s][1] = [at |-> <<Frame("S")>>, n |-> 0]
  /\ \A k \in 1 .. Len(trail[s]) : InSlice(trail[s][k], s)
  /\ \A k \in 1 .. Len(trail[s]) - 1 : Leads(s, trail[s][k], trail[s][k + 1])
  /\ Given(s) => LET x == trail[s][Len(trail[s])]
                 IN  AtEnd(x.at) /\ x.n = Len(sent[s])
Recorded == \A s \in Slices : RecordedAt(s)

Queued ==
  \A j \in 1 .. Len(task_queue) :
    LET t == task_queue[j]
    IN  t.task \in Slices /\ Given(t.task) /\ Has(t.buf, t.task)

(* A clone is where its slice was when it had pushed what the clone has    *)
(* read, or past end_slice.                                                *)
Beyond(a) == Len(a) = 1 /\ a[1].fn = "S" /\ a[1].pos > EndAt
Replays(w) ==
  LET s == task[w] IN
  /\ s \in Slices /\ Given(s)
  /\ \/ Beyond(cstack[w]) /\ CQIdx[w] = 0
     \/ /\ Has(CBuf[w], s) /\ CQIdx[w] = Len(got[w])
        /\ \E k \in 1 .. Len(trail[s]) :
             trail[s][k].at = cstack[w] /\ trail[s][k].n = Len(got[w])

Replaying ==
  \A w \in Workers :
    /\ Running(w) => Replays(w)
    /\ ~Running(w) => CQIdx[w] = 0
    /\ got[w] # << >> => task[w] \in Slices
    /\ task[w] \in Slices => Len(got[w]) <= Len(sent[task[w]])
    /\ \A i \in 1 .. Len(got[w]) :
         /\ got[w][i].item = sent[task[w]][i]
         /\ Meant(got[w][i]) /\ got[w][i].item.slice = task[w]

RunInv == Types /\ Owned /\ Producing /\ Filled /\ Recorded /\ Queued /\ Replaying
IInv == Tables /\ (stage # "run" => Idle) /\ RunInv
=============================================================================
