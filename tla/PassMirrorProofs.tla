-------------------------- MODULE PassMirrorProofs -------------------------
(***************************************************************************)
(* Proofs about PassMirror.  The first part is about the pass: what its    *)
(* tables hold after each of its loops, and that in the end every          *)
(* instruction of a clone reads what the same instruction of the program   *)
(* pushes.  The second is about the execution: that each step of the       *)
(* program and of the workers keeps the invariant, and what follows from   *)
(* it, for all bodies with one bracketed slice, all numbers of workers and *)
(* buffers and all bounds.                                                 *)
(***************************************************************************)
EXTENDS PassMirrorInv, SequenceTheorems, TLAPS

LEMMA Sizes == NumBufs \in Nat \ {0} /\ BufSize \in Nat /\ MaxSlices \in Nat
BY SizesAssumption

-----------------------------------------------------------------------------
(* The pass.                                                               *)
LEMMA ExchangesType == ASSUME NEW op PROVE Exchanges(op) \in Seq(Kinds)
<1>1. /\ << >> \in Seq(Kinds) /\ <<"val">> \in Seq(Kinds) /\ <<"cond">> \in Seq(Kinds)
      /\ <<"func">> \in Seq(Kinds) /\ <<"addr">> \in Seq(Kinds)
  BY DEF Kinds
<1>2. <<"addr", "size">> \in Seq(Kinds) /\ <<"addr", "val">> \in Seq(Kinds)
  BY DEF Kinds
<1>3. <<"to", "from", "size">> \in Seq(Kinds)
  BY DEF Kinds
<1> QED
  BY <1>1, <1>2, <1>3 DEF Exchanges

LEMMA ExchangeType ==
  ASSUME NEW f, NEW i PROVE Exchange(f, i) \in Seq(Kinds)
BY ExchangesType DEF Exchange, Kinds

(* A loop adds to what is still empty for its instructions.                *)
LEMMA Nothing == \A s \in Seq(Kinds) : << >> \o s = s
OBVIOUS

LEMMA InsertAdds ==
  ASSUME NEW ops, NEW more, NEW kinds, NEW table, table = Inserted(ops),
         DOMAIN kinds = more, ops \cap more = {},
         \A op \in DOMAIN kinds : op # "fcmp" /\ kinds[op] = Exchanges(op)
  PROVE  Insert(table, kinds) = Inserted(ops \cup more)
<1>1. ASSUME NEW f \in Funcs, NEW i \in DOMAIN body[f]
      PROVE  Insert(table, kinds)[f][i] = Inserted(ops \cup more)[f][i]
  <2>1. table[f][i] = IF body[f][i].op \in ops THEN Exchange(f, i) ELSE << >>
    BY DEF Inserted
  <2>2. CASE body[f][i].op \in DOMAIN kinds
    <3>1. table[f][i] = << >> /\ kinds[body[f][i].op] = Exchange(f, i)
      BY <2>1, <2>2 DEF Exchange
    <3>2. Insert(table, kinds)[f][i] = << >> \o Exchange(f, i)
      BY <2>2, <3>1 DEF Insert
    <3> QED
      BY <2>2, <3>2, ExchangeType, Nothing DEF Inserted
  <2>3. CASE body[f][i].op \notin DOMAIN kinds
    BY <2>1, <2>3 DEF Insert, Inserted
  <2> QED
    BY <2>2, <2>3
<1> QED
  BY <1>1 DEF Insert, Inserted

LEMMA InsertComparesAdds ==
  ASSUME NEW ops, NEW table, table = Inserted(ops), "fcmp" \notin ops
  PROVE  InsertCompares(table, Shared) = Inserted(ops \cup {"fcmp"})
<1>1. ASSUME NEW f \in Funcs, NEW i \in DOMAIN body[f]
      PROVE  InsertCompares(table, Shared)[f][i] = Inserted(ops \cup {"fcmp"})[f][i]
  <2>1. table[f][i] = IF body[f][i].op \in ops THEN Exchange(f, i) ELSE << >>
    BY DEF Inserted
  <2>2. CASE body[f][i].op = "fcmp"
    <3>1. table[f][i] = << >>
      BY <2>1, <2>2
    <3>2. Append(<< >>, "cond") = <<"cond">>
      OBVIOUS
    <3>3. Inserted(ops \cup {"fcmp"})[f][i] = IF <<f, i>> \in Shared THEN << >> ELSE <<"cond">>
      BY <2>2 DEF Inserted, Exchange
    <3>4. InsertCompares(table, Shared)[f][i] =
            IF <<f, i>> \notin Shared THEN Append(table[f][i], "cond") ELSE table[f][i]
      BY <2>2 DEF InsertCompares
    <3> QED
      BY <3>1, <3>2, <3>3, <3>4
  <2>3. CASE body[f][i].op # "fcmp"
    BY <2>1, <2>3 DEF InsertCompares, Inserted
  <2> QED
    BY <2>2, <2>3
<1> QED
  BY <1>1 DEF InsertCompares, Inserted

(* A step of the pass: what it inserts, and which comparisons it notes.    *)
LEMMA TablesNow ==
  ASSUME Tables, body' = body, NEW p, NEW r,
         p = PushedOps', r = ReadOps', push' = Inserted(p), read' = Inserted(r),
         stage' \in Stages \ {"run"}, untested' = {},
         FCMPMapPush' = IF stage' \in Early THEN {}
                        ELSE IF stage' = "calls" THEN ConditionsOf("br") ELSE Shared,
         FCMPMap' = IF stage' \in {"clone", "branches"} THEN {}
                    ELSE IF stage' \in Late \cup {"shadow_compares", "memory"} THEN Shared
                    ELSE ConditionsOf("br")
  PROVE  Tables'
<1>1. Shared' = Shared /\ ConditionsOf("br")' = ConditionsOf("br")
  BY DEF Shared, ConditionsOf
<1>2. \A f, i : Exchange(f, i)' = Exchange(f, i)
  BY <1>1 DEF Exchange
<1>3. Inserted(PushedOps)' = Inserted(p) /\ Inserted(ReadOps)' = Inserted(r)
  BY <1>1, <1>2 DEF Inserted
<1> QED
  BY <1>1, <1>3 DEF Tables

LEMMA CloneFunctionsKeeps ==
  ASSUME Tables, CloneFunctions PROVE Tables'
<1> DEFINE kinds == [arg |-> ArgRead]
<1>1. /\ read' = Insert(read, kinds) /\ stage = "clone" /\ stage' = "branches"
      /\ UNCHANGED <<body, push, FCMPMapPush, FCMPMap, untested>>
  BY DEF CloneFunctions
<1>2. /\ DOMAIN kinds = {"arg"}
      /\ \A op \in {"arg"} :
           op # "fcmp" /\ kinds[op] = Exchanges(op)
  BY DEF ArgRead, Exchanges
<1>3. read' = Inserted({} \cup {"arg"})
  <2>1. read = Inserted({})
    BY <1>1 DEF Tables, ReadOps, Early, Late
  <2>2. {} \cap {"arg"} = {}
    OBVIOUS
  <2> HIDE DEF kinds
  <2> QED
    BY <1>1, <1>2, <2>1, <2>2, InsertAdds
<1>4. push' = Inserted({})
  BY <1>1 DEF Tables, PushedOps, Early, Late
<1>5. /\ {} = PushedOps'
      /\ {} \cup {"arg"} = ReadOps'
  BY <1>1 DEF PushedOps, ReadOps, Early, Late
<1> QED
  BY <1>1, <1>3, <1>4, <1>5, TablesNow DEF Tables, Stages, Early, Late, Shared

LEMMA HandleBranchesKeeps ==
  ASSUME Tables, HandleBranches PROVE Tables'
<1> DEFINE kinds == [br |-> BranchRead]
<1>1. /\ read' = Insert(read, kinds) /\ stage = "branches" /\ stage' = "conditions"
      /\ UNCHANGED <<body, push, FCMPMapPush, untested>>
      /\ FCMPMap' = FCMPMap \cup ConditionsOf("br")
  BY DEF HandleBranches
<1>2. /\ DOMAIN kinds = {"br"}
      /\ \A op \in {"br"} :
           op # "fcmp" /\ kinds[op] = Exchanges(op)
  BY DEF BranchRead, Exchanges
<1>3. read' = Inserted({"arg"} \cup {"br"})
  <2>1. read = Inserted({"arg"})
    BY <1>1 DEF Tables, ReadOps, Early, Late
  <2>2. {"arg"} \cap {"br"} = {}
    OBVIOUS
  <2> HIDE DEF kinds
  <2> QED
    BY <1>1, <1>2, <2>1, <2>2, InsertAdds
<1>4. push' = Inserted({})
  BY <1>1 DEF Tables, PushedOps, Early, Late
<1>5. /\ {} = PushedOps'
      /\ {"arg"} \cup {"br"} = ReadOps'
  BY <1>1 DEF PushedOps, ReadOps, Early, Late
<1> QED
  BY <1>1, <1>3, <1>4, <1>5, TablesNow DEF Tables, Stages, Early, Late, Shared

LEMMA PushConditionsKeeps ==
  ASSUME Tables, PushConditions PROVE Tables'
<1> DEFINE kinds == [arg |-> ArgPush, br |-> BranchPush]
<1>1. /\ push' = Insert(push, kinds) /\ stage = "conditions" /\ stage' = "calls"
      /\ UNCHANGED <<body, read, FCMPMap, untested>>
      /\ FCMPMapPush' = FCMPMapPush \cup ConditionsOf("br")
  BY DEF PushConditions
<1>2. /\ DOMAIN kinds = {"arg", "br"}
      /\ \A op \in {"arg", "br"} :
           op # "fcmp" /\ kinds[op] = Exchanges(op)
  BY DEF ArgPush, BranchPush, Exchanges
<1>3. push' = Inserted({} \cup {"arg", "br"})
  <2>1. push = Inserted({})
    BY <1>1 DEF Tables, PushedOps, Early, Late
  <2>2. {} \cap {"arg", "br"} = {}
    OBVIOUS
  <2> HIDE DEF kinds
  <2> QED
    BY <1>1, <1>2, <2>1, <2>2, InsertAdds
<1>4. read' = Inserted({"arg", "br"})
  BY <1>1 DEF Tables, ReadOps, Early, Late
<1>5. /\ {"arg", "br"} = ReadOps'
      /\ {} \cup {"arg", "br"} = PushedOps'
  BY <1>1 DEF PushedOps, ReadOps, Early, Late
<1> QED
  BY <1>1, <1>3, <1>4, <1>5, TablesNow DEF Tables, Stages, Early, Late, Shared

LEMMA PushCallsKeeps ==
  ASSUME Tables, PushCalls PROVE Tables'
<1> DEFINE kinds == [lib |-> LibPush, select |-> SelectPush]
<1>1. /\ push' = Insert(push, kinds) /\ stage = "calls" /\ stage' = "icalls"
      /\ UNCHANGED <<body, read, FCMPMap, untested>>
      /\ FCMPMapPush' = FCMPMapPush \cup ConditionsOf("select")
  BY DEF PushCalls, SelectPushes
<1>2. /\ DOMAIN kinds = {"lib", "select"}
      /\ \A op \in {"lib", "select"} :
           op # "fcmp" /\ kinds[op] = Exchanges(op)
  BY DEF LibPush, SelectPush, Exchanges
<1>3. push' = Inserted({"arg", "br"} \cup {"lib", "select"})
  <2>1. push = Inserted({"arg", "br"})
    BY <1>1 DEF Tables, PushedOps, Early, Late
  <2>2. {"arg", "br"} \cap {"lib", "select"} = {}
    OBVIOUS
  <2> HIDE DEF kinds
  <2> QED
    BY <1>1, <1>2, <2>1, <2>2, InsertAdds
<1>4. read' = Inserted({"arg", "br"})
  BY <1>1 DEF Tables, ReadOps, Early, Late
<1>5. /\ {"arg", "br"} = ReadOps'
      /\ {"arg", "br"} \cup {"lib", "select"} = PushedOps'
  BY <1>1 DEF PushedOps, ReadOps, Early, Late
<1> QED
  BY <1>1, <1>3, <1>4, <1>5, TablesNow DEF Tables, Stages, Early, Late, Shared

LEMMA PushICallsKeeps ==
  ASSUME Tables, PushICalls PROVE Tables'
<1> DEFINE kinds == [icall |-> ICallPush]
<1>1. /\ push' = Insert(push, kinds) /\ stage = "icalls" /\ stage' = "compares"
      /\ UNCHANGED <<body, read, FCMPMapPush, FCMPMap, untested>>
  BY DEF PushICalls
<1>2. /\ DOMAIN kinds = {"icall"}
      /\ \A op \in {"icall"} :
           op # "fcmp" /\ kinds[op] = Exchanges(op)
  BY DEF ICallPush, Exchanges
<1>3. push' = Inserted({"arg", "br", "lib", "select"} \cup {"icall"})
  <2>1. push = Inserted({"arg", "br", "lib", "select"})
    BY <1>1 DEF Tables, PushedOps, Early, Late
  <2>2. {"arg", "br", "lib", "select"} \cap {"icall"} = {}
    OBVIOUS
  <2> HIDE DEF kinds
  <2> QED
    BY <1>1, <1>2, <2>1, <2>2, InsertAdds
<1>4. read' = Inserted({"arg", "br"})
  BY <1>1 DEF Tables, ReadOps, Early, Late
<1>5. /\ {"arg", "br"} = ReadOps'
      /\ {"arg", "br", "lib", "select"} \cup {"icall"} = PushedOps'
  BY <1>1 DEF PushedOps, ReadOps, Early, Late
<1> QED
  BY <1>1, <1>3, <1>4, <1>5, TablesNow DEF Tables, Stages, Early, Late, Shared

LEMMA PushComparesKeeps ==
  ASSUME Tables, PushCompares PROVE Tables'
<1>1. /\ push' = InsertCompares(push, FCMPMapPush) /\ stage = "compares" /\ stage' = "allocas"
      /\ UNCHANGED <<body, read, FCMPMapPush, FCMPMap, untested>>
  BY DEF PushCompares
<1>2. FCMPMapPush = Shared
  BY <1>1 DEF Tables, Early, Late
<1>3. push' = Inserted({"arg", "br", "lib", "select", "icall"} \cup {"fcmp"})
  <2>1. push = Inserted({"arg", "br", "lib", "select", "icall"})
    BY <1>1 DEF Tables, PushedOps, Early, Late
  <2> QED
    BY <1>1, <1>2, <2>1, InsertComparesAdds
<1>4. read' = Inserted({"arg", "br"})
  BY <1>1 DEF Tables, ReadOps, Early, Late
<1>5. /\ {"arg", "br"} = ReadOps'
      /\ {"arg", "br", "lib", "select", "icall"} \cup {"fcmp"} = PushedOps'
  BY <1>1 DEF PushedOps, ReadOps, Early, Late
<1> QED
  BY <1>1, <1>3, <1>4, <1>5, TablesNow DEF Tables, Stages, Early, Late, Shared

LEMMA AllocateTempsKeeps ==
  ASSUME Tables, AllocateTemps PROVE Tables'
<1> DEFINE kinds == [cast |-> CastRead]
<1>1. /\ read' = Insert(read, kinds) /\ stage = "allocas" /\ stage' = "instructions"
      /\ UNCHANGED <<body, push, FCMPMapPush, FCMPMap, untested>>
  BY DEF AllocateTemps
<1>2. /\ DOMAIN kinds = {"cast"}
      /\ \A op \in {"cast"} :
           op # "fcmp" /\ kinds[op] = Exchanges(op)
  BY DEF CastRead, Exchanges
<1>3. read' = Inserted({"arg", "br"} \cup {"cast"})
  <2>1. read = Inserted({"arg", "br"})
    BY <1>1 DEF Tables, ReadOps, Early, Late
  <2>2. {"arg", "br"} \cap {"cast"} = {}
    OBVIOUS
  <2> HIDE DEF kinds
  <2> QED
    BY <1>1, <1>2, <2>1, <2>2, InsertAdds
<1>4. push' = Inserted({"arg", "br", "lib", "select", "icall", "fcmp"})
  BY <1>1 DEF Tables, PushedOps, Early, Late
<1>5. /\ {"arg", "br", "lib", "select", "icall", "fcmp"} = PushedOps'
      /\ {"arg", "br"} \cup {"cast"} = ReadOps'
  BY <1>1 DEF PushedOps, ReadOps, Early, Late
<1> QED
  BY <1>1, <1>3, <1>4, <1>5, TablesNow DEF Tables, Stages, Early, Late, Shared

LEMMA HandleInstructionsKeeps ==
  ASSUME Tables, HandleInstructions PROVE Tables'
<1> DEFINE kinds == [lib |-> LibRead, select |-> SelectRead, icall |-> ICallRead, memset
                        |-> MemsetRead, memcpy |-> MemCpyRead, load |-> LoadRead, store |->
                        StoreRead]
<1>1. /\ read' = Insert(read, kinds) /\ stage = "instructions" /\ stage' = "shadow_compares"
      /\ UNCHANGED <<body, push, FCMPMapPush, untested>>
      /\ FCMPMap' = FCMPMap \cup ConditionsOf("select")
  BY DEF HandleInstructions
<1>2. /\ DOMAIN kinds = {"lib", "select", "icall", "memset", "memcpy", "load", "store"}
      /\ \A op \in {"lib", "select", "icall", "memset", "memcpy", "load", "store"} :
           op # "fcmp" /\ kinds[op] = Exchanges(op)
  BY DEF LibRead, SelectRead, ICallRead, MemsetRead, MemCpyRead, LoadRead, StoreRead,
         Exchanges
<1>3. read' = Inserted({"arg", "br", "cast"} \cup {"lib", "select", "icall", "memset",
        "memcpy", "load", "store"})
  <2>1. read = Inserted({"arg", "br", "cast"})
    BY <1>1 DEF Tables, ReadOps, Early, Late
  <2>2. {"arg", "br", "cast"}
          \cap {"lib", "select", "icall", "memset", "memcpy", "load", "store"} = {}
    OBVIOUS
  <2> HIDE DEF kinds
  <2> QED
    BY <1>1, <1>2, <2>1, <2>2, InsertAdds
<1>4. push' = Inserted({"arg", "br", "lib", "select", "icall", "fcmp"})
  BY <1>1 DEF Tables, PushedOps, Early, Late
<1>5. /\ {"arg", "br", "lib", "select", "icall", "fcmp"} = PushedOps'
      /\ {"arg", "br", "cast"}
           \cup {"lib", "select", "icall", "memset", "memcpy", "load", "store"} = ReadOps'
  BY <1>1 DEF PushedOps, ReadOps, Early, Late
<1> QED
  BY <1>1, <1>3, <1>4, <1>5, TablesNow DEF Tables, Stages, Early, Late, Shared

LEMMA HandleComparesKeeps ==
  ASSUME Tables, HandleCompares PROVE Tables'
<1>1. /\ read' = InsertCompares(read, FCMPMap) /\ stage = "shadow_compares" /\ stage' = "memory"
      /\ UNCHANGED <<body, push, FCMPMapPush, FCMPMap, untested>>
  BY DEF HandleCompares
<1>2. FCMPMap = Shared
  BY <1>1 DEF Tables, Early, Late
<1>3. read' = Inserted({"arg", "br", "cast", "lib", "select", "icall", "memset", "memcpy",
        "load", "store"} \cup {"fcmp"})
  <2>1. read = Inserted({"arg", "br", "cast", "lib", "select", "icall", "memset", "memcpy",
                         "load", "store"})
    BY <1>1 DEF Tables, ReadOps, Early, Late
  <2> QED
    BY <1>1, <1>2, <2>1, InsertComparesAdds
<1>4. push' = Inserted({"arg", "br", "lib", "select", "icall", "fcmp"})
  BY <1>1 DEF Tables, PushedOps, Early, Late
<1>5. /\ {"arg", "br", "lib", "select", "icall", "fcmp"} = PushedOps'
      /\ {"arg", "br", "cast", "lib", "select", "icall", "memset", "memcpy", "load", "store"}
           \cup {"fcmp"} = ReadOps'
  BY <1>1 DEF PushedOps, ReadOps, Early, Late
<1> QED
  BY <1>1, <1>3, <1>4, <1>5, TablesNow DEF Tables, Stages, Early, Late, Shared

LEMMA PushMemoryKeeps ==
  ASSUME Tables, PushMemory PROVE Tables'
<1> DEFINE kinds == [cast |-> CastPush, memset |-> MemsetPush, memcpy |-> MemCpyPush,
                        load |-> LoadPush, store |-> StorePush]
<1>1. /\ push' = Insert(push, kinds) /\ stage = "memory" /\ stage' = "flags"
      /\ UNCHANGED <<body, read, FCMPMapPush, FCMPMap, untested>>
  BY DEF PushMemory
<1>2. /\ DOMAIN kinds = {"cast", "memset", "memcpy", "load", "store"}
      /\ \A op \in {"cast", "memset", "memcpy", "load", "store"} :
           op # "fcmp" /\ kinds[op] = Exchanges(op)
  BY DEF CastPush, MemsetPush, MemCpyPush, LoadPush, StorePush, Exchanges
<1>3. push' = Inserted({"arg", "br", "lib", "select", "icall", "fcmp"} \cup {"cast",
        "memset", "memcpy", "load", "store"})
  <2>1. push = Inserted({"arg", "br", "lib", "select", "icall", "fcmp"})
    BY <1>1 DEF Tables, PushedOps, Early, Late
  <2>2. {"arg", "br", "lib", "select", "icall", "fcmp"}
          \cap {"cast", "memset", "memcpy", "load", "store"} = {}
    OBVIOUS
  <2> HIDE DEF kinds
  <2> QED
    BY <1>1, <1>2, <2>1, <2>2, InsertAdds
<1>4. read' = Inserted({"arg", "br", "cast", "lib", "select", "icall", "memset", "memcpy",
                        "load", "store", "fcmp"})
  BY <1>1 DEF Tables, ReadOps, Early, Late
<1>5. /\ {"arg", "br", "cast", "lib", "select", "icall", "memset", "memcpy", "load", "store",
          "fcmp"} = ReadOps'
      /\ {"arg", "br", "lib", "select", "icall", "fcmp"}
           \cup {"cast", "memset", "memcpy", "load", "store"} = PushedOps'
  BY <1>1 DEF PushedOps, ReadOps, Early, Late
<1> QED
  BY <1>1, <1>3, <1>4, <1>5, TablesNow DEF Tables, Stages, Early, Late, Shared

(* When the pass has finished each instruction reads what it pushes.       *)
LEMMA Finished ==
  ASSUME Tables, stage \in Late PROVE push = read
<1>1. PushedOps = ReadOps
  BY DEF PushedOps, ReadOps, Early, Late
<1> QED
  BY <1>1 DEF Tables

LEMMA RemoveFlagTestsKeeps ==
  ASSUME Tables, RemoveFlagTests PROVE Tables'
<1>1. /\ stage = "flags" /\ stage' = "run"
      /\ UNCHANGED <<body, push, read, FCMPMapPush, FCMPMap>>
      /\ untested' = {f \in Funcs : \E i \in DOMAIN body[f] : body[f][i].op = "end"}
  BY DEF RemoveFlagTests
<1>2. untested' = {"S"}
  BY <1>1 DEF Tables, Supported, Bracketed, IsAt, Funcs
<1>3. Shared' = Shared /\ ConditionsOf("br")' = ConditionsOf("br")
  BY <1>1 DEF Shared, ConditionsOf
<1>4. \A f, i : Exchange(f, i)' = Exchange(f, i)
  BY <1>1, <1>3 DEF Exchange
<1>5. PushedOps' = PushedOps /\ ReadOps' = ReadOps
  BY <1>1 DEF PushedOps, ReadOps, Early, Late
<1>6. Inserted(PushedOps)' = Inserted(PushedOps) /\ Inserted(ReadOps)' = Inserted(ReadOps)
  BY <1>1, <1>4, <1>5 DEF Inserted
<1> QED
  BY <1>1, <1>2, <1>3, <1>6 DEF Tables, Stages, Early, Late

-----------------------------------------------------------------------------
(* The execution.                                                          *)

(* What the pass leaves to the run.                                        *)
LEMMA Ready ==
  ASSUME Tables, stage = "run"
  PROVE  /\ push = read /\ untested = {"S"}
         /\ body \in [Funcs -> Seq(Instructions)]
         /\ \A f \in Funcs : \A i \in DOMAIN body[f] :
              push[f][i] = Exchange(f, i) /\ push[f][i] \in Seq(Kinds)
<1>1. push = Inserted(PushedOps)
  BY DEF Tables
<1>2. ASSUME NEW f \in Funcs, NEW i \in DOMAIN body[f]
      PROVE  push[f][i] = Exchange(f, i)
  <2>1. push[f][i] = IF body[f][i].op \in PushedOps THEN Exchange(f, i) ELSE << >>
    BY <1>1 DEF Inserted
  <2>2. CASE body[f][i].op \in PushedOps
    BY <2>1, <2>2
  <2>3. CASE body[f][i].op \notin PushedOps
    <3>1. body[f][i].op \notin {"arg", "br", "lib", "select", "icall", "fcmp", "cast",
                                "memset", "memcpy", "load", "store"}
      BY <2>3 DEF PushedOps, Early, Late
    <3> QED
      BY <2>1, <2>3, <3>1 DEF Exchange, Exchanges
  <2> QED
    BY <2>2, <2>3
<1> QED
  BY <1>2, ExchangeType, Finished DEF Tables, Supported, Late

LEMMA Brackets ==
  ASSUME Supported(body)
  PROVE  /\ StartAt \in DOMAIN body["S"] /\ EndAt \in DOMAIN body["S"]
         /\ Bracketed(body, StartAt, EndAt)
<1>1. PICK st, e \in DOMAIN body["S"] : Bracketed(body, st, e)
  BY DEF Supported
<1>2. st \in DOMAIN body["S"] /\ body["S"][st].op = "start"
  BY <1>1 DEF Bracketed, IsAt
<1>3. e \in DOMAIN body["S"] /\ body["S"][e].op = "end"
  BY <1>1 DEF Bracketed, IsAt
<1>4. StartAt \in DOMAIN body["S"] /\ body["S"][StartAt].op = "start"
  BY <1>2 DEF StartAt
<1>5. EndAt \in DOMAIN body["S"] /\ body["S"][EndAt].op = "end"
  BY <1>3 DEF EndAt
<1>6. StartAt = st /\ EndAt = e
  BY <1>1, <1>4, <1>5 DEF Bracketed
<1> QED
  BY <1>1, <1>4, <1>5, <1>6

(* The same as facts about positions, for the steps of a run.              *)
LEMMA Positions ==
  ASSUME Supported(body)
  PROVE  /\ StartAt \in Nat \ {0} /\ EndAt \in Nat \ {0} /\ StartAt < EndAt
         /\ EndAt <= Len(body["S"]) /\ DOMAIN body["S"] = 1 .. Len(body["S"])
         /\ Len(body["S"]) \in Nat
         /\ body["S"][StartAt].op = "start" /\ body["S"][EndAt].op = "end"
         /\ \A i \in 1 .. Len(body["S"]) :
              /\ body["S"][i].op = "start" => i = StartAt
              /\ body["S"][i].op = "end" => i = EndAt
              /\ body["S"][i].op \in {"call", "icall"} => StartAt < i /\ i < EndAt
              /\ body["S"][i].op = "br" => i + 1 # StartAt /\ i + 1 # EndAt
              /\ i > EndAt => body["S"][i].op = "plain"
         /\ \A i \in 1 .. Len(body["F"]) : body["F"][i].op \notin {"start", "end"}
<1>1. body["S"] \in Seq(Instructions) /\ body["F"] \in Seq(Instructions)
  BY DEF Supported, Funcs
<1>2. DOMAIN body["S"] = 1 .. Len(body["S"]) /\ DOMAIN body["F"] = 1 .. Len(body["F"])
      /\ Len(body["S"]) \in Nat
  BY <1>1
<1>3. /\ StartAt \in DOMAIN body["S"] /\ EndAt \in DOMAIN body["S"]
      /\ Bracketed(body, StartAt, EndAt)
  BY Brackets
<1>4. /\ StartAt \in Nat \ {0} /\ StartAt <= Len(body["S"])
      /\ EndAt \in Nat \ {0} /\ EndAt <= Len(body["S"])
  BY <1>2, <1>3
<1>5. StartAt < EndAt /\ body["S"][StartAt].op = "start" /\ body["S"][EndAt].op = "end"
  BY <1>3 DEF Bracketed, IsAt
<1>6. \A i \in 1 .. Len(body["S"]) :
              /\ body["S"][i].op = "start" => i = StartAt
              /\ body["S"][i].op = "end" => i = EndAt
              /\ body["S"][i].op \in {"call", "icall"} => StartAt < i /\ i < EndAt
              /\ body["S"][i].op = "br" => i + 1 # StartAt /\ i + 1 # EndAt
              /\ i > EndAt => body["S"][i].op = "plain"
  BY <1>2, <1>3 DEF Bracketed
<1>7. \A i \in 1 .. Len(body["F"]) : body["F"][i].op \notin {"start", "end"}
  BY <1>2 DEF Supported
<1> QED
  BY <1>2, <1>4, <1>5, <1>6, <1>7

(* Stacks.                                                                 *)
LEMMA Element == ASSUME NEW T, NEW s \in Seq(T), NEW j \in 1 .. Len(s) PROVE s[j] \in T
OBVIOUS

LEMMA FirstOrLater ==
  ASSUME NEW n \in Nat, NEW j \in 1 .. n PROVE j = 1 \/ j \in 2 .. n
OBVIOUS

LEMMA GotoStack ==
  ASSUME NEW T, NEW s \in Seq(T), s # << >>, NEW i
  PROVE  /\ Len(s) \in Nat \ {0} /\ DOMAIN s = 1 .. Len(s) /\ Len(Goto(s, i)) = Len(s)
         /\ DOMAIN Goto(s, i) = 1 .. Len(s) /\ Goto(s, i) # << >>
         /\ Goto(s, i)[Len(s)] = [s[Len(s)] EXCEPT !.pos = i]
         /\ \A j \in 1 .. Len(s) : j # Len(s) => Goto(s, i)[j] = s[j]
<1> DEFINE top == [s[Len(s)] EXCEPT !.pos = i]
           g == [s EXCEPT ![Len(s)] = top]
<1>1. Len(s) \in Nat \ {0} /\ DOMAIN s = 1 .. Len(s) /\ Len(s) \in 1 .. Len(s)
  OBVIOUS
<1>2. Goto(s, i) = g
  BY DEF Goto
<1> HIDE DEF top
<1>3. DOMAIN g = 1 .. Len(s) /\ g[Len(s)] = top
      /\ \A j \in 1 .. Len(s) : j # Len(s) => g[j] = s[j]
  BY <1>1
<1>4. g \in [1 .. Len(s) -> T \cup {top}]
  <2>1. \A j \in 1 .. Len(s) : s[j] \in T
    OBVIOUS
  <2>2. \A j \in 1 .. Len(s) : g[j] \in T \cup {top}
    BY <1>3, <2>1
  <2>3. g = [j \in 1 .. Len(s) |-> g[j]]
    BY <1>1
  <2> QED
    BY <2>2, <2>3
<1> HIDE DEF g
<1>5. g \in Seq(T \cup {top}) /\ Len(g) = Len(s)
  BY <1>1, <1>4
<1> QED
  BY <1>1, <1>2, <1>3, <1>5 DEF top

LEMMA Front ==
  ASSUME NEW T, NEW n \in Nat, NEW s, \A i \in 1 .. n : s[i] \in T
  PROVE  /\ SubSeq(s, 1, n) \in Seq(T) /\ Len(SubSeq(s, 1, n)) = n
         /\ \A i \in 1 .. n : SubSeq(s, 1, n)[i] = s[i]
<1>1. n \in Int /\ 1 \in Int
  OBVIOUS
<1>2. /\ SubSeq(s, 1, n) \in Seq(T)
      /\ Len(SubSeq(s, 1, n)) = IF 1 <= n THEN n - 1 + 1 ELSE 0
      /\ \A i \in 1 .. n - 1 + 1 : SubSeq(s, 1, n)[i] = s[1 + i - 1]
  BY ONLY <1>1, SubSeqProperties, \A i \in 1 .. n : s[i] \in T
<1>3. n - 1 + 1 = n /\ (IF 1 <= n THEN n - 1 + 1 ELSE 0) = n /\ \A i \in 1 .. n : 1 + i - 1 = i
  OBVIOUS
<1> QED
  BY <1>2, <1>3

LEMMA PopStack ==
  ASSUME NEW T, NEW s \in Seq(T), s # << >>
  PROVE  /\ Pop(s) \in Seq(T) /\ Len(Pop(s)) = Len(s) - 1
         /\ \A j \in 1 .. Len(s) - 1 : Pop(s)[j] = s[j]
         /\ Len(s) \in Nat \ {0}
<1>1. /\ Len(s) \in Nat \ {0} /\ Len(s) - 1 \in Nat
      /\ \A j \in 1 .. Len(s) - 1 : s[j] \in T
  OBVIOUS
<1>2. PICK n \in Nat : n = Len(s) - 1
  BY <1>1
<1>3. \A j \in 1 .. n : s[j] \in T
  BY <1>1, <1>2
<1>4. /\ SubSeq(s, 1, n) \in Seq(T) /\ Len(SubSeq(s, 1, n)) = n
      /\ \A i \in 1 .. n : SubSeq(s, 1, n)[i] = s[i]
  BY ONLY <1>3, Front, n \in Nat
<1>5. Pop(s) = SubSeq(s, 1, n)
  BY <1>2 DEF Pop
<1> QED
  BY <1>1, <1>2, <1>4, <1>5

LEMMA GotoFrames ==
  ASSUME NEW s \in Seq(Frames), s # << >>, NEW i \in Nat
  PROVE  Goto(s, i) \in Seq(Frames)
<1> DEFINE top == [s[Len(s)] EXCEPT !.pos = i]
<1>1. Len(s) \in 1 .. Len(s) /\ s[Len(s)] \in Frames
  OBVIOUS
<1>2. top \in Frames
  BY <1>1 DEF Frames
<1>3. Goto(s, i) = [s EXCEPT ![Len(s)] = top]
  BY DEF Goto
<1> HIDE DEF top
<1> QED
  BY <1>1, <1>2, <1>3, ExceptSeq

LEMMA GotoActivations ==
  ASSUME NEW s \in Seq(Activations), s # << >>, NEW i \in Nat
  PROVE  Goto(s, i) \in Seq(Activations)
<1> DEFINE top == [s[Len(s)] EXCEPT !.pos = i]
<1>1. Len(s) \in 1 .. Len(s) /\ s[Len(s)] \in Activations
  OBVIOUS
<1>2. top \in Activations
  BY <1>1 DEF Activations
<1>3. Goto(s, i) = [s EXCEPT ![Len(s)] = top]
  BY DEF Goto
<1> HIDE DEF top
<1> QED
  BY <1>1, <1>2, <1>3, ExceptSeq

-----------------------------------------------------------------------------
(* What is noted of an activation.                                         *)
LEMMA FramesEqual ==
  ASSUME NEW s \in Seq(Frames), NEW t \in Seq(Frames), Len(s) = Len(t),
         \A j \in 1 .. Len(s) : s[j] = t[j]
  PROVE  s = t
BY SeqEqual

LEMMA FrameOf ==
  ASSUME NEW a \in Activations
  PROVE  [fn |-> a.fn, pos |-> a.pos] \in Frames
BY DEF Activations, Frames

LEMMA Moved ==
  ASSUME NEW a \in Activations, NEW i
  PROVE  /\ [a EXCEPT !.pos = i].fn = a.fn /\ [a EXCEPT !.pos = i].pos = i
         /\ [[fn |-> a.fn, pos |-> a.pos] EXCEPT !.pos = i] = [fn |-> a.fn, pos |-> i]
BY DEF Activations

LEMMA PlacesOf ==
  ASSUME NEW s \in Seq(Activations)
  PROVE  /\ Places(s) \in Seq(Frames) /\ Len(Places(s)) = Len(s)
         /\ DOMAIN s = 1 .. Len(s) /\ Len(s) \in Nat
         /\ \A j \in 1 .. Len(s) : Places(s)[j] = [fn |-> s[j].fn, pos |-> s[j].pos]
<1>1. DOMAIN s = 1 .. Len(s) /\ Len(s) \in Nat /\ \A j \in 1 .. Len(s) : s[j] \in Activations
  OBVIOUS
<1>2. Places(s) = [j \in 1 .. Len(s) |-> [fn |-> s[j].fn, pos |-> s[j].pos]]
  BY <1>1 DEF Places
<1>3. \A j \in 1 .. Len(s) : [fn |-> s[j].fn, pos |-> s[j].pos] \in Frames
  BY <1>1, FrameOf
<1> QED
  BY <1>1, <1>2, <1>3

LEMMA PlacesTop ==
  ASSUME NEW s \in Seq(Activations), s # << >>
  PROVE  /\ Places(s) # << >> /\ Len(s) \in 1 .. Len(s)
         /\ Top(Places(s)).fn = Top(s).fn /\ Top(Places(s)).pos = Top(s).pos
         /\ InFunction(Places(s)) = InFunction(s) /\ Instr(Places(s)) = Instr(s)
<1>1. /\ Places(s) \in Seq(Frames) /\ Len(Places(s)) = Len(s) /\ Len(s) \in 1 .. Len(s)
      /\ Places(s)[Len(s)] = [fn |-> s[Len(s)].fn, pos |-> s[Len(s)].pos]
  BY PlacesOf
<1>2. Places(s) # << >>
  BY <1>1
<1>3. Top(Places(s)) = [fn |-> Top(s).fn, pos |-> Top(s).pos]
  BY <1>1 DEF Top
<1> QED
  BY <1>1, <1>2, <1>3 DEF InFunction, Instr

LEMMA PlacesGoto ==
  ASSUME NEW s \in Seq(Activations), s # << >>, NEW i \in Nat
  PROVE  Places(Goto(s, i)) = Goto(Places(s), i)
<1> DEFINE g == Goto(s, i)
           p == Places(s)
<1>1. /\ g \in Seq(Activations) /\ Len(g) = Len(s) /\ Len(s) \in Nat \ {0}
      /\ g[Len(s)] = [s[Len(s)] EXCEPT !.pos = i]
      /\ \A j \in 1 .. Len(s) : j # Len(s) => g[j] = s[j]
  BY GotoStack, GotoActivations
<1>2. /\ p \in Seq(Frames) /\ Len(p) = Len(s) /\ p # << >>
      /\ \A j \in 1 .. Len(s) : p[j] = [fn |-> s[j].fn, pos |-> s[j].pos]
  BY PlacesOf, PlacesTop
<1>3. /\ Goto(p, i) \in Seq(Frames) /\ Len(Goto(p, i)) = Len(s)
      /\ Goto(p, i)[Len(s)] = [p[Len(s)] EXCEPT !.pos = i]
      /\ \A j \in 1 .. Len(s) : j # Len(s) => Goto(p, i)[j] = p[j]
  <2> HIDE DEF p
  <2> QED
    BY <1>2, GotoStack, GotoFrames
<1>4. /\ Places(g) \in Seq(Frames) /\ Len(Places(g)) = Len(s)
      /\ \A j \in 1 .. Len(s) : Places(g)[j] = [fn |-> g[j].fn, pos |-> g[j].pos]
  <2> HIDE DEF g
  <2> QED
    BY <1>1, PlacesOf
<1>5. Places(g)[Len(s)] = Goto(p, i)[Len(s)]
  <2>1. s[Len(s)] \in Activations
    BY <1>1
  <2>2. Places(g)[Len(s)] = [fn |-> s[Len(s)].fn, pos |-> i]
    <3>1. Len(s) \in 1 .. Len(s)
      BY <1>1
    <3>2. Places(g)[Len(s)] = [fn |-> g[Len(s)].fn, pos |-> g[Len(s)].pos]
      BY <1>4, <3>1, Zenon
    <3> QED
      BY <1>1, <2>1, <3>2, Moved
  <2>3. Goto(p, i)[Len(s)] = [fn |-> s[Len(s)].fn, pos |-> i]
    <3>1. p[Len(s)] = [fn |-> s[Len(s)].fn, pos |-> s[Len(s)].pos]
      BY <1>1, <1>2
    <3> HIDE DEF p
    <3> QED
      BY <1>3, <2>1, <3>1, Moved
  <2> QED
    BY <2>2, <2>3
<1>6. ASSUME NEW j \in 1 .. Len(s) PROVE Places(g)[j] = Goto(p, i)[j]
  <2>1. CASE j = Len(s)
    BY <1>5, <2>1
  <2>2. CASE j # Len(s)
    <3>1. g[j] = s[j] /\ Goto(p, i)[j] = p[j]
      BY <1>1, <1>3, <2>2
    <3>2. Places(g)[j] = [fn |-> g[j].fn, pos |-> g[j].pos]
      BY <1>4
    <3> QED
      BY <1>2, <3>1, <3>2
  <2> QED
    BY <2>1, <2>2
<1> HIDE DEF g, p
<1> QED
  BY <1>3, <1>4, <1>6, FramesEqual DEF g, p

LEMMA PlacesAppend ==
  ASSUME NEW s \in Seq(Activations), NEW a \in Activations
  PROVE  Places(Append(s, a)) = Append(Places(s), [fn |-> a.fn, pos |-> a.pos])
<1> DEFINE f == [fn |-> a.fn, pos |-> a.pos]
           n == Append(s, a)
<1>1. f \in Frames
  BY FrameOf
<1>2. /\ n \in Seq(Activations) /\ Len(n) = Len(s) + 1 /\ n[Len(s) + 1] = a
      /\ \A j \in 1 .. Len(s) : n[j] = s[j]
  BY AppendProperties
<1>3. /\ Places(s) \in Seq(Frames) /\ Len(Places(s)) = Len(s) /\ Len(s) \in Nat
      /\ \A j \in 1 .. Len(s) : Places(s)[j] = [fn |-> s[j].fn, pos |-> s[j].pos]
  BY PlacesOf
<1>4. /\ Places(n) \in Seq(Frames) /\ Len(Places(n)) = Len(s) + 1
      /\ \A j \in 1 .. Len(s) + 1 : Places(n)[j] = [fn |-> n[j].fn, pos |-> n[j].pos]
  <2> HIDE DEF n
  <2> QED
    BY <1>2, PlacesOf
<1> HIDE DEF f
<1>5. /\ Append(Places(s), f) \in Seq(Frames) /\ Len(Append(Places(s), f)) = Len(s) + 1
      /\ \A j \in 1 .. Len(s) : Append(Places(s), f)[j] = Places(s)[j]
      /\ Append(Places(s), f)[Len(s) + 1] = f
  BY <1>1, <1>3, AppendProperties
<1>6. Places(n)[Len(s) + 1] = f
  BY <1>2, <1>3, <1>4 DEF f
<1>7. \A j \in 1 .. Len(s) : Places(n)[j] = Append(Places(s), f)[j]
  BY <1>2, <1>3, <1>4, <1>5
<1>8. \A j \in 1 .. Len(s) + 1 : Places(n)[j] = Append(Places(s), f)[j]
  BY <1>3, <1>5, <1>6, <1>7
<1> HIDE DEF n
<1> QED
  BY <1>4, <1>5, <1>8, FramesEqual DEF f, n

LEMMA PlacesPop ==
  ASSUME NEW s \in Seq(Activations), s # << >>
  PROVE  Places(Pop(s)) = Pop(Places(s))
<1>1. /\ Pop(s) \in Seq(Activations) /\ Len(Pop(s)) = Len(s) - 1 /\ Len(s) \in Nat \ {0}
      /\ \A j \in 1 .. Len(s) - 1 : Pop(s)[j] = s[j]
  BY PopStack
<1>2. /\ Places(s) \in Seq(Frames) /\ Len(Places(s)) = Len(s) /\ Places(s) # << >>
      /\ \A j \in 1 .. Len(s) : Places(s)[j] = [fn |-> s[j].fn, pos |-> s[j].pos]
  BY PlacesOf, PlacesTop
<1>3. /\ Pop(Places(s)) \in Seq(Frames) /\ Len(Pop(Places(s))) = Len(s) - 1
      /\ \A j \in 1 .. Len(s) - 1 : Pop(Places(s))[j] = Places(s)[j]
  BY <1>2, PopStack
<1>4. /\ Places(Pop(s)) \in Seq(Frames) /\ Len(Places(Pop(s))) = Len(s) - 1
      /\ \A j \in 1 .. Len(s) - 1 : Places(Pop(s))[j] = [fn |-> Pop(s)[j].fn, pos |-> Pop(s)[j].pos]
  BY <1>1, PlacesOf
<1>5. ASSUME NEW j \in 1 .. Len(s) - 1 PROVE Places(Pop(s))[j] = Pop(Places(s))[j]
  <2>1. j \in 1 .. Len(s)
    BY <1>1
  <2>2. Pop(s)[j] = s[j] /\ Pop(Places(s))[j] = Places(s)[j]
    BY <1>1, <1>3
  <2>3. Places(Pop(s))[j] = [fn |-> Pop(s)[j].fn, pos |-> Pop(s)[j].pos]
    BY <1>4
  <2> QED
    BY <1>2, <2>1, <2>2, <2>3
<1> QED
  BY <1>3, <1>4, <1>5, FramesEqual

LEMMA BooleanSet ==
  ASSUME NEW out \in Seq(BOOLEAN), NEW i, NEW o \in BOOLEAN
  PROVE  [out EXCEPT ![i] = o] \in Seq(BOOLEAN)
<1>1. CASE i \in 1 .. Len(out)
  BY <1>1, ExceptSeq
<1>2. CASE i \notin 1 .. Len(out)
  <2>1. [out EXCEPT ![i] = o] = out
    BY <1>2
  <2> QED
    BY <2>1
<1> QED
  BY <1>1, <1>2

LEMMA OutcomeSet ==
  ASSUME NEW s \in Seq(Activations), s # << >>, NEW n, n = Len(s), NEW top \in Activations,
         top.fn = s[n].fn, top.pos = s[n].pos, top.flag = s[n].flag,
         NEW t, t = [s EXCEPT ![n] = top]
  PROVE  /\ t \in Seq(Activations) /\ Len(t) = Len(s)
         /\ \A j \in 1 .. Len(s) :
              t[j].fn = s[j].fn /\ t[j].pos = s[j].pos /\ t[j].flag = s[j].flag
<1>1. n \in 1 .. Len(s) /\ s[n] \in Activations /\ Len(s) \in Nat
  OBVIOUS
<1>2. /\ t \in Seq(Activations) /\ Len(t) = Len(s)
      /\ \A j \in 1 .. Len(s) : t[j] = IF j = n THEN top ELSE s[j]
  BY <1>1, ExceptSeq
<1> QED
  BY <1>2

LEMMA SamePlaces ==
  ASSUME NEW s \in Seq(Activations), NEW t \in Seq(Activations), Len(t) = Len(s),
         \A j \in 1 .. Len(s) : t[j].fn = s[j].fn /\ t[j].pos = s[j].pos
  PROVE  Places(t) = Places(s)
<1>1. /\ Places(t) \in Seq(Frames) /\ Len(Places(t)) = Len(s)
      /\ \A j \in 1 .. Len(s) : Places(t)[j] = [fn |-> t[j].fn, pos |-> t[j].pos]
  BY PlacesOf
<1>2. /\ Places(s) \in Seq(Frames) /\ Len(Places(s)) = Len(s)
      /\ \A j \in 1 .. Len(s) : Places(s)[j] = [fn |-> s[j].fn, pos |-> s[j].pos]
  BY PlacesOf
<1>3. ASSUME NEW j \in 1 .. Len(s) PROVE Places(t)[j] = Places(s)[j]
  <2>1. t[j].fn = s[j].fn /\ t[j].pos = s[j].pos
    OBVIOUS
  <2>2. Places(t)[j] = [fn |-> t[j].fn, pos |-> t[j].pos]
    BY <1>1, Zenon
  <2>3. Places(s)[j] = [fn |-> s[j].fn, pos |-> s[j].pos]
    BY <1>2, Zenon
  <2> QED
    BY <2>1, <2>2, <2>3
<1> QED
  BY <1>1, <1>2, <1>3, FramesEqual

-----------------------------------------------------------------------------
(* Where the program is.                                                   *)
Safe == Tables /\ stage = "run" /\ RunInv

LEMMA ProgramAt ==
  ASSUME Safe, pstack # << >>
  PROVE  /\ pstack \in Seq(Activations) /\ Len(pstack) \in Nat \ {0}
         /\ Len(pstack) \in 1 .. Len(pstack) /\ 1 \in 1 .. Len(pstack)
         /\ \A j \in 1 .. Len(pstack) : pstack[j] \in Activations /\ pstack[j].pos \in Nat \ {0}
         /\ Top(pstack) = pstack[Len(pstack)]
         /\ slice \in Slices /\ slice \in Nat /\ pstack[1].fn = "S"
         /\ \A j \in 2 .. Len(pstack) : /\ pstack[j].fn = "F" /\ pstack[j].flag
                                        /\ StartAt < pstack[1].pos /\ Filling
         /\ Filling <=> pstack[1].pos <= EndAt
         /\ Ended <=> ~Filling
         /\ SliceFlag <=> Filling /\ StartAt < pstack[1].pos
<1>1. /\ pstack \in Seq(Activations) /\ slice \in 0 .. MaxSlices
  BY DEF Safe, RunInv, Types
<1>2. /\ Len(pstack) \in Nat \ {0} /\ Len(pstack) \in 1 .. Len(pstack)
      /\ 1 \in 1 .. Len(pstack) /\ \A j \in 1 .. Len(pstack) : pstack[j] \in Activations
  BY <1>1
<1>3. Producing
  BY DEF Safe, RunInv
<1>4. slice > 0 /\ pstack[1].fn = "S" /\ pstack[1].pos > 0
  BY <1>3 DEF Producing
<1>5. \A j \in 2 .. Len(pstack) : /\ pstack[j].fn = "F" /\ pstack[j].flag /\ pstack[j].pos > 0
                                  /\ StartAt < pstack[1].pos /\ Filling
  BY <1>3 DEF Producing
<1>6. \A j \in 1 .. Len(pstack) : pstack[j].pos \in Nat /\ pstack[j].pos > 0
  <2>1. \A j \in 1 .. Len(pstack) : j = 1 \/ j \in 2 .. Len(pstack)
    BY <1>2
  <2>2. \A j \in 1 .. Len(pstack) : pstack[j].pos \in Nat
    BY <1>2 DEF Activations
  <2> QED
    BY <1>4, <1>5, <2>1, <2>2
<1>7. slice \in Nat /\ slice \in Slices
  BY <1>1, <1>4, Sizes DEF Slices
<1>8. Filling <=> pstack[1].pos <= EndAt
  BY DEF Filling
<1>9. Ended <=> ~Filling
  <2>1. /\ EndAt \in Nat \ {0} /\ EndAt <= Len(body["S"]) /\ Len(body["S"]) \in Nat
        /\ DOMAIN body["S"] = 1 .. Len(body["S"]) /\ body["S"][EndAt].op = "end"
        /\ \A i \in 1 .. Len(body["S"]) : body["S"][i].op = "end" => i = EndAt
    BY Positions DEF Safe, Tables
  <2>2. Ended <=> pstack[1].pos > EndAt
    BY <2>1 DEF Ended
  <2>3. pstack[1].pos \in Nat
    BY <1>2, <1>6
  <2> QED
    BY <1>8, <2>1, <2>2, <2>3
<1>10. SliceFlag <=> Filling /\ StartAt < pstack[1].pos
  BY <1>3 DEF Producing
<1>11. \A j \in 1 .. Len(pstack) : pstack[j].pos \in Nat \ {0}
  BY <1>6
<1>12. Top(pstack) = pstack[Len(pstack)]
  BY DEF Top
<1> QED
  BY ONLY <1>1, <1>2, <1>4, <1>5, <1>7, <1>8, <1>9, <1>10, <1>11, <1>12

LEMMA InstrAt ==
  ASSUME Safe, NEW stack, InFunction(stack), Top(stack).fn \in Funcs,
         Top(stack).pos \in Nat \ {0}
  PROVE  /\ Top(stack).pos \in 1 .. Len(body[Top(stack).fn])
         /\ DOMAIN body[Top(stack).fn] = 1 .. Len(body[Top(stack).fn])
         /\ Instr(stack) = body[Top(stack).fn][Top(stack).pos] /\ Instr(stack) \in Instructions
         /\ push[Top(stack).fn][Top(stack).pos] = Exchange(Top(stack).fn, Top(stack).pos)
         /\ push[Top(stack).fn][Top(stack).pos] \in Seq(Kinds)
<1>1. PICK f \in Funcs : f = Top(stack).fn
  OBVIOUS
<1>2. PICK i \in Nat \ {0} : i = Top(stack).pos
  OBVIOUS
<1>3. body[f] \in Seq(Instructions)
  BY Ready DEF Safe
<1>4. i <= Len(body[f])
  BY <1>1, <1>2 DEF InFunction
<1>5. i \in 1 .. Len(body[f]) /\ DOMAIN body[f] = 1 .. Len(body[f]) /\ body[f][i] \in Instructions
  BY <1>3, <1>4
<1>6. push[f][i] = Exchange(f, i) /\ push[f][i] \in Seq(Kinds)
  BY <1>5, Ready DEF Safe
<1>7. Instr(stack) = body[f][i]
  BY <1>1, <1>2 DEF Instr
<1> QED
  BY ONLY <1>1, <1>2, <1>5, <1>6, <1>7

LEMMA FollowingProgram ==
  ASSUME Safe, InFunction(pstack), NEW o
  PROVE  /\ Following(pstack, o) \in Seq(Activations) /\ Following(pstack, o) # << >>
         /\ Len(Following(pstack, o)) = Len(pstack)
         /\ Places(Following(pstack, o)) = Following(Places(pstack), o)
         /\ \A j \in 1 .. Len(pstack) : j # Len(pstack) => Following(pstack, o)[j] = pstack[j]
         /\ Following(pstack, o)[Len(pstack)].fn = Top(pstack).fn
         /\ Following(pstack, o)[Len(pstack)].flag = Top(pstack).flag
         /\ Following(pstack, o)[Len(pstack)].pos =
              Top(pstack).pos + IF Instr(pstack).op = "br" /\ o THEN 2 ELSE 1
         /\ Following(pstack, o)[Len(pstack)].pos \in Nat \ {0}
<1>1. /\ pstack # << >> /\ pstack \in Seq(Activations)
      /\ Top(pstack) = pstack[Len(pstack)] /\ pstack[Len(pstack)] \in Activations
      /\ Top(pstack).pos \in Nat \ {0} /\ Len(pstack) \in 1 .. Len(pstack)
  BY ProgramAt DEF InFunction
<1>2. PICK i : i = Top(pstack).pos + IF Instr(pstack).op = "br" /\ o THEN 2 ELSE 1
  OBVIOUS
<1>3. i \in Nat /\ i \in Nat \ {0}
  BY <1>1, <1>2
<1>4. Following(pstack, o) = Goto(pstack, i)
  BY <1>2 DEF Following
<1>5. Following(Places(pstack), o) = Goto(Places(pstack), i)
  BY <1>1, <1>2, PlacesTop DEF Following
<1>6. /\ Goto(pstack, i) \in Seq(Activations) /\ Len(Goto(pstack, i)) = Len(pstack)
      /\ Goto(pstack, i) # << >>
      /\ Goto(pstack, i)[Len(pstack)] = [pstack[Len(pstack)] EXCEPT !.pos = i]
      /\ \A j \in 1 .. Len(pstack) : j # Len(pstack) => Goto(pstack, i)[j] = pstack[j]
  BY <1>1, <1>3, GotoStack, GotoActivations
<1>7. Places(Goto(pstack, i)) = Goto(Places(pstack), i)
  BY <1>1, <1>3, PlacesGoto
<1>8. PICK a : a = pstack[Len(pstack)]
  OBVIOUS
<1>9. a \in Activations
  BY <1>1, <1>8
<1>10. [a EXCEPT !.pos = i].fn = a.fn /\ [a EXCEPT !.pos = i].flag = a.flag
       /\ [a EXCEPT !.pos = i].pos = i
  BY <1>9 DEF Activations
<1>11. Top(pstack) = a /\ Goto(pstack, i)[Len(pstack)] = [a EXCEPT !.pos = i]
  BY <1>1, <1>6, <1>8
<1>12. /\ Goto(pstack, i)[Len(pstack)].fn = Top(pstack).fn
       /\ Goto(pstack, i)[Len(pstack)].flag = Top(pstack).flag
       /\ Goto(pstack, i)[Len(pstack)].pos = i
  BY ONLY <1>10, <1>11
<1> QED
  BY ONLY <1>2, <1>3, <1>4, <1>5, <1>6, <1>7, <1>12

(* A slice under way stays in it until end_slice.                          *)
LEMMA OnWay ==
  ASSUME Safe, InFunction(pstack), Filling, Instr(pstack).op # "end", NEW o
  PROVE  /\ Following(pstack, o)[1].fn = "S" /\ 0 < Following(pstack, o)[1].pos
         /\ Following(pstack, o)[1].pos <= EndAt /\ Following(pstack, o)[1].pos \in Nat
         /\ StartAt < Following(pstack, o)[1].pos <=>
              StartAt < pstack[1].pos \/ Instr(pstack).op = "start"
         /\ \A j \in 2 .. Len(pstack) :
              /\ Following(pstack, o)[j].fn = "F" /\ Following(pstack, o)[j].pos > 0
              /\ Following(pstack, o)[j].flag
<1> DEFINE q == Following(pstack, o)
<1>1. pstack # << >>
  BY DEF InFunction
<1>2. /\ Len(q) = Len(pstack) /\ q[Len(pstack)].fn = Top(pstack).fn
      /\ q[Len(pstack)].flag = Top(pstack).flag
      /\ q[Len(pstack)].pos = Top(pstack).pos + IF Instr(pstack).op = "br" /\ o THEN 2 ELSE 1
      /\ q[Len(pstack)].pos \in Nat \ {0}
      /\ \A j \in 1 .. Len(pstack) : j # Len(pstack) => q[j] = pstack[j]
  BY FollowingProgram
<1>3. /\ Len(pstack) \in Nat \ {0} /\ Top(pstack) = pstack[Len(pstack)] /\ pstack[1].fn = "S"
      /\ \A j \in 1 .. Len(pstack) : pstack[j].pos \in Nat \ {0}
      /\ \A j \in 2 .. Len(pstack) : /\ pstack[j].fn = "F" /\ pstack[j].flag
                                     /\ StartAt < pstack[1].pos /\ Filling
      /\ pstack[1].pos <= EndAt
  BY <1>1, ProgramAt
<1> HIDE DEF q
<1>4. /\ StartAt \in Nat \ {0} /\ EndAt \in Nat \ {0} /\ StartAt < EndAt
      /\ EndAt <= Len(body["S"]) /\ Len(body["S"]) \in Nat
      /\ body["S"][EndAt].op = "end" /\ body["S"][StartAt].op = "start"
      /\ \A i \in 1 .. Len(body["S"]) :
           /\ body["S"][i].op = "start" => i = StartAt
           /\ body["S"][i].op = "end" => i = EndAt
           /\ body["S"][i].op = "br" => i + 1 # StartAt /\ i + 1 # EndAt
      /\ \A i \in 1 .. Len(body["F"]) : body["F"][i].op \notin {"start", "end"}
  BY Positions DEF Safe, Tables
<1>5. /\ Top(pstack).pos \in 1 .. Len(body[Top(pstack).fn])
      /\ Instr(pstack) = body[Top(pstack).fn][Top(pstack).pos]
  <2>1. Top(pstack) \in Activations /\ Top(pstack).pos \in Nat \ {0}
    BY <1>1, ProgramAt
  <2>2. Top(pstack).fn \in Funcs
    BY <2>1 DEF Activations
  <2> QED
    BY <2>1, <2>2, InstrAt
<1>6. CASE Len(pstack) = 1
  <2>1. PICK p : p = pstack[1].pos
    OBVIOUS
  <2>2. p \in 1 .. Len(body["S"]) /\ Instr(pstack) = body["S"][p] /\ p <= EndAt
    BY <1>3, <1>5, <1>6, <2>1
  <2>3. p < EndAt
    BY <1>4, <2>2
  <2>4. q[1].pos = p + IF body["S"][p].op = "br" /\ o THEN 2 ELSE 1
    BY <1>2, <1>3, <1>6, <2>1, <2>2
  <2>5. q[1].pos \in Nat /\ 0 < q[1].pos /\ q[1].pos <= EndAt
    BY <1>4, <2>2, <2>3, <2>4
  <2>6. StartAt < q[1].pos <=> StartAt < p \/ body["S"][p].op = "start"
    <3>1. CASE p = StartAt
      BY <1>4, <2>2, <2>4, <3>1
    <3>2. CASE p # StartAt
      <4>1. body["S"][p].op # "start" /\ (body["S"][p].op = "br" => p + 1 # StartAt)
        BY <1>4, <2>2, <3>2
      <4> QED
        BY <1>4, <2>2, <2>4, <3>2, <4>1
    <3> QED
      BY <3>1, <3>2
  <2> QED
    BY <1>2, <1>3, <1>6, <2>1, <2>2, <2>5, <2>6 DEF q
<1>7. CASE Len(pstack) # 1
  <2>1. Len(pstack) \in 2 .. Len(pstack) /\ 1 \in 1 .. Len(pstack)
    <3>1. Len(pstack) \in Nat \ {0}
      BY <1>3
    <3> QED
      BY ONLY <1>7, <3>1
  <2>2. Top(pstack).fn = "F" /\ Top(pstack).flag /\ q[1] = pstack[1]
    BY <1>2, <1>3, <1>7, <2>1
  <2>3. Instr(pstack).op # "start"
    BY <1>4, <1>5, <2>2
  <2>4. StartAt < pstack[1].pos /\ pstack[1].pos \in Nat \ {0}
    BY <1>3, <2>1
  <2>5. ASSUME NEW j \in 2 .. Len(pstack)
        PROVE  q[j].fn = "F" /\ q[j].pos > 0 /\ q[j].flag
    <3>1. CASE j = Len(pstack)
      <4>1. /\ q[Len(pstack)].fn = "F" /\ q[Len(pstack)].flag
            /\ q[Len(pstack)].pos \in Nat \ {0}
        BY <1>2, <2>2
      <4> QED
        BY <3>1, <4>1
    <3>2. CASE j # Len(pstack)
      <4>1. j \in 1 .. Len(pstack) /\ q[j] = pstack[j]
        BY <1>2, <1>3, <3>2
      <4>2. pstack[j].pos > 0 /\ pstack[j].fn = "F" /\ pstack[j].flag
        BY <1>3, <4>1
      <4> QED
        BY <4>1, <4>2
    <3> QED
      BY <3>1, <3>2
  <2> QED
    BY <1>3, <2>2, <2>3, <2>4, <2>5 DEF q
<1> QED
  BY <1>6, <1>7

-----------------------------------------------------------------------------
(* What a step leaves alone.                                               *)
LEMMA PassDone ==
  ASSUME passVars' = passVars
  PROVE  /\ body' = body /\ stage' = stage /\ push' = push /\ read' = read
         /\ StartAt' = StartAt /\ EndAt' = EndAt
         /\ Tables => Tables'
<1>1. /\ body' = body /\ stage' = stage /\ push' = push /\ read' = read
      /\ FCMPMapPush' = FCMPMapPush /\ FCMPMap' = FCMPMap /\ untested' = untested
  BY DEF passVars
<1>2. StartAt' = StartAt /\ EndAt' = EndAt
  BY <1>1 DEF StartAt, EndAt
<1>3. Shared' = Shared /\ ConditionsOf("br")' = ConditionsOf("br")
  BY <1>1 DEF Shared, ConditionsOf
<1>4. \A f, i : Exchange(f, i)' = Exchange(f, i)
  BY <1>1, <1>3 DEF Exchange
<1>5. PushedOps' = PushedOps /\ ReadOps' = ReadOps
  BY <1>1 DEF PushedOps, ReadOps
<1>6. Inserted(PushedOps)' = Inserted(PushedOps) /\ Inserted(ReadOps)' = Inserted(ReadOps)
  BY <1>1, <1>4, <1>5 DEF Inserted
<1>7. Tables => Tables'
  BY <1>1, <1>3, <1>6 DEF Tables
<1> QED
  BY <1>1, <1>2, <1>7

LEMMA HasKept ==
  ASSUME NEW b, NEW s, Has(b, s), queue'[b] = queue[b], sent'[s] = sent[s]
  PROVE  Has(b, s)'
BY DEF Has

LEMMA ReplaysKept ==
  ASSUME NEW w, NEW s, Replays(w), s = task[w], EndAt' = EndAt,
         cstack'[w] = cstack[w], task'[w] = task[w], CBuf'[w] = CBuf[w],
         CQIdx'[w] = CQIdx[w], got'[w] = got[w],
         s \in Slices', Given(s)', sent'[s] = sent[s], trail'[s] = trail[s],
         queue'[CBuf[w]] = queue[CBuf[w]]
  PROVE  Replays(w)'
<1>1. PICK b : b = CBuf[w]
  OBVIOUS
<1>2. Has(b, s) => Has(b, s)'
  BY <1>1, HasKept
<1>3. CASE Beyond(cstack[w]) /\ CQIdx[w] = 0
  BY <1>3 DEF Replays, Beyond
<1>4. CASE ~(Beyond(cstack[w]) /\ CQIdx[w] = 0)
  <2>1. /\ Has(b, s) /\ CQIdx[w] = Len(got[w])
        /\ \E k \in 1 .. Len(trail[s]) :
             trail[s][k].at = cstack[w] /\ trail[s][k].n = Len(got[w])
    BY <1>1, <1>4 DEF Replays
  <2>2. /\ Has(b, s)' /\ CQIdx'[w] = Len(got'[w])
        /\ \E k \in 1 .. Len(trail'[s]) :
             trail'[s][k].at = cstack'[w] /\ trail'[s][k].n = Len(got'[w])
    BY <1>2, <2>1
  <2>3. s = task'[w] /\ b = CBuf'[w]
    BY <1>1
  <2>4. Has(CBuf[w], task[w])'
    BY <2>2, <2>3 DEF Has
  <2> QED
    BY <2>2, <2>3, <2>4 DEF Replays
<1> QED
  BY <1>3, <1>4

(* A step of the program, for the workers: what has been handed over stays *)
(* as it is, and the slice under way only pushes more.                     *)
Onward ==
  /\ passVars' = passVars
  /\ UNCHANGED <<cstack, task, CBuf, CQIdx, got>>
  /\ \A s \in Slices : s \in Slices' /\ Len(sent[s]) <= Len(sent'[s])
  /\ \A s \in Slices : \A i \in 1 .. Len(sent[s]) : sent'[s][i] = sent[s][i]
  /\ \A s \in Slices : Given(s) => /\ s < slice' \/ (s = slice' /\ ~Filling')
                                   /\ sent'[s] = sent[s] /\ trail'[s] = trail[s]
  /\ \A b \in Bufs : b # p_queue_idx => queue'[b] = queue[b]

LEMMA GivenNow ==
  ASSUME NEW s, s < slice' \/ (s = slice' /\ ~Filling') PROVE Given(s)'
BY DEF Given

LEMMA SentType ==
  ASSUME Types, NEW s \in Slices
  PROVE  /\ sent[s] \in Seq(Items) /\ Len(sent[s]) \in Nat
         /\ trail[s] \in Seq(Points) /\ Len(trail[s]) \in Nat
         /\ \A i \in 1 .. Len(sent[s]) : sent[s][i] \in Items
         /\ \A k \in 1 .. Len(trail[s]) : /\ trail[s][k] \in Points
                                          /\ trail[s][k].at \in Seq(Frames)
                                          /\ trail[s][k].n \in Nat
<1>1. sent \in Seq(Seq(Items)) /\ trail \in Seq(Seq(Points))
      /\ Len(sent) = slice /\ Len(trail) = slice
  BY DEF Types
<1>2. sent[s] \in Seq(Items) /\ trail[s] \in Seq(Points)
  BY <1>1 DEF Slices
<1>3. \A k \in 1 .. Len(trail[s]) : trail[s][k] \in Points
  BY <1>2
<1> QED
  BY <1>2, <1>3 DEF Points

LEMMA WorkerType ==
  ASSUME Types, NEW w \in Workers
  PROVE  /\ cstack[w] \in Seq(Frames) /\ task[w] \in 0 .. slice /\ CBuf[w] \in Bufs
         /\ got[w] \in Seq(Gots) /\ Len(got[w]) \in Nat /\ CQIdx[w] \in 0 .. BufSize
BY DEF Types

LEMMA ReplayingKept ==
  ASSUME Safe, Onward PROVE Replaying'
<1> SUFFICES ASSUME NEW w \in Workers
    PROVE  (/\ Running(w) => Replays(w)
            /\ ~Running(w) => CQIdx[w] = 0
            /\ got[w] # << >> => task[w] \in Slices
            /\ task[w] \in Slices => Len(got[w]) <= Len(sent[task[w]])
            /\ \A i \in 1 .. Len(got[w]) :
                 /\ got[w][i].item = sent[task[w]][i]
                 /\ Meant(got[w][i]) /\ got[w][i].item.slice = task[w])'
  BY DEF Replaying
<1>1. Replaying /\ Owned /\ Types
  BY DEF Safe, RunInv
<1>2. /\ cstack' = cstack /\ task' = task /\ CBuf' = CBuf /\ CQIdx' = CQIdx /\ got' = got
  BY DEF Onward
<1>3. Running(w) => Replays(w)'
  <2> SUFFICES ASSUME Running(w) PROVE Replays(w)'
    OBVIOUS
  <2>1. Replays(w)
    BY <1>1 DEF Replaying
  <2>2. PICK s : s = task[w]
    OBVIOUS
  <2>3. s \in Slices /\ Given(s)
    BY <2>1, <2>2 DEF Replays
  <2>4. s \in Slices' /\ (s < slice' \/ (s = slice' /\ ~Filling'))
        /\ sent'[s] = sent[s] /\ trail'[s] = trail[s]
    BY <2>3 DEF Onward
  <2>5. CBuf[w] \in Bufs /\ CBuf[w] # p_queue_idx
    BY <1>1, WorkerType DEF Owned
  <2>6. queue'[CBuf[w]] = queue[CBuf[w]]
    BY <2>5 DEF Onward
  <2>7. EndAt' = EndAt
    BY PassDone DEF Onward
  <2>8. Given(s)'
    BY <2>4, GivenNow
  <2> QED
    BY <1>2, <2>1, <2>2, <2>4, <2>6, <2>7, <2>8, ReplaysKept
<1>4. Running(w)' = Running(w)
  BY <1>2 DEF Running
<1>5. /\ got[w] # << >> => task[w] \in Slices
      /\ task[w] \in Slices => Len(got[w]) <= Len(sent[task[w]])
      /\ ~Running(w) => CQIdx[w] = 0
      /\ \A i \in 1 .. Len(got[w]) :
           /\ got[w][i].item = sent[task[w]][i]
           /\ Meant(got[w][i]) /\ got[w][i].item.slice = task[w]
  BY <1>1 DEF Replaying
<1>6. got[w] # << >> => task[w] \in Slices'
  BY <1>5 DEF Onward
<1>7. task[w] \in Slices' => Len(got[w]) <= Len(sent'[task[w]])
  <2>1. Len(got[w]) \in Nat /\ (got[w] = << >> => Len(got[w]) = 0)
    BY <1>1, WorkerType
  <2>2. CASE task[w] \in Slices
    <3>1. PICK a \in Nat, n \in Nat : a = Len(sent[task[w]]) /\ n = Len(got[w])
      BY <1>1, <2>1, <2>2, SentType
    <3>2. n <= a /\ a <= Len(sent'[task[w]])
      BY <1>5, <2>2, <3>1 DEF Onward
    <3> QED
      BY <3>1, <3>2
  <2>3. CASE task[w] \notin Slices
    <3>1. Len(got[w]) = 0 /\ task[w] \in 0 .. slice
      BY <1>1, <1>5, <2>1, <2>3, WorkerType
    <3> QED
      BY <3>1
  <2> QED
    BY <2>2, <2>3
<1>8. ASSUME NEW i \in 1 .. Len(got[w])
      PROVE  /\ got[w][i].item = sent'[task[w]][i]
             /\ Meant(got[w][i])' /\ got[w][i].item.slice = task[w]
  <2>1. got[w] # << >>
    BY <1>1, WorkerType
  <2>2. task[w] \in Slices /\ Len(got[w]) <= Len(sent[task[w]])
    BY <1>5, <2>1
  <2>3. i \in 1 .. Len(sent[task[w]])
    BY <1>1, <2>2, SentType, WorkerType
  <2>4. sent'[task[w]][i] = sent[task[w]][i]
    BY <2>2, <2>3 DEF Onward
  <2> QED
    BY <1>2, <1>5, <2>4 DEF Meant
<1> QED
  BY <1>2, <1>3, <1>4, <1>5, <1>6, <1>7, <1>8

LEMMA QueuedKept ==
  ASSUME Safe, Onward, NEW j \in 1 .. Len(task_queue), NEW s, NEW b,
         s = task_queue[j].task, b = task_queue[j].buf
  PROVE  s \in Slices' /\ Given(s)' /\ Has(b, s)'
<1>2. s \in Slices /\ Given(s) /\ Has(b, s)
  BY DEF Safe, RunInv, Queued
<1>3. b \in Bufs
  <2>1. task_queue \in Seq([task : Nat, buf : Bufs])
    BY DEF Safe, RunInv, Types
  <2>2. task_queue[j] \in [task : Nat, buf : Bufs]
    BY <2>1, Element, Zenon
  <2> QED
    BY <2>2
<1>4. b # p_queue_idx
  BY DEF Safe, RunInv, Owned
<1>5. s \in Slices' /\ (s < slice' \/ (s = slice' /\ ~Filling'))
      /\ sent'[s] = sent[s] /\ queue'[b] = queue[b]
  BY <1>2, <1>3, <1>4 DEF Onward
<1>6. Given(s)' /\ Has(b, s)'
  BY <1>2, <1>5, GivenNow, HasKept
<1> QED
  BY <1>5, <1>6

-----------------------------------------------------------------------------
(* What is noted stays true of a slice that pushes more.                   *)
LEMMA LeadsKept ==
  ASSUME Safe, NEW s \in Slices, NEW x \in Points, NEW y \in Points, InSlice(x, s),
         Leads(s, x, y), passVars' = passVars, Len(sent[s]) <= Len(sent'[s]),
         Len(sent'[s]) \in Nat,
         \A i \in 1 .. Len(sent[s]) : sent'[s][i] = sent[s][i]
  PROVE  Leads(s, x, y)'
<1>1. body' = body /\ push' = push
  BY PassDone
<1>2. PICK a : a = x.at
  OBVIOUS
<1>3. /\ InFunction(a)' = InFunction(a) /\ AtEnd(a)' = AtEnd(a)
      /\ \A o : After(a, o)' = After(a, o)
  BY <1>1 DEF InFunction, AtEnd, Instr, After, Following
<1>4. x.n \in Nat /\ y.n \in Nat /\ Len(sent[s]) \in Nat /\ a \in Seq(Frames)
  BY <1>2, SentType DEF Safe, RunInv, Points
<1>5. CASE InFunction(a)
  <2>1. PICK p : p = push[Top(a).fn][Top(a).pos]
    OBVIOUS
  <2>2. p \in Seq(Kinds)
    <3>1. a # << >> /\ Top(a) = a[Len(a)] /\ Len(a) \in 1 .. Len(a)
      BY <1>4, <1>5 DEF InFunction, Top
    <3>2. Top(a) \in Frames
      BY <1>4, <3>1
    <3>3. Top(a).pos > 0
      <4>1. a[1].pos > 0 /\ \A j \in 2 .. Len(a) : a[j].pos > 0
        BY <1>2 DEF InSlice
      <4>2. Len(a) = 1 \/ Len(a) \in 2 .. Len(a)
        <5>1. Len(a) \in 1 .. Len(a) /\ Len(a) \in Nat
          BY <1>4, <3>1
        <5> QED
          BY ONLY <5>1, FirstOrLater
      <4> QED
        BY <3>1, <4>1, <4>2
    <3>4. Top(a).fn \in Funcs /\ Top(a).pos \in Nat \ {0}
      BY <3>2, <3>3 DEF Frames
    <3> QED
      BY <1>5, <2>1, <3>4, InstrAt
  <2>3. /\ ~AtEnd(a) /\ y.n = x.n + Len(p) /\ y.n <= Len(sent[s])
        /\ \E o \in BOOLEAN : Exchanged(s, a, x.n, o) /\ y.at = After(a, o)
    BY <1>2, <1>5, <2>1 DEF Leads
  <2>4. PICK o \in BOOLEAN : Exchanged(s, a, x.n, o) /\ y.at = After(a, o)
    BY <2>3
  <2>5. PICK n : n = x.n
    OBVIOUS
  <2>6. \A k \in 1 .. Len(p) : sent[s][n + k] = Item(s, Top(a).fn, Top(a).pos, p[k], o)
    BY <2>1, <2>4, <2>5 DEF Exchanged
  <2>7. \A k \in 1 .. Len(p) : n + k \in 1 .. Len(sent[s])
    <3>1. Len(p) \in Nat /\ n + Len(p) <= Len(sent[s]) /\ n \in Nat /\ Len(sent[s]) \in Nat
      BY <1>4, <2>2, <2>3, <2>5
    <3> QED
      BY ONLY <3>1
  <2>8. \A k \in 1 .. Len(p) : sent'[s][n + k] = Item(s, Top(a).fn, Top(a).pos, p[k], o)
    BY <2>6, <2>7
  <2>9. Exchanged(s, a, n, o)'
    BY <1>1, <2>1, <2>8 DEF Exchanged, Item, Top
  <2>10. y.n <= Len(sent'[s])
    BY <1>4, <2>3
  <2> QED
    BY <1>1, <1>2, <1>3, <1>5, <2>1, <2>3, <2>4, <2>5, <2>9, <2>10 DEF Leads
<1>6. CASE ~InFunction(a)
  BY <1>2, <1>3, <1>6 DEF Leads
<1> QED
  BY <1>5, <1>6

OnPath(a) ==
  /\ a # << >> /\ a[1].fn = "S" /\ 0 < a[1].pos /\ a[1].pos <= EndAt
  /\ \A j \in 2 .. Len(a) : a[j].fn = "F" /\ a[j].pos > 0

LEMMA InSliceKept ==
  ASSUME NEW s, NEW x, InSlice(x, s), EndAt' = EndAt, x.n \in Nat, Len(sent[s]) \in Nat,
         Len(sent'[s]) \in Nat, Len(sent[s]) <= Len(sent'[s])
  PROVE  InSlice(x, s)'
BY DEF InSlice

(* The pushes of one instruction.                                          *)
PushesOf(s, f, i, o) ==
  [k \in 1 .. Len(push[f][i]) |-> Item(s, f, i, push[f][i][k], o)]

LEMMA PushesType ==
  ASSUME NEW s \in 0 .. MaxSlices, NEW f \in Funcs, NEW i \in Nat, NEW o \in BOOLEAN,
         push[f][i] \in Seq(Kinds)
  PROVE  /\ PushesOf(s, f, i, o) \in Seq(Items)
         /\ Len(PushesOf(s, f, i, o)) = Len(push[f][i])
         /\ \A k \in 1 .. Len(push[f][i]) :
              PushesOf(s, f, i, o)[k] = Item(s, f, i, push[f][i][k], o)
<1>1. PICK p : p = push[f][i]
  OBVIOUS
<1>2. Len(p) \in Nat /\ \A k \in 1 .. Len(p) : p[k] \in Kinds
  BY <1>1
<1>3. \A k \in 1 .. Len(p) : Item(s, f, i, p[k], o) \in Items
  BY <1>2 DEF Item, Items
<1>4. PushesOf(s, f, i, o) = [k \in 1 .. Len(p) |-> Item(s, f, i, p[k], o)]
  BY <1>1 DEF PushesOf
<1> QED
  BY <1>1, <1>2, <1>3, <1>4

(* The next activation of a slice, and what is pushed on the way there.    *)
Onto(s, a, items) ==
  IF InFunction(pstack)
  THEN /\ Instr(pstack).op # "end"
       /\ \E o \in BOOLEAN : /\ items = PushesOf(s, Top(pstack).fn, Top(pstack).pos, o)
                             /\ a = After(Places(pstack), o)
  ELSE items = << >> /\ a = Pop(Places(pstack))

LEMMA OntoLeads ==
  ASSUME Safe, pstack # << >>, passVars' = passVars, NEW s \in Slices, NEW a, NEW items,
         Onto(s, a, items), sent'[s] = sent[s] \o items, NEW x, x = Point(pstack, sent[s]),
         NEW y, y = [at |-> a, n |-> Len(sent'[s])]
  PROVE  /\ Leads(s, x, y)' /\ items \in Seq(Items)
         /\ Len(sent'[s]) = Len(sent[s]) + Len(items) /\ sent'[s] \in Seq(Items)
         /\ \A i \in 1 .. Len(sent[s]) : sent'[s][i] = sent[s][i]
<1>1. body' = body /\ push' = push
  BY PassDone
<1>2. PICK c : c = Places(pstack)
  OBVIOUS
<1>3. /\ c # << >> /\ Top(c).fn = Top(pstack).fn /\ Top(c).pos = Top(pstack).pos
      /\ InFunction(c) = InFunction(pstack) /\ Instr(c) = Instr(pstack)
  BY <1>2, ProgramAt, PlacesTop
<1>4. /\ InFunction(c)' = InFunction(c) /\ AtEnd(c)' = AtEnd(c)
      /\ \A o : After(c, o)' = After(c, o)
  BY <1>1 DEF InFunction, AtEnd, Instr, After, Following
<1>5. PICK l : l = sent[s]
  OBVIOUS
<1>6. l \in Seq(Items) /\ Len(l) \in Nat
  BY <1>5, SentType DEF Safe, RunInv
<1>7. x.at = c /\ x.n = Len(l) /\ y.at = a /\ y.n = Len(sent'[s])
  BY <1>2, <1>5 DEF Point
<1>8. CASE InFunction(pstack)
  <2>1. PICK o \in BOOLEAN : /\ items = PushesOf(s, Top(pstack).fn, Top(pstack).pos, o)
                             /\ a = After(c, o)
    BY <1>2, <1>8 DEF Onto
  <2>2. Instr(pstack).op # "end"
    BY <1>8 DEF Onto
  <2>3. PICK f, i : f = Top(pstack).fn /\ i = Top(pstack).pos
    OBVIOUS
  <2>4. f \in Funcs /\ i \in Nat \ {0} /\ i \in Nat
    BY <2>3, ProgramAt DEF Activations
  <2>5. push[f][i] \in Seq(Kinds)
    BY <1>8, <2>3, <2>4, InstrAt
  <2>6. s \in 0 .. MaxSlices
    <3>1. s \in 1 .. slice /\ slice \in 0 .. MaxSlices
      BY DEF Slices, Safe, RunInv, Types
    <3> QED
      BY <3>1, Sizes
  <2>7. PICK p : p = push[f][i]
    OBVIOUS
  <2>8. /\ items \in Seq(Items) /\ Len(items) = Len(p)
        /\ \A k \in 1 .. Len(p) : items[k] = Item(s, f, i, p[k], o)
    BY <2>1, <2>3, <2>4, <2>5, <2>6, <2>7, PushesType
  <2>9. /\ sent'[s] \in Seq(Items) /\ Len(sent'[s]) = Len(l) + Len(items)
        /\ \A k \in 1 .. Len(l) + Len(items) :
             sent'[s][k] = IF k <= Len(l) THEN l[k] ELSE items[k - Len(l)]
    <3>1. sent'[s] = l \o items
      BY <1>5
    <3>2. /\ l \o items \in Seq(Items) /\ Len(l \o items) = Len(l) + Len(items)
          /\ \A k \in 1 .. Len(l) + Len(items) :
               (l \o items)[k] = IF k <= Len(l) THEN l[k] ELSE items[k - Len(l)]
      BY ONLY <1>6, <2>8, ConcatProperties
    <3> QED
      BY ONLY <3>1, <3>2
  <2>10. Len(p) \in Nat
    BY <2>5, <2>7
  <2>11. ASSUME NEW k \in 1 .. Len(p)
         PROVE  sent'[s][Len(l) + k] = Item(s, f, i, p[k], o)
    <3>1. PICK m : m = Len(l) + k
      OBVIOUS
    <3>2. m \in 1 .. Len(l) + Len(items) /\ ~(m <= Len(l)) /\ m - Len(l) = k
      BY <1>6, <2>8, <2>10, <3>1
    <3>3. sent'[s][m] = IF m <= Len(l) THEN l[m] ELSE items[m - Len(l)]
      BY ONLY <2>9, <3>2
    <3>4. sent'[s][m] = items[k]
      BY ONLY <3>2, <3>3
    <3> QED
      BY <2>8, <3>1, <3>4
  <2>12. Exchanged(s, c, Len(l), o)'
    BY <1>1, <1>3, <2>3, <2>7, <2>11 DEF Exchanged, Item, Top
  <2>13. Leads(s, x, y)'
    <3>1. ~AtEnd(c)
      BY <1>3, <2>2 DEF AtEnd
    <3>2. y.n = x.n + Len(push[Top(c).fn][Top(c).pos]) /\ y.n <= Len(sent'[s])
      BY <1>3, <1>6, <1>7, <2>3, <2>7, <2>8, <2>9, <2>10
    <3> QED
      BY <1>1, <1>3, <1>4, <1>7, <1>8, <2>1, <2>12, <3>1, <3>2 DEF Leads, Top
  <2>14. \A k \in 1 .. Len(l) : sent'[s][k] = l[k]
    <3> SUFFICES ASSUME NEW k \in 1 .. Len(l) PROVE sent'[s][k] = l[k]
      OBVIOUS
    <3>1. k \in 1 .. Len(l) + Len(items) /\ k <= Len(l)
      BY <1>6, <2>8, <2>10
    <3>2. sent'[s][k] = IF k <= Len(l) THEN l[k] ELSE items[k - Len(l)]
      BY ONLY <2>9, <3>1
    <3> QED
      BY ONLY <3>1, <3>2
  <2> QED
    BY <1>5, <2>8, <2>9, <2>13, <2>14
<1>9. CASE ~InFunction(pstack)
  <2>1. items = << >> /\ a = Pop(c)
    BY <1>2, <1>9 DEF Onto
  <2>2. sent'[s] = l /\ items \in Seq(Items) /\ Len(items) = 0
    BY <1>5, <1>6, <2>1
  <2>3. Pop(c)' = Pop(c)
    BY DEF Pop
  <2> QED
    BY <1>3, <1>4, <1>5, <1>6, <1>7, <1>9, <2>1, <2>2, <2>3 DEF Leads
<1> QED
  BY <1>8, <1>9

(* A step of a slice under way.                                            *)
Grows(s, a, items) ==
  /\ Filling /\ Filling' /\ passVars' = passVars /\ slice' = slice /\ s = slice
  /\ UNCHANGED <<cstack, task, CBuf, CQIdx, got>>
  /\ sent' = [sent EXCEPT ![slice] = @ \o items]
  /\ trail' = [trail EXCEPT ![slice] = Append(@, [at |-> a, n |-> Len(sent'[slice])])]
  /\ a \in Seq(Frames) /\ OnPath(a) /\ Onto(s, a, items)
  /\ \A b \in Bufs : b # p_queue_idx => queue'[b] = queue[b]

LEMMA GrowsOnly ==
  ASSUME Safe, pstack # << >>, NEW s, NEW a, NEW items, Grows(s, a, items)
  PROVE  /\ s \in Slices /\ Slices' = Slices
         /\ sent \in Seq(Seq(Items)) /\ trail \in Seq(Seq(Points))
         /\ Len(sent) = slice /\ Len(trail) = slice
         /\ sent'[s] = sent[s] \o items
         /\ trail'[s] = Append(trail[s], [at |-> a, n |-> Len(sent'[s])])
         /\ \A r \in Slices : r # s => sent'[r] = sent[r] /\ trail'[r] = trail[r]
<1>1. /\ sent \in Seq(Seq(Items)) /\ trail \in Seq(Seq(Points))
      /\ Len(sent) = slice /\ Len(trail) = slice
  BY DEF Safe, RunInv, Types
<1>2. slice \in Slices /\ s = slice /\ slice' = slice
  BY ProgramAt DEF Grows
<1>3. DOMAIN sent = Slices /\ DOMAIN trail = Slices
  BY <1>1 DEF Slices
<1>4. /\ sent' = [sent EXCEPT ![s] = @ \o items]
      /\ trail' = [trail EXCEPT ![s] = Append(@, [at |-> a, n |-> Len(sent'[s])])]
  BY <1>2 DEF Grows
<1>5. sent'[s] = sent[s] \o items /\ \A r \in Slices : r # s => sent'[r] = sent[r]
  BY <1>2, <1>3, <1>4
<1>6. PICK y : y = [at |-> a, n |-> Len(sent'[s])]
  OBVIOUS
<1>7. /\ trail'[s] = Append(trail[s], y)
      /\ \A r \in Slices : r # s => trail'[r] = trail[r]
  BY <1>2, <1>3, <1>4, <1>6
<1> QED
  BY <1>1, <1>2, <1>5, <1>6, <1>7 DEF Slices

LEMMA GrowsRecorded ==
  ASSUME Safe, pstack # << >>, NEW s, NEW a, NEW items, Grows(s, a, items)
  PROVE  /\ Recorded' /\ Onward /\ items \in Seq(Items)
         /\ sent' \in Seq(Seq(Items)) /\ trail' \in Seq(Seq(Points))
         /\ Len(sent') = slice' /\ Len(trail') = slice'
         /\ Len(sent'[s]) = Len(sent[s]) + Len(items)
         /\ trail'[s] # << >> /\ trail'[s][Len(trail'[s])] = [at |-> a, n |-> Len(sent'[s])]
<1>1. /\ s \in Slices /\ Slices' = Slices
      /\ sent \in Seq(Seq(Items)) /\ trail \in Seq(Seq(Points))
      /\ Len(sent) = slice /\ Len(trail) = slice
      /\ sent'[s] = sent[s] \o items
      /\ trail'[s] = Append(trail[s], [at |-> a, n |-> Len(sent'[s])])
      /\ \A r \in Slices : r # s => sent'[r] = sent[r] /\ trail'[r] = trail[r]
  BY GrowsOnly
<1>2. /\ Filling /\ Filling' /\ passVars' = passVars /\ slice' = slice /\ s = slice
      /\ UNCHANGED <<cstack, task, CBuf, CQIdx, got>>
      /\ a \in Seq(Frames) /\ OnPath(a) /\ Onto(s, a, items)
      /\ \A b \in Bufs : b # p_queue_idx => queue'[b] = queue[b]
  BY DEF Grows
<1>3. /\ Types /\ Recorded /\ slice \in Nat /\ EndAt' = EndAt
  BY <1>2, ProgramAt, PassDone DEF Safe, RunInv
<1>4. PICK x : x = Point(pstack, sent[s])
  OBVIOUS
<1>5. PICK y : y = [at |-> a, n |-> Len(sent'[s])]
  OBVIOUS
<1>6. /\ Leads(s, x, y)' /\ items \in Seq(Items)
      /\ Len(sent'[s]) = Len(sent[s]) + Len(items) /\ sent'[s] \in Seq(Items)
      /\ \A i \in 1 .. Len(sent[s]) : sent'[s][i] = sent[s][i]
  BY <1>1, <1>2, <1>4, <1>5, OntoLeads
<1>7. /\ Len(sent[s]) \in Nat /\ Len(sent'[s]) \in Nat /\ Len(sent[s]) <= Len(sent'[s])
      /\ trail[s] \in Seq(Points) /\ Len(trail[s]) \in Nat
  BY <1>1, <1>3, <1>6, SentType
<1>8. trail[s] # << >> /\ trail[s][Len(trail[s])] = x
  <2>1. Filled
    BY DEF Safe, RunInv
  <2> QED
    BY <1>2, <1>4, <2>1 DEF Filled
<1>9. y \in Points /\ y.at = a /\ y.n = Len(sent'[s])
  BY <1>2, <1>5, <1>7 DEF Points
<1>10. /\ trail'[s] \in Seq(Points) /\ trail'[s] # << >>
       /\ Len(trail'[s]) = Len(trail[s]) + 1 /\ trail'[s][Len(trail[s]) + 1] = y
       /\ \A k \in 1 .. Len(trail[s]) : trail'[s][k] = trail[s][k]
  <2>1. trail'[s] = Append(trail[s], y)
    BY <1>1, <1>5
  <2>2. PICK t : t = trail[s]
    OBVIOUS
  <2>3. /\ Append(t, y) \in Seq(Points) /\ Append(t, y) # << >>
        /\ Len(Append(t, y)) = Len(t) + 1 /\ Append(t, y)[Len(t) + 1] = y
        /\ \A k \in 1 .. Len(t) : Append(t, y)[k] = t[k]
    <3>1. t \in Seq(Points) /\ y \in Points
      BY <1>7, <1>9, <2>2
    <3> QED
      BY ONLY <3>1, AppendProperties
  <2> QED
    BY ONLY <2>1, <2>2, <2>3
<1>11. InSlice(y, s)'
  BY <1>2, <1>3, <1>7, <1>9 DEF OnPath, InSlice
<1>12. ~Given(s)'
  BY <1>2, <1>3 DEF Given
<1>13. ASSUME NEW r \in Slices
       PROVE  /\ Len(sent[r]) <= Len(sent'[r]) /\ Len(sent[r]) \in Nat /\ Len(sent'[r]) \in Nat
              /\ \A i \in 1 .. Len(sent[r]) : sent'[r][i] = sent[r][i]
              /\ \A k \in 1 .. Len(trail[r]) :
                   trail'[r][k] = trail[r][k] /\ InSlice(trail[r][k], r)'
              /\ \A k \in 1 .. Len(trail[r]) - 1 :
                   /\ k \in 1 .. Len(trail[r]) /\ k + 1 \in 1 .. Len(trail[r])
                   /\ Leads(r, trail[r][k], trail[r][k + 1])'
  <2>1. /\ Len(sent[r]) <= Len(sent'[r]) /\ Len(sent[r]) \in Nat /\ Len(sent'[r]) \in Nat
        /\ \A i \in 1 .. Len(sent[r]) : sent'[r][i] = sent[r][i]
        /\ \A k \in 1 .. Len(trail[r]) : trail'[r][k] = trail[r][k]
    <3>1. CASE r = s
      BY <1>6, <1>7, <1>10, <3>1
    <3>2. CASE r # s
      <4>1. Len(sent[r]) \in Nat
        BY <1>3, SentType
      <4> QED
        BY <1>1, <3>2, <4>1
    <3> QED
      BY <3>1, <3>2
  <2>2. /\ \A k \in 1 .. Len(trail[r]) : InSlice(trail[r][k], r)
        /\ \A k \in 1 .. Len(trail[r]) - 1 : Leads(r, trail[r][k], trail[r][k + 1])
    BY <1>3 DEF Recorded, RecordedAt
  <2>3. /\ Len(trail[r]) \in Nat
        /\ \A k \in 1 .. Len(trail[r]) : trail[r][k] \in Points /\ trail[r][k].n \in Nat
    BY <1>3, SentType
  <2>4. ASSUME NEW k \in 1 .. Len(trail[r]) PROVE InSlice(trail[r][k], r)'
    <3>1. PICK z : z = trail[r][k]
      OBVIOUS
    <3>2. InSlice(z, r) /\ z.n \in Nat
      BY <2>2, <2>3, <3>1
    <3>3. InSlice(z, r)'
      BY <1>3, <2>1, <3>2, InSliceKept
    <3>4. trail'[r][k] = z
      BY <2>1, <3>1
    <3> QED
      BY <3>3, <3>4
  <2>5. ASSUME NEW k \in 1 .. Len(trail[r]) - 1
        PROVE  /\ k \in 1 .. Len(trail[r]) /\ k + 1 \in 1 .. Len(trail[r])
               /\ Leads(r, trail[r][k], trail[r][k + 1])'
    <3>1. k \in 1 .. Len(trail[r]) /\ k + 1 \in 1 .. Len(trail[r])
      BY <2>3
    <3>2. PICK z, u : z = trail[r][k] /\ u = trail[r][k + 1]
      OBVIOUS
    <3>3. z \in Points /\ u \in Points /\ InSlice(z, r) /\ Leads(r, z, u)
      BY <2>2, <2>3, <3>1, <3>2
    <3>4. Leads(r, z, u)'
      BY <1>2, <2>1, <3>3, LeadsKept
    <3>5. trail'[r][k] = z /\ trail'[r][k + 1] = u
      BY <2>1, <3>1, <3>2
    <3> QED
      BY <3>1, <3>4, <3>5
  <2> QED
    BY <2>1, <2>4, <2>5
<1>14. ASSUME NEW r \in Slices PROVE RecordedAt(r)'
  <2>1. /\ trail[r] # << >> /\ trail[r][1] = [at |-> <<Frame("S")>>, n |-> 0]
        /\ Given(r) => LET z == trail[r][Len(trail[r])] IN AtEnd(z.at) /\ z.n = Len(sent[r])
        /\ Len(trail[r]) \in Nat /\ trail[r] \in Seq(Points)
    BY <1>3, SentType DEF Recorded, RecordedAt
  <2>2. 1 \in 1 .. Len(trail[r])
    BY <2>1
  <2>3. trail'[r][1] = [at |-> <<Frame("S")>>, n |-> 0]
    BY <1>13, <2>1, <2>2
  <2>4. CASE r = s
    <3>1. ASSUME NEW k \in 1 .. Len(trail'[s]) PROVE InSlice(trail[s][k], s)'
      <4>1. CASE k \in 1 .. Len(trail[s])
        BY <1>13, <2>4, <4>1
      <4>2. CASE k \notin 1 .. Len(trail[s])
        <5>1. k = Len(trail[s]) + 1
          BY <1>7, <1>10, <4>2
        <5> QED
          BY <1>10, <1>11, <5>1
      <4> QED
        BY <4>1, <4>2
    <3>2. ASSUME NEW k \in 1 .. Len(trail'[s]) - 1
          PROVE  Leads(s, trail[s][k], trail[s][k + 1])'
      <4>1. CASE k \in 1 .. Len(trail[s]) - 1
        BY <1>13, <2>4, <4>1
      <4>2. CASE k \notin 1 .. Len(trail[s]) - 1
        <5>1. k = Len(trail[s]) /\ k \in 1 .. Len(trail[s])
          BY <1>7, <1>10, <4>2
        <5>2. trail'[s][k] = x /\ trail'[s][k + 1] = y
          BY <1>8, <1>10, <5>1
        <5> QED
          BY <1>6, <5>2
      <4> QED
        BY <4>1, <4>2
    <3> QED
      BY <1>10, <1>12, <2>3, <2>4, <3>1, <3>2 DEF Frame, RecordedAt
  <2>5. CASE r # s
    <3>1. trail'[r] = trail[r] /\ sent'[r] = sent[r]
      BY <1>1, <2>5
    <3>2. Given(r)' => Given(r)
      BY <1>2, <2>5 DEF Given
    <3>3. PICK z : z = trail[r][Len(trail[r])]
      OBVIOUS
    <3>4. Given(r)' => AtEnd(z.at)' /\ z.n = Len(sent'[r])
      <4>1. body' = body
        BY <1>2, PassDone
      <4>2. AtEnd(z.at)' = AtEnd(z.at)
        BY <4>1 DEF AtEnd, InFunction, Instr
      <4>3. Given(r) => AtEnd(z.at) /\ z.n = Len(sent[r])
        BY <2>1, <3>3
      <4> QED
        BY <3>1, <3>2, <4>2, <4>3
    <3>5. trail'[r] # << >>
      BY <2>1, <3>1
    <3>6. /\ \A k \in 1 .. Len(trail'[r]) : InSlice(trail[r][k], r)'
          /\ \A k \in 1 .. Len(trail'[r]) - 1 : Leads(r, trail[r][k], trail[r][k + 1])'
      BY <1>13, <3>1
    <3>7. z = trail'[r][Len(trail'[r])]
      BY <3>1, <3>3
    <3> QED
      BY <2>3, <3>4, <3>5, <3>6, <3>7 DEF Frame, RecordedAt
  <2> QED
    BY <2>4, <2>5
<1>15. Recorded'
  BY <1>1, <1>14 DEF Recorded
<1>16. Onward
  <2>1. ASSUME NEW r \in Slices, Given(r)
        PROVE  /\ r < slice' \/ (r = slice' /\ ~Filling')
               /\ sent'[r] = sent[r] /\ trail'[r] = trail[r]
    <3>1. r < slice /\ r # s
      BY <1>2, <1>3, <2>1 DEF Given
    <3> QED
      BY <1>1, <1>2, <3>1
  <2>2. \A r \in Slices : r \in Slices' /\ Len(sent[r]) <= Len(sent'[r])
    BY <1>1, <1>13
  <2>3. \A r \in Slices : \A i \in 1 .. Len(sent[r]) : sent'[r][i] = sent[r][i]
    BY <1>13
  <2> QED
    BY <1>2, <2>1, <2>2, <2>3 DEF Onward
<1>17. sent' \in Seq(Seq(Items)) /\ Len(sent') = slice'
  <2>1. PICK l : l = sent'[s]
    OBVIOUS
  <2>2. sent' = [sent EXCEPT ![s] = l]
    BY <1>1, <2>1 DEF Grows
  <2>3. l \in Seq(Items) /\ s \in 1 .. Len(sent)
    BY <1>1, <1>6, <2>1 DEF Slices
  <2> QED
    BY <1>1, <1>2, <2>2, <2>3, ExceptSeq
<1>18. trail' \in Seq(Seq(Points)) /\ Len(trail') = slice'
  <2>1. PICK l : l = trail'[s]
    OBVIOUS
  <2>2. trail' = [trail EXCEPT ![s] = l]
    BY <1>1, <2>1 DEF Grows
  <2>3. l \in Seq(Points) /\ s \in 1 .. Len(trail)
    BY <1>1, <1>10, <2>1 DEF Slices
  <2> QED
    BY <1>1, <1>2, <2>2, <2>3, ExceptSeq
<1>19. trail'[s][Len(trail'[s])] = y
  BY <1>10
<1> QED
  BY <1>5, <1>6, <1>10, <1>15, <1>16, <1>17, <1>18, <1>19

-----------------------------------------------------------------------------
(* The buffer takes what is pushed.                                        *)
LEMMA PushFills ==
  ASSUME Safe, Filling, NEW items \in Seq(Items), Push(items)
  PROVE  /\ queue' \in [Bufs -> [0 .. BufSize - 1 -> Items]]
         /\ \A b \in Bufs : b # p_queue_idx => queue'[b] = queue[b]
         /\ QIdx' \in 0 .. BufSize /\ QIdx' = Len(sent[slice] \o items)
         /\ Len(sent[slice] \o items) <= BufSize
         /\ \A i \in 1 .. Len(sent[slice] \o items) :
              queue'[p_queue_idx][i - 1] = (sent[slice] \o items)[i]
         /\ sent' = [sent EXCEPT ![slice] = @ \o items]
<1>1. /\ pstack # << >> /\ slice \in Slices /\ ~Ended
  BY ProgramAt DEF Filling
<1>2. PICK b : b = p_queue_idx
  OBVIOUS
<1>3. b \in Bufs /\ CurIndex = b /\ QIdx = Len(sent[slice]) /\ Has(b, slice)
  BY <1>2 DEF Safe, RunInv, Producing, Filled, Types
<1>4. PICK l : l = sent[slice]
  OBVIOUS
<1>5. l \in Seq(Items) /\ Len(l) \in Nat /\ Len(items) \in Nat
  BY <1>1, <1>4, SentType DEF Safe, RunInv
<1>6. /\ l \o items \in Seq(Items) /\ Len(l \o items) = Len(l) + Len(items)
      /\ \A k \in 1 .. Len(l) + Len(items) :
           (l \o items)[k] = IF k <= Len(l) THEN l[k] ELSE items[k - Len(l)]
  BY ONLY <1>5, items \in Seq(Items), ConcatProperties
<1>7. Len(l) + Len(items) <= BufSize /\ QIdx' = Len(l) + Len(items)
  BY <1>3, <1>4 DEF Push
<1>8. sent' = [sent EXCEPT ![slice] = @ \o items]
  BY <1>1 DEF Push
<1>9. PICK q : q = queue[b]
  OBVIOUS
<1>10. q \in [0 .. BufSize - 1 -> Items] /\ queue \in [Bufs -> [0 .. BufSize - 1 -> Items]]
  BY <1>3, <1>9 DEF Safe, RunInv, Types
<1>11. PICK r : r = IF items = << >> THEN q
                    ELSE [i \in 0 .. BufSize - 1 |->
                            IF i \in Len(l) .. Len(l) + Len(items) - 1
                            THEN items[i - Len(l) + 1] ELSE q[i]]
  OBVIOUS
<1>12. queue' = [queue EXCEPT ![b] = r]
  <2>1. CASE items = << >>
    <3>1. queue' = queue /\ r = queue[b]
      BY <1>9, <1>11, <2>1 DEF Push
    <3> QED
      BY <1>3, <1>10, <3>1
  <2>2. CASE items # << >>
    <3>1. queue' = [queue EXCEPT ![b] = [i \in DOMAIN queue[b] |->
                      IF i \in QIdx .. QIdx + Len(items) - 1
                      THEN items[i - QIdx + 1] ELSE queue[b][i]]]
      BY <1>3, <2>2 DEF Push
    <3>2. DOMAIN queue[b] = 0 .. BufSize - 1 /\ QIdx = Len(l)
      BY <1>3, <1>4, <1>9, <1>10
    <3> QED
      BY <1>9, <1>11, <2>2, <3>1, <3>2
  <2> QED
    BY <2>1, <2>2
<1>13. /\ r \in [0 .. BufSize - 1 -> Items]
       /\ \A i \in 1 .. Len(l) + Len(items) : r[i - 1] = (l \o items)[i]
  <2>1. \A i \in 1 .. Len(l) : q[i - 1] = l[i]
    BY <1>3, <1>4, <1>9 DEF Has
  <2>2. CASE items = << >>
    <3>1. Len(items) = 0 /\ r = q
      BY <1>11, <2>2
    <3>2. ASSUME NEW i \in 1 .. Len(l) + Len(items) PROVE r[i - 1] = (l \o items)[i]
      <4>1. i \in 1 .. Len(l) /\ i <= Len(l)
        BY <1>5, <3>1
      <4>2. (l \o items)[i] = l[i]
        BY <1>6, <4>1
      <4> QED
        BY <2>1, <3>1, <4>1, <4>2
    <3> QED
      BY <1>10, <3>1, <3>2
  <2>3. CASE items # << >>
    <3>1. r = [i \in 0 .. BufSize - 1 |-> IF i \in Len(l) .. Len(l) + Len(items) - 1
                                          THEN items[i - Len(l) + 1] ELSE q[i]]
      BY <1>11, <2>3
    <3>2. ASSUME NEW i \in 0 .. BufSize - 1
          PROVE  r[i] \in Items
      <4>1. r[i] = IF i \in Len(l) .. Len(l) + Len(items) - 1
                   THEN items[i - Len(l) + 1] ELSE q[i]
        BY <3>1
      <4>2. i \in Len(l) .. Len(l) + Len(items) - 1 => i - Len(l) + 1 \in 1 .. Len(items)
        BY <1>5
      <4>3. \A k \in 1 .. Len(items) : items[k] \in Items
        OBVIOUS
      <4>4. q[i] \in Items
        BY <1>10
      <4> QED
        BY <4>1, <4>2, <4>3, <4>4
    <3>3. ASSUME NEW i \in 1 .. Len(l) + Len(items) PROVE r[i - 1] = (l \o items)[i]
      <4>1. PICK m : m = i - 1
        OBVIOUS
      <4>2. m \in 0 .. BufSize - 1
        BY <1>5, <1>7, <4>1, Sizes
      <4>3. r[m] = IF m \in Len(l) .. Len(l) + Len(items) - 1
                   THEN items[m - Len(l) + 1] ELSE q[m]
        BY <3>1, <4>2
      <4>4. (l \o items)[i] = IF i <= Len(l) THEN l[i] ELSE items[i - Len(l)]
        BY <1>6
      <4>5. CASE i <= Len(l)
        <5>1. i \in 1 .. Len(l) /\ m \notin Len(l) .. Len(l) + Len(items) - 1
          BY <1>5, <4>1, <4>5
        <5>2. q[m] = l[i]
          BY <2>1, <4>1, <5>1
        <5> QED
          BY <4>1, <4>3, <4>4, <4>5, <5>1, <5>2
      <4>6. CASE ~(i <= Len(l))
        <5>1. m \in Len(l) .. Len(l) + Len(items) - 1 /\ m - Len(l) + 1 = i - Len(l)
          BY <1>5, <4>1, <4>6
        <5> QED
          BY <4>1, <4>3, <4>4, <4>6, <5>1
      <4> QED
        BY <4>5, <4>6
    <3>4. r \in [0 .. BufSize - 1 -> Items]
      BY <3>1, <3>2
    <3> QED
      BY <3>3, <3>4
  <2> QED
    BY <2>2, <2>3
<1>14. queue' \in [Bufs -> [0 .. BufSize - 1 -> Items]] /\ queue'[b] = r
       /\ \A c \in Bufs : c # b => queue'[c] = queue[c]
  BY <1>3, <1>10, <1>12, <1>13
<1>15. QIdx' \in 0 .. BufSize
  BY <1>5, <1>7, Sizes
<1> QED
  BY <1>2, <1>4, <1>6, <1>7, <1>8, <1>13, <1>14, <1>15

LEMMA GrowingKeeps ==
  ASSUME Safe, pstack # << >>, NEW s, NEW a, NEW items, Grows(s, a, items),
         UNCHANGED <<empty_list, task_queue, p_queue_idx>>, CurIndex' = p_queue_idx,
         pstack' \in Seq(Activations), pstack' # << >>, Places(pstack') = a,
         \A j \in 2 .. Len(pstack') : pstack'[j].flag /\ StartAt < pstack'[1].pos,
         SliceFlag' \in BOOLEAN, SliceFlag' <=> StartAt < pstack'[1].pos,
         queue' \in [Bufs -> [0 .. BufSize - 1 -> Items]],
         QIdx' \in 0 .. BufSize, QIdx' = Len(sent'[s]), Len(sent'[s]) <= BufSize,
         \A i \in 1 .. Len(sent'[s]) : queue'[p_queue_idx][i - 1] = sent'[s][i]
  PROVE  RunInv'
<1>1. /\ Recorded' /\ Onward
      /\ sent' \in Seq(Seq(Items)) /\ trail' \in Seq(Seq(Points))
      /\ Len(sent') = slice' /\ Len(trail') = slice'
      /\ trail'[s] # << >> /\ trail'[s][Len(trail'[s])] = [at |-> a, n |-> Len(sent'[s])]
  BY GrowsRecorded
<1>2. /\ Filling /\ Filling' /\ passVars' = passVars /\ slice' = slice /\ s = slice
      /\ UNCHANGED <<cstack, task, CBuf, CQIdx, got>> /\ OnPath(a)
  BY DEF Grows
<1>3. StartAt' = StartAt /\ EndAt' = EndAt
  BY <1>2, PassDone
<1>4. Types /\ Owned /\ Producing /\ Queued
  BY DEF Safe, RunInv
<1>5. p_queue_idx \in Bufs /\ p_queue_idx # NoBuf /\ slice > 0
  BY <1>2, <1>4 DEF Producing, Types, Filling
<1>6. Types'
  <2>1. CurIndex' \in Bufs \cup {NoBuf}
    BY <1>5
  <2> QED
    BY <1>1, <1>2, <1>4, <2>1 DEF Types
<1>7. Owned'
  BY <1>2, <1>4 DEF Owned, Running
<1>8. /\ Len(pstack') \in Nat \ {0} /\ 1 \in 1 .. Len(pstack') /\ Len(a) = Len(pstack')
      /\ \A j \in 1 .. Len(pstack') : a[j] = [fn |-> pstack'[j].fn, pos |-> pstack'[j].pos]
  <2>1. PICK q : q = pstack'
    OBVIOUS
  <2>2. q \in Seq(Activations) /\ q # << >> /\ Places(q) = a
    BY <2>1
  <2>3. /\ Len(Places(q)) = Len(q) /\ Len(q) \in Nat
        /\ \A j \in 1 .. Len(q) : Places(q)[j] = [fn |-> q[j].fn, pos |-> q[j].pos]
    BY <2>2, PlacesOf
  <2>4. Len(q) # 0
    BY <2>2
  <2> QED
    BY <2>1, <2>2, <2>3, <2>4
<1>9. pstack'[1].fn = "S" /\ pstack'[1].pos > 0
  <2>1. a[1].fn = "S" /\ 0 < a[1].pos
    BY <1>2 DEF OnPath
  <2>2. a[1] = [fn |-> pstack'[1].fn, pos |-> pstack'[1].pos]
    BY ONLY <1>8
  <2> QED
    BY <2>1, <2>2
<1>10. ASSUME NEW j \in 2 .. Len(pstack')
       PROVE  pstack'[j].fn = "F" /\ pstack'[j].pos > 0
  <2>1. j \in 1 .. Len(pstack')
    BY <1>8
  <2>2. a[j].fn = "F" /\ a[j].pos > 0
    BY <1>2, <1>8 DEF OnPath
  <2>3. a[j] = [fn |-> pstack'[j].fn, pos |-> pstack'[j].pos]
    BY ONLY <1>8, <2>1
  <2> QED
    BY <2>2, <2>3
<1>11. Producing'
  BY <1>2, <1>3, <1>5, <1>9, <1>10 DEF Producing
<1>12. Filled'
  <2>1. Has(p_queue_idx, slice)'
    BY <1>2 DEF Has
  <2>2. Point(pstack, sent[slice])' = [at |-> a, n |-> Len(sent'[s])]
    BY <1>2 DEF Point, Places
  <2> QED
    BY <1>1, <1>2, <2>1, <2>2 DEF Filled
<1>13. Queued'
  <2>1. ASSUME NEW j \in 1 .. Len(task_queue')
        PROVE  (LET t == task_queue[j]
                IN  t.task \in Slices /\ Given(t.task) /\ Has(t.buf, t.task))'
    <3>1. PICK r, b : r = task_queue[j].task /\ b = task_queue[j].buf
      OBVIOUS
    <3>2. r \in Slices' /\ Given(r)' /\ Has(b, r)'
      BY <1>1, <3>1, QueuedKept
    <3>3. r = task_queue'[j].task /\ b = task_queue'[j].buf
      BY <3>1
    <3> QED
      BY <3>2, <3>3
  <2> QED
    BY <2>1 DEF Queued
<1>14. Replaying'
  BY <1>1, ReplayingKept
<1> QED
  BY <1>1, <1>6, <1>7, <1>11, <1>12, <1>13, <1>14 DEF RunInv

-----------------------------------------------------------------------------
(* The steps of the program.                                               *)
LEMMA OnPathPlaces ==
  ASSUME NEW q \in Seq(Activations), q # << >>, q[1].fn = "S", 0 < q[1].pos,
         q[1].pos <= EndAt, \A j \in 2 .. Len(q) : q[j].fn = "F" /\ q[j].pos > 0
  PROVE  OnPath(Places(q)) /\ Places(q) \in Seq(Frames)
<1>1. /\ Places(q) \in Seq(Frames) /\ Len(Places(q)) = Len(q) /\ Len(q) \in Nat
      /\ \A j \in 1 .. Len(q) : Places(q)[j] = [fn |-> q[j].fn, pos |-> q[j].pos]
  BY PlacesOf
<1>2. 1 \in 1 .. Len(q) /\ Places(q) # << >>
  BY <1>1, PlacesTop
<1>3. Places(q)[1] = [fn |-> q[1].fn, pos |-> q[1].pos]
  BY <1>1, <1>2
<1>4. ASSUME NEW j \in 2 .. Len(Places(q))
      PROVE  Places(q)[j].fn = "F" /\ Places(q)[j].pos > 0
  <2>1. j \in 2 .. Len(q) /\ j \in 1 .. Len(q)
    BY <1>1
  <2>2. Places(q)[j] = [fn |-> q[j].fn, pos |-> q[j].pos]
    BY <1>1, <2>1
  <2> QED
    BY <2>1, <2>2
<1> QED
  BY <1>1, <1>2, <1>3, <1>4 DEF OnPath

LEMMA Pushing ==
  ASSUME Safe, InFunction(pstack), NEW o, pstack[1].pos <= EndAt
  PROVE  Values(o) = PushesOf(slice, Top(pstack).fn, Top(pstack).pos, o)
<1>1. pstack # << >>
  BY DEF InFunction
<1>2. untested = {"S"}
  BY Ready DEF Safe
<1>3. Top(pstack).fn \in untested \/ Top(pstack).flag
  <2>1. /\ Len(pstack) \in Nat /\ Len(pstack) \in 1 .. Len(pstack)
        /\ Top(pstack) = pstack[Len(pstack)] /\ pstack[1].fn = "S"
        /\ \A j \in 2 .. Len(pstack) : pstack[j].flag
    BY <1>1, ProgramAt
  <2>2. Len(pstack) = 1 \/ Len(pstack) \in 2 .. Len(pstack)
    BY ONLY <2>1, FirstOrLater
  <2> QED
    BY <1>2, <2>1, <2>2
<1> QED
  BY <1>3 DEF Values, PushesOf

LEMMA StepOn ==
  ASSUME Safe, NEW o \in BOOLEAN, Step(o), Filling PROVE RunInv'
<1>1. /\ InFunction(pstack) /\ Instr(pstack).op \notin {"start", "end", "call", "icall"}
      /\ pstack # << >> /\ Push(Values(o)) /\ Note
      /\ pstack' = [Following(pstack, o) EXCEPT ![Len(pstack)].out[Top(pstack).pos] = o]
      /\ UNCHANGED <<passVars, slice, SliceFlag, p_queue_idx, CurIndex, empty_list,
                     task_queue, cstack, task, CBuf, CQIdx, got>>
  BY DEF Step, InFunction
<1>2. PICK f : f = Following(pstack, o)
  OBVIOUS
<1>3. PICK q : q = pstack'
  OBVIOUS
<1>4. /\ f \in Seq(Activations) /\ f # << >> /\ Len(f) = Len(pstack)
      /\ Places(f) = Following(Places(pstack), o)
  BY <1>1, <1>2, FollowingProgram
<1>5. PICK n, i : n = Len(pstack) /\ i = Top(pstack).pos
  OBVIOUS
<1>6. q = [f EXCEPT ![n].out[i] = o]
  BY <1>1, <1>2, <1>3, <1>5
<1>7. /\ q \in Seq(Activations) /\ Len(q) = Len(pstack) /\ Places(q) = Places(f)
      /\ \A j \in 1 .. Len(pstack) :
           q[j].fn = f[j].fn /\ q[j].pos = f[j].pos /\ q[j].flag = f[j].flag
  <2>1. n = Len(f) /\ f \in Seq(Activations) /\ f # << >> /\ n \in 1 .. Len(f)
    BY <1>4, <1>5
  <2>3. f[n] \in Activations
    BY <2>1
  <2>4. PICK out : out = [f[n].out EXCEPT ![i] = o]
    OBVIOUS
  <2>5. out \in Seq(BOOLEAN)
    BY <2>3, <2>4, BooleanSet DEF Activations
  <2>6. PICK top : top = [f[n] EXCEPT !.out = out]
    OBVIOUS
  <2>7. q = [f EXCEPT ![n] = top]
    BY <1>6, <2>4, <2>6
  <2>8. top \in Activations /\ top.fn = f[n].fn /\ top.pos = f[n].pos /\ top.flag = f[n].flag
    BY <2>3, <2>5, <2>6 DEF Activations
  <2>2. /\ q \in Seq(Activations) /\ Len(q) = Len(f)
        /\ \A j \in 1 .. Len(f) :
             q[j].fn = f[j].fn /\ q[j].pos = f[j].pos /\ q[j].flag = f[j].flag
    BY ONLY <2>1, <2>7, <2>8, OutcomeSet
  <2>9. Places(q) = Places(f)
    BY ONLY <2>1, <2>2, SamePlaces
  <2> QED
    BY <1>4, <2>2, <2>9
<1>8. /\ Len(pstack) \in Nat \ {0} /\ 1 \in 1 .. Len(pstack) /\ slice \in Slices /\ ~Ended
      /\ SliceFlag <=> StartAt < pstack[1].pos
      /\ pstack[1].pos <= EndAt
      /\ \A j \in 2 .. Len(pstack) : StartAt < pstack[1].pos
  BY <1>1, ProgramAt
<1>9. /\ f[1].fn = "S" /\ 0 < f[1].pos /\ f[1].pos <= EndAt
      /\ StartAt < f[1].pos <=> StartAt < pstack[1].pos
      /\ \A j \in 2 .. Len(pstack) : f[j].fn = "F" /\ f[j].pos > 0 /\ f[j].flag
  BY <1>1, <1>2, OnWay
<1>10. /\ q[1].fn = "S" /\ 0 < q[1].pos /\ q[1].pos <= EndAt /\ q # << >>
       /\ StartAt < q[1].pos <=> StartAt < pstack[1].pos
       /\ \A j \in 2 .. Len(q) : q[j].fn = "F" /\ q[j].pos > 0 /\ q[j].flag
  <2>1. q[1].fn = "S" /\ 0 < q[1].pos /\ q[1].pos <= EndAt
        /\ (StartAt < q[1].pos <=> StartAt < pstack[1].pos)
    BY <1>7, <1>8, <1>9
  <2>2. q # << >>
    BY <1>7, <1>8
  <2>3. \A j \in 2 .. Len(q) : j \in 2 .. Len(pstack) /\ j \in 1 .. Len(pstack)
    BY <1>7, <1>8
  <2> QED
    BY <1>7, <1>9, <2>1, <2>2, <2>3
<1>11. PICK items : items = Values(o)
  OBVIOUS
<1>12. items = PushesOf(slice, Top(pstack).fn, Top(pstack).pos, o)
  BY <1>1, <1>8, <1>11, Pushing
<1>13. PICK s : s = slice
  OBVIOUS
<1>14. PICK a : a = Places(q)
  OBVIOUS
<1>15. a = After(Places(pstack), o)
  <2>1. Instr(Places(pstack)) = Instr(pstack)
    BY <1>1, ProgramAt, PlacesTop
  <2> QED
    BY <1>1, <1>4, <1>7, <1>14, <2>1 DEF After
<1>16. Onto(s, a, items)
  BY <1>1, <1>12, <1>13, <1>15 DEF Onto
<1>17. OnPath(a) /\ a \in Seq(Frames)
  BY <1>7, <1>10, <1>14, OnPathPlaces
<1>18. EndAt' = EndAt
  BY <1>1, PassDone
<1>19. Filling'
  BY <1>3, <1>10, <1>18 DEF Filling
<1>20. items \in Seq(Items) /\ Push(items)
  <2>1. Top(pstack).fn \in Funcs /\ Top(pstack).pos \in Nat \ {0}
    BY <1>1, ProgramAt DEF Activations
  <2>2. push[Top(pstack).fn][Top(pstack).pos] \in Seq(Kinds)
    BY <1>1, <2>1, InstrAt
  <2>3. slice \in 0 .. MaxSlices
    BY DEF Safe, RunInv, Types
  <2> QED
    BY <1>1, <1>11, <1>12, <2>1, <2>2, <2>3, PushesType
<1>21. /\ queue' \in [Bufs -> [0 .. BufSize - 1 -> Items]]
       /\ \A b \in Bufs : b # p_queue_idx => queue'[b] = queue[b]
       /\ QIdx' \in 0 .. BufSize /\ QIdx' = Len(sent[s] \o items)
       /\ Len(sent[s] \o items) <= BufSize
       /\ \A k \in 1 .. Len(sent[s] \o items) :
            queue'[p_queue_idx][k - 1] = (sent[s] \o items)[k]
       /\ sent' = [sent EXCEPT ![slice] = @ \o items]
  BY <1>13, <1>20, PushFills
<1>22. trail' = [trail EXCEPT ![slice] = Append(@, [at |-> a, n |-> Len(sent'[slice])])]
  BY <1>1, <1>3, <1>8, <1>14 DEF Note, Point, Places
<1>23. Grows(s, a, items)
  BY <1>1, <1>13, <1>16, <1>17, <1>19, <1>21, <1>22 DEF Grows
<1>24. sent'[s] = sent[s] \o items
  BY <1>1, <1>23, GrowsOnly
<1>25. p_queue_idx' = p_queue_idx /\ CurIndex' = p_queue_idx /\ SliceFlag' \in BOOLEAN
  BY <1>1 DEF Safe, RunInv, Producing, Types
<1>26. /\ q \in Seq(Activations) /\ q # << >> /\ Places(q) = a
       /\ \A j \in 2 .. Len(q) : q[j].flag /\ StartAt < q[1].pos
       /\ SliceFlag' <=> StartAt < q[1].pos
  <2>1. \A j \in 2 .. Len(q) : StartAt < pstack[1].pos
    BY <1>7, <1>8
  <2> QED
    BY <1>1, <1>7, <1>8, <1>10, <1>14, <2>1
<1> QED
  BY <1>1, <1>3, <1>21, <1>23, <1>24, <1>25, <1>26, GrowingKeeps

(* A step that pushes nothing.                                             *)
LEMMA RecordedKept ==
  ASSUME Safe, passVars' = passVars, NEW r \in Slices, sent'[r] = sent[r], trail'[r] = trail[r],
         Given(r)' => LET x == trail[r][Len(trail[r])] IN AtEnd(x.at) /\ x.n = Len(sent[r])
  PROVE  RecordedAt(r)'
<1>1. body' = body /\ EndAt' = EndAt /\ Recorded /\ Types
  BY PassDone DEF Safe, RunInv
<1>2. PICK t : t = trail[r]
  OBVIOUS
<1>3. /\ t # << >> /\ t[1] = [at |-> <<Frame("S")>>, n |-> 0]
      /\ \A k \in 1 .. Len(t) : InSlice(t[k], r)
      /\ \A k \in 1 .. Len(t) - 1 : Leads(r, t[k], t[k + 1])
  BY <1>1, <1>2 DEF Recorded, RecordedAt
<1>4. /\ Len(sent[r]) \in Nat /\ Len(t) \in Nat
      /\ \A k \in 1 .. Len(t) : t[k] \in Points /\ t[k].n \in Nat
  BY <1>1, <1>2, SentType
<1>5. \A k \in 1 .. Len(t) : InSlice(t[k], r)'
  BY <1>1, <1>3, <1>4, InSliceKept
<1>6. ASSUME NEW k \in 1 .. Len(t) - 1 PROVE Leads(r, t[k], t[k + 1])'
  <2>1. k \in 1 .. Len(t) /\ k + 1 \in 1 .. Len(t)
    BY <1>4
  <2>2. PICK u, v : u = t[k] /\ v = t[k + 1]
    OBVIOUS
  <2>3. u \in Points /\ v \in Points /\ InSlice(u, r) /\ Leads(r, u, v)
    BY <1>3, <1>4, <2>1, <2>2
  <2>4. Leads(r, u, v)'
    BY <1>4, <2>3, LeadsKept
  <2> QED
    BY <2>2, <2>4
<1>7. PICK z : z = t[Len(t)]
  OBVIOUS
<1>8. Given(r)' => AtEnd(z.at)' /\ z.n = Len(sent'[r])
  <2>1. Given(r)' => AtEnd(z.at) /\ z.n = Len(sent[r])
    BY <1>2, <1>7
  <2>2. AtEnd(z.at)' = AtEnd(z.at)
    BY <1>1 DEF AtEnd, InFunction, Instr
  <2> QED
    BY <2>1, <2>2
<1>9. trail'[r] = t
  BY <1>2
<1> QED
  BY <1>3, <1>5, <1>6, <1>7, <1>8, <1>9 DEF Frame, RecordedAt

LEMMA RecordedSame ==
  ASSUME Safe, passVars' = passVars, UNCHANGED <<slice, sent, trail>>,
         \A r \in Slices : Given(r)' => LET x == trail[r][Len(trail[r])]
                                        IN  AtEnd(x.at) /\ x.n = Len(sent[r])
  PROVE  Recorded'
<1>1. Slices' = Slices
  BY DEF Slices
<1>2. ASSUME NEW r \in Slices PROVE RecordedAt(r)'
  BY RecordedKept
<1> QED
  BY <1>1, <1>2 DEF Recorded

LEMMA NoneLater == ASSUME NEW n, n = 1 \/ n = 0 PROVE \A j \in 2 .. n : FALSE
<1>1. n \in Int
  OBVIOUS
<1> QED
  BY <1>1

(* A step after end_slice, or between slices.                              *)
LEMMA AfterKeeps ==
  ASSUME Safe, ~Filling, ~Filling', passVars' = passVars,
         UNCHANGED <<slice, SliceFlag, QIdx, p_queue_idx, CurIndex, empty_list, task_queue,
                     queue, cstack, task, CBuf, CQIdx, sent, trail, got>>,
         pstack' \in Seq(Activations),
         pstack' # << >> => /\ slice > 0 /\ pstack'[1].fn = "S" /\ pstack'[1].pos > 0
                            /\ Len(pstack') = 1
  PROVE  RunInv'
<1>1. Types /\ Owned /\ Producing /\ Queued /\ slice \in Nat
  BY DEF Safe, RunInv, Types
<1>2. EndAt' = EndAt /\ StartAt' = StartAt /\ Slices' = Slices
  BY PassDone DEF Slices
<1>3. Onward
  <2>1. \A s \in Slices : Len(sent[s]) \in Nat
    BY <1>1, SentType
  <2>2. \A s \in Slices : s < slice' \/ s = slice'
    BY <1>1 DEF Slices
  <2> QED
    BY <1>2, <2>1, <2>2 DEF Onward
<1>4. Types'
  BY <1>1 DEF Types
<1>5. Owned'
  BY <1>1 DEF Owned, Running
<1>6. Producing'
  <2>1. Len(pstack') = 1 \/ Len(pstack') = 0
    OBVIOUS
  <2>2. \A j \in 2 .. Len(pstack') : FALSE
    BY ONLY <2>1, NoneLater
  <2> QED
    BY <1>1, <1>2, <2>2 DEF Producing
<1>7. Filled'
  BY DEF Filled
<1>8. Recorded'
  <2>1. \A r \in Slices : Given(r)
    BY <1>1 DEF Given, Slices
  <2>2. \A r \in Slices : LET x == trail[r][Len(trail[r])]
                          IN  AtEnd(x.at) /\ x.n = Len(sent[r])
    BY <2>1 DEF Safe, RunInv, Recorded, RecordedAt
  <2> QED
    BY <2>2, RecordedSame
<1>9. Queued'
  <2>1. ASSUME NEW j \in 1 .. Len(task_queue')
        PROVE  (LET t == task_queue[j]
                IN  t.task \in Slices /\ Given(t.task) /\ Has(t.buf, t.task))'
    <3>1. PICK r, b : r = task_queue[j].task /\ b = task_queue[j].buf
      OBVIOUS
    <3>2. r \in Slices' /\ Given(r)' /\ Has(b, r)'
      BY <1>3, <3>1, QueuedKept
    <3> QED
      BY <3>1, <3>2
  <2> QED
    BY <2>1 DEF Queued
<1>10. Replaying'
  BY <1>3, ReplayingKept
<1> QED
  BY <1>4, <1>5, <1>6, <1>7, <1>8, <1>9, <1>10 DEF RunInv

LEMMA AfterEnd ==
  ASSUME Safe, pstack # << >>, ~Filling
  PROVE  /\ Len(pstack) = 1 /\ Top(pstack) = pstack[1] /\ pstack[1].fn = "S" /\ Ended
         /\ pstack[1].pos \in Nat \ {0} /\ EndAt < pstack[1].pos /\ EndAt \in Nat
         /\ InFunction(pstack) => Instr(pstack).op = "plain" /\ \A o : Values(o) = << >>
<1>1. /\ Len(pstack) \in Nat \ {0} /\ 1 \in 1 .. Len(pstack) /\ pstack[1].fn = "S" /\ Ended
      /\ Top(pstack) = pstack[Len(pstack)] /\ pstack[1].pos \in Nat \ {0}
      /\ ~(pstack[1].pos <= EndAt)
      /\ Len(pstack) \in 1 .. Len(pstack) /\ \A j \in 2 .. Len(pstack) : FALSE
  BY ProgramAt
<1>2. Len(pstack) = 1
  BY ONLY <1>1, FirstOrLater
<1>3. /\ EndAt \in Nat \ {0}
      /\ \A i \in 1 .. Len(body["S"]) : i > EndAt => body["S"][i].op = "plain"
  BY Positions DEF Safe, Tables
<1>4. EndAt < pstack[1].pos
  BY <1>1, <1>3
<1>5. ASSUME InFunction(pstack)
      PROVE  Instr(pstack).op = "plain" /\ \A o : Values(o) = << >>
  <2>1. PICK i : i = pstack[1].pos
    OBVIOUS
  <2>2. Top(pstack).fn = "S" /\ Top(pstack).pos = i /\ i \in Nat \ {0} /\ "S" \in Funcs
    BY <1>1, <1>2, <2>1 DEF Funcs
  <2>3. /\ i \in 1 .. Len(body["S"]) /\ Instr(pstack) = body["S"][i]
        /\ push["S"][i] = Exchange("S", i)
    BY <1>5, <2>2, InstrAt
  <2>4. body["S"][i].op = "plain"
    BY <1>3, <1>4, <2>1, <2>3
  <2>5. push["S"][i] = << >>
    BY <2>3, <2>4 DEF Exchange, Exchanges
  <2>6. \A s, o : [k \in 1 .. Len(push["S"][i]) |-> Item(s, "S", i, push["S"][i][k], o)] = << >>
    <3>1. Len(push["S"][i]) = 0
      BY <2>5
    <3> QED
      BY <3>1
  <2>7. \A o : Values(o) = << >>
    BY <2>2, <2>6 DEF Values
  <2> QED
    BY <2>3, <2>4, <2>7
<1> QED
  BY <1>1, <1>2, <1>3, <1>4, <1>5

LEMMA StepAfter ==
  ASSUME Safe, NEW o \in BOOLEAN, Step(o), ~Filling PROVE RunInv'
<1>1. /\ InFunction(pstack) /\ pstack # << >> /\ Push(Values(o)) /\ Note
      /\ pstack' = [Following(pstack, o) EXCEPT ![Len(pstack)].out[Top(pstack).pos] = o]
      /\ UNCHANGED <<passVars, slice, SliceFlag, p_queue_idx, CurIndex, empty_list,
                     task_queue, cstack, task, CBuf, CQIdx, got>>
  BY DEF Step, InFunction
<1>2. /\ Len(pstack) = 1 /\ Top(pstack) = pstack[1] /\ pstack[1].fn = "S" /\ Ended
      /\ pstack[1].pos \in Nat \ {0} /\ EndAt < pstack[1].pos /\ EndAt \in Nat
      /\ Values(o) = << >>
  BY <1>1, AfterEnd
<1>3. UNCHANGED <<queue, QIdx, sent, trail>>
  <2>1. Len(<< >>) = 0 /\ QIdx \in Nat
    BY DEF Safe, RunInv, Types
  <2> QED
    BY <1>1, <1>2, <2>1 DEF Push, Note
<1>4. PICK f, q : f = Following(pstack, o) /\ q = pstack'
  OBVIOUS
<1>5. PICK n, i : n = Len(pstack) /\ i = Top(pstack).pos
  OBVIOUS
<1>6. /\ f \in Seq(Activations) /\ f # << >> /\ Len(f) = 1
      /\ f[1].fn = "S" /\ f[1].pos = i + IF Instr(pstack).op = "br" /\ o THEN 2 ELSE 1
  BY <1>1, <1>2, <1>4, <1>5, FollowingProgram
<1>7. q = [f EXCEPT ![n].out[i] = o] /\ n = 1 /\ n = Len(f)
  BY <1>1, <1>2, <1>4, <1>5, <1>6
<1>8. f[n] \in Activations
  BY <1>6, <1>7
<1>9. PICK out : out = [f[n].out EXCEPT ![i] = o]
  OBVIOUS
<1>10. out \in Seq(BOOLEAN)
  BY <1>8, <1>9, BooleanSet DEF Activations
<1>11. PICK top : top = [f[n] EXCEPT !.out = out]
  OBVIOUS
<1>12. q = [f EXCEPT ![n] = top]
  BY <1>7, <1>9, <1>11
<1>13. top \in Activations /\ top.fn = f[n].fn /\ top.pos = f[n].pos /\ top.flag = f[n].flag
  BY <1>8, <1>10, <1>11 DEF Activations
<1>14. /\ q \in Seq(Activations) /\ Len(q) = Len(f)
       /\ \A j \in 1 .. Len(f) :
            q[j].fn = f[j].fn /\ q[j].pos = f[j].pos /\ q[j].flag = f[j].flag
  BY ONLY <1>6, <1>7, <1>12, <1>13, OutcomeSet
<1>15. q[1].fn = "S" /\ q[1].pos > EndAt /\ q[1].pos > 0 /\ q[1].pos \in Nat
  <2>1. i \in Nat /\ i > EndAt
    BY <1>2, <1>5
  <2>2. f[1].pos \in Nat /\ f[1].pos > EndAt /\ f[1].pos > 0
    BY <1>2, <1>6, <2>1
  <2>3. 1 \in 1 .. Len(f)
    BY <1>6
  <2> QED
    BY <1>6, <1>14, <2>2, <2>3
<1>16. EndAt' = EndAt
  BY <1>1, PassDone
<1>17. ~Filling'
  BY <1>2, <1>4, <1>15, <1>16 DEF Filling
<1>18. slice > 0
  BY <1>1, ProgramAt DEF Slices
<1> QED
  BY <1>1, <1>3, <1>4, <1>6, <1>14, <1>15, <1>17, <1>18, AfterKeeps

LEMMA StepKeeps ==
  ASSUME Safe, NEW o \in BOOLEAN, Step(o) PROVE RunInv'
BY StepOn, StepAfter

LEMMA ActivationType ==
  ASSUME Safe, NEW f \in Funcs
  PROVE  /\ Activation(f) \in Activations /\ Activation(f).fn = f /\ Activation(f).pos = 1
         /\ Activation(f).flag = SliceFlag
         /\ [fn |-> Activation(f).fn, pos |-> Activation(f).pos] = Frame(f)
<1>1. body[f] \in Seq(Instructions) /\ SliceFlag \in BOOLEAN
  BY Ready DEF Safe, RunInv, Types
<1>2. [i \in DOMAIN body[f] |-> FALSE] \in Seq(BOOLEAN)
  <2>1. DOMAIN body[f] = 1 .. Len(body[f]) /\ Len(body[f]) \in Nat
    BY <1>1
  <2> QED
    BY <2>1
<1> QED
  BY <1>1, <1>2 DEF Activation, Activations, Frame

LEMMA CallKeeps == ASSUME Safe, Call PROVE RunInv'
<1>1. /\ InFunction(pstack) /\ Instr(pstack).op \in {"call", "icall"}
      /\ pstack # << >> /\ Push(Values(FALSE)) /\ Note /\ GetBufAddr
      /\ pstack' = Append(Following(pstack, FALSE), Activation("F"))
      /\ UNCHANGED <<passVars, slice, SliceFlag, task_queue, cstack, task, CBuf, CQIdx, got>>
  BY DEF Call, InFunction
<1>2. Filling
  BY <1>1, AfterEnd
<1>3. p_queue_idx # NoBuf /\ SliceFlag \in BOOLEAN
  BY <1>2 DEF Safe, RunInv, Producing, Types
<1>4. UNCHANGED <<p_queue_idx, empty_list>> /\ CurIndex' = p_queue_idx
  BY <1>1, <1>3 DEF GetBufAddr
<1>5. PICK f : f = Following(pstack, FALSE)
  OBVIOUS
<1>6. PICK q : q = pstack'
  OBVIOUS
<1>7. PICK act : act = Activation("F")
  OBVIOUS
<1>8. /\ act \in Activations /\ act.fn = "F" /\ act.pos = 1 /\ act.flag = SliceFlag
      /\ [fn |-> act.fn, pos |-> act.pos] = Frame("F")
  BY <1>7, ActivationType DEF Funcs
<1>9. /\ f \in Seq(Activations) /\ f # << >> /\ Len(f) = Len(pstack)
      /\ Places(f) = Following(Places(pstack), FALSE)
  BY <1>1, <1>5, FollowingProgram
<1>10. /\ q = Append(f, act) /\ q \in Seq(Activations) /\ q # << >> /\ Len(q) = Len(pstack) + 1
       /\ q[Len(pstack) + 1] = act /\ \A j \in 1 .. Len(pstack) : q[j] = f[j]
  <2>1. q = Append(f, act)
    BY <1>1, <1>5, <1>6, <1>7
  <2>2. /\ Append(f, act) \in Seq(Activations) /\ Append(f, act) # << >>
        /\ Len(Append(f, act)) = Len(f) + 1 /\ Append(f, act)[Len(f) + 1] = act
        /\ \A j \in 1 .. Len(f) : Append(f, act)[j] = f[j]
    BY ONLY <1>8, <1>9, AppendProperties
  <2> QED
    BY ONLY <1>9, <2>1, <2>2
<1>11. /\ Len(pstack) \in Nat \ {0} /\ 1 \in 1 .. Len(pstack) /\ slice \in Slices /\ ~Ended
       /\ SliceFlag <=> StartAt < pstack[1].pos
       /\ pstack[1].pos <= EndAt
       /\ \A j \in 2 .. Len(pstack) : StartAt < pstack[1].pos
  BY <1>1, <1>2, ProgramAt
<1>12. /\ f[1].fn = "S" /\ 0 < f[1].pos /\ f[1].pos <= EndAt
       /\ StartAt < f[1].pos <=> StartAt < pstack[1].pos
       /\ \A j \in 2 .. Len(pstack) : f[j].fn = "F" /\ f[j].pos > 0 /\ f[j].flag
  BY <1>1, <1>2, <1>5, OnWay
<1>13. StartAt < pstack[1].pos
  <2>1. CASE Len(pstack) = 1
    <3>1. Top(pstack) = pstack[1] /\ pstack[1].fn = "S" /\ pstack[1].pos \in Nat \ {0}
      BY <1>1, <1>11, <2>1, ProgramAt
    <3>2. pstack[1].pos \in 1 .. Len(body["S"]) /\ Instr(pstack) = body["S"][pstack[1].pos]
      BY <1>1, <3>1, InstrAt DEF Funcs
    <3>3. \A i \in 1 .. Len(body["S"]) : body["S"][i].op \in {"call", "icall"} => StartAt < i
      BY Positions DEF Safe, Tables
    <3> QED
      BY <1>1, <3>2, <3>3
  <2>2. CASE Len(pstack) # 1
    <3>1. Len(pstack) \in Nat /\ Len(pstack) \in 1 .. Len(pstack)
      BY <1>11
    <3>2. Len(pstack) \in 2 .. Len(pstack)
      BY ONLY <2>2, <3>1, FirstOrLater
    <3> QED
      BY <1>11, <3>2
  <2> QED
    BY <2>1, <2>2
<1>14. /\ q[1].fn = "S" /\ 0 < q[1].pos /\ q[1].pos <= EndAt /\ StartAt < q[1].pos
       /\ \A j \in 2 .. Len(q) : q[j].fn = "F" /\ q[j].pos > 0 /\ q[j].flag
  <2>1. q[1] = f[1]
    BY <1>10, <1>11
  <2>2. ASSUME NEW j \in 2 .. Len(q) PROVE q[j].fn = "F" /\ q[j].pos > 0 /\ q[j].flag
    <3>1. j = Len(pstack) + 1 \/ (j \in 2 .. Len(pstack) /\ j \in 1 .. Len(pstack))
      <4>1. j \in 2 .. Len(pstack) + 1 /\ Len(pstack) \in Nat
        BY <1>10, <1>11
      <4> QED
        BY ONLY <4>1
    <3>2. CASE j = Len(pstack) + 1
      BY <1>8, <1>10, <1>11, <1>13, <3>2
    <3>3. CASE j \in 2 .. Len(pstack) /\ j \in 1 .. Len(pstack)
      BY <1>10, <1>12, <3>3
    <3> QED
      BY <3>1, <3>2, <3>3
  <2> QED
    BY <1>12, <1>13, <2>1, <2>2
<1>15. PICK items : items = Values(FALSE)
  OBVIOUS
<1>16. items = PushesOf(slice, Top(pstack).fn, Top(pstack).pos, FALSE)
  BY <1>1, <1>11, <1>15, Pushing
<1>17. PICK s : s = slice
  OBVIOUS
<1>18. PICK a : a = Places(q)
  OBVIOUS
<1>19. a = After(Places(pstack), FALSE)
  <2>1. Instr(Places(pstack)) = Instr(pstack)
    BY <1>1, ProgramAt, PlacesTop
  <2>2. Places(Append(f, act)) = Append(Places(f), Frame("F"))
    BY ONLY <1>8, <1>9, PlacesAppend
  <2> QED
    BY <1>1, <1>9, <1>10, <1>18, <2>1, <2>2 DEF After
<1>20. Onto(s, a, items)
  BY <1>1, <1>16, <1>17, <1>19 DEF Onto
<1>21. OnPath(a) /\ a \in Seq(Frames)
  BY <1>10, <1>14, <1>18, OnPathPlaces
<1>22. EndAt' = EndAt
  BY <1>1, PassDone
<1>23. Filling'
  BY <1>6, <1>10, <1>14, <1>22 DEF Filling
<1>24. items \in Seq(Items) /\ Push(items)
  <2>1. Top(pstack).fn \in Funcs /\ Top(pstack).pos \in Nat \ {0}
    BY <1>1, ProgramAt DEF Activations
  <2>2. push[Top(pstack).fn][Top(pstack).pos] \in Seq(Kinds)
    BY <1>1, <2>1, InstrAt
  <2>3. slice \in 0 .. MaxSlices
    BY DEF Safe, RunInv, Types
  <2> QED
    BY <1>1, <1>15, <1>16, <2>1, <2>2, <2>3, PushesType
<1>25. /\ queue' \in [Bufs -> [0 .. BufSize - 1 -> Items]]
       /\ \A b \in Bufs : b # p_queue_idx => queue'[b] = queue[b]
       /\ QIdx' \in 0 .. BufSize /\ QIdx' = Len(sent[s] \o items)
       /\ Len(sent[s] \o items) <= BufSize
       /\ \A k \in 1 .. Len(sent[s] \o items) :
            queue'[p_queue_idx][k - 1] = (sent[s] \o items)[k]
       /\ sent' = [sent EXCEPT ![slice] = @ \o items]
  BY <1>2, <1>17, <1>24, PushFills
<1>26. trail' = [trail EXCEPT ![slice] = Append(@, [at |-> a, n |-> Len(sent'[slice])])]
  BY <1>1, <1>6, <1>11, <1>18 DEF Note, Point, Places
<1>27. Grows(s, a, items)
  BY <1>1, <1>2, <1>17, <1>20, <1>21, <1>23, <1>25, <1>26 DEF Grows
<1>28. sent'[s] = sent[s] \o items
  BY <1>1, <1>27, GrowsOnly
<1>29. /\ q \in Seq(Activations) /\ q # << >> /\ Places(q) = a
       /\ \A j \in 2 .. Len(q) : q[j].flag /\ StartAt < q[1].pos
       /\ SliceFlag' <=> StartAt < q[1].pos
  BY <1>1, <1>10, <1>11, <1>13, <1>14, <1>18
<1> QED
  BY <1>1, <1>3, <1>4, <1>6, <1>25, <1>27, <1>28, <1>29, GrowingKeeps

LEMMA Quiet ==
  ASSUME Safe, Filling, UNCHANGED <<sent, queue, QIdx>>
  PROVE  /\ queue' \in [Bufs -> [0 .. BufSize - 1 -> Items]]
         /\ QIdx' \in 0 .. BufSize /\ QIdx' = Len(sent'[slice]) /\ Len(sent'[slice]) <= BufSize
         /\ \A k \in 1 .. Len(sent'[slice]) : queue'[p_queue_idx][k - 1] = sent'[slice][k]
         /\ sent' = [sent EXCEPT ![slice] = @ \o << >>]
<1>1. /\ queue \in [Bufs -> [0 .. BufSize - 1 -> Items]] /\ QIdx \in 0 .. BufSize
      /\ sent \in Seq(Seq(Items))
  BY DEF Safe, RunInv, Types
<1>2. QIdx = Len(sent[slice]) /\ Has(p_queue_idx, slice)
  BY DEF Safe, RunInv, Filled
<1>3. sent = [sent EXCEPT ![slice] = @ \o << >>]
  <2>1. slice \in Slices
    BY ProgramAt DEF Filling
  <2>2. sent[slice] \in Seq(Items)
    BY <2>1, SentType DEF Safe, RunInv
  <2>3. sent[slice] \o << >> = sent[slice]
    BY <2>2
  <2> QED
    BY <1>1, <2>3
<1> QED
  BY <1>1, <1>2, <1>3 DEF Has

LEMMA ReturnKeeps == ASSUME Safe, Return PROVE RunInv'
<1>1. /\ pstack # << >> /\ ~InFunction(pstack) /\ pstack' = Pop(pstack) /\ Note
      /\ UNCHANGED <<passVars, slice, SliceFlag, QIdx, p_queue_idx, CurIndex,
                     empty_list, task_queue, queue, cstack, task, CBuf, CQIdx, got, sent>>
  BY DEF Return
<1>2. PICK q : q = pstack'
  OBVIOUS
<1>3. /\ pstack \in Seq(Activations) /\ Len(pstack) \in Nat \ {0} /\ slice \in Slices
      /\ Len(pstack) \in 1 .. Len(pstack) /\ 1 \in 1 .. Len(pstack)
      /\ \A j \in 1 .. Len(pstack) : pstack[j].pos \in Nat \ {0}
      /\ Top(pstack) = pstack[Len(pstack)] /\ pstack[1].fn = "S"
      /\ \A j \in 2 .. Len(pstack) : /\ pstack[j].fn = "F" /\ pstack[j].flag
                                     /\ StartAt < pstack[1].pos /\ Filling
      /\ Filling <=> pstack[1].pos <= EndAt
      /\ Ended <=> ~Filling
      /\ SliceFlag <=> Filling /\ StartAt < pstack[1].pos
  BY <1>1, ProgramAt
<1>4. /\ q \in Seq(Activations) /\ Len(q) = Len(pstack) - 1
      /\ \A j \in 1 .. Len(pstack) - 1 : q[j] = pstack[j]
  BY <1>1, <1>2, <1>3, PopStack
<1>5. EndAt' = EndAt
  BY <1>1, PassDone
<1>6. CASE Len(pstack) = 1
  <2>1. ~Filling
    <3>1. EndAt \in Nat /\ EndAt <= Len(body["S"]) /\ Len(body["S"]) \in Nat
      BY Positions DEF Safe, Tables
    <3>2. ~(pstack[1].pos <= Len(body["S"])) /\ pstack[1].pos \in Nat
      BY <1>1, <1>3, <1>6 DEF InFunction
    <3> QED
      BY <1>3, <3>1, <3>2
  <2>2. q = << >>
    BY <1>4, <1>6
  <2>3. ~Filling' /\ trail' = trail
    BY <1>1, <1>2, <1>3, <2>1, <2>2 DEF Filling, Note
  <2> QED
    BY <1>1, <1>2, <1>4, <2>1, <2>2, <2>3, AfterKeeps
<1>7. CASE Len(pstack) # 1
  <2>1. Len(pstack) \in 2 .. Len(pstack)
    <3>1. Len(pstack) \in Nat /\ Len(pstack) \in 1 .. Len(pstack)
      BY <1>3
    <3> QED
      BY ONLY <1>7, <3>1, FirstOrLater
  <2>2. Filling /\ StartAt < pstack[1].pos /\ ~Ended /\ pstack[1].pos <= EndAt
    BY <1>3, <2>1
  <2>3. 1 \in 1 .. Len(pstack) - 1 /\ Len(q) \in Nat /\ q # << >> /\ q[1] = pstack[1]
    BY <1>3, <1>4, <1>7
  <2>4. ASSUME NEW j \in 2 .. Len(q) PROVE q[j].fn = "F" /\ q[j].pos > 0 /\ q[j].flag
    <3>1. j \in 1 .. Len(pstack) - 1 /\ j \in 2 .. Len(pstack) /\ j \in 1 .. Len(pstack)
      BY <1>3, <1>4
    <3>2. q[j] = pstack[j] /\ pstack[j].pos \in Nat \ {0}
      BY <1>3, <1>4, <3>1
    <3> QED
      BY <1>3, <3>1, <3>2
  <2>5. q[1].fn = "S" /\ 0 < q[1].pos /\ q[1].pos <= EndAt /\ StartAt < q[1].pos
    BY <1>3, <2>2, <2>3
  <2>6. PICK s : s = slice
    OBVIOUS
  <2>7. PICK a : a = Places(q)
    OBVIOUS
  <2>8. a = Pop(Places(pstack))
    BY <1>1, <1>2, <1>3, <2>7, PlacesPop
  <2>9. Onto(s, a, << >>)
    BY <1>1, <2>8 DEF Onto
  <2>10. OnPath(a) /\ a \in Seq(Frames)
    BY <1>4, <2>3, <2>4, <2>5, <2>7, OnPathPlaces
  <2>11. Filling'
    BY <1>2, <1>5, <2>3, <2>5 DEF Filling
  <2>12. /\ queue' \in [Bufs -> [0 .. BufSize - 1 -> Items]]
         /\ QIdx' \in 0 .. BufSize /\ QIdx' = Len(sent'[s]) /\ Len(sent'[s]) <= BufSize
         /\ \A k \in 1 .. Len(sent'[s]) : queue'[p_queue_idx][k - 1] = sent'[s][k]
         /\ sent' = [sent EXCEPT ![slice] = @ \o << >>]
    BY <1>1, <2>2, <2>6, Quiet
  <2>13. trail' = [trail EXCEPT ![slice] = Append(@, [at |-> a, n |-> Len(sent'[slice])])]
    BY <1>1, <1>2, <2>2, <2>7 DEF Note, Point, Places
  <2>14. Grows(s, a, << >>)
    BY <1>1, <2>2, <2>6, <2>9, <2>10, <2>11, <2>12, <2>13 DEF Grows
  <2>15. CurIndex' = p_queue_idx /\ SliceFlag' \in BOOLEAN
    BY <1>1, <2>2 DEF Safe, RunInv, Producing, Types
  <2>16. SliceFlag' <=> StartAt < q[1].pos
    BY <1>1, <1>3, <2>2, <2>5
  <2> QED
    BY <1>1, <1>2, <1>4, <2>3, <2>4, <2>5, <2>7, <2>12, <2>14, <2>15, <2>16, GrowingKeeps
<1> QED
  BY <1>6, <1>7

(* start_slice and end_slice are in the slice function.                    *)
LEMMA InSliceFunction ==
  ASSUME Safe, InFunction(pstack), Instr(pstack).op \in {"start", "end"}
  PROVE  /\ pstack # << >> /\ Len(pstack) = 1 /\ Filling
         /\ Instr(pstack).op = "start" => pstack[1].pos = StartAt
         /\ Instr(pstack).op = "end" => pstack[1].pos = EndAt
<1>1. /\ pstack # << >> /\ Len(pstack) \in Nat \ {0} /\ Len(pstack) \in 1 .. Len(pstack)
      /\ \A j \in 1 .. Len(pstack) : pstack[j].pos \in Nat \ {0}
      /\ Top(pstack) = pstack[Len(pstack)] /\ pstack[1].fn = "S"
      /\ \A j \in 2 .. Len(pstack) : pstack[j].fn = "F"
  BY ProgramAt DEF InFunction
<1>2. Filling
  BY <1>1, AfterEnd
<1>3. PICK f, i : f = Top(pstack).fn /\ i = Top(pstack).pos
  OBVIOUS
<1>4. Len(pstack) = 1 \/ Len(pstack) \in 2 .. Len(pstack)
  BY ONLY <1>1, FirstOrLater
<1>5. f \in Funcs /\ i \in Nat \ {0}
  BY <1>1, <1>3, <1>4 DEF Funcs
<1>6. i \in 1 .. Len(body[f]) /\ Instr(pstack) = body[f][i]
  BY <1>3, <1>5, InstrAt
<1>7. /\ \A j \in 1 .. Len(body["S"]) : /\ body["S"][j].op = "start" => j = StartAt
                                        /\ body["S"][j].op = "end" => j = EndAt
      /\ \A j \in 1 .. Len(body["F"]) : body["F"][j].op \notin {"start", "end"}
  BY Positions DEF Safe, Tables
<1>8. Len(pstack) = 1
  BY <1>1, <1>3, <1>4, <1>6, <1>7
<1> QED
  BY <1>1, <1>2, <1>3, <1>6, <1>7, <1>8

LEMMA StartSliceKeeps == ASSUME Safe, StartSlice PROVE RunInv'
<1>1. /\ InFunction(pstack) /\ Instr(pstack).op = "start" /\ SliceFlag' = TRUE
      /\ pstack' = Following(pstack, FALSE) /\ Note
      /\ UNCHANGED <<passVars, slice, QIdx, p_queue_idx, CurIndex, empty_list, task_queue,
                     queue, cstack, task, CBuf, CQIdx, got, sent>>
  BY DEF StartSlice
<1>2. pstack # << >> /\ Len(pstack) = 1 /\ Filling /\ pstack[1].pos = StartAt
  BY <1>1, InSliceFunction
<1>3. PICK q : q = pstack'
  OBVIOUS
<1>4. /\ q \in Seq(Activations) /\ q # << >> /\ Len(q) = 1
      /\ Places(q) = Following(Places(pstack), FALSE)
  BY <1>1, <1>2, <1>3, FollowingProgram
<1>5. q[1].fn = "S" /\ 0 < q[1].pos /\ q[1].pos <= EndAt /\ StartAt < q[1].pos
  BY <1>1, <1>2, <1>3, OnWay
<1>6. \A j \in 2 .. Len(q) : FALSE
  BY ONLY <1>4, NoneLater
<1>7. EndAt' = EndAt /\ slice \in Slices /\ ~Ended
  BY <1>1, <1>2, PassDone, ProgramAt
<1>8. PICK s : s = slice
  OBVIOUS
<1>9. PICK a : a = Places(q)
  OBVIOUS
<1>10. a = After(Places(pstack), FALSE)
  <2>1. Instr(Places(pstack)) = Instr(pstack)
    BY <1>2, ProgramAt, PlacesTop
  <2> QED
    BY <1>1, <1>4, <1>9, <2>1 DEF After
<1>11. PushesOf(s, Top(pstack).fn, Top(pstack).pos, FALSE) = << >>
  <2>1. Top(pstack).fn = "S" /\ Top(pstack).pos \in Nat \ {0} /\ "S" \in Funcs
    BY <1>2, ProgramAt DEF Funcs
  <2>2. push["S"][Top(pstack).pos] = Exchange("S", Top(pstack).pos)
        /\ body["S"][Top(pstack).pos] = Instr(pstack)
    BY <1>1, <2>1, InstrAt
  <2>3. push["S"][Top(pstack).pos] = << >>
    BY <1>1, <2>2 DEF Exchange, Exchanges
  <2>4. Len(push["S"][Top(pstack).pos]) = 0
    BY <2>3
  <2> QED
    BY <2>1, <2>4 DEF PushesOf
<1>12. Onto(s, a, << >>)
  BY <1>1, <1>10, <1>11 DEF Onto
<1>13. OnPath(a) /\ a \in Seq(Frames)
  BY <1>4, <1>5, <1>6, <1>9, OnPathPlaces
<1>14. Filling'
  BY <1>3, <1>4, <1>5, <1>7 DEF Filling
<1>15. /\ queue' \in [Bufs -> [0 .. BufSize - 1 -> Items]]
       /\ QIdx' \in 0 .. BufSize /\ QIdx' = Len(sent'[s]) /\ Len(sent'[s]) <= BufSize
       /\ \A k \in 1 .. Len(sent'[s]) : queue'[p_queue_idx][k - 1] = sent'[s][k]
       /\ sent' = [sent EXCEPT ![slice] = @ \o << >>]
  BY <1>1, <1>2, <1>8, Quiet
<1>16. trail' = [trail EXCEPT ![slice] = Append(@, [at |-> a, n |-> Len(sent'[slice])])]
  BY <1>1, <1>3, <1>7, <1>9 DEF Note, Point, Places
<1>17. Grows(s, a, << >>)
  BY <1>1, <1>2, <1>8, <1>12, <1>13, <1>14, <1>15, <1>16 DEF Grows
<1>18. CurIndex' = p_queue_idx
  BY <1>1, <1>2 DEF Safe, RunInv, Producing
<1> QED
  BY <1>1, <1>2, <1>3, <1>4, <1>5, <1>6, <1>9, <1>15, <1>17, <1>18, GrowingKeeps

LEMMA EnterSliceKeeps == ASSUME Safe, EnterSlice PROVE RunInv'
<1>1. /\ pstack = << >> /\ slice < MaxSlices /\ GetBufAddr
      /\ pstack' = <<Activation("S")>> /\ slice' = slice + 1
      /\ sent' = Append(sent, << >>)
      /\ trail' = Append(trail, <<Point(pstack', << >>)>>)
      /\ UNCHANGED <<passVars, SliceFlag, QIdx, task_queue, queue, cstack, task, CBuf,
                     CQIdx, got>>
  BY DEF EnterSlice
<1>2. Types /\ Owned /\ Producing /\ Recorded
  BY DEF Safe, RunInv
<1>3. ~Filling /\ QIdx = 0 /\ p_queue_idx = NoBuf /\ SliceFlag = FALSE
  BY <1>1, <1>2 DEF Filling, Producing, Types
<1>4. /\ empty_list # << >> /\ p_queue_idx' = Head(empty_list)
      /\ empty_list' = Tail(empty_list) /\ CurIndex' = Head(empty_list)
  BY <1>1, <1>3 DEF GetBufAddr
<1>5. PICK b, n : b = Head(empty_list) /\ n = slice + 1
  OBVIOUS
<1>6. /\ b \in Bufs /\ b # NoBuf /\ empty_list' \in Seq(Bufs)
      /\ Len(empty_list) \in Nat \ {0} /\ 1 \in 1 .. Len(empty_list) /\ b = empty_list[1]
      /\ Len(empty_list') = Len(empty_list) - 1
      /\ \A i \in 1 .. Len(empty_list') :
           /\ empty_list'[i] = empty_list[i + 1] /\ i + 1 \in 1 .. Len(empty_list)
           /\ i + 1 # 1
  <2>1. empty_list \in Seq(Bufs)
    BY <1>2 DEF Types
  <2>2. PICK l : l = empty_list
    OBVIOUS
  <2>3. l \in Seq(Bufs) /\ l # << >>
    BY <1>4, <2>1, <2>2
  <2>4. /\ Head(l) \in Bufs /\ Tail(l) \in Seq(Bufs) /\ Len(Tail(l)) = Len(l) - 1
        /\ \A i \in 1 .. Len(Tail(l)) : Tail(l)[i] = l[i + 1]
    BY ONLY <2>3, HeadTailProperties
  <2>5. Len(l) \in Nat \ {0} /\ Head(l) = l[1] /\ 1 \in 1 .. Len(l)
    BY <2>3
  <2>6. \A i \in 1 .. Len(l) - 1 : i + 1 \in 1 .. Len(l) /\ i + 1 # 1
    BY <2>5
  <2>7. \A c \in Bufs : c # NoBuf
    BY Sizes DEF Bufs, NoBuf
  <2> QED
    BY <1>4, <1>5, <2>2, <2>4, <2>5, <2>6, <2>7
<1>7. /\ slice \in Nat /\ n \in 0 .. MaxSlices /\ n \in Nat /\ Slices' = Slices \cup {n}
      /\ n \notin Slices /\ \A s \in Slices : s < n
  <2>1. slice \in 0 .. MaxSlices
    BY <1>2 DEF Types
  <2> QED
    BY <1>1, <1>5, <2>1, Sizes DEF Slices
<1>8. PICK y : y = Point(pstack', << >>)
  OBVIOUS
<1>9. PICK q : q = pstack'
  OBVIOUS
<1>10. /\ q \in Seq(Activations) /\ Len(q) = 1 /\ q # << >>
       /\ q[1].fn = "S" /\ q[1].pos = 1 /\ Places(q) = <<Frame("S")>>
  <2>1. PICK act : act = Activation("S")
    OBVIOUS
  <2>2. /\ act \in Activations /\ act.fn = "S" /\ act.pos = 1
        /\ [fn |-> act.fn, pos |-> act.pos] = Frame("S")
    BY <2>1, ActivationType DEF Funcs
  <2>3. q = <<act>>
    BY <1>1, <1>9, <2>1
  <2>4. q \in Seq(Activations) /\ Len(q) = 1 /\ q[1] = act /\ q # << >>
    BY <2>2, <2>3
  <2>5. Frame("S") \in Frames
    BY DEF Frame, Frames, Funcs
  <2>6. /\ Places(q) \in Seq(Frames) /\ Len(Places(q)) = 1 /\ Places(q)[1] = Frame("S")
    <3>1. /\ Places(q) \in Seq(Frames) /\ Len(Places(q)) = Len(q)
          /\ \A j \in 1 .. Len(q) : Places(q)[j] = [fn |-> q[j].fn, pos |-> q[j].pos]
      BY <2>4, PlacesOf
    <3>2. 1 \in 1 .. Len(q)
      BY <2>4
    <3> QED
      BY <2>2, <2>4, <3>1, <3>2
  <2>7. <<Frame("S")>> \in Seq(Frames) /\ Len(<<Frame("S")>>) = 1 /\ <<Frame("S")>>[1] = Frame("S")
    BY <2>5
  <2>8. \A j \in 1 .. Len(Places(q)) : Places(q)[j] = <<Frame("S")>>[j]
    BY <2>6, <2>7
  <2>9. Places(q) = <<Frame("S")>>
    BY <2>6, <2>7, <2>8, FramesEqual
  <2> QED
    BY <2>2, <2>4, <2>9
<1>11. y = [at |-> <<Frame("S")>>, n |-> 0] /\ y \in Points
  <2>1. Len(<< >>) = 0
    OBVIOUS
  <2>2. y = [at |-> Places(q), n |-> 0]
    BY <1>8, <1>9, <2>1 DEF Point
  <2>3. Places(q) \in Seq(Frames)
    BY <1>10, PlacesOf
  <2> QED
    BY <1>10, <2>2, <2>3 DEF Points
<1>12. /\ sent' \in Seq(Seq(Items)) /\ Len(sent') = n /\ sent'[n] = << >>
       /\ trail' \in Seq(Seq(Points)) /\ Len(trail') = n /\ trail'[n] = <<y>>
       /\ \A s \in Slices : sent'[s] = sent[s] /\ trail'[s] = trail[s]
  <2>1. /\ sent \in Seq(Seq(Items)) /\ trail \in Seq(Seq(Points))
        /\ Len(sent) = slice /\ Len(trail) = slice
    BY <1>2 DEF Types
  <2>2. << >> \in Seq(Items) /\ <<y>> \in Seq(Points)
    BY <1>11
  <2>3. /\ Append(sent, << >>) \in Seq(Seq(Items)) /\ Len(Append(sent, << >>)) = Len(sent) + 1
        /\ Append(sent, << >>)[Len(sent) + 1] = << >>
        /\ \A i \in 1 .. Len(sent) : Append(sent, << >>)[i] = sent[i]
    BY ONLY <2>1, <2>2, AppendProperties
  <2>4. /\ Append(trail, <<y>>) \in Seq(Seq(Points))
        /\ Len(Append(trail, <<y>>)) = Len(trail) + 1
        /\ Append(trail, <<y>>)[Len(trail) + 1] = <<y>>
        /\ \A i \in 1 .. Len(trail) : Append(trail, <<y>>)[i] = trail[i]
    BY ONLY <2>1, <2>2, AppendProperties
  <2> QED
    BY <1>1, <1>5, <1>8, <2>1, <2>3, <2>4 DEF Slices
<1>13. EndAt' = EndAt /\ StartAt' = StartAt
       /\ StartAt \in Nat \ {0} /\ EndAt \in Nat \ {0} /\ 1 <= EndAt /\ ~(StartAt < 1)
  <2>1. StartAt \in Nat \ {0} /\ EndAt \in Nat \ {0}
    BY Positions DEF Safe, Tables
  <2> QED
    BY <1>1, <2>1, PassDone
<1>14. Filling' /\ slice' = n
  BY <1>1, <1>5, <1>9, <1>10, <1>13 DEF Filling
<1>15. Onward
  <2>1. \A s \in Slices : Len(sent[s]) \in Nat
    BY <1>2, SentType
  <2>2. ASSUME NEW s \in Slices
        PROVE  /\ s \in Slices' /\ Len(sent[s]) <= Len(sent'[s]) /\ s < slice'
               /\ sent'[s] = sent[s] /\ trail'[s] = trail[s]
    BY <1>7, <1>12, <1>14, <2>1
  <2>3. UNCHANGED <<cstack, task, CBuf, CQIdx, got, queue>> /\ passVars' = passVars
    BY <1>1
  <2> QED
    BY <2>2, <2>3 DEF Onward
<1>16. Types'
  <2>1. task \in [Workers -> 0 .. n]
    <3>1. task \in [Workers -> 0 .. slice]
      BY <1>2 DEF Types
    <3>2. \A k \in 0 .. slice : k \in 0 .. n
      BY <1>5, <1>7
    <3> QED
      BY <3>1, <3>2
  <2>2. pstack' \in Seq(Activations) /\ p_queue_idx' \in Bufs /\ CurIndex' \in Bufs
    BY <1>4, <1>5, <1>6, <1>9, <1>10
  <2> QED
    BY <1>1, <1>2, <1>6, <1>7, <1>12, <1>14, <2>1, <2>2 DEF Types
<1>17. Owned'
  <2>1. p_queue_idx' = b
    BY <1>4, <1>5
  <2>2. /\ \A i \in 1 .. Len(task_queue) : task_queue[i].buf # b
        /\ \A w \in Workers : Running(w) => CBuf[w] # b
    BY <1>2, <1>6 DEF Owned
  <2>3. ASSUME NEW i \in 1 .. Len(empty_list')
        PROVE  /\ empty_list'[i] # b
               /\ \A j \in 1 .. Len(task_queue) : empty_list'[i] # task_queue[j].buf
               /\ \A w \in Workers : Running(w) => empty_list'[i] # CBuf[w]
    <3>1. PICK k : k = i + 1
      OBVIOUS
    <3>2. k \in 1 .. Len(empty_list) /\ k # 1 /\ empty_list'[i] = empty_list[k]
      BY <1>6, <3>1
    <3> QED
      BY <1>2, <1>6, <3>2 DEF Owned
  <2>4. ASSUME NEW i \in 1 .. Len(empty_list'), NEW j \in 1 .. Len(empty_list'),
               empty_list'[i] = empty_list'[j]
        PROVE  i = j
    <3>1. i + 1 \in 1 .. Len(empty_list) /\ j + 1 \in 1 .. Len(empty_list)
          /\ empty_list[i + 1] = empty_list[j + 1]
      BY <1>6, <2>4
    <3>2. i + 1 = j + 1
      BY <1>2, <3>1 DEF Owned
    <3> QED
      BY <3>2
  <2> QED
    BY <1>1, <1>2, <2>1, <2>2, <2>3, <2>4 DEF Owned, Running
<1>18. Producing'
  <2>1. \A j \in 2 .. Len(q) : FALSE
    BY ONLY <1>10, NoneLater
  <2>2. p_queue_idx' # NoBuf /\ CurIndex' = p_queue_idx'
    BY <1>4, <1>5, <1>6
  <2> QED
    BY <1>1, <1>3, <1>7, <1>9, <1>10, <1>13, <1>14, <2>1, <2>2 DEF Producing
<1>19. Filled'
  <2>1. Has(p_queue_idx, slice)'
    <3>1. Len(sent'[slice']) = 0
      BY <1>12, <1>14
    <3> QED
      BY <3>1, Sizes DEF Has
  <2>2. QIdx' = Len(sent'[slice'])
    BY <1>1, <1>3, <1>12, <1>14
  <2>3. trail'[slice'] = <<y>> /\ Len(<<y>>) = 1 /\ <<y>>[1] = y /\ <<y>> # << >>
    BY <1>12, <1>14
  <2>4. Point(pstack, sent[slice])' = y
    BY <1>8, <1>12, <1>14 DEF Point, Places
  <2> QED
    BY <2>1, <2>2, <2>3, <2>4 DEF Filled
<1>20. Recorded'
  <2>1. ASSUME NEW s \in Slices PROVE RecordedAt(s)'
    <3>1. Given(s)
      BY <1>3, <1>7 DEF Given, Slices
    <3>2. LET x == trail[s][Len(trail[s])] IN AtEnd(x.at) /\ x.n = Len(sent[s])
      BY <1>2, <3>1 DEF Recorded, RecordedAt
    <3> QED
      BY <1>1, <1>12, <3>2, RecordedKept
  <2>2. RecordedAt(n)'
    <3>1. /\ trail'[n] # << >> /\ trail'[n][1] = y /\ Len(trail'[n]) = 1 /\ Len(sent'[n]) = 0
      BY <1>12
    <3>2. InSlice(y, n)'
      <4>1. /\ y.at = <<Frame("S")>> /\ y.n = 0 /\ Len(y.at) = 1 /\ y.at[1] = Frame("S")
            /\ y.at # << >>
        BY <1>11
      <4>2. \A j \in 2 .. Len(y.at) : FALSE
        BY ONLY <4>1, NoneLater
      <4> QED
        BY <1>13, <3>1, <4>1, <4>2 DEF InSlice, Frame
    <3>3. ~Given(n)'
      BY <1>7, <1>14 DEF Given
    <3>4. \A k \in 1 .. Len(trail'[n]) : trail'[n][k] = y
      BY <3>1
    <3>5. \A k \in 1 .. Len(trail'[n]) - 1 : FALSE
      BY <3>1
    <3>6. \A k \in 1 .. Len(trail'[n]) : InSlice(trail[n][k], n)'
      BY <3>2, <3>4
    <3> QED
      BY <1>11, <3>1, <3>3, <3>5, <3>6 DEF RecordedAt, Frame
  <2> QED
    BY <1>7, <2>1, <2>2 DEF Recorded
<1>21. Queued'
  <2>1. ASSUME NEW j \in 1 .. Len(task_queue')
        PROVE  (LET t == task_queue[j]
                IN  t.task \in Slices /\ Given(t.task) /\ Has(t.buf, t.task))'
    <3>1. PICK r, c : r = task_queue[j].task /\ c = task_queue[j].buf
      OBVIOUS
    <3>2. r \in Slices' /\ Given(r)' /\ Has(c, r)'
      BY <1>1, <1>15, <3>1, QueuedKept
    <3> QED
      BY <1>1, <3>1, <3>2
  <2> QED
    BY <2>1 DEF Queued
<1>22. Replaying'
  BY <1>15, ReplayingKept
<1> QED
  BY <1>16, <1>17, <1>18, <1>19, <1>20, <1>21, <1>22 DEF RunInv

LEMMA EndSliceKeeps == ASSUME Safe, EndSlice PROVE RunInv'
<1>1. /\ InFunction(pstack) /\ Instr(pstack).op = "end" /\ SliceFlag' = FALSE
      /\ task_queue' = Append(task_queue, [task |-> slice, buf |-> p_queue_idx])
      /\ QIdx' = 0 /\ p_queue_idx' = NoBuf
      /\ pstack' = Following(pstack, FALSE)
      /\ UNCHANGED <<passVars, slice, CurIndex, empty_list, queue, cstack, task,
                     CBuf, CQIdx, sent, trail, got>>
  BY DEF EndSlice, HandOver, ResetProducer
<1>2. Types /\ Owned /\ Producing /\ Filled /\ Recorded /\ Queued
  BY DEF Safe, RunInv
<1>3. pstack # << >> /\ Len(pstack) = 1 /\ Filling /\ pstack[1].pos = EndAt
  BY <1>1, InSliceFunction
<1>4. slice \in Slices /\ slice \in Nat
  BY <1>3, ProgramAt
<1>5. EndAt' = EndAt /\ Slices' = Slices /\ EndAt \in Nat \ {0} /\ StartAt' = StartAt
  BY <1>1, PassDone, Positions DEF Slices, Safe, Tables
<1>6. PICK q : q = pstack'
  OBVIOUS
<1>7. /\ q \in Seq(Activations) /\ q # << >> /\ Len(q) = 1 /\ q[1].fn = "S"
      /\ q[1].pos = EndAt + 1
  <2>1. Top(pstack) = pstack[1] /\ pstack[1].fn = "S"
    BY <1>3, ProgramAt
  <2>2. /\ q \in Seq(Activations) /\ q # << >> /\ Len(q) = Len(pstack)
        /\ q[Len(pstack)].fn = Top(pstack).fn
        /\ q[Len(pstack)].pos = Top(pstack).pos + IF Instr(pstack).op = "br" /\ FALSE THEN 2 ELSE 1
    BY <1>1, <1>6, FollowingProgram
  <2> QED
    BY <1>3, <2>1, <2>2
<1>8. ~Filling'
  BY <1>5, <1>6, <1>7 DEF Filling
<1>9. PICK b, s : b = p_queue_idx /\ s = slice
  OBVIOUS
<1>10. b \in Bufs /\ Has(b, s) /\ trail[s][Len(trail[s])] = Point(pstack, sent[s])
  BY <1>2, <1>3, <1>9 DEF Types, Producing, Filled
<1>11. Onward
  <2>1. \A r \in Slices : Len(sent[r]) \in Nat
    BY <1>2, SentType
  <2>2. \A r \in Slices : r < slice' \/ r = slice'
    BY <1>1, <1>4 DEF Slices
  <2> QED
    BY <1>1, <1>5, <1>8, <2>1, <2>2 DEF Onward
<1>12. /\ task_queue' \in Seq([task : Nat, buf : Bufs])
       /\ Len(task_queue') = Len(task_queue) + 1 /\ Len(task_queue) \in Nat
       /\ task_queue'[Len(task_queue) + 1] = [task |-> s, buf |-> b]
       /\ \A j \in 1 .. Len(task_queue) : task_queue'[j] = task_queue[j]
  <2>1. PICK e, l : e = [task |-> s, buf |-> b] /\ l = task_queue
    OBVIOUS
  <2>2. e \in [task : Nat, buf : Bufs] /\ l \in Seq([task : Nat, buf : Bufs])
    BY <1>2, <1>4, <1>9, <1>10, <2>1 DEF Types
  <2>3. /\ Append(l, e) \in Seq([task : Nat, buf : Bufs]) /\ Len(Append(l, e)) = Len(l) + 1
        /\ Append(l, e)[Len(l) + 1] = e /\ \A j \in 1 .. Len(l) : Append(l, e)[j] = l[j]
    BY ONLY <2>2, AppendProperties
  <2>4. Len(l) \in Nat
    BY <2>2
  <2> QED
    BY <1>1, <1>9, <2>1, <2>3, <2>4
<1>13. Types'
  <2>1. pstack' \in Seq(Activations) /\ SliceFlag' \in BOOLEAN
    BY <1>1, <1>6, <1>7
  <2>2. QIdx' \in 0 .. BufSize
    <3>1. BufSize \in Nat
      BY Sizes
    <3> QED
      BY <1>1, <3>1
  <2>3. p_queue_idx' \in Bufs \cup {NoBuf}
    BY <1>1
  <2>4. task_queue' \in Seq([task : Nat, buf : Bufs])
    BY <1>12
  <2>5. /\ slice' \in 0 .. MaxSlices /\ CQIdx' \in [Workers -> 0 .. BufSize]
        /\ CurIndex' \in Bufs \cup {NoBuf} /\ empty_list' \in Seq(Bufs)
        /\ queue' \in [Bufs -> [0 .. BufSize - 1 -> Items]]
        /\ cstack' \in [Workers -> Seq(Frames)] /\ task' \in [Workers -> 0 .. slice']
        /\ CBuf' \in [Workers -> Bufs]
        /\ sent' \in Seq(Seq(Items)) /\ Len(sent') = slice'
        /\ trail' \in Seq(Seq(Points)) /\ Len(trail') = slice'
        /\ got' \in [Workers -> Seq(Gots)]
    BY <1>1, <1>2 DEF Types
  <2> QED
    BY <2>1, <2>2, <2>3, <2>4, <2>5 DEF Types
<1>14. \A j \in 1 .. Len(task_queue') :
         \/ j \in 1 .. Len(task_queue) /\ task_queue'[j] = task_queue[j]
         \/ j = Len(task_queue) + 1 /\ task_queue'[j] = [task |-> s, buf |-> b]
  BY <1>12
<1>15. Owned'
  <2>1. /\ \A i \in 1 .. Len(empty_list) : empty_list[i] # b
        /\ \A i \in 1 .. Len(task_queue) : task_queue[i].buf # b
        /\ \A w \in Workers : Running(w) => CBuf[w] # b
    BY <1>2, <1>9 DEF Owned
  <2>2. ASSUME NEW j \in 1 .. Len(task_queue')
        PROVE  /\ \/ j \in 1 .. Len(task_queue) /\ task_queue'[j].buf = task_queue[j].buf
                  \/ j = Len(task_queue) + 1 /\ task_queue'[j].buf = b
               /\ \A i \in 1 .. Len(empty_list) : empty_list[i] # task_queue'[j].buf
               /\ \A w \in Workers : Running(w) => task_queue'[j].buf # CBuf[w]
    BY <1>2, <1>14, <2>1 DEF Owned
  <2>3. ASSUME NEW i \in 1 .. Len(task_queue'), NEW j \in 1 .. Len(task_queue'),
               task_queue'[i].buf = task_queue'[j].buf
        PROVE  i = j
    BY <1>2, <2>1, <2>2, <2>3 DEF Owned
  <2>4. \A c \in Bufs : c # NoBuf
    BY Sizes DEF Bufs, NoBuf
  <2>5. /\ \A i \in 1 .. Len(empty_list) : empty_list[i] \in Bufs
        /\ \A i \in 1 .. Len(task_queue') : task_queue'[i].buf \in Bufs
        /\ \A w \in Workers : CBuf[w] \in Bufs
    <3>1. empty_list \in Seq(Bufs) /\ CBuf \in [Workers -> Bufs]
      BY <1>2 DEF Types
    <3>2. \A i \in 1 .. Len(empty_list) : empty_list[i] \in Bufs
      BY ONLY <3>1, Element
    <3>3. \A i \in 1 .. Len(task_queue') : task_queue'[i] \in [task : Nat, buf : Bufs]
      BY ONLY <1>12, Element
    <3>4. \A i \in 1 .. Len(task_queue') : task_queue'[i].buf \in Bufs
      BY <3>3
    <3> QED
      BY <3>1, <3>2, <3>4
  <2>6. \A w : Running(w)' = Running(w)
    BY <1>1 DEF Running
  <2> QED
    BY <1>1, <1>2, <2>2, <2>3, <2>4, <2>5, <2>6 DEF Owned
<1>16. Producing'
  <2>1. \A j \in 2 .. Len(q) : FALSE
    BY ONLY <1>7, NoneLater
  <2>2. slice > 0
    BY <1>4 DEF Slices
  <2>3. EndAt + 1 > 0
    BY <1>5
  <2>4. q[1].pos > 0
    BY <1>7, <2>3
  <2>5. pstack' = q /\ slice' = slice /\ SliceFlag' = FALSE /\ QIdx' = 0 /\ p_queue_idx' = NoBuf
    BY <1>1, <1>6
  <2> QED
    BY <1>5, <1>7, <1>8, <2>1, <2>2, <2>4, <2>5 DEF Producing
<1>17. Filled'
  BY <1>8 DEF Filled
<1>18. Recorded'
  <2>1. ASSUME NEW r \in Slices
        PROVE  LET x == trail[r][Len(trail[r])] IN AtEnd(x.at) /\ x.n = Len(sent[r])
    <3>1. CASE r = s
      <4>1. Point(pstack, sent[s]).at = Places(pstack) /\ Point(pstack, sent[s]).n = Len(sent[s])
        BY DEF Point
      <4>2. AtEnd(Places(pstack))
        <5>1. InFunction(Places(pstack)) /\ Instr(Places(pstack)).op = "end"
          BY <1>1, <1>3, ProgramAt, PlacesTop
        <5> QED
          BY <5>1 DEF AtEnd
      <4> QED
        BY <1>10, <3>1, <4>1, <4>2
    <3>2. CASE r # s
      <4>1. Given(r)
        BY <1>4, <1>9, <3>2 DEF Given, Slices
      <4> QED
        BY <1>2, <4>1 DEF Recorded, RecordedAt
    <3> QED
      BY <3>1, <3>2
  <2> QED
    BY <1>1, <2>1, RecordedSame
<1>19. Queued'
  <2>1. ASSUME NEW j \in 1 .. Len(task_queue')
        PROVE  (LET t == task_queue[j]
                IN  t.task \in Slices /\ Given(t.task) /\ Has(t.buf, t.task))'
    <3>1. CASE j \in 1 .. Len(task_queue)
      <4>1. PICK r, c : r = task_queue[j].task /\ c = task_queue[j].buf
        OBVIOUS
      <4>2. r \in Slices' /\ Given(r)' /\ Has(c, r)'
        BY <1>11, <3>1, <4>1, QueuedKept
      <4>3. task_queue'[j] = task_queue[j]
        BY <1>12, <3>1
      <4> QED
        BY <4>1, <4>2, <4>3
    <3>2. CASE j \notin 1 .. Len(task_queue)
      <4>1. task_queue'[j] = [task |-> s, buf |-> b]
        BY <1>14, <3>2
      <4>2. Given(s)' /\ Has(b, s)'
        BY <1>1, <1>8, <1>9, <1>10 DEF Given, Has
      <4>3. s = task_queue'[j].task /\ b = task_queue'[j].buf
        BY <4>1
      <4> QED
        BY <1>4, <1>5, <1>9, <4>2, <4>3
    <3> QED
      BY <3>1, <3>2
  <2> QED
    BY <2>1 DEF Queued
<1>20. Replaying'
  BY <1>11, ReplayingKept
<1> QED
  BY <1>13, <1>15, <1>16, <1>17, <1>18, <1>19, <1>20 DEF RunInv

-----------------------------------------------------------------------------
(* A step of a worker.                                                     *)
Still ==
  /\ passVars' = passVars
  /\ UNCHANGED <<pstack, slice, SliceFlag, QIdx, p_queue_idx, CurIndex, queue, sent, trail>>

Follows(w) ==
  /\ Running(w) => Replays(w)
  /\ ~Running(w) => CQIdx[w] = 0
  /\ got[w] # << >> => task[w] \in Slices
  /\ task[w] \in Slices => Len(got[w]) <= Len(sent[task[w]])
  /\ \A i \in 1 .. Len(got[w]) :
       /\ got[w][i].item = sent[task[w]][i]
       /\ Meant(got[w][i]) /\ got[w][i].item.slice = task[w]

LEMMA EveryoneFollows == Replaying <=> \A w \in Workers : Follows(w)
BY DEF Replaying, Follows

LEMMA ProgramStill ==
  ASSUME Safe, Still
  PROVE  /\ Producing' /\ Filled' /\ Recorded' /\ Filling' = Filling /\ Slices' = Slices
         /\ EndAt' = EndAt /\ body' = body /\ push' = push /\ read' = read
         /\ \A s : Given(s)' = Given(s)
<1>1. /\ passVars' = passVars
      /\ UNCHANGED <<pstack, slice, SliceFlag, QIdx, p_queue_idx, CurIndex, queue, sent, trail>>
  BY DEF Still
<1>2. EndAt' = EndAt /\ StartAt' = StartAt /\ body' = body /\ push' = push /\ read' = read
  BY <1>1, PassDone
<1>3. Filling' = Filling /\ Slices' = Slices
  BY <1>1, <1>2 DEF Filling, Slices
<1>4. \A s : Given(s)' = Given(s)
  BY <1>1, <1>3 DEF Given
<1>5. Producing /\ Filled /\ Recorded
  BY DEF Safe, RunInv
<1>6. Producing'
  BY <1>1, <1>2, <1>3, <1>5 DEF Producing
<1>7. Filled'
  BY <1>1, <1>3, <1>5 DEF Filled, Has, Point, Places
<1>8. Recorded'
  <2>1. \A r \in Slices : Given(r)' => LET x == trail[r][Len(trail[r])]
                                       IN  AtEnd(x.at) /\ x.n = Len(sent[r])
    BY <1>4, <1>5 DEF Recorded, RecordedAt
  <2> QED
    BY <1>1, <2>1, RecordedSame
<1> QED
  BY <1>2, <1>3, <1>4, <1>6, <1>7, <1>8

LEMMA FollowsStill ==
  ASSUME Safe, Still, NEW v \in Workers, cstack'[v] = cstack[v], task'[v] = task[v],
         CBuf'[v] = CBuf[v], CQIdx'[v] = CQIdx[v], got'[v] = got[v]
  PROVE  Follows(v)'
<1>1. Follows(v)
  BY EveryoneFollows DEF Safe, RunInv
<1>2. /\ Slices' = Slices /\ EndAt' = EndAt /\ sent' = sent /\ trail' = trail
      /\ queue' = queue /\ \A s : Given(s)' = Given(s)
  BY ProgramStill DEF Still
<1>3. Running(v)' = Running(v)
  BY DEF Running
<1>4. Replays(v) => Replays(v)'
  <2> SUFFICES ASSUME Replays(v) PROVE Replays(v)'
    OBVIOUS
  <2>1. PICK s : s = task[v]
    OBVIOUS
  <2>2. s \in Slices' /\ Given(s)'
    BY <1>2, <2>1 DEF Replays
  <2> QED
    BY <1>2, <2>1, <2>2, ReplaysKept
<1>5. \A i \in 1 .. Len(got[v]) : Meant(got[v][i])' = Meant(got[v][i])
  BY DEF Meant
<1> QED
  BY <1>1, <1>2, <1>3, <1>4, <1>5 DEF Follows

(* What a step of a worker changes.                                        *)
LEMMA WorkersKeep ==
  ASSUME Safe, Still, Owned', Queued', Replaying',
         empty_list' \in Seq(Bufs), task_queue' \in Seq([task : Nat, buf : Bufs]),
         cstack' \in [Workers -> Seq(Frames)], task' \in [Workers -> 0 .. slice],
         CBuf' \in [Workers -> Bufs], CQIdx' \in [Workers -> 0 .. BufSize],
         got' \in [Workers -> Seq(Gots)]
  PROVE  RunInv'
<1>1. Producing' /\ Filled' /\ Recorded'
  BY ProgramStill
<1>2. Types'
  BY DEF Safe, RunInv, Types, Still
<1> QED
  BY <1>1, <1>2 DEF RunInv

LEMMA QueuedStill ==
  ASSUME Safe, Still, NEW j \in 1 .. Len(task_queue), NEW t, t = task_queue[j]
  PROVE  (t.task \in Slices /\ Given(t.task) /\ Has(t.buf, t.task))'
<1>1. t.task \in Slices /\ Given(t.task) /\ Has(t.buf, t.task)
  BY DEF Safe, RunInv, Queued
<1>2. PICK s, b : s = t.task /\ b = t.buf
  OBVIOUS
<1>3. s \in Slices' /\ Given(s)'
  BY <1>1, <1>2, ProgramStill
<1>4. Has(b, s)'
  BY <1>1, <1>2, HasKept DEF Still
<1> QED
  BY <1>2, <1>3, <1>4

-----------------------------------------------------------------------------
(* Where a clone is.                                                       *)
LEMMA CloneTop ==
  ASSUME Safe, NEW w \in Workers, Running(w)
  PROVE  /\ cstack[w] \in Seq(Frames) /\ cstack[w] # << >> /\ Len(cstack[w]) \in Nat \ {0}
         /\ \A j \in 1 .. Len(cstack[w]) : cstack[w][j] \in Frames /\ cstack[w][j].pos > 0
         /\ Top(cstack[w]).fn \in Funcs /\ Top(cstack[w]).pos \in Nat \ {0}
         /\ 1 \in 1 .. Len(cstack[w]) /\ cstack[w][1].pos \in Nat /\ cstack[w][1].fn = "S"
<1>1. Types /\ Recorded /\ Replays(w)
  BY EveryoneFollows DEF Safe, RunInv, Follows
<1>2. PICK a : a = cstack[w]
  OBVIOUS
<1>3. a \in Seq(Frames) /\ a # << >>
  BY <1>1, <1>2, WorkerType DEF Running
<1>4. /\ Len(a) \in Nat \ {0} /\ 1 \in 1 .. Len(a) /\ Len(a) \in 1 .. Len(a)
      /\ \A j \in 1 .. Len(a) : a[j] \in Frames
  BY <1>3
<1>5. a[1].fn = "S" /\ \A j \in 1 .. Len(a) : a[j].pos > 0
  <2>1. CASE Beyond(a)
    <3>1. Len(a) = 1 /\ a[1].fn = "S" /\ a[1].pos > EndAt /\ EndAt \in Nat
      BY <2>1, Positions DEF Beyond, Safe, Tables
    <3>2. a[1].pos \in Nat
      BY <1>4 DEF Frames
    <3>3. \A j \in 1 .. Len(a) : j = 1
      BY <3>1
    <3> QED
      BY <3>1, <3>2, <3>3
  <2>2. CASE ~Beyond(a)
    <3>1. PICK s : s = task[w]
      OBVIOUS
    <3>2. s \in Slices /\ \E k \in 1 .. Len(trail[s]) : trail[s][k].at = a
      BY <1>1, <1>2, <2>2, <3>1 DEF Replays
    <3>3. PICK k \in 1 .. Len(trail[s]) : trail[s][k].at = a
      BY <3>2
    <3>4. InSlice(trail[s][k], s)
      BY <1>1, <3>2 DEF Recorded, RecordedAt
    <3>5. a[1].fn = "S" /\ a[1].pos > 0 /\ \A j \in 2 .. Len(a) : a[j].pos > 0
      BY <3>3, <3>4 DEF InSlice
    <3>6. \A j \in 1 .. Len(a) : j = 1 \/ j \in 2 .. Len(a)
      BY <1>4, FirstOrLater
    <3> QED
      BY <3>5, <3>6
  <2> QED
    BY <2>1, <2>2
<1>6. Top(a) = a[Len(a)]
  BY DEF Top
<1>7. Top(a) \in Frames /\ Top(a).pos > 0 /\ a[1] \in Frames
  BY <1>4, <1>5, <1>6
<1>8. Top(a).fn \in Funcs /\ Top(a).pos \in Nat \ {0} /\ a[1].pos \in Nat
  BY <1>7 DEF Frames
<1> QED
  BY <1>2, <1>3, <1>4, <1>5, <1>8

LEMMA CloneBeyond ==
  ASSUME Safe, NEW w \in Workers, Running(w), Beyond(cstack[w])
  PROVE  /\ CQIdx[w] = 0 /\ Past(w)
         /\ InFunction(cstack[w]) => Instr(cstack[w]).op = "plain" /\ Wanted(w) = << >>
<1>1. PICK a : a = cstack[w]
  OBVIOUS
<1>2. Len(a) = 1 /\ a[1].fn = "S" /\ a[1].pos > EndAt /\ Top(a) = a[1] /\ a # << >>
  BY <1>1 DEF Beyond, Top, Running
<1>3. a[1].pos \in Nat \ {0}
  <2>1. Top(a).pos \in Nat \ {0}
    BY <1>1, CloneTop
  <2> QED
    BY <1>2, <2>1
<1>4. Past(w)
  BY <1>1, <1>2, Positions DEF Past, Safe, Tables
<1>5. CQIdx[w] = 0
  <2>1. Replays(w)
    BY EveryoneFollows DEF Safe, RunInv, Follows
  <2>2. CASE ~(CQIdx[w] = 0)
    <3>1. PICK s : s = task[w]
      OBVIOUS
    <3>2. s \in Slices /\ \E k \in 1 .. Len(trail[s]) : trail[s][k].at = a
      BY <1>1, <2>1, <2>2, <3>1 DEF Replays
    <3>3. PICK k \in 1 .. Len(trail[s]) : trail[s][k].at = a
      BY <3>2
    <3>4. InSlice(trail[s][k], s)
      BY <3>2 DEF Safe, RunInv, Recorded, RecordedAt
    <3>5. a[1].pos <= EndAt /\ EndAt \in Nat
      BY <3>3, <3>4, Positions DEF InSlice, Safe, Tables
    <3> QED
      BY <1>2, <1>3, <3>5
  <2> QED
    BY <2>2
<1>6. ASSUME InFunction(a) PROVE Instr(a).op = "plain" /\ Wanted(w) = << >>
  <2>1. Top(a).fn \in Funcs /\ Top(a).pos \in Nat \ {0}
    BY <1>1, CloneTop
  <2>2. /\ Top(a).pos \in 1 .. Len(body[Top(a).fn])
        /\ Instr(a) = body[Top(a).fn][Top(a).pos]
        /\ push[Top(a).fn][Top(a).pos] = Exchange(Top(a).fn, Top(a).pos)
    BY <1>6, <2>1, InstrAt
  <2>3. Instr(a).op = "plain"
    BY <1>2, <2>2, Positions DEF Safe, Tables
  <2>4. Exchange(Top(a).fn, Top(a).pos) = << >>
    BY <2>2, <2>3 DEF Exchange, Exchanges
  <2>5. Wanted(w) = push[Top(a).fn][Top(a).pos]
    BY <1>1, Ready DEF Wanted, Safe
  <2> QED
    BY <2>2, <2>3, <2>4, <2>5
<1> QED
  BY <1>1, <1>4, <1>5, <1>6

(* A clone that has not met end_slice is at an activation of its slice.    *)
LEMMA ClonePoint ==
  ASSUME Safe, NEW w \in Workers, Running(w), ~Beyond(cstack[w]), NEW s, s = task[w]
  PROVE  /\ s \in Slices /\ Given(s) /\ Has(CBuf[w], s) /\ CQIdx[w] = Len(got[w]) /\ ~Past(w)
         /\ Len(sent[s]) <= BufSize /\ Len(sent[s]) \in Nat
         /\ got[w] \in Seq(Gots) /\ Len(got[w]) \in Nat /\ Len(got[w]) <= Len(sent[s])
         /\ \E k \in 1 .. Len(trail[s]) :
              /\ trail[s][k].at = cstack[w] /\ trail[s][k].n = Len(got[w])
              /\ InSlice(trail[s][k], s)
              /\ IF AtEnd(cstack[w]) THEN Len(got[w]) = Len(sent[s])
                 ELSE /\ k + 1 \in 1 .. Len(trail[s])
                      /\ Leads(s, trail[s][k], trail[s][k + 1])
                      /\ InSlice(trail[s][k + 1], s) /\ trail[s][k + 1].n \in Nat
<1>1. Types /\ Recorded /\ Replays(w) /\ Follows(w)
  BY EveryoneFollows DEF Safe, RunInv, Follows
<1>2. PICK a, t, g : a = cstack[w] /\ t = trail[s] /\ g = got[w]
  OBVIOUS
<1>3. /\ s \in Slices /\ Given(s) /\ Has(CBuf[w], s) /\ CQIdx[w] = Len(g)
      /\ \E k \in 1 .. Len(t) : t[k].at = a /\ t[k].n = Len(g)
  BY <1>1, <1>2 DEF Replays
<1>4. PICK k \in 1 .. Len(t) : t[k].at = a /\ t[k].n = Len(g)
  BY <1>3
<1>5. /\ \A i \in 1 .. Len(t) : InSlice(t[i], s) /\ t[i].n \in Nat
      /\ \A i \in 1 .. Len(t) - 1 : Leads(s, t[i], t[i + 1])
      /\ AtEnd(t[Len(t)].at) /\ t[Len(t)].n = Len(sent[s])
      /\ Len(sent[s]) \in Nat /\ Len(t) \in Nat
  BY <1>1, <1>2, <1>3, SentType DEF Recorded, RecordedAt
<1>6. g \in Seq(Gots) /\ Len(g) \in Nat
  BY <1>1, <1>2, WorkerType
<1>7. ~Past(w)
  <2>1. a[1].pos <= EndAt /\ EndAt \in Nat /\ a[1].pos \in Nat
    BY <1>2, <1>4, <1>5, CloneTop, Positions DEF InSlice, Safe, Tables
  <2>2. \A i \in DOMAIN body["S"] : body["S"][i].op = "end" => i = EndAt
    BY Positions DEF Safe, Tables
  <2> QED
    BY <1>2, <2>1, <2>2 DEF Past
<1>8. Len(sent[s]) <= BufSize /\ Len(g) <= Len(sent[s])
  BY <1>1, <1>2, <1>3 DEF Has, Follows
<1>9. CASE k = Len(t)
  BY <1>2, <1>3, <1>4, <1>5, <1>6, <1>7, <1>8, <1>9
<1>10. CASE k # Len(t)
  <2>1. k \in 1 .. Len(t) - 1 /\ k + 1 \in 1 .. Len(t)
    BY <1>5, <1>10
  <2>2. Leads(s, t[k], t[k + 1])
    BY <1>5, <2>1
  <2>3. ~AtEnd(a)
    BY <1>4, <2>2 DEF Leads, AtEnd
  <2> QED
    BY <1>2, <1>3, <1>4, <1>5, <1>6, <1>7, <1>8, <2>1, <2>2, <2>3
<1> QED
  BY <1>9, <1>10

(* What a clone reads is what its slice has pushed there.                  *)
LEMMA CloneReads ==
  ASSUME Safe, NEW w \in Workers, InFunction(cstack[w]), ~Beyond(cstack[w]),
         ~AtEnd(cstack[w]), NEW s, s = task[w]
  PROVE  /\ Got(w) \in Seq(Gots) /\ Len(Got(w)) = Len(Wanted(w)) /\ Len(Wanted(w)) \in Nat
         /\ Len(got[w]) + Len(Wanted(w)) <= Len(sent[s])
         /\ \A j \in 1 .. Len(Wanted(w)) :
              /\ Got(w)[j].item = sent[s][Len(got[w]) + j]
              /\ Meant(Got(w)[j]) /\ Got(w)[j].item.slice = s
         /\ Instr(cstack[w]).op = "br" => Len(Wanted(w)) = 1
         /\ \E o \in BOOLEAN :
              /\ \A j \in 1 .. Len(Wanted(w)) : Got(w)[j].item.out = o
              /\ \E k \in 1 .. Len(trail[s]) :
                   /\ trail[s][k].at = After(cstack[w], o)
                   /\ trail[s][k].n = Len(got[w]) + Len(Wanted(w))
                   /\ InSlice(trail[s][k], s)
<1>1. PICK a, p, n : a = cstack[w] /\ p = Wanted(w) /\ n = Len(got[w])
  OBVIOUS
<1>2. PICK f, i : f = Top(a).fn /\ i = Top(a).pos
  OBVIOUS
<1>3. Running(w) /\ f \in Funcs /\ i \in Nat \ {0}
  BY <1>1, <1>2, CloneTop DEF Running, InFunction
<1>4. /\ push[f][i] = Exchange(f, i) /\ push[f][i] \in Seq(Kinds) /\ Instr(a) = body[f][i]
  BY <1>1, <1>2, <1>3, InstrAt
<1>5. p = push[f][i]
  BY <1>1, <1>2, Ready DEF Wanted, Safe
<1>6. p \in Seq(Kinds) /\ Len(p) \in Nat /\ \A j \in 1 .. Len(p) : p[j] \in Kinds
  BY <1>4, <1>5
<1>7. /\ s \in Slices /\ Has(CBuf[w], s) /\ CQIdx[w] = n /\ n \in Nat
      /\ Len(sent[s]) <= BufSize /\ Len(sent[s]) \in Nat
      /\ \E k \in 1 .. Len(trail[s]) :
           /\ trail[s][k].at = a /\ trail[s][k].n = n /\ k + 1 \in 1 .. Len(trail[s])
           /\ Leads(s, trail[s][k], trail[s][k + 1]) /\ InSlice(trail[s][k + 1], s)
  BY <1>1, <1>3, ClonePoint
<1>8. PICK k \in 1 .. Len(trail[s]) :
        /\ trail[s][k].at = a /\ trail[s][k].n = n /\ k + 1 \in 1 .. Len(trail[s])
        /\ Leads(s, trail[s][k], trail[s][k + 1]) /\ InSlice(trail[s][k + 1], s)
  BY <1>7
<1>9. PICK x, y : x = trail[s][k] /\ y = trail[s][k + 1]
  OBVIOUS
<1>10. /\ y.n = n + Len(p) /\ y.n <= Len(sent[s])
       /\ \E o \in BOOLEAN : Exchanged(s, a, n, o) /\ y.at = After(a, o)
  BY <1>1, <1>2, <1>5, <1>8, <1>9 DEF Leads
<1>11. PICK o \in BOOLEAN : Exchanged(s, a, n, o) /\ y.at = After(a, o)
  BY <1>10
<1>12. \A j \in 1 .. Len(p) : sent[s][n + j] = Item(s, f, i, p[j], o)
  BY <1>2, <1>5, <1>11 DEF Exchanged
<1>13. \A j \in 1 .. Len(p) : n + j \in 1 .. Len(sent[s]) /\ n + j - 1 = (n + j) - 1
  BY ONLY <1>6, <1>7, <1>10
<1>14. PICK c : c = CBuf[w]
  OBVIOUS
<1>15. \A j \in 1 .. Len(p) : queue[c][n + j - 1] = sent[s][n + j]
  <2>1. \A m \in 1 .. Len(sent[s]) : queue[c][m - 1] = sent[s][m]
    BY <1>7, <1>14 DEF Has
  <2> QED
    BY <1>13, <2>1
<1>16. PICK h : h = Got(w)
  OBVIOUS
<1>17. h = [j \in 1 .. Len(p) |-> [fn |-> f, pos |-> i, kind |-> p[j],
                                   item |-> queue[c][n + j - 1]]]
  BY <1>1, <1>2, <1>7, <1>14, <1>16 DEF Got
<1>18. \A j \in 1 .. Len(p) : h[j] = [fn |-> f, pos |-> i, kind |-> p[j],
                                      item |-> Item(s, f, i, p[j], o)]
  BY <1>12, <1>15, <1>17
<1>19. s \in 0 .. MaxSlices
  BY <1>7, Sizes DEF Safe, RunInv, Types, Slices
<1>20. \A j \in 1 .. Len(p) : Item(s, f, i, p[j], o) \in Items
  BY <1>3, <1>6, <1>11, <1>19 DEF Item, Items
<1>21. ASSUME NEW j \in 1 .. Len(p) PROVE h[j] \in Gots
  <2>1. PICK e, r : e = Item(s, f, i, p[j], o) /\ r = p[j]
    OBVIOUS
  <2>2. e \in Items /\ r \in Kinds /\ h[j] = [fn |-> f, pos |-> i, kind |-> r, item |-> e]
    BY <1>6, <1>18, <1>20, <2>1
  <2> QED
    BY <1>3, <2>2 DEF Gots
<1>22. h \in Seq(Gots) /\ Len(h) = Len(p)
  <2>1. h \in [1 .. Len(p) -> Gots]
    BY <1>17, <1>21
  <2> QED
    BY <1>6, <2>1
<1>23. ASSUME NEW j \in 1 .. Len(p)
       PROVE  /\ h[j].item = sent[s][n + j] /\ Meant(h[j]) /\ h[j].item.slice = s
              /\ h[j].item.out = o
  <2>1. PICK e, r : e = Item(s, f, i, p[j], o) /\ r = p[j]
    OBVIOUS
  <2>2. e = sent[s][n + j] /\ h[j] = [fn |-> f, pos |-> i, kind |-> r, item |-> e]
    BY <1>12, <1>18, <2>1
  <2>3. e.slice = s /\ e.fn = f /\ e.pos = i /\ e.kind = r /\ e.out = o
    BY <2>1 DEF Item
  <2>4. h[j].item = e /\ h[j].fn = f /\ h[j].pos = i /\ h[j].kind = r
    BY <2>2
  <2> QED
    BY <2>2, <2>3, <2>4 DEF Meant
<1>24. Instr(a).op = "br" => Len(p) = 1
  BY <1>4, <1>5 DEF Exchange, Exchanges
<1>25. /\ trail[s][k + 1].at = After(a, o) /\ trail[s][k + 1].n = n + Len(p)
       /\ InSlice(trail[s][k + 1], s) /\ k + 1 \in 1 .. Len(trail[s])
  BY <1>8, <1>9, <1>10, <1>11
<1> QED
  BY <1>1, <1>6, <1>10, <1>16, <1>22, <1>23, <1>24, <1>25

(* The buffers stay where they are as long as a clone only goes on.        *)
LEMMA OwnedStill ==
  ASSUME Owned, UNCHANGED <<p_queue_idx, empty_list, task_queue, CBuf>>,
         \A w \in Workers : Running(w)' => Running(w)
  PROVE  Owned'
BY DEF Owned

(* A clone reads on in its slice.                                          *)
LEMMA ReadingOn ==
  ASSUME Safe, Still, NEW w \in Workers, InFunction(cstack[w]), ~Beyond(cstack[w]),
         ~AtEnd(cstack[w]), ReadFromBuf(w), UNCHANGED <<empty_list, task_queue, task, CBuf>>,
         NEW a \in Seq(Frames), a # << >>, cstack' = [cstack EXCEPT ![w] = a],
         \A o \in BOOLEAN : (\A j \in 1 .. Len(Wanted(w)) : Got(w)[j].item.out = o)
                              => a = After(cstack[w], o)
  PROVE  RunInv'
<1>1. PICK s, g, h, m : s = task[w] /\ g = got[w] /\ h = Got(w) /\ m = Len(Wanted(w))
  OBVIOUS
<1>2. Types /\ Owned /\ Queued /\ Running(w)
  BY DEF Safe, RunInv, Running, InFunction
<1>3. /\ s \in Slices /\ Given(s) /\ Has(CBuf[w], s) /\ CQIdx[w] = Len(g) /\ ~Past(w)
      /\ Len(sent[s]) <= BufSize /\ Len(sent[s]) \in Nat
      /\ g \in Seq(Gots) /\ Len(g) \in Nat
  BY <1>1, <1>2, ClonePoint
<1>4. /\ h \in Seq(Gots) /\ Len(h) = m /\ m \in Nat /\ Len(g) + m <= Len(sent[s])
      /\ \A j \in 1 .. m : h[j].item = sent[s][Len(g) + j] /\ Meant(h[j]) /\ h[j].item.slice = s
      /\ \E o \in BOOLEAN : (\A j \in 1 .. m : h[j].item.out = o) /\
           \E k \in 1 .. Len(trail[s]) :
             trail[s][k].at = After(cstack[w], o) /\ trail[s][k].n = Len(g) + m
  <2>1. /\ Got(w) \in Seq(Gots) /\ Len(Got(w)) = Len(Wanted(w)) /\ Len(Wanted(w)) \in Nat
        /\ Len(got[w]) + Len(Wanted(w)) <= Len(sent[s])
        /\ \A j \in 1 .. Len(Wanted(w)) :
             /\ Got(w)[j].item = sent[s][Len(got[w]) + j]
             /\ Meant(Got(w)[j]) /\ Got(w)[j].item.slice = s
    BY <1>1, CloneReads
  <2>2. \E o \in BOOLEAN :
          /\ \A j \in 1 .. Len(Wanted(w)) : Got(w)[j].item.out = o
          /\ \E k \in 1 .. Len(trail[s]) :
               /\ trail[s][k].at = After(cstack[w], o)
               /\ trail[s][k].n = Len(got[w]) + Len(Wanted(w))
               /\ InSlice(trail[s][k], s)
    BY <1>1, CloneReads
  <2>3. PICK o \in BOOLEAN :
          /\ \A j \in 1 .. Len(Wanted(w)) : Got(w)[j].item.out = o
          /\ \E k \in 1 .. Len(trail[s]) :
               /\ trail[s][k].at = After(cstack[w], o)
               /\ trail[s][k].n = Len(got[w]) + Len(Wanted(w))
    BY <2>2
  <2>4. /\ \A j \in 1 .. m : h[j].item.out = o
        /\ \E k \in 1 .. Len(trail[s]) :
             trail[s][k].at = After(cstack[w], o) /\ trail[s][k].n = Len(g) + m
    BY ONLY <1>1, <2>3
  <2>5. /\ h \in Seq(Gots) /\ Len(h) = m /\ m \in Nat /\ Len(g) + m <= Len(sent[s])
        /\ \A j \in 1 .. m : h[j].item = sent[s][Len(g) + j] /\ Meant(h[j])
                              /\ h[j].item.slice = s
    BY ONLY <1>1, <2>1
  <2> QED
    BY <2>4, <2>5
<1>5. \E k \in 1 .. Len(trail[s]) : trail[s][k].at = a /\ trail[s][k].n = Len(g) + m
  BY <1>1, <1>4
<1>6. /\ cstack \in [Workers -> Seq(Frames)] /\ task \in [Workers -> 0 .. slice]
      /\ CBuf \in [Workers -> Bufs] /\ CQIdx \in [Workers -> 0 .. BufSize]
      /\ got \in [Workers -> Seq(Gots)] /\ empty_list \in Seq(Bufs)
      /\ task_queue \in Seq([task : Nat, buf : Bufs])
  BY <1>2 DEF Types
<1>7. CQIdx' = [CQIdx EXCEPT ![w] = Len(g) + m] /\ got' = [got EXCEPT ![w] = g \o h]
  BY <1>1, <1>3 DEF ReadFromBuf
<1>8. /\ cstack'[w] = a /\ CQIdx'[w] = Len(g) + m /\ got'[w] = g \o h
      /\ task'[w] = s /\ CBuf'[w] = CBuf[w]
      /\ \A v \in Workers : v # w => /\ cstack'[v] = cstack[v] /\ CQIdx'[v] = CQIdx[v]
                                     /\ got'[v] = got[v] /\ task'[v] = task[v]
                                     /\ CBuf'[v] = CBuf[v]
  BY <1>1, <1>6, <1>7
<1>9. g \o h \in Seq(Gots) /\ Len(g \o h) = Len(g) + m
      /\ \A i \in 1 .. Len(g) + m : (g \o h)[i] = IF i <= Len(g) THEN g[i] ELSE h[i - Len(g)]
  <2>1. g \in Seq(Gots) /\ h \in Seq(Gots) /\ Len(h) = m
    BY <1>3, <1>4
  <2>2. /\ g \o h \in Seq(Gots) /\ Len(g \o h) = Len(g) + Len(h)
        /\ \A i \in 1 .. Len(g) + Len(h) :
             (g \o h)[i] = IF i <= Len(g) THEN g[i] ELSE h[i - Len(g)]
    BY ONLY <2>1, ConcatProperties
  <2> QED
    BY ONLY <2>1, <2>2
<1>10. /\ Slices' = Slices /\ sent' = sent /\ trail' = trail /\ queue' = queue
       /\ \A r : Given(r)' = Given(r)
  BY ProgramStill DEF Still
<1>11. Follows(w)'
  <2>1. Running(w)'
    BY <1>8 DEF Running
  <2>2. Has(CBuf[w], s)'
    <3>1. PICK b : b = CBuf[w]
      OBVIOUS
    <3>2. Has(b, s)'
      BY <1>3, <1>10, <3>1, HasKept
    <3> QED
      BY <1>8, <3>1, <3>2
  <2>3. Replays(w)'
    <3>1. Given(s)'
      BY <1>3, <1>10
    <3>2. \E k \in 1 .. Len(trail'[s]) :
            trail'[s][k].at = cstack'[w] /\ trail'[s][k].n = Len(got'[w])
      BY <1>5, <1>8, <1>9, <1>10
    <3>3. CQIdx'[w] = Len(got'[w])
      BY <1>8, <1>9
    <3>4. Has(CBuf[w], task[w])'
      BY <1>8, <2>2
    <3> QED
      BY <1>3, <1>8, <1>10, <3>1, <3>2, <3>3, <3>4 DEF Replays
  <2>4. Len(got'[w]) <= Len(sent'[s])
    BY <1>4, <1>8, <1>9, <1>10
  <2>5. ASSUME NEW i \in 1 .. Len(g) + m
        PROVE  /\ (g \o h)[i].item = sent[s][i] /\ Meant((g \o h)[i])
               /\ (g \o h)[i].item.slice = s
    <3>1. CASE i <= Len(g)
      <4>1. i \in 1 .. Len(g) /\ (g \o h)[i] = g[i]
        BY <1>3, <1>9, <3>1
      <4>2. g[i].item = sent[s][i] /\ Meant(g[i]) /\ g[i].item.slice = s
        BY <1>1, <4>1, EveryoneFollows DEF Safe, RunInv, Follows
      <4> QED
        BY <4>1, <4>2
    <3>2. CASE ~(i <= Len(g))
      <4>1. PICK j : j = i - Len(g)
        OBVIOUS
      <4>2. j \in 1 .. m /\ i = Len(g) + j /\ (g \o h)[i] = h[j]
        BY <1>3, <1>4, <1>9, <3>2, <4>1
      <4>3. h[j].item = sent[s][Len(g) + j] /\ Meant(h[j]) /\ h[j].item.slice = s
        BY <1>4, <4>2
      <4> QED
        BY <4>2, <4>3
    <3> QED
      BY <3>1, <3>2
  <2>6. \A i \in 1 .. Len(got'[w]) :
          /\ got'[w][i].item = sent'[s][i] /\ Meant(got'[w][i]) /\ got'[w][i].item.slice = s
    BY <1>8, <1>9, <1>10, <2>5
  <2> QED
    BY <1>3, <1>8, <1>10, <2>1, <2>3, <2>4, <2>6 DEF Follows, Meant
<1>12. Replaying'
  <2>1. \A v \in Workers : v # w => Follows(v)'
    BY <1>8, FollowsStill
  <2>2. \A v \in Workers : Follows(v)'
    BY <1>11, <2>1
  <2> QED
    BY <2>2 DEF Replaying, Follows
<1>13. Owned'
  <2>1. \A v \in Workers : Running(v)' => Running(v)
    BY <1>2, <1>8 DEF Running
  <2> QED
    BY <1>2, <2>1, OwnedStill DEF Still
<1>14. Queued'
  BY QueuedStill DEF Queued
<1>15. /\ cstack' \in [Workers -> Seq(Frames)] /\ CQIdx' \in [Workers -> 0 .. BufSize]
       /\ got' \in [Workers -> Seq(Gots)]
  <2>1. Len(g) + m \in 0 .. BufSize
    BY <1>3, <1>4, Sizes
  <2> QED
    BY <1>6, <1>7, <1>9, <2>1
<1> QED
  BY <1>6, <1>12, <1>13, <1>14, <1>15, WorkersKeep

LEMMA CloneFollowing ==
  ASSUME Safe, NEW w \in Workers, InFunction(cstack[w]), NEW o
  PROVE  /\ Following(cstack[w], o) \in Seq(Frames) /\ Following(cstack[w], o) # << >>
         /\ Len(Following(cstack[w], o)) = Len(cstack[w])
         /\ Len(cstack[w]) = 1 =>
              /\ Following(cstack[w], o)[1].fn = cstack[w][1].fn
              /\ Following(cstack[w], o)[1].pos =
                   cstack[w][1].pos + IF Instr(cstack[w]).op = "br" /\ o THEN 2 ELSE 1
<1>1. PICK a : a = cstack[w]
  OBVIOUS
<1>2. /\ a \in Seq(Frames) /\ a # << >> /\ Top(a).pos \in Nat \ {0}
      /\ 1 \in 1 .. Len(a) /\ \A j \in 1 .. Len(a) : a[j] \in Frames
  BY <1>1, CloneTop DEF Running, InFunction
<1>3. PICK i : i = Top(a).pos + IF Instr(a).op = "br" /\ o THEN 2 ELSE 1
  OBVIOUS
<1>4. i \in Nat
  BY <1>2, <1>3
<1>5. Following(a, o) = Goto(a, i)
  BY <1>3 DEF Following
<1>6. /\ Goto(a, i) \in Seq(Frames) /\ Goto(a, i) # << >> /\ Len(Goto(a, i)) = Len(a)
      /\ Goto(a, i)[Len(a)] = [a[Len(a)] EXCEPT !.pos = i]
  BY <1>2, <1>4, GotoFrames, GotoStack
<1>7. Len(a) = 1 => /\ Goto(a, i)[1].fn = a[1].fn /\ Goto(a, i)[1].pos = i /\ Top(a) = a[1]
  BY <1>2, <1>6 DEF Frames, Top
<1> QED
  BY <1>1, <1>3, <1>5, <1>6, <1>7

(* A clone goes on past end_slice, or to it.                               *)
LEMMA CloneMoves ==
  ASSUME Safe, Still, NEW w \in Workers, Running(w), Follows(w)',
         UNCHANGED <<empty_list, task_queue, task, CBuf>>, NEW a \in Seq(Frames),
         cstack' = [cstack EXCEPT ![w] = a], CQIdx' = [CQIdx EXCEPT ![w] = 0], got' = got
  PROVE  RunInv'
<1>1. Types /\ Owned
  BY DEF Safe, RunInv
<1>2. /\ cstack \in [Workers -> Seq(Frames)] /\ task \in [Workers -> 0 .. slice]
      /\ CBuf \in [Workers -> Bufs] /\ CQIdx \in [Workers -> 0 .. BufSize]
      /\ got \in [Workers -> Seq(Gots)] /\ empty_list \in Seq(Bufs)
      /\ task_queue \in Seq([task : Nat, buf : Bufs])
  BY <1>1 DEF Types
<1>3. \A v \in Workers : v # w => /\ cstack'[v] = cstack[v] /\ CQIdx'[v] = CQIdx[v]
                                  /\ got'[v] = got[v] /\ task'[v] = task[v]
                                  /\ CBuf'[v] = CBuf[v]
  BY <1>2
<1>4. Replaying'
  <2>1. \A v \in Workers : v # w => Follows(v)'
    BY <1>3, FollowsStill
  <2>2. \A v \in Workers : Follows(v)'
    BY <2>1
  <2> QED
    BY <2>2 DEF Replaying, Follows
<1>5. Owned'
  <2>1. \A v \in Workers : Running(v)' => Running(v)
    BY <1>3 DEF Running
  <2> QED
    BY <1>1, <2>1, OwnedStill DEF Still
<1>6. Queued'
  BY QueuedStill DEF Queued
<1>7. cstack' \in [Workers -> Seq(Frames)] /\ CQIdx' \in [Workers -> 0 .. BufSize]
  <2>1. 0 \in 0 .. BufSize
    BY Sizes
  <2> QED
    BY <1>2, <2>1
<1> QED
  BY <1>2, <1>4, <1>5, <1>6, <1>7, WorkersKeep

LEMMA BeyondFollows ==
  ASSUME Safe, Still, NEW w \in Workers, Running(w), task'[w] = task[w], got'[w] = got[w],
         CQIdx'[w] = 0, cstack'[w] # << >> => Beyond(cstack'[w]), Given(task[w]),
         task[w] \in Slices
  PROVE  Follows(w)'
<1>1. Follows(w)
  BY EveryoneFollows DEF Safe, RunInv
<1>2. /\ Slices' = Slices /\ EndAt' = EndAt /\ sent' = sent /\ \A r : Given(r)' = Given(r)
  BY ProgramStill DEF Still
<1>3. \A b : Beyond(b)' = Beyond(b)
  BY <1>2 DEF Beyond
<1>4. Running(w)' => Replays(w)'
  <2> SUFFICES ASSUME Running(w)' PROVE Replays(w)'
    OBVIOUS
  <2>1. PICK c, s : c = cstack'[w] /\ s = task[w]
    OBVIOUS
  <2>2. Beyond(c)' /\ Given(s)' /\ s \in Slices'
    BY <1>2, <1>3, <2>1 DEF Running
  <2>3. Beyond(cstack[w])' /\ Given(task[w])'
    BY <2>1, <2>2 DEF Beyond, Given
  <2> QED
    BY <2>1, <2>2, <2>3 DEF Replays
<1>5. \A i \in 1 .. Len(got[w]) : Meant(got[w][i])' = Meant(got[w][i])
  BY DEF Meant
<1> QED
  BY <1>1, <1>2, <1>4, <1>5 DEF Follows

LEMMA BeyondGiven ==
  ASSUME Safe, NEW w \in Workers, Running(w)
  PROVE  Given(task[w]) /\ task[w] \in Slices
BY EveryoneFollows DEF Safe, RunInv, Follows, Replays

LEMMA CloneStepKeeps == ASSUME Safe, NEW w \in Workers, CloneStep(w) PROVE RunInv'
<1>1. /\ InFunction(cstack[w]) /\ Instr(cstack[w]).op \notin {"end", "call", "icall"}
      /\ ReadFromBuf(w) /\ cstack' = [cstack EXCEPT ![w] = Following(@, Taken(w))]
      /\ Still /\ UNCHANGED <<empty_list, task_queue, task, CBuf>>
  BY DEF CloneStep, CanRun, Still
<1>2. Running(w) /\ Types
  BY <1>1 DEF Safe, RunInv, Running, InFunction
<1>3. PICK a : a = Following(cstack[w], Taken(w))
  OBVIOUS
<1>4. /\ a \in Seq(Frames) /\ a # << >> /\ Len(a) = Len(cstack[w])
      /\ Len(cstack[w]) = 1 =>
           /\ a[1].fn = cstack[w][1].fn
           /\ a[1].pos = cstack[w][1].pos + IF Instr(cstack[w]).op = "br" /\ Taken(w)
                                            THEN 2 ELSE 1
  BY <1>1, <1>3, CloneFollowing
<1>5. cstack' = [cstack EXCEPT ![w] = a] /\ cstack'[w] = a
  <2>1. cstack \in [Workers -> Seq(Frames)]
    BY <1>2 DEF Types
  <2> QED
    BY <1>1, <1>3, <2>1
<1>6. CASE Beyond(cstack[w])
  <2>1. /\ CQIdx[w] = 0 /\ Past(w) /\ Instr(cstack[w]).op = "plain" /\ Wanted(w) = << >>
    BY <1>1, <1>2, <1>6, CloneBeyond
  <2>2. CQIdx' = [CQIdx EXCEPT ![w] = 0] /\ got' = got /\ CQIdx'[w] = 0
    <3>1. Len(<< >>) = 0 /\ CQIdx \in [Workers -> 0 .. BufSize]
      BY <1>2 DEF Types
    <3> QED
      BY <1>1, <2>1, <3>1 DEF ReadFromBuf
  <2>3. Beyond(a)
    <3>1. cstack[w][1].pos \in Nat /\ EndAt \in Nat
      BY <1>2, CloneTop, Positions DEF Safe, Tables
    <3>2. Len(a) = 1 /\ a[1].fn = "S" /\ a[1].pos = cstack[w][1].pos + 1
      BY <1>4, <1>6, <2>1 DEF Beyond
    <3>3. cstack[w][1].pos > EndAt
      BY <1>6 DEF Beyond
    <3> QED
      BY <3>1, <3>2, <3>3 DEF Beyond
  <2>4. Follows(w)'
    BY <1>1, <1>2, <1>5, <2>2, <2>3, BeyondFollows, BeyondGiven
  <2> QED
    BY <1>1, <1>2, <1>4, <1>5, <2>2, <2>4, CloneMoves
<1>7. CASE ~Beyond(cstack[w])
  <2>1. ~AtEnd(cstack[w])
    BY <1>1 DEF AtEnd
  <2>2. ASSUME NEW o \in BOOLEAN, \A j \in 1 .. Len(Wanted(w)) : Got(w)[j].item.out = o
        PROVE  a = After(cstack[w], o)
    <3>1. After(cstack[w], o) = Following(cstack[w], o)
      BY <1>1 DEF After
    <3>2. CASE Instr(cstack[w]).op = "br"
      <4>1. Len(Wanted(w)) = 1
        BY <1>1, <1>7, <2>1, <3>2, CloneReads
      <4>2. Got(w)[1].item.out = o
        BY <2>2, <4>1
      <4> QED
        BY <1>3, <3>1, <3>2, <4>2 DEF Following, Taken
    <3>3. CASE Instr(cstack[w]).op # "br"
      BY <1>3, <3>1, <3>3 DEF Following, Taken
    <3> QED
      BY <3>2, <3>3
  <2> QED
    BY <1>1, <1>4, <1>5, <1>7, <2>1, <2>2, ReadingOn
<1> QED
  BY <1>6, <1>7

LEMMA CloneCallKeeps == ASSUME Safe, NEW w \in Workers, CloneCall(w) PROVE RunInv'
<1>1. /\ InFunction(cstack[w]) /\ Instr(cstack[w]).op \in {"call", "icall"}
      /\ ReadFromBuf(w) /\ Still /\ UNCHANGED <<empty_list, task_queue, task, CBuf>>
      /\ cstack' = [cstack EXCEPT ![w] = Append(Following(@, FALSE), Frame("F"))]
  BY DEF CloneCall, CanRun, Still
<1>2. Running(w) /\ Types
  BY <1>1 DEF Safe, RunInv, Running, InFunction
<1>3. PICK b, a : b = Following(cstack[w], FALSE) /\ a = Append(b, Frame("F"))
  OBVIOUS
<1>4. a \in Seq(Frames) /\ a # << >>
  <2>1. b \in Seq(Frames)
    BY <1>1, <1>3, CloneFollowing
  <2>2. Frame("F") \in Frames
    BY DEF Frame, Frames, Funcs
  <2> QED
    <3>1. PICK e : e = Frame("F")
      OBVIOUS
    <3>2. e \in Frames /\ a = Append(b, e)
      BY <1>3, <2>2, <3>1
    <3>3. Append(b, e) \in Seq(Frames) /\ Append(b, e) # << >>
      BY ONLY <2>1, <3>2, AppendProperties
    <3> QED
      BY <3>2, <3>3
<1>5. cstack' = [cstack EXCEPT ![w] = a]
  BY <1>1, <1>3
<1>6. ~Beyond(cstack[w]) /\ ~AtEnd(cstack[w])
  BY <1>1, <1>2, CloneBeyond DEF AtEnd
<1>7. ASSUME NEW o \in BOOLEAN PROVE a = After(cstack[w], o)
  BY <1>1, <1>3 DEF After, Following
<1> QED
  BY <1>1, <1>4, <1>5, <1>6, <1>7, ReadingOn

(* The clone has read everything when it meets end_slice.                  *)
LEMMA CloneEndKeeps == ASSUME Safe, NEW w \in Workers, CloneEnd(w) PROVE RunInv'
<1>1. /\ InFunction(cstack[w]) /\ Instr(cstack[w]).op = "end"
      /\ CQIdx' = [CQIdx EXCEPT ![w] = 0] /\ got' = got
      /\ Still /\ UNCHANGED <<empty_list, task_queue, task, CBuf>>
      /\ cstack' = [cstack EXCEPT ![w] = Following(@, FALSE)]
  BY DEF CloneEnd, CanRun, Still, ResetCursor
<1>2. Running(w) /\ Types
  BY <1>1 DEF Safe, RunInv, Running, InFunction
<1>3. PICK c : c = cstack[w]
  OBVIOUS
<1>4. PICK a : a = Following(c, FALSE)
  OBVIOUS
<1>5. /\ a \in Seq(Frames) /\ a # << >> /\ Len(a) = Len(c)
      /\ Len(c) = 1 => a[1].fn = c[1].fn /\ a[1].pos = c[1].pos + 1
  BY <1>1, <1>3, <1>4, CloneFollowing
<1>6. Len(c) = 1 /\ c[1].pos = EndAt /\ c[1].fn = "S" /\ EndAt \in Nat
  <2>1. /\ Len(c) \in Nat \ {0} /\ Top(c).fn \in Funcs /\ Top(c).pos \in Nat \ {0}
        /\ c[1].fn = "S" /\ Top(c) = c[Len(c)]
    BY <1>2, <1>3, CloneTop DEF Top
  <2>2. Top(c).pos \in 1 .. Len(body[Top(c).fn]) /\ Instr(c) = body[Top(c).fn][Top(c).pos]
    BY <1>1, <1>3, <2>1, InstrAt
  <2>3. Instr(c).op = "end"
    BY <1>1, <1>3
  <2>4. Top(c).fn = "S" /\ Top(c).pos = EndAt /\ EndAt \in Nat
    BY <2>1, <2>2, <2>3, Positions DEF Funcs, Safe, Tables
  <2>5. CASE Beyond(c)
    BY <2>1, <2>4, <2>5 DEF Beyond
  <2>6. CASE ~Beyond(c)
    <3>1. \E k \in 1 .. Len(trail[task[w]]) :
            trail[task[w]][k].at = c /\ InSlice(trail[task[w]][k], task[w])
      BY <1>2, <1>3, <2>6, ClonePoint
    <3>2. \A j \in 2 .. Len(c) : c[j].fn = "F"
      BY <3>1 DEF InSlice
    <3>3. Len(c) = 1 \/ Len(c) \in 2 .. Len(c)
      <4>1. Len(c) \in Nat /\ Len(c) \in 1 .. Len(c)
        BY <2>1
      <4> QED
        BY ONLY <4>1, FirstOrLater
    <3>4. Len(c) = 1
      BY <2>1, <2>4, <3>2, <3>3
    <3> QED
      BY <2>1, <2>4, <3>4
  <2> QED
    BY <2>5, <2>6
<1>7. Beyond(a)
  BY <1>5, <1>6 DEF Beyond
<1>8. cstack' = [cstack EXCEPT ![w] = a] /\ cstack'[w] = a /\ CQIdx'[w] = 0
  <2>1. cstack \in [Workers -> Seq(Frames)] /\ CQIdx \in [Workers -> 0 .. BufSize]
    BY <1>2 DEF Types
  <2> QED
    BY <1>1, <1>3, <1>4, <2>1
<1>9. Follows(w)'
  BY <1>1, <1>2, <1>7, <1>8, BeyondFollows, BeyondGiven
<1> QED
  BY <1>1, <1>2, <1>5, <1>8, <1>9, CloneMoves

LEMMA CloneReturnKeeps == ASSUME Safe, NEW w \in Workers, CloneReturn(w) PROVE RunInv'
<1>1. /\ cstack[w] # << >> /\ ~InFunction(cstack[w])
      /\ cstack' = [cstack EXCEPT ![w] = Pop(@)]
      /\ empty_list' = IF Len(cstack[w]) = 1 THEN Append(empty_list, CBuf[w]) ELSE empty_list
      /\ Still /\ UNCHANGED <<task_queue, task, CBuf, CQIdx, got>>
  BY DEF CloneReturn, Still
<1>2. Running(w) /\ Types /\ Owned
  BY <1>1 DEF Safe, RunInv, Running
<1>3. PICK c, a : c = cstack[w] /\ a = Pop(c)
  OBVIOUS
<1>4. /\ c \in Seq(Frames) /\ c # << >> /\ a \in Seq(Frames) /\ Len(a) = Len(c) - 1
      /\ Len(c) \in Nat \ {0}
  BY <1>2, <1>3, CloneTop, PopStack
<1>5. /\ cstack \in [Workers -> Seq(Frames)] /\ task \in [Workers -> 0 .. slice]
      /\ CBuf \in [Workers -> Bufs] /\ CQIdx \in [Workers -> 0 .. BufSize]
      /\ got \in [Workers -> Seq(Gots)] /\ empty_list \in Seq(Bufs)
      /\ task_queue \in Seq([task : Nat, buf : Bufs])
  BY <1>2 DEF Types
<1>6. cstack' = [cstack EXCEPT ![w] = a] /\ cstack'[w] = a
  BY <1>1, <1>3, <1>5
<1>7. \A v \in Workers : v # w => cstack'[v] = cstack[v]
  BY <1>1, <1>5
<1>8. PICK s : s = task[w]
  OBVIOUS
<1>9. s \in Slices /\ Given(s)
  BY <1>2, <1>8, BeyondGiven
<1>10. ASSUME ~Beyond(c) PROVE Len(c) # 1 /\ Follows(w)'
  <2>1. ~AtEnd(c)
    BY <1>1, <1>3 DEF AtEnd
  <2>2. /\ Has(CBuf[w], s) /\ CQIdx[w] = Len(got[w])
        /\ \E k \in 1 .. Len(trail[s]) :
             /\ trail[s][k].at = c /\ trail[s][k].n = Len(got[w])
             /\ k + 1 \in 1 .. Len(trail[s])
             /\ Leads(s, trail[s][k], trail[s][k + 1]) /\ InSlice(trail[s][k + 1], s)
    BY <1>2, <1>3, <1>8, <1>10, <2>1, ClonePoint
  <2>3. PICK k \in 1 .. Len(trail[s]) :
          /\ trail[s][k].at = c /\ trail[s][k].n = Len(got[w])
          /\ k + 1 \in 1 .. Len(trail[s])
          /\ Leads(s, trail[s][k], trail[s][k + 1]) /\ InSlice(trail[s][k + 1], s)
    BY <2>2
  <2>4. trail[s][k + 1].n = Len(got[w]) /\ trail[s][k + 1].at = a /\ a # << >>
    BY <1>1, <1>3, <2>3 DEF Leads, InSlice
  <2>5. Len(c) # 1
    <3>1. a \in Seq(Frames) /\ a # << >>
      BY <1>4, <2>4
    <3>2. Len(a) # 0
      BY ONLY <3>1
    <3>3. Len(c) \in Nat /\ Len(a) = Len(c) - 1
      BY <1>4
    <3> QED
      BY ONLY <3>2, <3>3
  <2>6. /\ Slices' = Slices /\ sent' = sent /\ trail' = trail /\ queue' = queue
        /\ \A r : Given(r)' = Given(r)
    BY <1>1, ProgramStill DEF Still
  <2>7. Replays(w)'
    <3>1. PICK b : b = CBuf[w]
      OBVIOUS
    <3>2. Has(b, s)'
      BY <2>2, <2>6, <3>1, HasKept
    <3>3. Given(s)'
      BY <1>9, <2>6
    <3>4. Has(CBuf[w], task[w])' /\ Given(task[w])'
      BY <1>1, <1>8, <3>1, <3>2, <3>3 DEF Has, Given
    <3>5. \E i \in 1 .. Len(trail'[s]) :
            trail'[s][i].at = cstack'[w] /\ trail'[s][i].n = Len(got'[w])
      BY <1>1, <1>6, <2>3, <2>4, <2>6
    <3> QED
      BY <1>1, <1>8, <1>9, <2>2, <2>6, <3>4, <3>5 DEF Replays
  <2>8. Follows(w)
    BY <1>2, EveryoneFollows DEF Safe, RunInv
  <2>9. Running(w)'
    BY <1>6, <2>4 DEF Running
  <2> QED
    BY <1>1, <2>5, <2>6, <2>7, <2>8, <2>9 DEF Follows, Meant
<1>11. ASSUME Beyond(c) PROVE Len(c) = 1 /\ Follows(w)' /\ ~Running(w)'
  <2>1. Len(c) = 1 /\ a = << >>
    BY <1>4, <1>11 DEF Beyond
  <2>2. CQIdx[w] = 0
    BY <1>2, <1>3, <1>11, CloneBeyond
  <2> QED
    BY <1>1, <1>2, <1>6, <1>8, <1>9, <2>1, <2>2, BeyondFollows DEF Running
<1>12. Replaying'
  <2>1. \A v \in Workers : v # w => Follows(v)'
    BY <1>1, <1>7, FollowsStill
  <2>2. \A v \in Workers : Follows(v)'
    BY <1>10, <1>11, <2>1
  <2> QED
    BY <2>2 DEF Replaying, Follows
<1>13. \A v \in Workers : Running(v)' => Running(v)
  BY <1>2, <1>7 DEF Running
<1>14. Owned' /\ empty_list' \in Seq(Bufs)
  <2>1. CASE ~Beyond(c)
    <3>1. empty_list' = empty_list
      BY <1>1, <1>3, <1>10, <2>1
    <3> QED
      BY <1>1, <1>2, <1>5, <1>13, <3>1, OwnedStill DEF Still
  <2>2. CASE Beyond(c)
    <3>1. PICK b, l : b = CBuf[w] /\ l = empty_list
      OBVIOUS
    <3>2. l \in Seq(Bufs) /\ b \in Bufs /\ Len(l) \in Nat /\ empty_list' = Append(l, b)
      BY <1>1, <1>3, <1>5, <1>11, <2>2, <3>1
    <3>3. /\ Append(l, b) \in Seq(Bufs) /\ Len(Append(l, b)) = Len(l) + 1
          /\ Append(l, b)[Len(l) + 1] = b
          /\ \A i \in 1 .. Len(l) : Append(l, b)[i] = l[i]
      BY ONLY <3>2, AppendProperties
    <3>4. \A i \in 1 .. Len(empty_list') :
            \/ i \in 1 .. Len(l) /\ empty_list'[i] = l[i]
            \/ i = Len(l) + 1 /\ empty_list'[i] = b
      BY <3>2, <3>3
    <3>5. /\ b # p_queue_idx /\ \A i \in 1 .. Len(l) : l[i] # b
          /\ \A i \in 1 .. Len(task_queue) : task_queue[i].buf # b
          /\ \A v \in Workers : Running(v) /\ CBuf[v] = b => v = w
      BY <1>2, <3>1 DEF Owned
    <3>6. ~Running(w)'
      BY <1>11, <2>2
    <3>7. \A i, j \in 1 .. Len(empty_list') : empty_list'[i] = empty_list'[j] => i = j
      BY <1>2, <3>1, <3>4, <3>5 DEF Owned
    <3>8. ASSUME NEW i \in 1 .. Len(empty_list')
          PROVE  /\ empty_list'[i] # p_queue_idx
                 /\ \A j \in 1 .. Len(task_queue) : empty_list'[i] # task_queue[j].buf
                 /\ \A v \in Workers : Running(v) /\ v # w => empty_list'[i] # CBuf[v]
      BY <1>2, <3>1, <3>4, <3>5 DEF Owned
    <3>9. \A v \in Workers : Running(v)' => Running(v) /\ v # w
      BY <1>13, <3>6
    <3>10. p_queue_idx' = p_queue_idx /\ task_queue' = task_queue /\ CBuf' = CBuf
      BY <1>1 DEF Still
    <3>11. Owned'
      BY <1>2, <3>7, <3>8, <3>9, <3>10 DEF Owned
    <3> QED
      BY <3>2, <3>3, <3>11
  <2> QED
    BY <2>1, <2>2
<1>15. Queued'
  BY <1>1, QueuedStill DEF Queued
<1>16. cstack' \in [Workers -> Seq(Frames)]
  BY <1>4, <1>5, <1>6
<1> QED
  BY <1>1, <1>5, <1>12, <1>14, <1>15, <1>16, WorkersKeep

LEMMA StealKeeps == ASSUME Safe, NEW w \in Workers, Steal(w) PROVE RunInv'
<1>1. /\ cstack[w] = << >> /\ task_queue # << >>
      /\ cstack' = [cstack EXCEPT ![w] = <<Frame("S")>>]
      /\ task' = [task EXCEPT ![w] = Head(task_queue).task]
      /\ CBuf' = [CBuf EXCEPT ![w] = Head(task_queue).buf]
      /\ task_queue' = Tail(task_queue) /\ got' = [got EXCEPT ![w] = << >>]
      /\ Still /\ UNCHANGED <<empty_list, CQIdx>>
  BY DEF Steal, Still
<1>2. ~Running(w) /\ Types /\ Owned /\ Recorded /\ Queued
  BY <1>1 DEF Safe, RunInv, Running
<1>3. /\ cstack \in [Workers -> Seq(Frames)] /\ task \in [Workers -> 0 .. slice]
      /\ CBuf \in [Workers -> Bufs] /\ CQIdx \in [Workers -> 0 .. BufSize]
      /\ got \in [Workers -> Seq(Gots)] /\ empty_list \in Seq(Bufs)
      /\ task_queue \in Seq([task : Nat, buf : Bufs]) /\ slice \in Nat
  BY <1>2 DEF Types
<1>4. PICK l, e : l = task_queue /\ e = l[1]
  OBVIOUS
<1>5. /\ l \in Seq([task : Nat, buf : Bufs]) /\ l # << >> /\ Len(l) \in Nat \ {0}
      /\ 1 \in 1 .. Len(l) /\ e \in [task : Nat, buf : Bufs] /\ Head(l) = e
  <2>1. l \in Seq([task : Nat, buf : Bufs]) /\ l # << >>
    BY <1>1, <1>3, <1>4
  <2>2. Len(l) \in Nat \ {0} /\ 1 \in 1 .. Len(l) /\ Head(l) = l[1]
    BY ONLY <2>1
  <2>3. l[1] \in [task : Nat, buf : Bufs]
    BY ONLY <2>1, <2>2, Element
  <2> QED
    BY <1>4, <2>1, <2>2, <2>3
<1>6. /\ Tail(l) \in Seq([task : Nat, buf : Bufs]) /\ Len(Tail(l)) = Len(l) - 1
      /\ \A i \in 1 .. Len(l) - 1 : Tail(l)[i] = l[i + 1]
  BY <1>5
<1>7. PICK s, b : s = e.task /\ b = e.buf
  OBVIOUS
<1>8. s \in Slices /\ Given(s) /\ Has(b, s) /\ b \in Bufs
  <2>1. e.task \in Slices /\ Given(e.task) /\ Has(e.buf, e.task)
    BY <1>2, <1>4, <1>5 DEF Queued
  <2> QED
    BY <1>5, <1>7, <2>1
<1>9. /\ cstack'[w] = <<Frame("S")>> /\ task'[w] = s /\ CBuf'[w] = b /\ got'[w] = << >>
      /\ task' = [task EXCEPT ![w] = s] /\ CBuf' = [CBuf EXCEPT ![w] = b]
      /\ \A v \in Workers : v # w => /\ cstack'[v] = cstack[v] /\ got'[v] = got[v]
                                     /\ task'[v] = task[v] /\ CBuf'[v] = CBuf[v]
  BY <1>1, <1>3, <1>4, <1>5, <1>7
<1>10. <<Frame("S")>> \in Seq(Frames) /\ <<Frame("S")>> # << >>
  <2>1. Frame("S") \in Frames
    BY DEF Frame, Frames, Funcs
  <2> QED
    BY <2>1
<1>11. CQIdx[w] = 0
  BY <1>2, EveryoneFollows DEF Safe, RunInv, Follows
<1>12. /\ Slices' = Slices /\ sent' = sent /\ trail' = trail /\ queue' = queue
       /\ \A r : Given(r)' = Given(r)
  BY <1>1, ProgramStill DEF Still
<1>13. Follows(w)'
  <2>1. trail[s] # << >> /\ trail[s][1].at = <<Frame("S")>> /\ trail[s][1].n = 0
        /\ 1 \in 1 .. Len(trail[s])
    <3>1. trail[s] \in Seq(Points) /\ Len(trail[s]) \in Nat
      BY <1>2, <1>8, SentType
    <3>2. trail[s] # << >> /\ trail[s][1] = [at |-> <<Frame("S")>>, n |-> 0]
      BY <1>2, <1>8 DEF Recorded, RecordedAt
    <3> QED
      BY <3>1, <3>2
  <2>2. Has(b, s)' /\ Given(s)'
    BY <1>8, <1>12, HasKept
  <2>3. Has(CBuf[w], task[w])' /\ Given(task[w])'
    BY <1>9, <2>2 DEF Has, Given
  <2>4. Len(got'[w]) = 0
    BY <1>9
  <2>5. \E k \in 1 .. Len(trail'[s]) : trail'[s][k].at = cstack'[w] /\ trail'[s][k].n = Len(got'[w])
    BY <1>9, <1>12, <2>1, <2>4
  <2>6. Replays(w)'
    BY <1>1, <1>8, <1>9, <1>11, <1>12, <2>3, <2>4, <2>5 DEF Replays
  <2>7. Running(w)'
    BY <1>9, <1>10 DEF Running
  <2>8. Len(sent[s]) \in Nat
    BY <1>2, <1>8, SentType
  <2> QED
    BY <1>8, <1>9, <1>12, <2>4, <2>6, <2>7, <2>8 DEF Follows
<1>14. Replaying'
  <2>1. \A v \in Workers : v # w => Follows(v)'
    BY <1>1, <1>9, FollowsStill
  <2>2. \A v \in Workers : Follows(v)'
    BY <1>13, <2>1
  <2> QED
    BY <2>2 DEF Replaying, Follows
<1>15. \A i \in 1 .. Len(task_queue') : /\ i + 1 \in 1 .. Len(l) /\ i + 1 # 1
                                        /\ task_queue'[i] = l[i + 1]
  BY <1>1, <1>4, <1>5, <1>6
<1>16. Owned'
  <2>1. /\ b # p_queue_idx /\ \A i \in 1 .. Len(empty_list) : empty_list[i] # b
        /\ \A i \in 1 .. Len(l) : l[i].buf = b => i = 1
        /\ \A v \in Workers : Running(v) => CBuf[v] # b
    BY <1>2, <1>4, <1>5, <1>7 DEF Owned
  <2>2. \A v \in Workers : v # w => Running(v)' = Running(v)
    BY <1>9 DEF Running
  <2>3. ASSUME NEW i \in 1 .. Len(task_queue'), NEW j \in 1 .. Len(task_queue'),
               task_queue'[i].buf = task_queue'[j].buf
        PROVE  i = j
    <3>1. i + 1 \in 1 .. Len(l) /\ j + 1 \in 1 .. Len(l) /\ l[i + 1].buf = l[j + 1].buf
      BY <1>15, <2>3
    <3>2. i + 1 = j + 1
      BY <1>2, <1>4, <3>1 DEF Owned
    <3> QED
      BY <3>2
  <2>4. ASSUME NEW i \in 1 .. Len(task_queue')
        PROVE  /\ task_queue'[i].buf # p_queue_idx /\ task_queue'[i].buf # b
               /\ \A j \in 1 .. Len(empty_list) : empty_list[j] # task_queue'[i].buf
               /\ \A v \in Workers : Running(v) => task_queue'[i].buf # CBuf[v]
    <3>1. PICK k : k = i + 1
      OBVIOUS
    <3>2. k \in 1 .. Len(l) /\ k # 1 /\ task_queue'[i] = l[k]
      BY <1>15, <3>1
    <3> QED
      BY <1>2, <1>4, <2>1, <3>2 DEF Owned
  <2>5. p_queue_idx' = p_queue_idx /\ empty_list' = empty_list
    BY <1>1 DEF Still
  <2>6. ASSUME NEW v \in Workers, Running(v)'
        PROVE  /\ CBuf'[v] # p_queue_idx
               /\ \A i \in 1 .. Len(empty_list) : empty_list[i] # CBuf'[v]
               /\ \A i \in 1 .. Len(task_queue') : task_queue'[i].buf # CBuf'[v]
               /\ \A u \in Workers : Running(u)' /\ CBuf'[u] = CBuf'[v] => u = v
    <3>1. CASE v = w
      BY <1>9, <2>1, <2>2, <2>4, <3>1
    <3>2. CASE v # w
      <4>1. Running(v) /\ CBuf'[v] = CBuf[v]
        BY <1>9, <2>2, <2>6, <3>2
      <4>2. \A u \in Workers : Running(u)' /\ CBuf'[u] = CBuf'[v] => u = v
        BY <1>2, <1>9, <2>1, <2>2, <4>1 DEF Owned
      <4> QED
        BY <1>2, <2>4, <4>1, <4>2 DEF Owned
    <3> QED
      BY <3>1, <3>2
  <2> QED
    BY <1>2, <2>3, <2>4, <2>5, <2>6 DEF Owned
<1>17. Queued'
  <2>1. ASSUME NEW i \in 1 .. Len(task_queue')
        PROVE  (LET t == task_queue[i]
                IN  t.task \in Slices /\ Given(t.task) /\ Has(t.buf, t.task))'
    <3>1. PICK k, t : k = i + 1 /\ t = task_queue[k]
      OBVIOUS
    <3>2. k \in 1 .. Len(task_queue) /\ task_queue'[i] = t
      BY <1>4, <1>15, <3>1
    <3>3. (t.task \in Slices /\ Given(t.task) /\ Has(t.buf, t.task))'
      BY <1>1, <3>1, <3>2, QueuedStill
    <3> QED
      BY <3>2, <3>3
  <2> QED
    BY <2>1 DEF Queued
<1>18. /\ cstack' \in [Workers -> Seq(Frames)] /\ task' \in [Workers -> 0 .. slice]
       /\ CBuf' \in [Workers -> Bufs] /\ CQIdx' \in [Workers -> 0 .. BufSize]
       /\ got' \in [Workers -> Seq(Gots)] /\ empty_list' \in Seq(Bufs)
       /\ task_queue' \in Seq([task : Nat, buf : Bufs])
  <2>1. s \in 0 .. slice /\ << >> \in Seq(Gots)
    BY <1>3, <1>8 DEF Slices
  <2> QED
    BY <1>1, <1>3, <1>4, <1>6, <1>8, <1>9, <1>10, <2>1
<1> QED
  BY <1>1, <1>14, <1>16, <1>17, <1>18, WorkersKeep

-----------------------------------------------------------------------------
(* The pass runs before the program does.                                  *)
LEMMA IdleRun == Types /\ Owned /\ Idle => RunInv
<1> SUFFICES ASSUME Types, Owned, Idle PROVE RunInv
  OBVIOUS
<1>1. /\ pstack = << >> /\ slice = 0 /\ sent = << >> /\ trail = << >> /\ task_queue = << >>
      /\ SliceFlag = FALSE /\ QIdx = 0 /\ p_queue_idx = NoBuf
      /\ \A w \in Workers : cstack[w] = << >> /\ got[w] = << >> /\ CQIdx[w] = 0 /\ task[w] = 0
  BY DEF Idle
<1>2. Slices = {} /\ ~Filling
  BY <1>1 DEF Slices, Filling
<1>3. Producing
  BY <1>1, <1>2 DEF Producing
<1>4. Filled /\ Recorded /\ Queued
  BY <1>1, <1>2 DEF Filled, Recorded, Queued
<1>5. Replaying
  BY <1>1, <1>2 DEF Replaying, Running
<1> QED
  BY <1>3, <1>4, <1>5 DEF RunInv

LEMMA PassKeepsTables ==
  ASSUME Tables, Pass PROVE Tables' /\ stage # "run" /\ UNCHANGED runVars
<1>1. Tables'
  BY CloneFunctionsKeeps, HandleBranchesKeeps, PushConditionsKeeps, PushCallsKeeps,
     PushICallsKeeps, PushComparesKeeps, AllocateTempsKeeps, HandleInstructionsKeeps,
     HandleComparesKeeps, PushMemoryKeeps, RemoveFlagTestsKeeps DEF Pass
<1>2. stage # "run" /\ UNCHANGED runVars
  BY DEF Pass, CloneFunctions, HandleBranches, PushConditions, PushCalls, PushICalls,
         PushCompares, AllocateTemps, HandleInstructions, HandleCompares, PushMemory,
         RemoveFlagTests
<1> QED
  BY <1>1, <1>2

LEMMA IdleStays ==
  ASSUME Idle, Types, Owned, UNCHANGED runVars PROVE (Types /\ Owned /\ Idle)'
<1>1. /\ pstack' = pstack /\ slice' = slice /\ SliceFlag' = SliceFlag /\ QIdx' = QIdx
      /\ p_queue_idx' = p_queue_idx /\ CurIndex' = CurIndex /\ empty_list' = empty_list
      /\ task_queue' = task_queue /\ queue' = queue /\ cstack' = cstack /\ task' = task
      /\ CBuf' = CBuf /\ CQIdx' = CQIdx /\ sent' = sent /\ trail' = trail /\ got' = got
  BY DEF runVars
<1>2. Types'
  BY <1>1 DEF Types
<1>3. Owned'
  BY <1>1 DEF Owned, Running
<1>4. Idle'
  BY <1>1 DEF Idle
<1> QED
  BY <1>2, <1>3, <1>4

LEMMA PassKeeps == ASSUME IInv, Pass PROVE IInv'
<1>1. Tables' /\ stage # "run" /\ UNCHANGED runVars
  BY PassKeepsTables DEF IInv
<1>2. Idle /\ Types /\ Owned
  BY <1>1 DEF IInv, RunInv
<1>3. (Types /\ Owned /\ Idle)'
  BY <1>1, <1>2, IdleStays
<1>4. RunInv'
  BY <1>3, IdleRun, PTL
<1> QED
  BY <1>1, <1>3, <1>4 DEF IInv

LEMMA ProducerKeeps ==
  ASSUME Safe, Producer PROVE RunInv' /\ passVars' = passVars
<1>1. RunInv'
  BY EnterSliceKeeps, StepKeeps, CallKeeps, ReturnKeeps, StartSliceKeeps, EndSliceKeeps
  DEF Producer
<1>2. passVars' = passVars
  BY DEF Producer, EnterSlice, Step, Call, Return, StartSlice, EndSlice
<1> QED
  BY <1>1, <1>2

LEMMA CloneKeeps ==
  ASSUME Safe, NEW w \in Workers, Clone(w) PROVE RunInv' /\ passVars' = passVars
<1>1. RunInv'
  BY StealKeeps, CloneStepKeeps, CloneCallKeeps, CloneEndKeeps, CloneReturnKeeps DEF Clone
<1>2. passVars' = passVars
  BY DEF Clone, Steal, CloneStep, CloneCall, CloneEnd, CloneReturn
<1> QED
  BY <1>1, <1>2

LEMMA RunsLast ==
  ASSUME IInv, Producer \/ \E w \in Workers : Clone(w) PROVE Safe
<1>1. stage = "run"
  <2> SUFFICES ASSUME Idle, stage # "run" PROVE FALSE
    BY DEF IInv
  <2>1. pstack = << >> /\ task_queue = << >> /\ \A w \in Workers : cstack[w] = << >>
    BY DEF Idle
  <2>2. ~Producer
    BY <2>1 DEF Producer, EnterSlice, Step, Call, Return, StartSlice, EndSlice, InFunction
  <2>3. \A w \in Workers : ~Clone(w)
    BY <2>1 DEF Clone, Steal, CloneStep, CloneCall, CloneEnd, CloneReturn, CanRun, InFunction
  <2> QED
    BY <2>2, <2>3
<1> QED
  BY <1>1 DEF IInv, Safe

LEMMA RunKeeps ==
  ASSUME IInv, Producer \/ \E w \in Workers : Clone(w) PROVE IInv'
<1>1. Safe
  BY RunsLast
<1>2. RunInv' /\ passVars' = passVars
  BY <1>1, ProducerKeeps, CloneKeeps
<1>3. Tables' /\ stage' = "run"
  BY <1>1, <1>2, PassDone DEF Safe
<1> QED
  BY <1>2, <1>3 DEF IInv

LEMMA Stutters == ASSUME IInv, UNCHANGED vars PROVE IInv'
<1>1. /\ passVars' = passVars /\ UNCHANGED runVars
  BY DEF vars
<1>2. CASE stage = "run"
  <2>1. Safe
    BY <1>2 DEF IInv, Safe
  <2>2. Still /\ UNCHANGED <<empty_list, task_queue, cstack, task, CBuf, CQIdx, got>>
    BY <1>1 DEF Still, runVars
  <2>3. Owned'
    BY <2>1, <2>2, OwnedStill DEF Safe, RunInv, Running, Still
  <2>4. Queued'
    BY <2>1, <2>2, QueuedStill DEF Queued
  <2>5. Replaying'
    <3>1. \A v \in Workers : Follows(v)'
      BY <2>1, <2>2, FollowsStill
    <3> QED
      BY <3>1 DEF Replaying, Follows
  <2>6. RunInv'
    BY <2>1, <2>2, <2>3, <2>4, <2>5, WorkersKeep DEF Safe, RunInv, Types
  <2>7. Tables' /\ stage' = "run"
    BY <1>1, <2>1, PassDone DEF Safe
  <2> QED
    BY <2>6, <2>7 DEF IInv
<1>3. CASE stage # "run"
  <2>1. (Types /\ Owned /\ Idle)'
    BY <1>1, <1>3, IdleStays DEF IInv, RunInv
  <2>2. RunInv'
    BY <2>1, IdleRun, PTL
  <2>3. Tables'
    BY <1>1, PassDone DEF IInv
  <2> QED
    BY <2>1, <2>2, <2>3 DEF IInv
<1> QED
  BY <1>2, <1>3

LEMMA InitHolds == ASSUME \A b \in Bodies : Supported(b), Init PROVE IInv
<1>1. /\ body \in Bodies /\ stage = "clone" /\ push = Empty /\ read = Empty
      /\ FCMPMapPush = {} /\ FCMPMap = {} /\ untested = {}
  BY DEF Init
<1>2. Tables
  <2>1. PushedOps = {} /\ ReadOps = {}
    BY <1>1 DEF PushedOps, ReadOps, Early, Late
  <2>2. Empty = Inserted({})
    BY DEF Empty, Inserted
  <2> QED
    BY <1>1, <2>1, <2>2 DEF Tables, Stages, Early
<1>3. Idle
  BY DEF Init, Idle
<1>4. Types
  <2>1. NumBufs \in Nat \ {0} /\ BufSize \in Nat /\ MaxSlices \in Nat
    BY Sizes
  <2>2. empty_list \in Seq(Bufs)
    <3>1. \A i \in 1 .. NumBufs : i - 1 \in Bufs
      BY <2>1 DEF Bufs
    <3>2. [i \in 1 .. NumBufs |-> i - 1] \in [1 .. NumBufs -> Bufs]
      BY <3>1
    <3> QED
      BY <2>1, <3>2 DEF Init
  <2>3. Zero \in Items
    BY <2>1 DEF Zero, Item, Items, Funcs, Kinds
  <2>4. queue \in [Bufs -> [0 .. BufSize - 1 -> Items]]
    BY <2>3 DEF Init, Bufs
  <2>5. CBuf \in [Workers -> Bufs]
    BY <2>1 DEF Init, Bufs
  <2>6. slice \in 0 .. MaxSlices /\ QIdx \in 0 .. BufSize /\ CQIdx \in [Workers -> 0 .. BufSize]
        /\ task \in [Workers -> 0 .. slice] /\ SliceFlag \in BOOLEAN
    <3>1. 0 \in 0 .. MaxSlices /\ 0 \in 0 .. BufSize /\ 0 \in 0 .. 0
      BY <2>1
    <3>2. /\ slice = 0 /\ QIdx = 0 /\ SliceFlag = FALSE
          /\ CQIdx = [w \in Workers |-> 0] /\ task = [w \in Workers |-> 0]
      BY DEF Init
    <3> QED
      BY <3>1, <3>2
  <2>7. /\ pstack \in Seq(Activations) /\ task_queue \in Seq([task : Nat, buf : Bufs])
        /\ sent \in Seq(Seq(Items)) /\ Len(sent) = slice
        /\ trail \in Seq(Seq(Points)) /\ Len(trail) = slice
        /\ cstack \in [Workers -> Seq(Frames)] /\ got \in [Workers -> Seq(Gots)]
    BY DEF Init
  <2>8. p_queue_idx \in Bufs \cup {NoBuf} /\ CurIndex \in Bufs \cup {NoBuf}
    BY DEF Init
  <2> QED
    BY <2>2, <2>4, <2>5, <2>6, <2>7, <2>8 DEF Types
<1>5. Owned
  <2>1. NumBufs \in Nat
    BY Sizes
  <2>2. /\ Len(empty_list) = NumBufs /\ \A i \in 1 .. NumBufs : empty_list[i] = i - 1
        /\ task_queue = << >> /\ p_queue_idx = NoBuf /\ \A w \in Workers : cstack[w] = << >>
    BY <2>1 DEF Init
  <2>3. \A i \in 1 .. NumBufs : i - 1 # -1
    BY <2>1
  <2> QED
    BY <2>1, <2>2, <2>3 DEF Owned, Running, NoBuf
<1>6. RunInv
  BY <1>3, <1>4, <1>5, IdleRun
<1> QED
  BY <1>2, <1>3, <1>6 DEF IInv

LEMMA NextKeeps == ASSUME IInv, [Next]_vars PROVE IInv'
<1>1. CASE Pass
  BY <1>1, PassKeeps
<1>2. CASE Producer \/ \E w \in Workers : Clone(w)
  BY <1>2, RunKeeps
<1>3. CASE UNCHANGED vars
  BY <1>3, Stutters
<1>4. Done => UNCHANGED vars
  BY DEF Done
<1> QED
  BY <1>1, <1>2, <1>3, <1>4 DEF Next

-----------------------------------------------------------------------------
(* However long the functions are and however the workers are scheduled:   *)
(* in the end each instruction of a clone reads what the pass has it push  *)
(* in the program, every buffer is in one place, and every clone goes      *)
(* through the activations that its slice went through.                    *)
THEOREM MirrorInductive ==
  ASSUME \A b \in Bodies : Supported(b)
  PROVE  Spec => []IInv
<1>1. Init => IInv
  BY InitHolds
<1>2. IInv /\ [Next]_vars => IInv'
  BY NextKeeps
<1> QED
  BY <1>1, <1>2, PTL DEF Spec

LEMMA TypesHold == IInv => TypeOK
<1> SUFFICES ASSUME IInv PROVE TypeOK
  OBVIOUS
<1>1. Types /\ Tables
  BY DEF IInv, RunInv
<1>2. DOMAIN body = Funcs
  BY <1>1 DEF Tables, Supported
<1>3. ASSUME NEW f \in Funcs, NEW i \in DOMAIN body[f]
      PROVE  push[f][i] \in Seq(Kinds) /\ read[f][i] \in Seq(Kinds)
  <2>1. \A ops : Inserted(ops)[f][i] \in Seq(Kinds)
    BY ExchangeType DEF Inserted
  <2> QED
    BY <1>1, <2>1 DEF Tables
<1>4. \A b \in Bufs \cup {NoBuf} : b \in NoBuf .. NumBufs - 1
  BY Sizes DEF Bufs, NoBuf
<1>5. \A i \in 1 .. Len(task_queue) : task_queue[i].buf \in 0 .. NumBufs - 1
  <2>1. task_queue \in Seq([task : Nat, buf : Bufs])
    BY <1>1 DEF Types
  <2>2. \A i \in 1 .. Len(task_queue) : task_queue[i] \in [task : Nat, buf : Bufs]
    BY <2>1, Element
  <2> QED
    BY <2>2 DEF Bufs
<1>6. ASSUME NEW w \in Workers, NEW j \in 1 .. Len(cstack[w]) PROVE cstack[w][j].fn \in Funcs
  <2>1. cstack[w] \in Seq(Frames)
    BY <1>1, WorkerType
  <2>2. cstack[w][j] \in Frames
    BY <2>1, Element
  <2> QED
    BY <2>2 DEF Frames
<1> QED
  BY <1>1, <1>2, <1>3, <1>4, <1>5, <1>6 DEF TypeOK, Types, Bufs

(* The type invariant, for every pair of functions with a slice, any       *)
(* number of workers and buffers, and every bound.                         *)
THEOREM MirrorTypes ==
  ASSUME \A b \in Bodies : Supported(b)
  PROVE  Spec => []TypeOK
BY MirrorInductive, TypesHold, PTL

LEMMA MirrorHolds == IInv => Mirrored
<1> SUFFICES ASSUME IInv PROVE Mirrored
  OBVIOUS
<1> SUFFICES ASSUME NEW w \in Workers
    PROVE  /\ Sane(w)
           /\ Len(got[w]) <= IF task[w] = 0 THEN 0 ELSE Len(sent[task[w]])
           /\ \A i \in 1 .. Len(got[w]) : got[w][i].item = sent[task[w]][i]
  BY DEF Mirrored
<1>1. Types /\ Follows(w)
  BY EveryoneFollows DEF IInv, RunInv
<1>2. /\ task[w] \in 0 .. slice /\ slice \in Nat /\ Len(got[w]) \in Nat
      /\ got[w] = << >> => Len(got[w]) = 0
  BY <1>1, WorkerType DEF Types
<1>3. task[w] \in Slices <=> task[w] # 0
  BY <1>2 DEF Slices
<1> QED
  BY <1>1, <1>2, <1>3 DEF Follows, Sane

(* The values that createUpdateBlock has the program push are the ones     *)
(* that readFromBuf has the clone read at the same instruction for the     *)
(* same purpose, in the same order and none left out, whatever the         *)
(* interleaving of the program with the workers.                           *)
THEOREM MirrorsPushes ==
  ASSUME \A b \in Bodies : Supported(b)
  PROVE  Spec => []Mirrored
BY MirrorInductive, MirrorHolds, PTL

LEMMA ReadsHold == IInv => ReadsAll
<1> SUFFICES ASSUME IInv, NEW w \in Workers, InFunction(cstack[w]), Instr(cstack[w]).op = "end"
    PROVE  Len(got[w]) = Len(sent[task[w]])
  BY DEF ReadsAll
<1>1. Running(w) /\ stage = "run"
  BY DEF InFunction, Running, IInv, Idle
<1>2. Safe
  BY <1>1 DEF Safe, IInv
<1>3. ~Beyond(cstack[w])
  BY <1>1, <1>2, CloneBeyond
<1>4. AtEnd(cstack[w])
  BY DEF AtEnd
<1> QED
  BY <1>1, <1>2, <1>3, <1>4, ClonePoint

(* When a clone reaches end_slice, where the pass has it reset its cursor, *)
(* it has read everything that its slice pushed.                           *)
THEOREM EverythingRead ==
  ASSUME \A b \in Bodies : Supported(b)
  PROVE  Spec => []ReadsAll
BY MirrorInductive, ReadsHold, PTL

LEMMA PushesAreOwn ==
  ASSUME Safe, NEW o \in BOOLEAN, InFunction(pstack), Push(Values(o)),
         NEW b \in Bufs, NotOurs(b)
  PROVE  queue'[b] = queue[b]
<1>1. pstack # << >> /\ queue \in [Bufs -> [0 .. BufSize - 1 -> Items]]
  BY DEF InFunction, Safe, RunInv, Types
<1>2. PICK items : items = Values(o)
  OBVIOUS
<1>3. CASE Filling
  <2>1. CurIndex = p_queue_idx
    BY <1>3 DEF Safe, RunInv, Producing
  <2>2. b # p_queue_idx
    BY DEF NotOurs, Safe, RunInv, Owned, Running
  <2> QED
    BY <1>1, <2>1, <2>2 DEF Push
<1>4. CASE ~Filling
  <2>1. Values(o) = << >>
    BY <1>1, <1>4, AfterEnd
  <2> QED
    BY <2>1 DEF Push
<1> QED
  BY <1>3, <1>4

LEMMA OnlyPushesWrite ==
  ASSUME IInv, [Next]_vars, NEW b \in Bufs, NotOurs(b)
  PROVE  queue'[b] = queue[b]
<1>1. CASE Producer
  <2>1. Safe
    BY <1>1, RunsLast
  <2>2. ASSUME NEW o \in BOOLEAN, Step(o) PROVE queue'[b] = queue[b]
    BY <2>1, <2>2, PushesAreOwn DEF Step
  <2>3. ASSUME Call PROVE queue'[b] = queue[b]
    BY <2>1, <2>3, PushesAreOwn DEF Call
  <2>4. EnterSlice \/ Return \/ StartSlice \/ EndSlice => queue' = queue
    BY DEF EnterSlice, Return, StartSlice, EndSlice
  <2> QED
    BY <1>1, <2>2, <2>3, <2>4 DEF Producer
<1>2. CASE Pass
  <2>1. UNCHANGED runVars
    BY <1>2, PassKeepsTables DEF IInv
  <2> QED
    BY <2>1 DEF runVars
<1>3. ASSUME NEW w \in Workers, Clone(w) PROVE queue' = queue
  BY <1>3 DEF Clone, Steal, CloneStep, CloneCall, CloneEnd, CloneReturn
<1>4. Done \/ UNCHANGED vars => queue' = queue
  BY DEF Done, vars, runVars
<1> QED
  BY <1>1, <1>2, <1>3, <1>4 DEF Next

(* The pushes inserted by createUpdateBlock go to the buffer that the      *)
(* program has taken: one that is handed over, or is free, or is read by a *)
(* clone does not change.                                                  *)
THEOREM WritesOwnBuffer ==
  ASSUME \A b \in Bodies : Supported(b)
  PROVE  Spec => OwnBufferOnly
<1>1. IInv /\ [Next]_vars => [\A b \in 0 .. NumBufs - 1 : NotOurs(b) => queue'[b] = queue[b]]_vars
  BY OnlyPushesWrite DEF Bufs
<1> QED
  BY <1>1, MirrorInductive, PTL DEF Spec, OwnBufferOnly
=============================================================================
