---------------------------- MODULE ShadowTrace -----------------------------
(***************************************************************************)
(* The tracing metadata of one shadow state.  A shadow value in a          *)
(* temporary (temp_entry) remembers the temporaries it was computed from,  *)
(* a shadow value in memory (smem_entry) the temporary it was stored from. *)
(* Temporaries live on the stack of the clone that owns them, so every     *)
(* such pointer is guarded by the lock of a frame and the key the lock had *)
(* when the pointer was made: a frame gets a new key when it is entered    *)
(* and loses it when it returns.  fpsan_trace follows the pointers.        *)
(*                                                                         *)
(* Source: src/runtime/handleReal.cpp, built with TRACING.                 *)
(***************************************************************************)
EXTENDS Integers, Sequences, FiniteSets

CONSTANTS
  Slots,     (* the temporaries of a frame                                 *)
  Cells,     (* the addresses a slice uses                                 *)
  Instrs,    (* the kinds of instructions the program has                  *)
  CellKeys,  (* how many keys the shadow memory tells apart (2^32)         *)
  MaxDepth,  (* bound: nested clones                                       *)
  MaxCalls,  (* bound: clones entered                                      *)
  MaxTime,   (* bound: m_timestamp                                         *)
  MaxLeft    (* bound: what earlier traces may have left in m_expr         *)

ASSUME BoundsAssumption ==
  /\ MaxDepth \in Nat \ {0} /\ MaxCalls \in Nat /\ CellKeys \in Nat \ {0}
  /\ MaxTime \in Nat /\ MaxLeft \in Nat

VARIABLES
  stack,         (* the running clones, by number, the slice's first       *)
  level,         (* history: how deep each clone entered so far was        *)
  key_stack_top, key_counter, lock_key_map,
  timestamp,     (* m_timestamp                                            *)
  temp,          (* the temporaries, by depth of their frame and slot      *)
  cell,          (* the shadow memory                                      *)
  tracing,       (* fpsan_trace is running                                 *)
  m_expr         (* its list of temporaries to visit                       *)

frameVars == <<stack, level, key_stack_top, key_counter, lock_key_map>>
traceVars == <<tracing, m_expr>>
vars == <<frameVars, timestamp, temp, cell, traceVars>>

Locks == 0 .. MaxDepth + 1
None == [none |-> TRUE]

(* A pointer to a temporary names the clone whose frame it is in, so that  *)
(* a pointer into a frame that has returned can be told from one into a    *)
(* later frame at the same depth.  At is what is found there.              *)
Alive(p) == \E i \in 1 .. Len(stack) : stack[i] = p.clone
At(p) == temp[<<level[p.clone], p.slot>>]

Current == stack[Len(stack)]
Own == {[clone |-> Current, slot |-> s] : s \in Slots}

(* What an instruction can use: the temporaries already written in the     *)
(* current frame, and through the arguments those of its callers.          *)
Usable == {p \in {[clone |-> stack[i], slot |-> s] : i \in 1 .. Len(stack), s \in Slots} :
             At(p).of = p.clone}

Running == stack # << >> /\ ~tracing

(* The zero filled metadata of a new frame.  "of", "by" and "made" are     *)
(* history: the clone and the kind of instruction that wrote it, and the   *)
(* time at which the operation it names the operands of was executed.      *)
Blank == [lock |-> 0, key |-> 0, ops |-> {}, timestamp |-> 0, val |-> 0, of |-> 0,
          by |-> "nothing", made |-> 0]

(* The state that the first slice on a buffer finds.                       *)
Init ==
  /\ stack = << >> /\ level = << >>
  /\ key_stack_top = 1 /\ key_counter = 1
  /\ lock_key_map = [l \in Locks |-> IF l = 1 THEN 1 ELSE 0]
  /\ timestamp = 0
  /\ temp = [p \in (1 .. MaxDepth) \X Slots |-> Blank]
  /\ cell = [c \in Cells |-> None]
  /\ tracing = FALSE /\ m_expr = << >>

-----------------------------------------------------------------------------
(* Frames.                                                                 *)
FuncInit ==
  /\ "call" \in Instrs \/ stack = << >>
  /\ ~tracing /\ Len(stack) < MaxDepth /\ Len(level) < MaxCalls
  /\ stack' = Append(stack, Len(level) + 1)
  /\ level' = Append(level, Len(stack) + 1)
  /\ key_stack_top' = key_stack_top + 1
  /\ key_counter' = key_counter + 1
  /\ lock_key_map' = [lock_key_map EXCEPT ![key_stack_top + 1] = key_counter + 1]
  /\ UNCHANGED <<timestamp, temp, cell, traceVars>>

KeepTop ==
  /\ lock_key_map' = [lock_key_map EXCEPT ![key_stack_top] = 0]
  /\ stack' = SubSeq(stack, 1, Len(stack) - 1)
  /\ UNCHANGED <<key_stack_top, level, key_counter>>

KeepKey ==
  /\ key_stack_top' = key_stack_top - 1
  /\ stack' = SubSeq(stack, 1, Len(stack) - 1)
  /\ UNCHANGED <<lock_key_map, level, key_counter>>

FuncExit ==
  /\ lock_key_map' = [lock_key_map EXCEPT ![key_stack_top] = 0]
  /\ key_stack_top' = key_stack_top - 1
  /\ stack' = SubSeq(stack, 1, Len(stack) - 1)
  /\ UNCHANGED <<level, key_counter>>

ReturnVoid ==
  /\ Running
  /\ FuncExit
  /\ UNCHANGED <<timestamp, temp, cell, traceVars>>

(* The lock and the key of what is written now.                            *)
Lock == key_stack_top
Key == lock_key_map[key_stack_top]

Write(p, t) == temp' = [temp EXCEPT ![<<level[p.clone], p.slot>>] = t]

(* A clone returns a value: fpsan_copy_return copies the metadata to the   *)
(* caller's temporary while the frame of the callee is still the current.  *)
Return(p, s) ==
  /\ Running /\ Len(stack) > 1
  /\ p \in Usable
  /\ Write([clone |-> stack[Len(stack) - 1], slot |-> s],
           [At(p) EXCEPT !.lock = Lock, !.key = Key, !.of = stack[Len(stack) - 1],
                         !.by = "return"])
  /\ FuncExit
  /\ UNCHANGED <<timestamp, cell, traceVars>>

-----------------------------------------------------------------------------
(* Temporaries.                                                            *)
Fresh(ops) == [lock |-> Lock, key |-> Key, ops |-> ops, timestamp |-> timestamp,
               val |-> timestamp, of |-> Current, by |-> "operation",
               made |-> timestamp]
Tick == timestamp < MaxTime /\ timestamp' = timestamp + 1

(* Constants, values of library functions and of unknown memory.           *)
Constant(p) ==
  /\ Running /\ p \in Own
  /\ Write(p, Fresh({})) /\ Tick
  /\ UNCHANGED <<frameVars, cell, traceVars>>

(* An operation records its operands, each with the lock it has and the    *)
(* key that lock has now.                                                  *)
Operand(p) == [lock |-> At(p).lock, key |-> lock_key_map[At(p).lock],
               tmp |-> p, val |-> At(p).val]

Compute(p, operands) ==
  /\ Running /\ p \in Own /\ operands \subseteq Usable \ {p}
  /\ Write(p, Fresh({Operand(q) : q \in operands})) /\ Tick
  /\ UNCHANGED <<frameVars, cell, traceVars>>

CopyPhi(p, q) ==
  /\ "phi" \in Instrs
  /\ Running /\ p \in Own /\ q \in Usable \ {p}
  /\ Write(p, [At(q) EXCEPT !.lock = Lock, !.key = Key, !.of = Current,
                            !.timestamp = timestamp, !.by = "phi"])
  /\ Tick
  /\ UNCHANGED <<frameVars, cell, traceVars>>

(* A negation passes for the operation that computed its operand, and      *)
(* keeps the lock of the operand, which an argument has from the caller.   *)
Negate(p, q) ==
  /\ "negate" \in Instrs
  /\ Running /\ p \in Own /\ q \in Usable \ {p}
  /\ Write(p, [At(q) EXCEPT !.of = Current, !.by = "negate"])
  /\ UNCHANGED <<frameVars, timestamp, cell, traceVars>>

-----------------------------------------------------------------------------
(* Shadow memory.  A cell has less room for the key than lock_key_map has. *)
(* "storer" is history: the clone whose lock and key the cell was given.   *)
HalfTheKey == Key % (CellKeys \div 2)
CellKey == Key % CellKeys
CellMeta(tmp, val) == [lock |-> Lock, key |-> CellKey, tmp |-> tmp, val |-> val,
                       storer |-> Current]

StoreConst(c) ==
  /\ "memory" \in Instrs
  /\ Running
  /\ cell' = [cell EXCEPT ![c] = CellMeta(None, 0)]
  /\ UNCHANGED <<frameVars, timestamp, temp, traceVars>>

Store(c, p) ==
  /\ "memory" \in Instrs
  /\ Running /\ p \in Usable
  /\ cell' = [cell EXCEPT ![c] = CellMeta(p, At(p).val)]
  /\ UNCHANGED <<frameVars, timestamp, temp, traceVars>>

Memset ==
  /\ "memory" \in Instrs
  /\ Running
  /\ cell' = [c \in Cells |-> CellMeta(None, 0)]
  /\ UNCHANGED <<frameVars, timestamp, temp, traceVars>>

(* memcpy gives the copy the lock of the current frame.  It stops at the   *)
(* first byte of the source that has no metadata, having given the copy    *)
(* metadata without a temporary if it had none.                            *)
NoTmp == [lock |-> 0, key |-> 0, tmp |-> None, val |-> 0, storer |-> 0]

CopyTmp(to, from) ==
  /\ "memcpy" \in Instrs
  /\ Running /\ to # from
  /\ cell' = [cell EXCEPT ![to] =
                IF cell[from] # None
                THEN CellMeta(cell[from].tmp, cell[from].val)
                ELSE IF @ = None THEN NoTmp ELSE @]
  /\ UNCHANGED <<frameVars, timestamp, temp, traceVars>>

(* A load takes over the provenance of the temporary the value was stored  *)
(* from, if that is still there.  A value that differs from the one in the *)
(* shadow memory (known = FALSE) was written by code without instrumentation. *)
HasTmp(c) == /\ cell[c] # None /\ cell[c].tmp # None
             /\ lock_key_map[cell[c].lock] = cell[c].key

Load(p, c, known) ==
  /\ "memory" \in Instrs
  /\ Running /\ p \in Own
  /\ IF known /\ HasTmp(c)
     THEN /\ Write(p, [Fresh(At(cell[c].tmp).ops) EXCEPT
                         !.timestamp = At(cell[c].tmp).timestamp, !.val = cell[c].val,
                         !.by = "load", !.made = At(cell[c].tmp).made])
          /\ UNCHANGED timestamp
     ELSE Write(p, Fresh({})) /\ Tick
  /\ UNCHANGED <<frameVars, cell, traceVars>>

-----------------------------------------------------------------------------
(* fpsan_trace, called by fpsan_check_error, which clears m_expr first, or *)
(* by the user in the debugger.                                            *)
CheckError(p) ==
  /\ "check" \in Instrs
  /\ Running /\ p \in Usable
  /\ tracing' = TRUE /\ m_expr' = <<p>>
  /\ UNCHANGED <<frameVars, timestamp, temp, cell>>

Trace(p) ==
  /\ "debugger" \in Instrs /\ Len(m_expr) <= MaxLeft
  /\ Running /\ p \in Usable
  /\ tracing' = TRUE /\ m_expr' = Append(m_expr, p)
  /\ UNCHANGED <<frameVars, timestamp, temp, cell>>

Valid(p) == \A o \in At(p).ops : lock_key_map[o.lock] = o.key
OlderOrSame(p) == {o.tmp : o \in {r \in At(p).ops : At(r.tmp).timestamp <= At(p).timestamp}}
AnyAge(p) == {o.tmp : o \in At(p).ops}
Older(p) == {o.tmp : o \in {r \in At(p).ops : At(r.tmp).timestamp < At(p).timestamp}}
Orders(S) == {f \in [1 .. Cardinality(S) -> S] : \A x \in S : \E i \in DOMAIN f : f[i] = x}

(* Visiting a temporary whose operands may be gone ends the trace.         *)
Visit ==
  /\ tracing /\ m_expr # << >>
  /\ IF Valid(Head(m_expr))
     THEN /\ \E order \in Orders(Older(Head(m_expr))) : m_expr' = Tail(m_expr) \o order
          /\ UNCHANGED tracing
     ELSE tracing' = FALSE /\ UNCHANGED m_expr
  /\ UNCHANGED <<frameVars, timestamp, temp, cell>>

TraceEnd ==
  /\ tracing /\ m_expr = << >>
  /\ tracing' = FALSE
  /\ UNCHANGED <<frameVars, timestamp, temp, cell, m_expr>>

-----------------------------------------------------------------------------
Clone ==
  \/ FuncInit \/ ReturnVoid
  \/ \E p \in Usable, s \in Slots : Return(p, s)
  \/ Running /\ \E p \in Own :
       \/ Constant(p)
       \/ \E q, r \in Usable : Compute(p, {q, r})
       \/ \E q \in Usable : CopyPhi(p, q) \/ Negate(p, q)
       \/ \E c \in Cells, known \in BOOLEAN : Load(p, c, known)
  \/ \E c \in Cells : StoreConst(c) \/ \E p \in Usable : Store(c, p)
  \/ Memset \/ \E c, d \in Cells : CopyTmp(c, d)

Next == Clone \/ (\E p \in Usable : CheckError(p) \/ Trace(p)) \/ Visit \/ TraceEnd

Spec == Init /\ [][Next]_vars

(* A trace that is running goes on: the program is stopped meanwhile.      *)
FairSpec == Spec /\ WF_vars(Visit) /\ WF_vars(TraceEnd)

-----------------------------------------------------------------------------
Clones == 1 .. MaxCalls
Keys == 0 .. MaxCalls + 1
Times == 0 .. MaxTime
Kinds == {"nothing", "operation", "phi", "negate", "load", "return"}
Pointers == [clone : Clones, slot : Slots]
Operands == [lock : Locks, key : Keys, tmp : Pointers, val : Times]
Temps == [lock : Locks, key : Keys, ops : SUBSET Operands, timestamp : Times,
          val : Times, of : 0 .. MaxCalls, by : Kinds, made : Times]
CellMetas == [lock : Locks, key : Keys, tmp : Pointers \cup {None}, val : Times,
              storer : 0 .. MaxCalls]
TypeFrames ==
  /\ stack \in Seq(Clones) /\ Len(stack) <= MaxDepth
  /\ level \in Seq(1 .. MaxDepth) /\ Len(level) <= MaxCalls
  /\ key_stack_top \in Locks /\ key_counter \in 1 .. MaxCalls + 1
  /\ lock_key_map \in [Locks -> Keys]
TypeTemp == timestamp \in Times /\ temp \in [(1 .. MaxDepth) \X Slots -> Temps]
TypeCell == cell \in [Cells -> CellMetas \cup {None}]
TypeTrace == tracing \in BOOLEAN /\ m_expr \in Seq(Pointers)
TypeOK == TypeFrames /\ TypeTemp /\ TypeCell /\ TypeTrace

(* A load follows the pointer of a cell only into a frame that is still    *)
(* there ("if the temp metadata is not available (i.e, the function        *)
(* producing the value has returned), then treat the value loaded from the *)
(* shadow memory as a constant").  The exception are keys that are 0 in    *)
(* the width of a cell: 0 is the key of every lock that is not in use.     *)
KeyOf(clone) == clone + 1
LoadedTempAlive ==
  \A c \in Cells :
    HasTmp(c) /\ KeyOf(cell[c].storer) % CellKeys # 0 => Alive(cell[c].tmp)

(* And it does follow the pointer as long as the frame that stored it is   *)
(* there, whatever was called in between, if the key fits into the cell.   *)
ProvenanceKept ==
  \A c \in Cells :
    /\ cell[c] # None /\ cell[c].tmp # None
    /\ KeyOf(cell[c].storer) < CellKeys
    /\ \E i \in 1 .. Len(stack) : stack[i] = cell[c].storer
    => HasTmp(c)

(* fpsan_trace looks only at temporaries of frames that are still there:   *)
(* where the locks let it through, the operands of a temporary are alive.  *)
(* The exception are operands that had been returned by a callee when they *)
(* were recorded: they have the lock of the callee, which was free by      *)
(* then, and every free lock passes for the key 0 they were given.         *)
OperandsAlive ==
  \A p \in Usable : Valid(p) => \A o \in At(p).ops : o.key # 0 => Alive(o.tmp)

(* A trace that follows a pointer to an operand finds there what the       *)
(* operation used: the timestamps tell operands that a loop has computed   *)
(* again in the meantime.  They cannot tell a temporary that has since     *)
(* taken over an older timestamp (from memory, a callee or a negation),    *)
(* nor the operands of a value that went through a phi: it has the         *)
(* timestamp of the phi, but the operands that were recorded before.       *)
OwnTime(p) == At(p).by \in {"operation", "phi"}
OwnOperands(p) == At(p).timestamp = At(p).made
OperandIntact ==
  tracing /\ m_expr # << >> /\ Valid(Head(m_expr)) /\ OwnOperands(Head(m_expr)) =>
    \A o \in At(Head(m_expr)).ops :
      o.tmp \in Older(Head(m_expr)) /\ OwnTime(o.tmp) => At(o.tmp).val = o.val

(* Every trace comes to an end, although the pointers can form cycles.     *)
TraceEnds == tracing ~> ~tracing
=============================================================================
