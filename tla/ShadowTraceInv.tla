--------------------------- MODULE ShadowTraceInv ---------------------------
(***************************************************************************)
(* The inductive invariant behind the locks and keys of ShadowTrace: what  *)
(* the lock and key stack says of the frames, that every pointer leads to  *)
(* a temporary that was there once, which frame guards it, and what the    *)
(* timestamps say of the operands of a temporary.                          *)
(***************************************************************************)
EXTENDS ShadowTrace

(* The lock of a frame is one more than its depth; its key is in use while *)
(* it is there, and every lock above has the key 0.  The frame that is at  *)
(* a depth now is the last that was entered there.                         *)
Frames ==
  /\ key_stack_top = Len(stack) + 1 /\ key_counter = Len(level) + 1
  /\ \A i \in 1 .. Len(stack) : stack[i] <= Len(level) /\ level[stack[i]] = i
  /\ \A l \in Locks :
       lock_key_map[l] = IF l = 1 THEN 1
                         ELSE IF l \in 2 .. Len(stack) + 1 THEN KeyOf(stack[l - 1]) ELSE 0
  /\ \A d \in 1 .. Len(level) : level[d] <= Len(stack) => d <= stack[level[d]]

(* A pointer leads to a temporary of a clone that was entered.             *)
Known(p) == p.clone <= Len(level)

(* A temporary that has operands has taken its time from an operation or a *)
(* phi in the past, and the operands from that operation or another one.   *)
Recorded(t) ==
  /\ IsFiniteSet(t.ops) /\ \A o \in t.ops : Known(o.tmp)
  /\ t.ops # {} => t.made <= t.timestamp /\ t.timestamp < timestamp

(* Where the timestamps let a trace follow an operand it is what it was.   *)
Intact(t) ==
  t.timestamp = t.made =>
    \A o \in t.ops :
      At(o.tmp).timestamp < t.timestamp /\ OwnTime(o.tmp) => At(o.tmp).val = o.val

Recording ==
  \A n \in 1 .. MaxDepth, s \in Slots : Recorded(temp[<<n, s>>]) /\ Intact(temp[<<n, s>>])

(* While the clone d runs, q does too: it is the same, or further out.     *)
Outlives(q, d) ==
  \A i \in 1 .. Len(stack) : stack[i] = d => \E j \in 1 .. i : stack[j] = q

(* A temporary has the lock of the frame it is in, or of a callee that has *)
(* returned it; an operand the key of a clone that its own outlives, or 0. *)
Guarded(o) ==
  o.key # 0 => o.key \in 2 .. Len(level) + 1 /\ Outlives(o.tmp.clone, o.key - 1)

Guarding ==
  "negate" \notin Instrs =>
    \A n \in 1 .. MaxDepth, s \in Slots :
      /\ temp[<<n, s>>].of # 0 => n < temp[<<n, s>>].lock
      /\ \A o \in temp[<<n, s>>].ops : Guarded(o)

(* A cell has the lock and the key of the clone that stored to it, which   *)
(* had the temporary from itself or its callers unless it was copied.      *)
Stored(m) ==
  /\ Known(m.tmp)
  /\ m.storer \in 1 .. Len(level) /\ m.lock = level[m.storer] + 1
  /\ m.key = KeyOf(m.storer) % CellKeys
  /\ "memcpy" \notin Instrs => Outlives(m.tmp.clone, m.storer)

Storing == \A c \in Cells : cell[c] # None /\ cell[c].tmp # None => Stored(cell[c])

Visiting == \A i \in 1 .. Len(m_expr) : Known(m_expr[i])

IInv == TypeOK /\ Frames /\ Recording /\ Guarding /\ Storing /\ Visiting
=============================================================================
