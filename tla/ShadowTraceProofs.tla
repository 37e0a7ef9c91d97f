-------------------------- MODULE ShadowTraceProofs -------------------------
(***************************************************************************)
(* Proofs about ShadowTrace: that the locks and keys keep loads and traces *)
(* out of frames that have returned, and let loads into those that have    *)
(* not, and that the timestamps keep a trace from taking an operand that   *)
(* was computed again for the one that was used; for any number of frames, *)
(* temporaries, cells and keys, with memcpy and negations excluded only    *)
(* where they break the property.                                          *)
(***************************************************************************)
EXTENDS ShadowTraceInv, TLAPS, FiniteSetTheorems, SequenceTheorems

-----------------------------------------------------------------------------
(* Frames, locks and keys.                                                 *)

LEMMA Bounds ==
  /\ MaxDepth \in Nat /\ MaxDepth > 0 /\ MaxCalls \in Nat /\ MaxTime \in Nat
  /\ CellKeys \in Nat /\ CellKeys > 0
BY BoundsAssumption

(* The running clones are numbered in the order in which they were         *)
(* entered, and each knows its depth.                                      *)
LEMMA Depths ==
  ASSUME TypeFrames, Frames
  PROVE  /\ Len(stack) \in Nat /\ Len(level) \in Nat
         /\ \A i \in 1 .. Len(stack) :
              stack[i] \in Clones /\ stack[i] \in 1 .. Len(level) /\ level[stack[i]] = i
         /\ \A d \in 1 .. Len(level) : level[d] \in 1 .. MaxDepth
<1>1. /\ stack \in Seq(Clones) /\ level \in Seq(1 .. MaxDepth)
      /\ Len(stack) \in Nat /\ Len(level) \in Nat
  BY LenProperties DEF TypeFrames
<1>2. \A i \in 1 .. Len(stack) : stack[i] \in Clones
  BY <1>1, ElementOfSeq
<1>3. \A d \in 1 .. Len(level) : level[d] \in 1 .. MaxDepth
  BY <1>1, ElementOfSeq
<1> QED
  BY <1>1, <1>2, <1>3, Bounds DEF Frames, Clones

(* The running clone has the lock at the top, which has its key.           *)
LEMMA Top ==
  ASSUME TypeFrames, Frames, stack # << >>
  PROVE  /\ Len(stack) \in 1 .. MaxDepth /\ Current \in Clones
         /\ Current \in 1 .. Len(level) /\ level[Current] = Len(stack)
         /\ Lock = Len(stack) + 1 /\ Lock \in Locks
         /\ Key = KeyOf(Current) /\ Key \in Keys
<1>1. Len(stack) \in Nat /\ Len(stack) # 0
  BY EmptySeq, Depths DEF TypeFrames
<1>2. Len(stack) \in 1 .. Len(stack) /\ Len(stack) <= MaxDepth
  BY <1>1 DEF TypeFrames
<1>3. /\ Current \in Clones /\ Current \in 1 .. Len(level)
      /\ level[Current] = Len(stack)
  BY <1>2, Depths DEF Current
<1>4. Lock = Len(stack) + 1 /\ Lock \in Locks
  BY <1>1, <1>2, Bounds DEF Lock, Frames, Locks
<1>5. Key = KeyOf(Current)
  BY <1>1, <1>4 DEF Key, Lock, Frames, Current
<1>6. Key \in Keys
  BY <1>3, <1>5, Bounds DEF KeyOf, Clones, Keys
<1> QED
  BY <1>1, <1>2, <1>3, <1>4, <1>5, <1>6

(* The key of a lock in use is that of the clone whose frame it guards.    *)
LEMMA LockInUse ==
  ASSUME TypeFrames, Frames, NEW l \in Locks, l # 1, lock_key_map[l] # 0
  PROVE  /\ l - 1 \in 1 .. Len(stack) /\ lock_key_map[l] = KeyOf(stack[l - 1])
         /\ lock_key_map[l] \in 2 .. Len(level) + 1
<1>1. l \in 2 .. Len(stack) + 1 /\ lock_key_map[l] = KeyOf(stack[l - 1])
  BY DEF Frames
<1>2. l - 1 \in 1 .. Len(stack)
  BY <1>1, Depths
<1>3. stack[l - 1] \in 1 .. Len(level)
  BY <1>2, Depths
<1> QED
  BY <1>1, <1>2, <1>3, Depths DEF KeyOf

(* What an instruction uses belongs to a clone that is running.            *)
LEMMA KnownAt ==
  ASSUME TypeFrames, TypeTemp, Frames, NEW p \in Pointers, Known(p)
  PROVE  /\ p.clone \in 1 .. Len(level) /\ level[p.clone] \in 1 .. MaxDepth
         /\ p.slot \in Slots /\ At(p) \in Temps
<1>1. p.clone \in 1 .. Len(level) /\ p.slot \in Slots
  BY Depths, Bounds DEF Pointers, Clones, Known
<1>2. level[p.clone] \in 1 .. MaxDepth
  BY <1>1, Depths
<1> QED
  BY <1>1, <1>2 DEF At, TypeTemp

LEMMA UsableAt ==
  ASSUME TypeFrames, TypeTemp, Frames, NEW p \in Usable
  PROVE  /\ p \in Pointers /\ Known(p) /\ At(p) \in Temps
         /\ level[p.clone] \in 1 .. Len(stack) /\ stack[level[p.clone]] = p.clone
         /\ At(p).of = p.clone
<1>1. PICK i \in 1 .. Len(stack), s \in Slots : p = [clone |-> stack[i], slot |-> s]
  BY DEF Usable
<1>2. stack[i] \in Clones /\ stack[i] \in 1 .. Len(level) /\ level[stack[i]] = i
  BY Depths
<1>3. p \in Pointers /\ Known(p) /\ level[p.clone] = i /\ stack[i] = p.clone
  BY <1>1, <1>2, Depths DEF Pointers, Known
<1>4. At(p).of = p.clone
  BY DEF Usable
<1> QED
  BY <1>3, <1>4, KnownAt

LEMMA OwnAt ==
  ASSUME TypeFrames, Frames, Running, NEW p \in Own
  PROVE  /\ p \in Pointers /\ Known(p) /\ p.clone = Current
         /\ level[p.clone] = Len(stack) /\ Len(stack) \in 1 .. MaxDepth /\ p.slot \in Slots
<1>1. PICK s \in Slots : p = [clone |-> Current, slot |-> s]
  BY DEF Own
<1> QED
  BY <1>1, Top, Depths DEF Running, Pointers, Known

-----------------------------------------------------------------------------
(* Steps of the stack.  No clone comes back, and what outlives a clone     *)
(* goes on to do so.                                                       *)
GoesOn ==
  /\ Len(level) <= Len(level') /\ \A d \in 1 .. Len(level) : level'[d] = level[d]
  /\ \A q, d : d \in 1 .. Len(level) /\ Outlives(q, d) => Outlives(q, d)'

LEMMA FuncInitFrames ==
  ASSUME TypeFrames, Frames, FuncInit
  PROVE  TypeFrames' /\ Frames' /\ GoesOn
<1> DEFINE n == Len(stack) + 1
           d == Len(level) + 1
<1>1. /\ Len(stack) \in Nat /\ Len(level) \in Nat /\ n \in 1 .. MaxDepth /\ d \in Clones
      /\ stack' = Append(stack, d) /\ level' = Append(level, n)
      /\ key_stack_top' = n + 1 /\ key_counter' = d + 1
      /\ lock_key_map' = [lock_key_map EXCEPT ![n + 1] = d + 1]
  BY Depths, Bounds DEF FuncInit, Clones, Frames
<1>2. /\ stack' \in Seq(Clones) /\ Len(stack') = n /\ stack'[n] = d
      /\ \A i \in 1 .. Len(stack) : stack'[i] = stack[i]
      /\ level' \in Seq(1 .. MaxDepth) /\ Len(level') = d /\ level'[d] = n
      /\ \A c \in 1 .. Len(level) : level'[c] = level[c]
  BY <1>1, AppendProperties DEF TypeFrames
<1>3. TypeFrames'
  <2>1. Len(stack') <= MaxDepth /\ Len(level') <= MaxCalls
    BY <1>1, <1>2, Bounds DEF Clones
  <2>2. key_stack_top' \in Locks /\ key_counter' \in 1 .. MaxCalls + 1
    BY <1>1, Bounds DEF Locks, Clones
  <2>3. d + 1 \in Keys
    BY <1>1, Bounds DEF Keys, Clones
  <2>4. lock_key_map' \in [Locks -> Keys]
    BY <1>1, <2>3 DEF TypeFrames
  <2> QED
    BY <1>2, <2>1, <2>2, <2>4 DEF TypeFrames
<1>4. \A i \in 1 .. n : i \in 1 .. Len(stack) \/ i = n
  BY <1>1
<1>5. \A c \in 1 .. d : c \in 1 .. Len(level) \/ c = d
  BY <1>1
<1>6. \A i \in 1 .. n : stack'[i] <= Len(level') /\ level'[stack'[i]] = i
  BY <1>1, <1>2, <1>4, Depths
<1>7. \A c \in 1 .. d : level'[c] <= n => c <= stack'[level'[c]]
  <2>1. d <= stack'[level'[d]]
    BY <1>1, <1>2
  <2>2. ASSUME NEW c \in 1 .. Len(level), level[c] <= n
        PROVE  c <= stack'[level[c]]
    <3>1. CASE level[c] = n
      BY <1>1, <1>2, <3>1
    <3>2. CASE level[c] # n
      <4>1. level[c] \in 1 .. Len(stack)
        BY <1>1, <2>2, <3>2, Depths
      <4> QED
        BY <1>2, <4>1, Depths DEF Frames
    <3> QED
      BY <3>1, <3>2
  <2> QED
    BY <1>2, <1>5, <2>1, <2>2
<1>8. \A l \in Locks :
        lock_key_map'[l] = IF l = 1 THEN 1
                           ELSE IF l \in 2 .. n + 1 THEN KeyOf(stack'[l - 1]) ELSE 0
  <2>1. SUFFICES ASSUME NEW l \in Locks
                 PROVE  lock_key_map'[l] = IF l = 1 THEN 1
                           ELSE IF l \in 2 .. n + 1 THEN KeyOf(stack'[l - 1]) ELSE 0
    OBVIOUS
  <2>2. CASE l = n + 1
    BY <1>1, <1>2, <2>2 DEF TypeFrames, KeyOf
  <2>3. CASE l # n + 1
    <3>1. lock_key_map'[l] = lock_key_map[l] /\ l \in Nat
      BY <1>1, <2>3, Bounds DEF TypeFrames, Locks
    <3>2. l \in 2 .. n + 1 <=> l \in 2 .. Len(stack) + 1
      BY <1>1, <2>3, <3>1
    <3>3. l \in 2 .. n + 1 => l - 1 \in 1 .. Len(stack)
      BY <1>1, <2>3, <3>1
    <3> QED
      BY <1>2, <3>1, <3>2, <3>3 DEF Frames
  <2> QED
    BY <2>2, <2>3
<1>9. Frames'
  BY <1>1, <1>2, <1>6, <1>7, <1>8 DEF Frames
<1>10. GoesOn
  <2>1. ASSUME NEW q, NEW c \in 1 .. Len(level), Outlives(q, c)
        PROVE  Outlives(q, c)'
    <3>1. SUFFICES ASSUME NEW i \in 1 .. n, stack'[i] = c
                   PROVE  \E j \in 1 .. i : stack'[j] = q
      BY <1>2 DEF Outlives
    <3>2. i \in 1 .. Len(stack) /\ stack[i] = c
      BY <1>1, <1>2, <1>4, <3>1
    <3>3. PICK j \in 1 .. i : stack[j] = q
      BY <2>1, <3>2 DEF Outlives
    <3>4. j \in 1 .. Len(stack)
      BY <1>1, <3>2
    <3> QED
      BY <1>2, <3>3, <3>4
  <2> QED
    BY <1>1, <1>2, <2>1 DEF GoesOn
<1> QED
  BY <1>3, <1>9, <1>10

LEMMA FuncExitFrames ==
  ASSUME TypeFrames, Frames, stack # << >>, FuncExit
  PROVE  TypeFrames' /\ Frames' /\ GoesOn
<1> DEFINE n == Len(stack) - 1
<1>1. /\ Len(stack) \in 1 .. MaxDepth /\ n \in Nat /\ level' = level /\ Len(level) \in Nat
      /\ key_counter' = key_counter
      /\ stack' = SubSeq(stack, 1, n) /\ key_stack_top' = n + 1
      /\ lock_key_map' = [lock_key_map EXCEPT ![n + 2] = 0]
  BY Top, Depths, Bounds DEF FuncExit, Frames
<1>2. /\ stack' \in Seq(Clones) /\ Len(stack') = n
      /\ \A i \in 1 .. n : stack'[i] = stack[i] /\ i \in 1 .. Len(stack)
  BY <1>1, SubSeqProperties DEF TypeFrames
<1>3. TypeFrames'
  BY <1>1, <1>2, Bounds DEF TypeFrames, Locks, Keys
<1>4. \A d \in 1 .. Len(level) : level[d] <= n => d <= stack'[level[d]]
  <2>1. SUFFICES ASSUME NEW d \in 1 .. Len(level), level[d] <= n
                 PROVE  d <= stack'[level[d]]
    OBVIOUS
  <2>2. level[d] \in 1 .. n /\ level[d] <= Len(stack)
    BY <1>1, <2>1, Depths
  <2> QED
    BY <1>2, <2>2 DEF Frames
<1>5. \A l \in Locks :
        lock_key_map'[l] = IF l = 1 THEN 1
                           ELSE IF l \in 2 .. n + 1 THEN KeyOf(stack'[l - 1]) ELSE 0
  <2>1. SUFFICES ASSUME NEW l \in Locks
                 PROVE  lock_key_map'[l] = IF l = 1 THEN 1
                           ELSE IF l \in 2 .. n + 1 THEN KeyOf(stack'[l - 1]) ELSE 0
    OBVIOUS
  <2>2. CASE l = n + 2
    BY <1>1, <2>2 DEF TypeFrames
  <2>3. CASE l # n + 2
    <3>1. lock_key_map'[l] = lock_key_map[l] /\ l \in Nat
      BY <1>1, <2>3, Bounds DEF TypeFrames, Locks
    <3>2. l \in 2 .. n + 1 <=> l \in 2 .. Len(stack) + 1
      BY <1>1, <2>3, <3>1
    <3>3. l \in 2 .. n + 1 => l - 1 \in 1 .. n
      BY <1>1, <3>1
    <3> QED
      BY <1>2, <3>1, <3>2, <3>3 DEF Frames
  <2> QED
    BY <2>2, <2>3
<1>6. Frames'
  BY <1>1, <1>2, <1>4, <1>5 DEF Frames
<1>7. GoesOn
  <2>1. ASSUME NEW q, NEW d, Outlives(q, d)
        PROVE  Outlives(q, d)'
    <3>1. SUFFICES ASSUME NEW i \in 1 .. n, stack[i] = d
                   PROVE  \E j \in 1 .. i : stack'[j] = q
      BY <1>2 DEF Outlives
    <3>2. PICK j \in 1 .. i : stack[j] = q
      BY <1>2, <2>1, <3>1 DEF Outlives
    <3>3. j \in 1 .. n
      BY <1>1
    <3> QED
      BY <1>2, <3>2, <3>3
  <2> QED
    BY <1>1, <2>1 DEF GoesOn
<1> QED
  BY <1>3, <1>6, <1>7

LEMMA SameFrames ==
  ASSUME TypeFrames, Frames, UNCHANGED frameVars
  PROVE  TypeFrames' /\ Frames' /\ GoesOn
<1>1. TypeFrames' /\ Frames'
  BY DEF TypeFrames, Frames, frameVars
<1>2. \A q, d : Outlives(q, d) => Outlives(q, d)'
  BY DEF Outlives, frameVars
<1>3. Len(level) <= Len(level')
  BY Depths DEF frameVars
<1> QED
  BY <1>1, <1>2, <1>3 DEF GoesOn, frameVars

-----------------------------------------------------------------------------
(* Temporaries.  What is written to one does not spoil the others: if it   *)
(* has a time of its own, that is later than that of all who use it.       *)
LEMMA KeptKnown ==
  ASSUME TypeFrames, Frames, TypeTemp, GoesOn, NEW p \in Pointers, Known(p)
  PROVE  Known(p)' /\ level'[p.clone] = level[p.clone]
BY KnownAt, Bounds, Depths DEF GoesOn, Known, Pointers, Clones, TypeFrames

LEMMA GuardedKept ==
  ASSUME GoesOn, Len(level) \in Nat, Len(level') \in Nat, NEW o \in Operands, Guarded(o)
  PROVE  Guarded(o)'
<1>1. SUFFICES ASSUME o.key # 0
               PROVE  o.key \in 2 .. Len(level') + 1 /\ Outlives(o.tmp.clone, o.key - 1)'
  BY DEF Guarded
<1>2. o.key \in 2 .. Len(level) + 1 /\ Outlives(o.tmp.clone, o.key - 1)
  BY <1>1 DEF Guarded
<1>3. o.key - 1 \in 1 .. Len(level) /\ Len(level) <= Len(level')
  BY <1>2 DEF GoesOn
<1> QED
  BY <1>2, <1>3 DEF GoesOn

LEMMA TempKept ==
  ASSUME TypeFrames, Frames, TypeTemp, Recording, Guarding, GoesOn, TypeFrames', Frames',
         UNCHANGED temp, timestamp' \in Times, timestamp <= timestamp'
  PROVE  TypeTemp' /\ Recording' /\ Guarding'
<1>1. TypeTemp'
  BY DEF TypeTemp
<1>2. ASSUME NEW n \in 1 .. MaxDepth, NEW s \in Slots
      PROVE  /\ (Recorded(temp[<<n, s>>]) /\ Intact(temp[<<n, s>>]))'
             /\ "negate" \notin Instrs => /\ temp'[<<n, s>>].of # 0 => n < temp'[<<n, s>>].lock
                                          /\ \A o \in temp'[<<n, s>>].ops : Guarded(o)'
  <2>1. PICK t : t = temp[<<n, s>>] /\ t = temp'[<<n, s>>]
    OBVIOUS
  <2>2. t \in Temps /\ Recorded(t) /\ Intact(t)
    BY <2>1 DEF TypeTemp, Recording
  <2>3. \A o \in t.ops : o.tmp \in Pointers /\ Known(o.tmp)
    BY <2>2 DEF Recorded, Temps, Operands
  <2>4. \A o \in t.ops : Known(o.tmp)' /\ At(o.tmp)' = At(o.tmp)
    BY <2>3, KeptKnown DEF At
  <2>5. Recorded(t)'
    <3>1. t.timestamp \in Nat /\ timestamp \in Nat /\ timestamp' \in Nat
      BY <2>2, Bounds DEF Temps, TypeTemp, Times
    <3> QED
      BY <2>2, <2>4, <3>1 DEF Recorded
  <2>6. Intact(t)'
    BY <2>2, <2>4 DEF Intact, OwnTime
  <2>7. ASSUME "negate" \notin Instrs
        PROVE  /\ t.of # 0 => n < t.lock
               /\ \A o \in t.ops : Guarded(o)'
    <3>1. /\ t.of # 0 => n < t.lock
          /\ \A o \in t.ops : Guarded(o)
      BY <2>1, <2>7 DEF Guarding
    <3>2. t.ops \subseteq Operands /\ Len(level) \in Nat /\ Len(level') \in Nat
      BY <2>2, LenProperties DEF Temps, TypeFrames
    <3> QED
      BY <3>1, <3>2, GuardedKept
  <2> QED
    BY <2>1, <2>5, <2>6, <2>7
<1> QED
  BY <1>1, <1>2 DEF Recording, Guarding

LEMMA TempWritten ==
  ASSUME TypeFrames, Frames, TypeTemp, Recording, Guarding, GoesOn, TypeFrames', Frames',
         timestamp' \in Times, timestamp <= timestamp',
         NEW n \in 1 .. MaxDepth, NEW s \in Slots, NEW t \in Temps,
         temp' = [temp EXCEPT ![<<n, s>>] = t],
         Recorded(t)', Intact(t)',
         t.by \in {"operation", "phi"} => t.timestamp = timestamp,
         "negate" \notin Instrs => (t.of # 0 => n < t.lock) /\ \A o \in t.ops : Guarded(o)'
  PROVE  TypeTemp' /\ Recording' /\ Guarding'
<1>1. /\ TypeTemp'
      /\ temp'[<<n, s>>] = t
      /\ \A m \in 1 .. MaxDepth, r \in Slots :
           <<m, r>> # <<n, s>> => temp'[<<m, r>>] = temp[<<m, r>>]
  BY DEF TypeTemp
<1>2. ASSUME NEW m \in 1 .. MaxDepth, NEW r \in Slots, <<m, r>> # <<n, s>>
      PROVE  /\ (Recorded(temp[<<m, r>>]) /\ Intact(temp[<<m, r>>]))'
             /\ "negate" \notin Instrs => /\ temp'[<<m, r>>].of # 0 => m < temp'[<<m, r>>].lock
                                          /\ \A o \in temp'[<<m, r>>].ops : Guarded(o)'
  <2>1. PICK u : u = temp[<<m, r>>] /\ u = temp'[<<m, r>>]
    BY <1>1, <1>2
  <2>2. u \in Temps /\ Recorded(u) /\ Intact(u)
    BY <2>1 DEF TypeTemp, Recording
  <2>3. \A o \in u.ops : o.tmp \in Pointers /\ Known(o.tmp)
    BY <2>2 DEF Recorded, Temps, Operands
  <2>4. /\ t.timestamp \in Nat /\ u.timestamp \in Nat
        /\ timestamp \in Nat /\ timestamp' \in Nat
    BY <2>2, Bounds DEF Temps, TypeTemp, Times
  <2>5. Recorded(u)'
    BY <2>2, <2>3, <2>4, KeptKnown DEF Recorded
  <2>6. Intact(u)'
    <3>1. SUFFICES ASSUME NEW o \in u.ops, u.timestamp = u.made,
                          At(o.tmp)'.timestamp < u.timestamp, OwnTime(o.tmp)'
                   PROVE  At(o.tmp)'.val = o.val
      BY DEF Intact
    <3>2. PICK k, q : k = level[o.tmp.clone] /\ q = o.tmp.slot
      OBVIOUS
    <3>3. /\ k \in 1 .. MaxDepth /\ q \in Slots
          /\ At(o.tmp) = temp[<<k, q>>] /\ At(o.tmp)' = temp'[<<k, q>>]
      BY <2>3, <3>2, KnownAt, KeptKnown DEF At
    <3>4. PICK v : v = At(o.tmp)' /\ v = temp'[<<k, q>>] /\ v.by \in {"operation", "phi"}
      BY <3>1, <3>3 DEF OwnTime
    <3>5. CASE k = n /\ q = s
      <4>1. v.timestamp = timestamp
        BY <1>1, <3>4, <3>5
      <4>2. u.timestamp < timestamp
        BY <2>2, <3>1 DEF Recorded
      <4> QED
        BY <2>4, <3>1, <3>4, <4>1, <4>2
    <3>6. CASE ~(k = n /\ q = s)
      <4>1. v = At(o.tmp)
        BY <1>1, <3>3, <3>4, <3>6
      <4> QED
        BY <2>2, <3>1, <3>4, <4>1 DEF Intact, OwnTime
    <3> QED
      BY <3>5, <3>6
  <2>7. ASSUME "negate" \notin Instrs
        PROVE  /\ u.of # 0 => m < u.lock
               /\ \A o \in u.ops : Guarded(o)'
    <3>1. /\ u.of # 0 => m < u.lock
          /\ \A o \in u.ops : Guarded(o)
      BY <2>1, <2>7 DEF Guarding
    <3>2. u.ops \subseteq Operands /\ Len(level) \in Nat /\ Len(level') \in Nat
      BY <2>2, LenProperties DEF Temps, TypeFrames
    <3> QED
      BY <3>1, <3>2, GuardedKept
  <2> QED
    BY <2>1, <2>5, <2>6, <2>7
<1>3. Recording'
  BY <1>1, <1>2 DEF Recording
<1>4. Guarding'
  BY <1>1, <1>2 DEF Guarding
<1> QED
  BY <1>1, <1>3, <1>4

(* A copy of another temporary has its operands, and if it has a time of   *)
(* its own then not the time at which the operands were recorded.          *)
LEMMA Copied ==
  ASSUME TypeFrames, Frames, TypeTemp, Recording, Guarding, GoesOn, TypeFrames', Frames',
         timestamp' \in Times, timestamp <= timestamp',
         NEW n \in 1 .. MaxDepth, NEW s \in Slots, NEW t \in Temps,
         temp' = [temp EXCEPT ![<<n, s>>] = t],
         NEW m \in 1 .. MaxDepth, NEW r \in Slots, NEW u, u = temp[<<m, r>>],
         t.ops = u.ops, t.made = u.made,
         t.ops # {} => t.made <= t.timestamp /\ t.timestamp < timestamp',
         t.timestamp = u.timestamp \/ (t.ops # {} => u.timestamp < t.timestamp)
  PROVE  /\ Recorded(t)' /\ Intact(t)'
         /\ "negate" \notin Instrs => \A o \in t.ops : Guarded(o)'
<1>1. u \in Temps /\ Recorded(u) /\ Intact(u)
  BY DEF TypeTemp, Recording
<1>2. \A o \in t.ops : o \in Operands /\ o.tmp \in Pointers /\ Known(o.tmp)
  BY <1>1 DEF Recorded, Temps, Operands
<1>3. t.timestamp \in Nat /\ u.timestamp \in Nat /\ u.made \in Nat
  <2>1. Times \subseteq Nat
    BY Bounds DEF Times
  <2>2. t.timestamp \in Times
    BY DEF Temps
  <2>3. u.timestamp \in Times /\ u.made \in Times
    BY <1>1 DEF Temps
  <2> QED
    BY <2>1, <2>2, <2>3
<1>4. Recorded(t)'
  BY <1>1, <1>2, KeptKnown DEF Recorded
<1>5. Intact(t)'
  <2>1. SUFFICES ASSUME NEW o \in t.ops, t.timestamp = t.made,
                        At(o.tmp)'.timestamp < t.timestamp, OwnTime(o.tmp)'
                 PROVE  At(o.tmp)'.val = o.val
    BY DEF Intact
  <2>2. PICK k, q : k = level[o.tmp.clone] /\ q = o.tmp.slot
    OBVIOUS
  <2>3. /\ k \in 1 .. MaxDepth /\ q \in Slots
        /\ At(o.tmp) = temp[<<k, q>>] /\ At(o.tmp)' = temp'[<<k, q>>]
    BY <1>2, <2>2, KnownAt, KeptKnown DEF At
  <2>4. PICK v : v = At(o.tmp)' /\ v = temp'[<<k, q>>] /\ v.by \in {"operation", "phi"}
    BY <2>1, <2>3 DEF OwnTime
  <2>5. CASE k = n /\ q = s
    <3>1. v = t
      BY <2>4, <2>5 DEF TypeTemp
    <3> QED
      BY <1>3, <2>1, <2>4, <3>1
  <2>6. CASE ~(k = n /\ q = s)
    <3>1. v = At(o.tmp)
      BY <2>3, <2>4, <2>6 DEF TypeTemp
    <3>2. u.timestamp = t.timestamp /\ u.timestamp = u.made
      BY <1>1, <1>3, <2>1 DEF Recorded
    <3> QED
      BY <1>1, <2>1, <2>4, <3>1, <3>2 DEF Intact, OwnTime
  <2> QED
    BY <2>5, <2>6
<1>6. ASSUME "negate" \notin Instrs
      PROVE  \A o \in t.ops : Guarded(o)'
  <2>1. \A o \in t.ops : Guarded(o)
    BY <1>6 DEF Guarding
  <2>2. Len(level) \in Nat /\ Len(level') \in Nat
    BY LenProperties DEF TypeFrames
  <2> QED
    BY <1>2, <2>1, <2>2, GuardedKept
<1> QED
  BY <1>4, <1>5, <1>6

-----------------------------------------------------------------------------
(* The shadow memory and the list of a trace.                              *)
LEMMA StoredKept ==
  ASSUME TypeFrames, Frames, TypeTemp, GoesOn,
         NEW m \in CellMetas, m.tmp # None, Stored(m)
  PROVE  Stored(m)'
<1>1. m.tmp \in Pointers /\ Known(m.tmp) /\ m.storer \in 1 .. Len(level)
  BY DEF CellMetas, Stored
<1>2. Known(m.tmp)'
  BY <1>1, KeptKnown
<1>3. /\ m.storer \in 1 .. Len(level') /\ level'[m.storer] = level[m.storer]
      /\ Outlives(m.tmp.clone, m.storer) => Outlives(m.tmp.clone, m.storer)'
  BY <1>1, Depths DEF GoesOn
<1> QED
  BY <1>2, <1>3 DEF Stored

LEMMA CellKept ==
  ASSUME TypeFrames, Frames, TypeTemp, TypeCell, Storing, GoesOn, UNCHANGED cell
  PROVE  TypeCell' /\ Storing'
<1>1. TypeCell'
  BY DEF TypeCell
<1>2. ASSUME NEW c \in Cells, cell'[c] # None, cell'[c].tmp # None
      PROVE  Stored(cell[c])'
  <2>1. PICK m : m = cell[c] /\ m = cell'[c]
    OBVIOUS
  <2>2. m \in CellMetas /\ m.tmp # None /\ Stored(m)
    BY <1>2, <2>1 DEF TypeCell, Storing
  <2> QED
    BY <2>1, <2>2, StoredKept
<1> QED
  BY <1>1, <1>2 DEF Storing

LEMMA TraceKept ==
  ASSUME TypeFrames, Frames, TypeTemp, TypeTrace, Visiting, GoesOn, UNCHANGED traceVars
  PROVE  TypeTrace' /\ Visiting'
<1>1. \A i \in 1 .. Len(m_expr) : m_expr[i] \in Pointers /\ Known(m_expr[i])
  BY ElementOfSeq DEF TypeTrace, Visiting
<1> QED
  BY <1>1, KeptKnown DEF TypeTrace, Visiting, traceVars

LEMMA CellsWritten ==
  ASSUME IInv, UNCHANGED <<frameVars, timestamp, temp, traceVars>>,
         TypeCell', \A c \in Cells : cell'[c] # None /\ cell'[c].tmp # None =>
                                       cell'[c] = cell[c] \/ Stored(cell'[c])
  PROVE  IInv'
<1>1. TypeFrames /\ TypeTemp /\ TypeCell /\ TypeTrace
  BY DEF IInv, TypeOK
<1>2. TypeFrames' /\ Frames' /\ GoesOn
  BY <1>1, SameFrames DEF IInv
<1>3. TypeTemp' /\ Recording' /\ Guarding'
  <2>1. timestamp \in Nat
    BY <1>1, Bounds DEF TypeTemp, Times
  <2>2. timestamp' \in Times /\ timestamp <= timestamp'
    BY <1>1, <2>1 DEF TypeTemp
  <2> QED
    BY <1>1, <1>2, <2>2, TempKept DEF IInv
<1>4. TypeTrace' /\ Visiting'
  BY <1>1, <1>2, TraceKept DEF IInv
<1>5. ASSUME NEW c \in Cells, cell'[c] # None, cell'[c].tmp # None
      PROVE  Stored(cell[c])'
  <2>1. PICK m : m = cell'[c]
    OBVIOUS
  <2>2. m \in CellMetas /\ m.tmp # None
    BY <1>5, <2>1 DEF TypeCell
  <2>3. Stored(m)
    BY <1>5, <2>1 DEF IInv, Storing
  <2> QED
    BY <1>1, <1>2, <2>1, <2>2, <2>3, StoredKept DEF IInv
<1>6. Storing'
  BY <1>5 DEF Storing
<1> QED
  BY <1>2, <1>3, <1>4, <1>6 DEF IInv, TypeOK

LEMMA TempOnly ==
  ASSUME IInv, UNCHANGED <<frameVars, cell, traceVars>>, TypeTemp', Recording', Guarding'
  PROVE  IInv'
<1>1. TypeFrames /\ TypeTemp /\ TypeCell /\ TypeTrace
  BY DEF IInv, TypeOK
<1>2. TypeFrames' /\ Frames' /\ GoesOn
  BY <1>1, SameFrames DEF IInv
<1>3. TypeCell' /\ Storing' /\ TypeTrace' /\ Visiting'
  BY <1>1, <1>2, CellKept, TraceKept DEF IInv
<1> QED
  BY <1>2, <1>3 DEF IInv, TypeOK

LEMMA OwnWritten ==
  ASSUME IInv, Running, NEW p \in Own, NEW t \in Temps, Write(p, t),
         UNCHANGED <<frameVars, cell, traceVars>>,
         timestamp' \in Times, timestamp <= timestamp',
         Recorded(t)', Intact(t)',
         t.by \in {"operation", "phi"} => t.timestamp = timestamp,
         "negate" \notin Instrs => t.lock = Lock /\ \A o \in t.ops : Guarded(o)'
  PROVE  IInv'
<1>1. TypeFrames /\ TypeTemp /\ TypeCell /\ TypeTrace
  BY DEF IInv, TypeOK
<1>2. TypeFrames' /\ Frames' /\ GoesOn
  BY <1>1, SameFrames DEF IInv
<1>3. /\ level[p.clone] = Len(stack) /\ Len(stack) \in 1 .. MaxDepth /\ p.slot \in Slots
      /\ Lock = Len(stack) + 1
  BY <1>1, OwnAt, Top DEF IInv, Running
<1>4. PICK n, s : n = level[p.clone] /\ s = p.slot
  OBVIOUS
<1>5. /\ n \in 1 .. MaxDepth /\ s \in Slots
      /\ temp' = [temp EXCEPT ![<<n, s>>] = t]
      /\ Lock = n + 1
  BY <1>3, <1>4 DEF Write
<1>6. "negate" \notin Instrs => (t.of # 0 => n < t.lock) /\ \A o \in t.ops : Guarded(o)'
  BY <1>5
<1>7. TypeTemp' /\ Recording' /\ Guarding'
  BY <1>1, <1>2, <1>5, <1>6, TempWritten DEF IInv
<1> QED
  BY <1>7, TempOnly

-----------------------------------------------------------------------------
(* The frames step.                                                        *)
LEMMA FuncInitKeeps ==
  ASSUME IInv, FuncInit
  PROVE  IInv'
<1>1. /\ TypeFrames /\ TypeTemp /\ TypeCell /\ TypeTrace
      /\ Frames /\ Recording /\ Guarding /\ Storing /\ Visiting
  BY DEF IInv, TypeOK
<1>2. TypeFrames' /\ Frames' /\ GoesOn
  BY <1>1, FuncInitFrames
<1>3. UNCHANGED <<temp, cell, traceVars>> /\ timestamp' \in Times /\ timestamp <= timestamp'
  BY <1>1, Bounds DEF FuncInit, TypeTemp, Times
<1>4. TypeTemp' /\ Recording' /\ Guarding'
  BY <1>1, <1>2, <1>3, TempKept
<1>5. TypeCell' /\ Storing' /\ TypeTrace' /\ Visiting'
  BY <1>1, <1>2, <1>3, CellKept, TraceKept
<1> QED
  BY <1>2, <1>4, <1>5 DEF IInv, TypeOK

LEMMA ReturnVoidKeeps ==
  ASSUME IInv, ReturnVoid
  PROVE  IInv'
<1>1. /\ TypeFrames /\ TypeTemp /\ TypeCell /\ TypeTrace
      /\ Frames /\ Recording /\ Guarding /\ Storing /\ Visiting
  BY DEF IInv, TypeOK
<1>2. TypeFrames' /\ Frames' /\ GoesOn
  BY <1>1, FuncExitFrames DEF ReturnVoid, Running
<1>3. UNCHANGED <<temp, cell, traceVars>> /\ timestamp' \in Times /\ timestamp <= timestamp'
  BY <1>1, Bounds DEF ReturnVoid, TypeTemp, Times
<1>4. TypeTemp' /\ Recording' /\ Guarding'
  BY <1>1, <1>2, <1>3, TempKept
<1>5. TypeCell' /\ Storing' /\ TypeTrace' /\ Visiting'
  BY <1>1, <1>2, <1>3, CellKept, TraceKept
<1> QED
  BY <1>2, <1>4, <1>5 DEF IInv, TypeOK

(* The copy has the lock of the callee, whose frame is deeper.             *)
LEMMA ReturnKeeps ==
  ASSUME IInv, NEW p \in Usable, NEW s \in Slots, Return(p, s)
  PROVE  IInv'
<1>1. /\ TypeFrames /\ TypeTemp /\ TypeCell /\ TypeTrace
      /\ Frames /\ Recording /\ Guarding /\ Storing /\ Visiting
  BY DEF IInv, TypeOK
<1>2. /\ stack # << >> /\ Len(stack) > 1 /\ FuncExit
      /\ UNCHANGED <<timestamp, cell, traceVars>>
  BY DEF Return, Running
<1>3. TypeFrames' /\ Frames' /\ GoesOn
  BY <1>1, <1>2, FuncExitFrames
<1>4. PICK n, d : n = Len(stack) - 1 /\ d = stack[n]
  OBVIOUS
<1>5. /\ n \in 1 .. MaxDepth /\ Lock = n + 2 /\ Lock \in Locks /\ Key \in Keys
      /\ d \in Clones /\ level[d] = n
  <2>1. /\ Len(stack) \in 1 .. MaxDepth /\ Lock = Len(stack) + 1
        /\ Lock \in Locks /\ Key \in Keys
    BY <1>1, <1>2, Top
  <2>2. n \in 1 .. Len(stack) /\ n \in 1 .. MaxDepth
    BY <1>2, <1>4, <2>1, Bounds
  <2> QED
    BY <1>1, <1>4, <2>1, <2>2, Depths
<1>6. PICK u, m, r : u = At(p) /\ m = level[p.clone] /\ r = p.slot
  OBVIOUS
<1>7. u \in Temps /\ m \in 1 .. MaxDepth /\ r \in Slots /\ u = temp[<<m, r>>]
  BY <1>1, <1>6, UsableAt, KnownAt DEF At
<1>8. PICK t : t = [u EXCEPT !.lock = Lock, !.key = Key, !.of = d, !.by = "return"]
  OBVIOUS
<1>9. t \in Temps /\ t.ops = u.ops /\ t.made = u.made /\ t.timestamp = u.timestamp
      /\ t.lock = n + 2 /\ t.by = "return"
  <2>1. d \in 0 .. MaxCalls /\ "return" \in Kinds
    BY <1>5, Bounds DEF Clones, Kinds
  <2>2. t \in Temps
    BY <1>5, <1>7, <1>8, <2>1 DEF Temps
  <2>3. t.ops = u.ops /\ t.made = u.made /\ t.timestamp = u.timestamp
    BY <1>7, <1>8 DEF Temps
  <2>4. t.lock = n + 2 /\ t.by = "return"
    BY <1>5, <1>7, <1>8 DEF Temps
  <2> QED
    BY <2>2, <2>3, <2>4
<1>10. temp' = [temp EXCEPT ![<<n, s>>] = t]
  BY <1>4, <1>5, <1>6, <1>8 DEF Return, Write
<1>11. timestamp' \in Times /\ timestamp <= timestamp'
  BY <1>1, <1>2, Bounds DEF TypeTemp, Times
<1>12. t.ops # {} => t.made <= t.timestamp /\ t.timestamp < timestamp'
  BY <1>1, <1>2, <1>7, <1>9 DEF Recording, Recorded
<1>13. /\ Recorded(t)' /\ Intact(t)'
       /\ "negate" \notin Instrs => \A o \in t.ops : Guarded(o)'
  BY <1>1, <1>3, <1>5, <1>7, <1>9, <1>10, <1>11, <1>12, Copied
<1>14. TypeTemp' /\ Recording' /\ Guarding'
  <2>1. n < t.lock /\ ~(t.by \in {"operation", "phi"})
    BY <1>5, <1>9
  <2> QED
    BY <1>1, <1>3, <1>5, <1>9, <1>10, <1>11, <1>13, <2>1, TempWritten
<1>15. TypeCell' /\ Storing' /\ TypeTrace' /\ Visiting'
  BY <1>1, <1>2, <1>3, CellKept, TraceKept
<1> QED
  BY <1>3, <1>14, <1>15 DEF IInv, TypeOK

-----------------------------------------------------------------------------
(* The temporaries of the running clone.                                   *)
LEMMA Ticks ==
  ASSUME TypeTemp
  PROVE  /\ timestamp \in Nat
         /\ Tick => timestamp' \in Times /\ timestamp < timestamp' /\ timestamp <= timestamp'
         /\ UNCHANGED timestamp => timestamp' \in Times /\ timestamp <= timestamp'
BY Bounds DEF TypeTemp, Times, Tick

LEMMA FreshTemp ==
  ASSUME TypeFrames, Frames, TypeTemp, stack # << >>, NEW ops \in SUBSET Operands
  PROVE  Fresh(ops) \in Temps
BY Top DEF Fresh, Temps, TypeTemp, Kinds, Clones

LEMMA ConstantKeeps ==
  ASSUME IInv, NEW p \in Own, Running, Write(p, Fresh({})), Tick,
         UNCHANGED <<frameVars, cell, traceVars>>
  PROVE  IInv'
<1>1. TypeFrames /\ Frames /\ TypeTemp /\ stack # << >>
  BY DEF IInv, TypeOK, Running
<1>2. PICK t : t = Fresh({})
  OBVIOUS
<1>3. t \in Temps
  BY <1>1, <1>2, FreshTemp
<1>4. t.ops = {} /\ t.timestamp = timestamp /\ t.made = timestamp /\ t.lock = Lock
  BY <1>2 DEF Fresh
<1>5. timestamp' \in Times /\ timestamp <= timestamp' /\ timestamp \in Nat
  BY <1>1, Ticks
<1>6. Recorded(t)' /\ Intact(t)'
  BY <1>4, <1>5, FS_EmptySet DEF Recorded, Intact
<1> QED
  BY <1>2, <1>3, <1>4, <1>5, <1>6, OwnWritten

(* Operands other than the temporary itself are where they were, and they  *)
(* are guarded by a frame that is not further out than their own.          *)
LEMMA ComputeKeeps ==
  ASSUME IInv, NEW p \in Own, Running, NEW q \in Usable, NEW r \in Usable,
         Compute(p, {q, r})
  PROVE  IInv'
<1>1. /\ TypeFrames /\ Frames /\ TypeTemp /\ stack # << >> /\ Guarding
      /\ TypeFrames' /\ Frames' /\ GoesOn
  BY SameFrames DEF IInv, TypeOK, Running, Compute
<1>2. PICK t : t = Fresh({Operand(x) : x \in {q, r}})
  OBVIOUS
<1>3. /\ t.ops = {Operand(q), Operand(r)} /\ t.timestamp = timestamp
      /\ t.made = timestamp /\ t.lock = Lock
      /\ Write(p, t) /\ q # p /\ r # p
      /\ UNCHANGED <<frameVars, cell, traceVars>>
  BY <1>2 DEF Fresh, Compute
<1>4. /\ timestamp' \in Times /\ timestamp <= timestamp' /\ timestamp < timestamp'
      /\ timestamp \in Nat
  BY <1>1, Ticks DEF Compute
<1>5. \A o \in t.ops : \E x \in Usable \ {p} : o = Operand(x)
  BY <1>3
<1>6. ASSUME NEW x \in Usable
      PROVE  Operand(x) \in Operands /\ Operand(x).tmp = x /\ Operand(x).val = At(x).val
             /\ Known(x) /\ Operand(x).key = lock_key_map[At(x).lock]
  <2>1. At(x) \in Temps /\ x \in Pointers /\ Known(x)
    BY <1>1, UsableAt
  <2> QED
    BY <1>1, <2>1 DEF Operand, Operands, Temps, TypeFrames
<1>7. t.ops \in SUBSET Operands
  BY <1>5, <1>6
<1>8. t \in Temps
  BY <1>1, <1>2, <1>3, <1>7, FreshTemp
<1>9. Recorded(t)'
  <2>1. IsFiniteSet({Operand(q)} \cup {Operand(r)})
    BY FS_Singleton, FS_AddElement
  <2>2. {Operand(q)} \cup {Operand(r)} = t.ops
    BY <1>3
  <2>3. \A o \in t.ops : Known(o.tmp)'
    BY <1>1, <1>5, <1>6, UsableAt, KeptKnown
  <2> QED
    BY <1>3, <1>4, <2>1, <2>2, <2>3 DEF Recorded
<1>10. Intact(t)'
  <2>1. SUFFICES ASSUME NEW x \in Usable, x # p
                 PROVE  At(x)'.val = At(x).val
    BY <1>5, <1>6 DEF Intact
  <2>2. PICK n, s, m, y : /\ n = level[p.clone] /\ s = p.slot
                          /\ m = level[x.clone] /\ y = x.slot
    OBVIOUS
  <2>3. /\ m \in 1 .. MaxDepth /\ y \in Slots /\ x \in Pointers
        /\ stack[m] = x.clone /\ At(x) = temp[<<m, y>>]
    BY <1>1, <2>2, UsableAt, KnownAt DEF At
  <2>4. p \in Pointers /\ p.clone = stack[n]
    BY <1>1, <2>2, OwnAt DEF Current
  <2>5. ~(m = n /\ y = s)
    <3>1. \A v, w \in Pointers : v.clone = w.clone /\ v.slot = w.slot => v = w
      BY DEF Pointers
    <3> QED
      BY <2>1, <2>2, <2>3, <2>4, <3>1
  <2>6. At(x)' = temp'[<<m, y>>]
    BY <1>3, <2>2 DEF At, frameVars
  <2> QED
    BY <1>1, <1>3, <2>2, <2>3, <2>5, <2>6 DEF Write, TypeTemp
<1>11. ASSUME "negate" \notin Instrs
       PROVE  \A o \in t.ops : Guarded(o)'
  <2>1. SUFFICES ASSUME NEW x \in Usable
                 PROVE  Guarded(Operand(x))
    BY <1>1, <1>5, <1>6, GuardedKept, Depths DEF frameVars
  <2>2. PICK l, k : l = At(x).lock /\ k = level[x.clone]
    OBVIOUS
  <2>3. /\ l \in Locks /\ k \in 1 .. Len(stack) /\ stack[k] = x.clone /\ k < l
        /\ Operand(x).key = lock_key_map[l]
    <3>1. /\ x \in Pointers /\ Known(x) /\ At(x) \in Temps
          /\ k \in 1 .. Len(stack) /\ stack[k] = x.clone /\ At(x).of = x.clone
      BY <1>1, <2>2, UsableAt
    <3>2. x.clone # 0 /\ k \in 1 .. MaxDepth /\ x.slot \in Slots
      BY <1>1, <2>2, <3>1, KnownAt DEF Pointers, Clones
    <3> QED
      BY <1>1, <1>6, <1>11, <2>2, <3>1, <3>2 DEF Guarding, At, Temps
  <2>4. SUFFICES ASSUME lock_key_map[l] # 0
                 PROVE  /\ lock_key_map[l] \in 2 .. Len(level) + 1
                        /\ Outlives(x.clone, lock_key_map[l] - 1)
    BY <1>6, <2>3 DEF Guarded
  <2>5. /\ l - 1 \in 1 .. Len(stack) /\ lock_key_map[l] = KeyOf(stack[l - 1])
        /\ lock_key_map[l] \in 2 .. Len(level) + 1
    BY <1>1, <2>3, <2>4, LockInUse
  <2>6. lock_key_map[l] - 1 = stack[l - 1]
    BY <1>1, <2>5, Depths DEF KeyOf
  <2>7. ASSUME NEW i \in 1 .. Len(stack), stack[i] = stack[l - 1]
        PROVE  k \in 1 .. i
    <3>1. level[stack[i]] = i /\ level[stack[l - 1]] = l - 1 /\ Len(stack) \in Nat
      BY <1>1, <2>5, Depths
    <3>2. i = l - 1 /\ l \in Nat
      BY <2>3, <2>7, <3>1, Bounds DEF Locks
    <3> QED
      BY <2>3, <3>1, <3>2
  <2> QED
    BY <2>3, <2>5, <2>6, <2>7 DEF Outlives
<1> QED
  BY <1>3, <1>4, <1>8, <1>9, <1>10, <1>11, OwnWritten

(* A copy through a phi has the time of the phi, but not its operands.     *)
LEMMA CopyPhiKeeps ==
  ASSUME IInv, NEW p \in Own, Running, NEW q \in Usable, CopyPhi(p, q)
  PROVE  IInv'
<1>1. /\ TypeFrames /\ Frames /\ TypeTemp /\ stack # << >> /\ Guarding /\ Recording
      /\ TypeFrames' /\ Frames' /\ GoesOn
  BY SameFrames DEF IInv, TypeOK, Running, CopyPhi
<1>2. PICK u, m, r : u = At(q) /\ m = level[q.clone] /\ r = q.slot
  OBVIOUS
<1>3. /\ u \in Temps /\ m \in 1 .. MaxDepth /\ r \in Slots /\ u = temp[<<m, r>>]
      /\ Recorded(u)
  BY <1>1, <1>2, UsableAt, KnownAt DEF At, Recording
<1>4. PICK t : t = [u EXCEPT !.lock = Lock, !.key = Key, !.of = Current,
                             !.timestamp = timestamp, !.by = "phi"]
  OBVIOUS
<1>5. /\ Lock \in Locks /\ Key \in Keys /\ Current \in 0 .. MaxCalls
      /\ timestamp \in Times /\ "phi" \in Kinds
  BY <1>1, Top, Bounds DEF Clones, TypeTemp, Kinds
<1>6. t \in Temps
  BY <1>3, <1>4, <1>5 DEF Temps
<1>7. /\ t.ops = u.ops /\ t.made = u.made /\ t.lock = Lock /\ t.timestamp = timestamp
      /\ Write(p, t) /\ UNCHANGED <<frameVars, cell, traceVars>> /\ Tick
  BY <1>2, <1>3, <1>4 DEF Temps, CopyPhi
<1>8. /\ timestamp' \in Times /\ timestamp <= timestamp' /\ timestamp < timestamp'
      /\ timestamp \in Nat
  BY <1>1, <1>7, Ticks
<1>9. t.ops # {} => /\ t.made <= t.timestamp /\ t.timestamp < timestamp'
                    /\ u.timestamp < t.timestamp
  <2>1. u.ops # {} => u.made <= u.timestamp /\ u.timestamp < timestamp
    BY <1>3 DEF Recorded
  <2>2. Times \subseteq Nat /\ u.timestamp \in Times /\ u.made \in Times
    BY <1>3, Bounds DEF Temps, Times
  <2> QED
    BY <1>7, <1>8, <2>1, <2>2
<1>10. PICK n, s : n = level[p.clone] /\ s = p.slot
  OBVIOUS
<1>11. /\ n \in 1 .. MaxDepth /\ s \in Slots
       /\ temp' = [temp EXCEPT ![<<n, s>>] = t]
  BY <1>1, <1>7, <1>10, OwnAt DEF Write
<1>12. /\ Recorded(t)' /\ Intact(t)'
       /\ "negate" \notin Instrs => \A o \in t.ops : Guarded(o)'
  BY <1>1, <1>3, <1>6, <1>7, <1>8, <1>9, <1>11, Copied
<1> QED
  BY <1>6, <1>7, <1>8, <1>12, OwnWritten

LEMMA NegateKeeps ==
  ASSUME IInv, NEW p \in Own, Running, NEW q \in Usable, Negate(p, q)
  PROVE  IInv'
<1>1. /\ TypeFrames /\ Frames /\ TypeTemp /\ stack # << >> /\ Guarding /\ Recording
      /\ TypeFrames' /\ Frames' /\ GoesOn
  BY SameFrames DEF IInv, TypeOK, Running, Negate
<1>2. PICK u, m, r : u = At(q) /\ m = level[q.clone] /\ r = q.slot
  OBVIOUS
<1>3. /\ u \in Temps /\ m \in 1 .. MaxDepth /\ r \in Slots /\ u = temp[<<m, r>>]
      /\ Recorded(u)
  BY <1>1, <1>2, UsableAt, KnownAt DEF At, Recording
<1>4. PICK t : t = [u EXCEPT !.of = Current, !.by = "negate"]
  OBVIOUS
<1>5. Current \in 0 .. MaxCalls /\ "negate" \in Kinds
  BY <1>1, Top, Bounds DEF Clones, Kinds
<1>6. t \in Temps
  BY <1>3, <1>4, <1>5 DEF Temps
<1>7. /\ t.ops = u.ops /\ t.made = u.made /\ t.timestamp = u.timestamp /\ t.by = "negate"
      /\ Write(p, t) /\ UNCHANGED <<frameVars, timestamp, cell, traceVars>>
  BY <1>2, <1>3, <1>4 DEF Temps, Negate
<1>8. timestamp' \in Times /\ timestamp <= timestamp'
  BY <1>1, <1>7, Ticks
<1>9. t.ops # {} => t.made <= t.timestamp /\ t.timestamp < timestamp'
  BY <1>3, <1>7 DEF Recorded
<1>10. PICK n, s : n = level[p.clone] /\ s = p.slot
  OBVIOUS
<1>11. /\ n \in 1 .. MaxDepth /\ s \in Slots
       /\ temp' = [temp EXCEPT ![<<n, s>>] = t]
  BY <1>1, <1>7, <1>10, OwnAt DEF Write
<1>12. Recorded(t)' /\ Intact(t)'
  BY <1>1, <1>3, <1>6, <1>7, <1>8, <1>9, <1>11, Copied
<1> QED
  BY <1>6, <1>7, <1>8, <1>12, OwnWritten DEF Negate

(* A load takes over the time and the operands of the temporary that the   *)
(* value was stored from, or starts anew.                                  *)
LEMMA LoadKeeps ==
  ASSUME IInv, NEW p \in Own, NEW c \in Cells, NEW known \in BOOLEAN, Load(p, c, known)
  PROVE  IInv'
<1>1. /\ TypeFrames /\ Frames /\ TypeTemp /\ stack # << >> /\ Guarding /\ Recording
      /\ Running /\ UNCHANGED <<frameVars, cell, traceVars>>
      /\ TypeFrames' /\ Frames' /\ GoesOn
  BY SameFrames DEF IInv, TypeOK, Running, Load
<1>2. CASE ~(known /\ HasTmp(c))
  BY <1>1, <1>2, ConstantKeeps DEF Load
<1>3. CASE known /\ HasTmp(c)
  <2>1. PICK k, q : k = cell[c] /\ q = k.tmp
    OBVIOUS
  <2>2. k \in CellMetas /\ q \in Pointers /\ Known(q) /\ k.val \in Times
    <3>1. k \in CellMetas /\ q # None
      BY <1>3, <2>1 DEF HasTmp, IInv, TypeOK, TypeCell
    <3>2. Known(q)
      BY <1>3, <2>1 DEF HasTmp, IInv, Storing, Stored
    <3> QED
      BY <2>1, <3>1, <3>2 DEF CellMetas
  <2>3. PICK u, m, r : u = At(q) /\ m = level[q.clone] /\ r = q.slot
    OBVIOUS
  <2>4. /\ u \in Temps /\ m \in 1 .. MaxDepth /\ r \in Slots /\ u = temp[<<m, r>>]
        /\ Recorded(u)
    BY <1>1, <2>2, <2>3, KnownAt DEF At, Recording
  <2>5. PICK f : f = Fresh(u.ops)
    OBVIOUS
  <2>6. f \in Temps /\ f.ops = u.ops /\ f.lock = Lock
    <3>1. u.ops \in SUBSET Operands
      BY <2>4 DEF Temps
    <3> QED
      BY <1>1, <2>5, <3>1, FreshTemp DEF Fresh
  <2>7. PICK t : t = [f EXCEPT !.timestamp = u.timestamp, !.val = k.val, !.by = "load",
                               !.made = u.made]
    OBVIOUS
  <2>8. t \in Temps
    <3>1. "load" \in Kinds /\ u.timestamp \in Times /\ u.made \in Times
      BY <2>4 DEF Kinds, Temps
    <3> QED
      BY <2>2, <2>6, <2>7, <3>1 DEF Temps
  <2>9. /\ t.ops = u.ops /\ t.made = u.made /\ t.timestamp = u.timestamp /\ t.by = "load"
        /\ t.lock = Lock /\ Write(p, t) /\ UNCHANGED timestamp
    <3>1. /\ t.ops = u.ops /\ t.made = u.made /\ t.timestamp = u.timestamp
          /\ t.by = "load" /\ t.lock = Lock
      BY <2>6, <2>7 DEF Temps
    <3> QED
      BY <1>3, <2>1, <2>3, <2>5, <2>7, <3>1 DEF Load
  <2>10. timestamp' \in Times /\ timestamp <= timestamp'
    BY <1>1, <2>9, Ticks
  <2>11. t.ops # {} => t.made <= t.timestamp /\ t.timestamp < timestamp'
    BY <2>4, <2>9 DEF Recorded
  <2>12. PICK n, s : n = level[p.clone] /\ s = p.slot
    OBVIOUS
  <2>13. /\ n \in 1 .. MaxDepth /\ s \in Slots
         /\ temp' = [temp EXCEPT ![<<n, s>>] = t]
    BY <1>1, <2>9, <2>12, OwnAt DEF Write
  <2>14. /\ Recorded(t)' /\ Intact(t)'
         /\ "negate" \notin Instrs => \A o \in t.ops : Guarded(o)'
    BY <1>1, <2>4, <2>8, <2>9, <2>10, <2>11, <2>13, Copied
  <2> QED
    BY <1>1, <2>8, <2>9, <2>10, <2>14, OwnWritten
<1> QED
  BY <1>2, <1>3

-----------------------------------------------------------------------------
(* The shadow memory.                                                      *)
LEMMA CellMetaType ==
  ASSUME TypeFrames, Frames, stack # << >>,
         NEW tmp \in Pointers \cup {None}, NEW val \in Times
  PROVE  /\ CellMeta(tmp, val) \in CellMetas
         /\ CellMeta(tmp, val).tmp = tmp
         /\ CellMeta(tmp, val).storer = Current
         /\ CellMeta(tmp, val).lock = level[Current] + 1
         /\ CellMeta(tmp, val).key = KeyOf(Current) % CellKeys
<1>1. /\ Current \in Clones /\ level[Current] = Len(stack) /\ Len(stack) \in Nat
      /\ Lock = Len(stack) + 1 /\ Lock \in Locks /\ Key = KeyOf(Current)
  BY Top, Depths
<1>2. Current \in 0 .. MaxCalls /\ Current \in Nat /\ Key \in Nat /\ Key <= MaxCalls + 1
  BY <1>1, Bounds DEF Clones, KeyOf
<1>3. CellKey \in Nat /\ CellKey <= Key
  BY <1>2, Bounds DEF CellKey
<1>4. CellKey \in Keys
  BY <1>2, <1>3, Bounds DEF Keys
<1> QED
  BY <1>1, <1>2, <1>4 DEF CellMeta, CellMetas, CellKey

LEMMA ConstStored ==
  ASSUME IInv, stack # << >>
  PROVE  CellMeta(None, 0) \in CellMetas /\ CellMeta(None, 0).tmp = None
BY CellMetaType, Bounds DEF IInv, TypeOK, Times

LEMMA StoreConstKeeps ==
  ASSUME IInv, NEW c \in Cells, StoreConst(c)
  PROVE  IInv'
<1>1. PICK m : m = CellMeta(None, 0)
  OBVIOUS
<1>2. m \in CellMetas /\ m.tmp = None /\ cell' = [cell EXCEPT ![c] = m]
  BY <1>1, ConstStored DEF StoreConst, Running
<1>3. cell \in [Cells -> CellMetas \cup {None}]
  BY DEF IInv, TypeOK, TypeCell
<1> QED
  BY <1>2, <1>3, CellsWritten DEF StoreConst, TypeCell

LEMMA MemsetKeeps ==
  ASSUME IInv, Memset
  PROVE  IInv'
<1>1. PICK m : m = CellMeta(None, 0)
  OBVIOUS
<1>2. m \in CellMetas /\ m.tmp = None /\ cell' = [c \in Cells |-> m]
  BY <1>1, ConstStored DEF Memset, Running
<1> QED
  BY <1>2, CellsWritten DEF Memset, TypeCell

(* What the running clone stores is its own or of a caller.                *)
LEMMA StoreKeeps ==
  ASSUME IInv, NEW c \in Cells, NEW p \in Usable, Store(c, p)
  PROVE  IInv'
<1>1. TypeFrames /\ Frames /\ TypeTemp /\ stack # << >>
  BY DEF IInv, TypeOK, Store, Running
<1>2. /\ p \in Pointers /\ Known(p) /\ At(p) \in Temps
      /\ level[p.clone] \in 1 .. Len(stack) /\ stack[level[p.clone]] = p.clone
  BY <1>1, UsableAt
<1>3. PICK m : m = CellMeta(p, At(p).val)
  OBVIOUS
<1>4. /\ m \in CellMetas /\ m.tmp = p /\ m.storer = Current
      /\ m.lock = level[Current] + 1 /\ m.key = KeyOf(Current) % CellKeys
      /\ cell' = [cell EXCEPT ![c] = m]
  <2>1. At(p).val \in Times
    BY <1>2 DEF Temps
  <2> QED
    BY <1>1, <1>2, <1>3, <2>1, CellMetaType DEF Store
<1>5. Outlives(p.clone, Current)
  <2>1. ASSUME NEW i \in 1 .. Len(stack), stack[i] = Current
        PROVE  i = Len(stack)
    BY <1>1, <2>1, Top, Depths
  <2> QED
    BY <1>2, <2>1 DEF Outlives
<1>6. Stored(m)
  BY <1>1, <1>2, <1>4, <1>5, Top DEF Stored
<1>7. cell \in [Cells -> CellMetas \cup {None}]
  BY DEF IInv, TypeOK, TypeCell
<1> QED
  BY <1>4, <1>6, <1>7, CellsWritten DEF Store, TypeCell

LEMMA CopyTmpKeeps ==
  ASSUME IInv, NEW to \in Cells, NEW from \in Cells, CopyTmp(to, from)
  PROVE  IInv'
<1>1. /\ TypeFrames /\ Frames /\ stack # << >> /\ Storing
      /\ cell \in [Cells -> CellMetas \cup {None}]
  BY DEF IInv, TypeOK, TypeCell, CopyTmp, Running
<1>2. PICK k, m : /\ k = cell[from]
                  /\ m = IF k # None THEN CellMeta(k.tmp, k.val)
                         ELSE IF cell[to] = None THEN NoTmp ELSE cell[to]
  OBVIOUS
<1>3. cell' = [cell EXCEPT ![to] = m]
  BY <1>2 DEF CopyTmp
<1>4. m \in CellMetas /\ (m.tmp # None => m = cell[to] \/ Stored(m))
  <2>1. CASE k # None
    <3>1. k \in CellMetas /\ k.tmp \in Pointers \cup {None} /\ k.val \in Times
      BY <1>1, <1>2, <2>1 DEF CellMetas
    <3>2. /\ m \in CellMetas /\ m.tmp = k.tmp /\ m.storer = Current
          /\ m.lock = level[Current] + 1 /\ m.key = KeyOf(Current) % CellKeys
      BY <1>1, <1>2, <2>1, <3>1, CellMetaType
    <3>3. k.tmp # None => Known(k.tmp)
      BY <1>1, <1>2, <2>1 DEF Storing, Stored
    <3>4. "memcpy" \in Instrs
      BY DEF CopyTmp
    <3> QED
      BY <1>1, <3>2, <3>3, <3>4, Top DEF Stored
  <2>2. CASE k = None /\ cell[to] = None
    <3>1. m = NoTmp
      BY <1>2, <2>2
    <3> QED
      BY <3>1, Bounds DEF NoTmp, CellMetas, Locks, Keys, Times
  <2>3. CASE k = None /\ cell[to] # None
    BY <1>1, <1>2, <2>3
  <2> QED
    BY <2>1, <2>2, <2>3
<1> QED
  BY <1>1, <1>3, <1>4, CellsWritten DEF CopyTmp, TypeCell

-----------------------------------------------------------------------------
(* The trace.                                                              *)
LEMMA TraceOnly ==
  ASSUME IInv, UNCHANGED <<frameVars, timestamp, temp, cell>>, TypeTrace',
         \A i \in 1 .. Len(m_expr') : Known(m_expr'[i])
  PROVE  IInv'
<1>1. TypeFrames /\ Frames /\ TypeTemp /\ TypeCell /\ Recording /\ Guarding /\ Storing
  BY DEF IInv, TypeOK
<1>2. TypeFrames' /\ Frames' /\ GoesOn
  BY <1>1, SameFrames
<1>3. TypeTemp' /\ Recording' /\ Guarding'
  <2>1. timestamp' \in Times /\ timestamp <= timestamp'
    BY <1>1, Ticks
  <2> QED
    BY <1>1, <1>2, <2>1, TempKept
<1>4. TypeCell' /\ Storing'
  BY <1>1, <1>2, CellKept
<1>5. Visiting'
  BY DEF Visiting, Known, frameVars
<1> QED
  BY <1>2, <1>3, <1>4, <1>5 DEF IInv, TypeOK

LEMMA CheckErrorKeeps ==
  ASSUME IInv, NEW p \in Usable, CheckError(p)
  PROVE  IInv'
<1>1. p \in Pointers /\ Known(p)
  BY UsableAt DEF IInv, TypeOK
<1>2. m_expr' = <<p>>
  BY DEF CheckError
<1>3. m_expr' \in Seq(Pointers) /\ \A i \in 1 .. Len(m_expr') : m_expr'[i] = p
  BY <1>1, <1>2
<1> QED
  BY <1>1, <1>3, TraceOnly DEF CheckError, TypeTrace

LEMMA TraceStarts ==
  ASSUME IInv, NEW p \in Usable, Trace(p)
  PROVE  IInv'
<1>1. p \in Pointers /\ Known(p) /\ m_expr \in Seq(Pointers)
  BY UsableAt DEF IInv, TypeOK, TypeTrace
<1>2. m_expr' = Append(m_expr, p)
  BY DEF Trace
<1>3. /\ m_expr' \in Seq(Pointers) /\ Len(m_expr) \in Nat
      /\ Len(m_expr') = Len(m_expr) + 1 /\ m_expr'[Len(m_expr) + 1] = p
      /\ \A i \in 1 .. Len(m_expr) : m_expr'[i] = m_expr[i]
  BY <1>1, <1>2, AppendProperties
<1>4. \A i \in 1 .. Len(m_expr') : Known(m_expr'[i])
  BY <1>1, <1>3 DEF IInv, Visiting
<1> QED
  BY <1>3, <1>4, TraceOnly DEF Trace, TypeTrace

(* A temporary has finitely many operands, so the older ones can be put    *)
(* into an order.                                                          *)
LEMMA OlderFinite ==
  ASSUME NEW p, Recorded(At(p))
  PROVE  IsFiniteSet(Older(p)) /\ \A q \in Older(p) : Known(q)
<1>1. PICK ops, f : /\ ops = {r \in At(p).ops : At(r.tmp).timestamp < At(p).timestamp}
                    /\ f = [o \in ops |-> o.tmp]
  OBVIOUS
<1>2. Older(p) = {o.tmp : o \in ops}
  BY <1>1 DEF Older
<1>3. IsFiniteSet(ops)
  <2>1. IsFiniteSet(At(p).ops) /\ ops \in SUBSET At(p).ops
    BY <1>1 DEF Recorded
  <2> QED
    BY <2>1, FS_Subset
<1>4. f \in Surjection(ops, Older(p))
  BY <1>1, <1>2 DEF Surjection
<1>5. IsFiniteSet(Older(p))
  BY <1>3, <1>4, FS_Surjection
<1>6. \A q \in Older(p) : Known(q)
  BY <1>1, <1>2 DEF Recorded
<1> QED
  BY <1>5, <1>6

LEMMA VisitKeeps ==
  ASSUME IInv, Visit
  PROVE  IInv'
<1>1. /\ TypeFrames /\ Frames /\ TypeTemp /\ Recording /\ TypeTrace
      /\ m_expr \in Seq(Pointers) /\ m_expr # << >>
      /\ UNCHANGED <<frameVars, timestamp, temp, cell>>
  BY DEF IInv, TypeOK, TypeTrace, Visit
<1>2. CASE ~Valid(Head(m_expr))
  BY <1>1, <1>2, TraceOnly DEF Visit, TypeTrace, IInv, Visiting
<1>3. CASE Valid(Head(m_expr))
  <2>1. PICK order \in Orders(Older(Head(m_expr))) :
               m_expr' = Tail(m_expr) \o order /\ tracing' = tracing
    BY <1>3 DEF Visit
  <2>2. PICK p : p = Head(m_expr)
    OBVIOUS
  <2>3. p \in Pointers /\ Known(p)
    <3>1. Len(m_expr) \in Nat \ {0} /\ p = m_expr[1]
      BY <1>1, <2>2, EmptySeq
    <3>2. 1 \in 1 .. Len(m_expr)
      BY <3>1
    <3> QED
      BY <1>1, <3>1, <3>2, ElementOfSeq DEF IInv, Visiting
  <2>4. /\ At(p) \in Temps /\ Recorded(At(p))
    BY <1>1, <2>3, KnownAt DEF Recording, At
  <2>5. Older(p) \subseteq Pointers
    <3>1. \A o \in At(p).ops : o.tmp \in Pointers
      BY <2>4 DEF Temps, Operands
    <3> QED
      BY <3>1 DEF Older
  <2>6. order \in Seq(Pointers) /\ \A i \in 1 .. Len(order) : Known(order[i])
    <3>1. Cardinality(Older(p)) \in Nat
      BY <2>4, OlderFinite, FS_CardinalityType
    <3>2. order \in [1 .. Cardinality(Older(p)) -> Older(p)]
      BY <2>1, <2>2 DEF Orders
    <3>3. order \in Seq(Older(p))
      BY <3>1, <3>2, SeqDef
    <3>4. order \in Seq(Pointers) /\ \A i \in 1 .. Len(order) : order[i] \in Older(p)
      BY <2>5, <3>3, SeqMonotonic, ElementOfSeq
    <3> QED
      BY <2>4, <3>4, OlderFinite
  <2>7. /\ Tail(m_expr) \in Seq(Pointers) /\ Len(Tail(m_expr)) = Len(m_expr) - 1
        /\ \A i \in 1 .. Len(Tail(m_expr)) : Tail(m_expr)[i] = m_expr[i + 1]
        /\ Len(Tail(m_expr)) \in Nat /\ Len(order) \in Nat /\ Len(m_expr) \in Nat
    BY <1>1, <2>6, HeadTailProperties, LenProperties
  <2>8. \A i \in 1 .. Len(Tail(m_expr)) : Known(Tail(m_expr)[i])
    BY <2>7 DEF IInv, Visiting
  <2>9. /\ m_expr' \in Seq(Pointers)
        /\ Len(m_expr') = Len(Tail(m_expr)) + Len(order)
        /\ \A i \in 1 .. Len(m_expr') :
             m_expr'[i] = IF i <= Len(Tail(m_expr)) THEN Tail(m_expr)[i]
                          ELSE order[i - Len(Tail(m_expr))]
    BY <2>1, <2>6, <2>7, ConcatProperties
  <2>10. \A i \in 1 .. Len(m_expr') : Known(m_expr'[i])
    BY <2>6, <2>7, <2>8, <2>9
  <2> QED
    BY <1>1, <2>1, <2>9, <2>10, TraceOnly DEF TypeTrace
<1> QED
  BY <1>2, <1>3

LEMMA TraceEndKeeps ==
  ASSUME IInv, TraceEnd
  PROVE  IInv'
BY TraceOnly DEF TraceEnd, IInv, TypeOK, TypeTrace, Visiting

-----------------------------------------------------------------------------
(* The invariant.                                                          *)
LEMMA TraceInit == Init => IInv
<1> SUFFICES ASSUME Init
             PROVE  IInv
  OBVIOUS
<1>1. /\ stack = << >> /\ level = << >> /\ m_expr = << >>
      /\ Len(stack) = 0 /\ Len(level) = 0 /\ Len(m_expr) = 0
  BY DEF Init
<1>2. TypeFrames
  <2>1. stack \in Seq(Clones) /\ level \in Seq(1 .. MaxDepth)
    BY <1>1, EmptySeq
  <2>2. key_stack_top \in Locks /\ key_counter \in 1 .. MaxCalls + 1
    BY Bounds DEF Init, Locks
  <2>3. 0 \in Keys /\ 1 \in Keys
    BY Bounds DEF Keys
  <2>4. lock_key_map \in [Locks -> Keys]
    BY <2>3 DEF Init
  <2> QED
    BY <1>1, <2>1, <2>2, <2>4, Bounds DEF TypeFrames
<1>3. TypeTemp /\ \A n \in 1 .. MaxDepth, s \in Slots : temp[<<n, s>>] = Blank
  <2>1. 0 \in Locks /\ 0 \in Keys /\ 0 \in Times /\ 0 \in 0 .. MaxCalls /\ "nothing" \in Kinds
    BY Bounds DEF Locks, Keys, Times, Kinds
  <2>2. Blank \in Temps
    BY <2>1 DEF Blank, Temps
  <2> QED
    BY <2>1, <2>2 DEF Init, TypeTemp
<1>4. TypeCell /\ TypeTrace
  BY <1>1, EmptySeq DEF Init, TypeCell, TypeTrace
<1>5. Frames
  <2>1. \A l \in Locks : lock_key_map[l] = IF l = 1 THEN 1 ELSE 0
    BY DEF Init
  <2>2. \A l \in Locks : ~(l \in 2 .. Len(stack) + 1)
    BY <1>1
  <2>3. key_stack_top = Len(stack) + 1 /\ key_counter = Len(level) + 1
    BY <1>1 DEF Init
  <2> QED
    BY <1>1, <2>1, <2>2, <2>3 DEF Frames
<1>6. Recording /\ Guarding
  <2>1. Recorded(Blank) /\ Intact(Blank) /\ Blank.of = 0 /\ Blank.ops = {}
    BY FS_EmptySet DEF Blank, Recorded, Intact
  <2> QED
    BY <1>3, <2>1 DEF Recording, Guarding
<1>7. Storing /\ Visiting
  BY <1>1 DEF Init, Storing, Visiting
<1> QED
  BY <1>2, <1>3, <1>4, <1>5, <1>6, <1>7 DEF IInv, TypeOK

LEMMA TraceStep == IInv /\ [Next]_vars => IInv'
<1> SUFFICES ASSUME IInv, [Next]_vars
             PROVE  IInv'
  OBVIOUS
<1>1. CASE FuncInit \/ ReturnVoid \/ \E p \in Usable, s \in Slots : Return(p, s)
  BY <1>1, FuncInitKeeps, ReturnVoidKeeps, ReturnKeeps
<1>2. ASSUME NEW p \in Own, Running, Constant(p)
      PROVE  IInv'
  BY <1>2, ConstantKeeps DEF Constant
<1>3. ASSUME NEW p \in Own, Running,
             \/ \E q, r \in Usable : Compute(p, {q, r})
             \/ \E q \in Usable : CopyPhi(p, q) \/ Negate(p, q)
             \/ \E c \in Cells, known \in BOOLEAN : Load(p, c, known)
      PROVE  IInv'
  BY <1>3, ComputeKeeps, CopyPhiKeeps, NegateKeeps, LoadKeeps
<1>4. CASE \/ \E c \in Cells : StoreConst(c) \/ \E p \in Usable : Store(c, p)
           \/ Memset \/ \E c, d \in Cells : CopyTmp(c, d)
  BY <1>4, StoreConstKeeps, StoreKeeps, MemsetKeeps, CopyTmpKeeps
<1>5. CASE Clone
  BY <1>1, <1>2, <1>3, <1>4, <1>5 DEF Clone
<1>6. CASE \/ \E p \in Usable : CheckError(p) \/ Trace(p)
           \/ Visit \/ TraceEnd
  BY <1>6, CheckErrorKeeps, TraceStarts, VisitKeeps, TraceEndKeeps
<1>7. CASE UNCHANGED vars
  BY <1>7, TraceOnly DEF vars, IInv, TypeOK, TypeTrace, Visiting, traceVars
<1> QED
  BY <1>5, <1>6, <1>7 DEF Next

(* The locks, the keys, the timestamps and the pointers are always as the  *)
(* invariant says: func_init, func_exit and the wrappers of handleReal.cpp *)
(* preserve it whatever the program is.                                    *)
THEOREM TraceInductive == Spec => []IInv
BY TraceInit, TraceStep, PTL DEF Spec

(* Every variable of the metadata keeps its type: in particular the lock   *)
(* and key stack stays within its bounds and every pointer is to a slot of *)
(* a clone that was entered.                                               *)
THEOREM TraceTypes == Spec => []TypeOK
<1>1. IInv => TypeOK
  BY DEF IInv
<1> QED
  BY <1>1, TraceInductive, PTL

-----------------------------------------------------------------------------
(* What the invariant says of loads.                                       *)

(* A key that the lock of a cell has now is that of the clone which stored *)
(* to it: keys are given out in order, and a key cannot be that of a later *)
(* clone and have been cut to itself.                                      *)
LEMMA StorerRuns ==
  ASSUME TypeFrames, Frames, NEW d \in 1 .. Len(level), KeyOf(d) % CellKeys # 0,
         lock_key_map[level[d] + 1] = KeyOf(d) % CellKeys
  PROVE  level[d] \in 1 .. Len(stack) /\ stack[level[d]] = d
<1>1. /\ d \in Nat /\ level[d] \in 1 .. MaxDepth
  BY Depths
<1>2. PICK l : l = level[d] + 1
  OBVIOUS
<1>3. l \in Locks /\ l # 1 /\ l - 1 = level[d]
  BY <1>1, <1>2, Bounds DEF Locks
<1>4. /\ level[d] \in 1 .. Len(stack)
      /\ KeyOf(d) % CellKeys = KeyOf(stack[level[d]])
  BY <1>2, <1>3, LockInUse
<1>5. PICK e : e = stack[level[d]]
  OBVIOUS
<1>6. e \in Nat /\ d <= e
  BY <1>4, <1>5, Depths DEF Frames, Clones
<1>7. (d + 1) % CellKeys <= d + 1
  BY <1>1, Bounds
<1> QED
  BY <1>1, <1>4, <1>5, <1>6, <1>7 DEF KeyOf

(* A load follows the pointer of a cell only into a frame that is there,   *)
(* in a program without memcpy (fpsan_memcpy gives the copy the lock of    *)
(* the frame that copies, whose temporary it is not): LoadedTempAlive.     *)
THEOREM LoadsAlive ==
  ASSUME "memcpy" \notin Instrs
  PROVE  Spec => []LoadedTempAlive
<1>1. IInv => LoadedTempAlive
  <2>1. SUFFICES ASSUME IInv, NEW c \in Cells, HasTmp(c),
                        KeyOf(cell[c].storer) % CellKeys # 0
                 PROVE  Alive(cell[c].tmp)
    BY DEF LoadedTempAlive
  <2>2. PICK m : m = cell[c]
    OBVIOUS
  <2>3. /\ TypeFrames /\ Frames /\ Stored(m) /\ lock_key_map[m.lock] = m.key
    BY <2>1, <2>2 DEF IInv, TypeOK, HasTmp, Storing
  <2>4. /\ m.storer \in 1 .. Len(level) /\ KeyOf(m.storer) % CellKeys # 0
        /\ lock_key_map[level[m.storer] + 1] = KeyOf(m.storer) % CellKeys
        /\ Outlives(m.tmp.clone, m.storer)
    BY <2>1, <2>2, <2>3 DEF Stored
  <2>5. PICK i \in 1 .. Len(stack) : stack[i] = m.storer
    BY <2>3, <2>4, StorerRuns
  <2>6. PICK j \in 1 .. i : stack[j] = m.tmp.clone
    BY <2>4, <2>5 DEF Outlives
  <2>7. j \in 1 .. Len(stack)
    BY <2>3, <2>5, <2>6, Depths
  <2> QED
    BY <2>2, <2>6, <2>7 DEF Alive
<1> QED
  BY <1>1, TraceInductive, PTL

(* A load finds the provenance of what a running clone stored, whatever    *)
(* was called in between, as long as its key fits into the cell:           *)
(* ProvenanceKept.                                                         *)
THEOREM ProvenanceStays == Spec => []ProvenanceKept
<1>1. IInv => ProvenanceKept
  <2>1. SUFFICES ASSUME IInv, NEW c \in Cells, cell[c] # None, cell[c].tmp # None,
                        KeyOf(cell[c].storer) < CellKeys,
                        NEW i \in 1 .. Len(stack), stack[i] = cell[c].storer
                 PROVE  lock_key_map[cell[c].lock] = cell[c].key
    BY DEF ProvenanceKept, HasTmp
  <2>2. PICK m : m = cell[c]
    OBVIOUS
  <2>3. TypeFrames /\ Frames /\ Stored(m)
    BY <2>1, <2>2 DEF IInv, TypeOK, Storing
  <2>4. /\ m.storer \in Nat /\ level[m.storer] = i /\ m.lock = i + 1
        /\ m.key = KeyOf(m.storer) % CellKeys /\ Len(stack) \in Nat /\ Len(stack) <= MaxDepth
    BY <2>1, <2>2, <2>3, Depths DEF Stored, TypeFrames
  <2>5. m.key = KeyOf(m.storer)
    <3>1. PICK k : k = KeyOf(m.storer)
      OBVIOUS
    <3>2. k \in Nat /\ k < CellKeys
      BY <2>1, <2>2, <2>4, <3>1 DEF KeyOf
    <3> QED
      BY <2>4, <3>1, <3>2, Bounds
  <2>6. i + 1 \in Locks /\ i + 1 # 1 /\ i + 1 \in 2 .. Len(stack) + 1 /\ i + 1 - 1 = i
    BY <2>4, Bounds DEF Locks
  <2>7. lock_key_map[i + 1] = KeyOf(stack[i])
    BY <2>3, <2>6 DEF Frames
  <2> QED
    BY <2>1, <2>2, <2>4, <2>5, <2>7
<1> QED
  BY <1>1, TraceInductive, PTL

-----------------------------------------------------------------------------
(* What the invariant says of traces.                                      *)

(* In a program without negations (a negation keeps the lock of its        *)
(* operand, which may be that of a caller) fpsan_trace follows the         *)
(* operands of a temporary only into frames that are there, but for those  *)
(* that got the key 0: OperandsAlive.                                      *)
THEOREM TracedAlive ==
  ASSUME "negate" \notin Instrs
  PROVE  Spec => []OperandsAlive
<1>1. IInv => OperandsAlive
  <2>1. SUFFICES ASSUME IInv, NEW p \in Usable, Valid(p),
                        NEW o \in At(p).ops, o.key # 0
                 PROVE  Alive(o.tmp)
    BY DEF OperandsAlive
  <2>2. TypeFrames /\ Frames /\ TypeTemp
    BY <2>1 DEF IInv, TypeOK
  <2>3. /\ At(p) \in Temps /\ p \in Pointers /\ Known(p)
    BY <2>2, UsableAt
  <2>4. level[p.clone] \in 1 .. MaxDepth /\ p.slot \in Slots
    BY <2>2, <2>3, KnownAt
  <2>5. o \in Operands /\ Guarded(o)
    BY <2>1, <2>3, <2>4 DEF IInv, Guarding, At, Temps
  <2>6. PICK l, k : l = o.lock /\ k = o.key
    OBVIOUS
  <2>7. /\ l \in Locks /\ lock_key_map[l] = k /\ k \in 2 .. Len(level) + 1
        /\ Outlives(o.tmp.clone, k - 1)
    BY <2>1, <2>5, <2>6 DEF Valid, Operands, Guarded
  <2>8. l # 1 /\ lock_key_map[l] # 0
    <3>1. 1 \in Locks
      BY Bounds DEF Locks
    <3> QED
      BY <2>2, <2>7, <3>1 DEF Frames
  <2>9. l - 1 \in 1 .. Len(stack) /\ k = KeyOf(stack[l - 1])
    BY <2>2, <2>7, <2>8, LockInUse
  <2>10. stack[l - 1] = k - 1
    BY <2>2, <2>9, Depths DEF KeyOf
  <2>11. PICK j \in 1 .. l - 1 : stack[j] = o.tmp.clone
    BY <2>7, <2>9, <2>10 DEF Outlives
  <2>12. j \in 1 .. Len(stack)
    BY <2>2, <2>9, <2>11, Depths
  <2> QED
    BY <2>11, <2>12 DEF Alive
<1> QED
  BY <1>1, TraceInductive, PTL

(* The timestamp check of fpsan_trace leaves it only operands that are     *)
(* what the operation used, where both have times of their own:            *)
(* OperandIntact.                                                          *)
THEOREM TracedIntact == Spec => []OperandIntact
<1>1. IInv => OperandIntact
  <2>1. SUFFICES ASSUME IInv, m_expr # << >>, NEW p, p = Head(m_expr), OwnOperands(p),
                        NEW o \in At(p).ops, o.tmp \in Older(p), OwnTime(o.tmp)
                 PROVE  At(o.tmp).val = o.val
    BY DEF OperandIntact
  <2>2. TypeFrames /\ Frames /\ TypeTemp /\ m_expr \in Seq(Pointers)
    BY <2>1 DEF IInv, TypeOK, TypeTrace
  <2>3. p \in Pointers /\ Known(p)
    <3>1. Len(m_expr) \in Nat \ {0} /\ p = m_expr[1]
      BY <2>1, <2>2, EmptySeq
    <3>2. 1 \in 1 .. Len(m_expr)
      BY <3>1
    <3> QED
      BY <2>1, <2>2, <3>1, <3>2, ElementOfSeq DEF IInv, Visiting
  <2>4. Intact(At(p))
    BY <2>1, <2>2, <2>3, KnownAt DEF IInv, Recording, At
  <2>5. At(o.tmp).timestamp < At(p).timestamp
    BY <2>1 DEF Older
  <2> QED
    BY <2>1, <2>4, <2>5 DEF Intact, OwnOperands
<1> QED
  BY <1>1, TraceInductive, PTL
=============================================================================
