# PFPSanitizer in TLA+

PFPSanitizer finds numerical errors in C programs. An LLVM pass
(`llvm-pass/FPSan/FPSanitizer.cpp`) splits a program in two. The program itself
(the *producer*) runs nearly at full speed and pushes into buffers the few values
that cannot be recomputed. Of every function the pass makes a *clone* that keeps
only the floating point computation, done with MPFR on *shadow values*. The
stretch between `start_slice()` and `end_slice()` is a *slice*; when a slice has
ended, or has filled its buffer, a worker thread runs the slice's clone against
the buffer. The runtime (`runtime/handleReal.cpp`) has the queues between the two,
the shadow memory, the error checks and `fpsan_trace`, which prints where an
error came from.

Line numbers below are lines of these two files: `P` for `FPSanitizer.cpp`, `RT` for
`handleReal.cpp`, `RH` for `handleReal.h`.

Contents: 1. inventory; 2. modules; 3. runs, bounds and fairness; 4. proofs;
5. where the code disagrees; 6. what is not modelled; 7. plan.

## 1. Inventory

| component | state | operations | interacts with |
|---|---|---|---|
| Slice hand-over | `empty_list`, `task_queue`, `full_list` (TBB bounded queues), the buffers `queue[]`, the producer's `p_queue_idx`, `QIdx`, `startSlice`, `cur_task`, each worker's `__buf_idx` and `CQIdx`, `m_init_flag`, `clone_func_map`, `fini` | `fpsan_init`, `fpsan_finish`, `fpsanx_get_buf_addr`, `fpsan_slice_end`, `fpsanx_slice_end_interim`, `fpsanx_shadow_task_interim`, `fpsanx_get_clone_addr`, `worker`, and the code the pass inserts around pushes, reads, slices and function entries | producer and workers, through the queues only; the clone chooses its shadow state by the buffer it starts on |
| Mirroring | the pass's `FCMPMapPush` and `FCMPMap`; what each instruction pushes and reads; at run time `SliceFlag` and `CurIndex` | the loops of `runOnModule` (P:4609-5196) | decides what goes through the buffers, and in which order |
| Tracing metadata | per shadow state: `m_lock_key_map`, `m_key_stack_top`, `m_key_counter`, `m_timestamp`, the shadow memory, `m_expr`; on the clones' stacks: `temp_entry` | `fpsan_func_init/exit`, `fpsan_copy_return`, `fpsan_copy_phi`, `m_compute` and the arithmetic, stores, loads, `fpsan_handle_memcpy`, `fpsan_trace`, `fpsan_check_error` | written by clones, read by the debugger's calls while the program is stopped |
| Error detection | per shadow state: `errorCount`, `nanCount`, `infCount`, `flipsCount`, `ccCount` | `m_update_error`, `m_ulpd`, `m_check_cc` and the bits it counts, `m_check_branch`, the wrappers that call them, report and reset in `fpsan_shadow_slice_end` | called by clones; the shadow state is named by a buffer, so the next slice on it starts from what this one left |
| Placement of shadow values | the pass's maps `GEPMap`, `ConsMap`, `MInsMap` from values to temporaries and pointers; in the clone the array of `temp_entry`, and the pointers that `my_phi` and `my_select` choose | `createMpfrAlloca`, `handleOperand`, the handlers of phis, operations, calls, loads, stores, selects, comparisons, returns, and the loop that fills the new phis | decides which pointers the clone gives to tracing and error detection |
| Shadow arithmetic | MPFR values | about ninety `fpsan_mpfr_*` wrappers | tracing, error detection |
| Debug output, suite, benchmarks, build | none that others read | | |

What makes each correct, and what is hard about it:

* **Slice hand-over.** Each slice must be a stream: its clone reads its values, all
  of them, once, in order, and reports once; no buffer is lost or in two hands;
  the program ends. Hard, because a slice that overflows is spread over buffers
  that travel in a different queue (`full_list`) and carry no name, both sides must
  decide independently where one buffer ends, workers run at the same time, and
  indices of buffers double as names of shadow states.
* **Mirroring.** A value in a buffer has no type and no name. The reads of a clone
  are inserted by other code than the pushes, in another order, into functions
  that earlier loops have changed. Every path must push exactly what the same path
  of the clone reads.
* **Tracing metadata.** Shadow values point to temporaries in frames that return,
  and the shadow memory outlives frames. Locks and keys are to keep a trace from
  following a dangling pointer; timestamps are to keep it from following one to a
  temporary that a loop has overwritten, and from walking in circles.
* **Error detection.** A report must follow from what the slice did, and not from an
  earlier slice that used the same shadow state. An error is counted when, and only
  when, too many doubles lie between a value and its shadow; a cancellation whenever the
  difference is smaller than the error of an operand. Hard, because the distances are taken
  by overflowing integer arithmetic on bit patterns, exponents are asked of
  numbers that have none, and zeros, infinities and NaNs go through every formula.
* **Placement of shadow values.** Each call to the runtime must get pointers to the shadows of
  the values the program's instruction has, whichever path led to it. Hard, because
  a temporary is shared by all iterations of a loop, selects pass on pointers and phis copies,
  the pass meets uses before definitions in the order of the text, two walks count and hand out the temporaries,
  and the handlers look their operands up in three tables in a certain order.

`PROJECT.json` has the hazards of each, at their lines, with the properties aimed at them.

## 2. Modules

| module | what it is |
|---|---|
| `SliceStreams` | abstract specification of the hand-over: independent streams, one per slice |
| `SliceQueues` | the hand-over as coded, refines `SliceStreams` |
| `SliceQueuesInv`, `SliceQueuesProofs` | the inductive invariant of who has which buffer, on all programs; theorems and proofs |
| `SliceQueuesStreamInv`, `SliceQueuesStreamProofs` | the inductive invariant of where the values of a slice are, on the programs the hand-over is made for; theorems and proofs |
| `SliceQueuesRefinement` | the proof that `SliceQueues` implements `SliceStreams` on them |
| `MCSliceQueues` | the executions TLC considers |
| `PassMirror`, `MCPassMirror` | the loops of the pass, then the execution of what they made, with its instances |
| `PassMirrorInv` | the inductive invariant of both: what the loops have inserted, and where a clone is in its slice |
| `PassMirrorProofs` | proofs about the loops of the pass, then about the execution, with the theorems |
| `ShadowTrace`, `MCShadowTrace` | one shadow state's tracing metadata, with its symmetry |
| `ShadowTraceInv`, `ShadowTraceProofs` | its inductive invariant, theorems and proofs |
| `ErrorCheck`, `MCErrorCheck` | one shadow state's error counters, over a small IEEE format, with the values considered |
| `ErrorCheckInv`, `ErrorCheckProofs` | its inductive invariant, theorems and proofs |
| `ShadowPlacement`, `MCShadowPlacement` | the handlers of the pass on one function, then its clone, with the functions considered |
| `ShadowPlacementInv` | its inductive invariants: of the tables and pointers (`IInv`), and with them of the inserted calls and of the running clone (`RInv`) |
| `ShadowPlacementProofs`, `ShadowPlacementRunProofs` | theorems and proofs about the one, and about the other |

They compose along the code's own seams. `SliceQueues` takes a clone to do what its slice did
if it reads its slice's values, which is what `PassMirror` shows of the code inserted; `ShadowTrace`,
`ErrorCheck` and `ShadowPlacement` describe one clone on one shadow state, which `OwnShadowState` of `SliceQueues`
gives it for itself; `ErrorCheck` lets the next slice reuse that state; `ShadowPlacement` gives
the calls of `ShadowTrace` their pointers, and takes callees to do what its `LeftOnce` says.

### SliceQueues

The variables have the names of the code. A program is a sequence of slices and a
slice a sequence of `"val"` (a push), `"call"` (entering an instrumented function
directly) and `"icall"` (through a pointer). A pushed value is `<<slice, n>>`,
the n-th of its slice: enough to see whose value a clone reads and whether one
is missing. A clone does what its slice did as long as it reads its slice's
values; after a foreign value it may do anything (`Lost`), since branches depend
on them.

| action | code |
|---|---|
| `GetBufAddr` | function entry outside a slice: `fpsanx_get_buf_addr` (RT:334-349) |
| `SliceStart` | P:1158-1191 |
| `Push`, `InterimHandOver`, `InterimTake` | a push (P:2442-2512): it finds room, or calls `fpsanx_slice_end_interim` (RT:399-411), which hands over and then waits: two steps, since other threads run in between |
| `EnterCallee` | function entry inside a slice: registers the clone |
| `SliceEnd`, `SliceEndSync` | `fpsan_slice_end` with workers, and without |
| `Finish`, `Join` | `fpsan_finish` (RT:531-549) |
| `Steal`, `Exit` | the loop of `worker` (RT:270-304) |
| `Read`, `ReadFromNext`, `TakeNext` | a read (P:3278-3333): from this buffer, or give it back and wait for the next (RT:414-420) |
| `EnterClone`, `Dummy`, `Crash` | entry of a callee's clone (P:4723-4755, RT:1671-1677), the lookup of an indirect callee that fails, and `fpsan_func_init` on a shadow state that was never made |
| `ShadowEnd`, `ShadowEndSync` | the end of a clone (RT:440-484, 292-298) |

`Supported` says which programs the hand-over is made for, and `Fit` which never need a second
buffer. Most properties have one of them as a condition, so that a run can have programs of every kind:
`CalleesFirst` (functions are entered while the slice is on its first buffer, or push again),
without workers `Fit`, with several workers at most one slice that overflows. Section 5 says what
happens otherwise.

The refinement mapping to `SliceStreams`: `sent` counts the pushes done, `ended` the
slices past `end_slice`, `shadowed` and `reported` are history variables.

### PassMirror

The first eleven actions are the loops of `runOnModule`, in their order
(`stage`); each adds to `push` or `read` what it inserts at the instructions it
looks at. `FCMPMapPush` and `FCMPMap` are the two tables that keep a comparison from being
exchanged twice. Then the result runs: `EnterSlice`, `Step`, `Call`, `Return`, `StartSlice`,
`EndSlice` by the program, `Steal`, `CloneStep`, `CloneCall`, `CloneEnd`,
`CloneReturn` by the workers. An item in a buffer remembers the instruction and the
role it was pushed for; the clone, of course, does not look at that except for the
outcome of a branch, but the properties do. `Ended` and `Past` separate what
belongs to the slice from what comes after `end_slice`. Buffers are large enough
for a slice here. `trail` is history: the activations a slice went through, each with the number of
values it had pushed, until its `end_slice`. `Supported` (in `PassMirrorInv`) says which bodies the mirroring
is made for: one `start_slice` and one `end_slice` after it, both in the slice function and left out by no branch, calls of
functions with clones between them, and nothing after `end_slice` that exchanges a value.

### ShadowTrace

A frame is named by the number of its clone, so that a pointer into a frame that
has returned differs from one into a later frame at the same depth; the lock is the depth,
as in the code, the key the counter. A value is abstracted to the time at which it was computed,
which is what tells an operand that is intact from one computed again. The two
operands of a `temp_entry` form a set. `Trace` starts `fpsan_trace` as a user does
in the debugger, on whatever earlier traces left in `m_expr`; `CheckError` as
`fpsan_check_error` does; `Visit` is one round of its loop. `Instrs` chooses the kinds of instructions
of an instance: calls, memory (stores, loads, `memset`), `memcpy`, phis, negations, checks, the debugger. A key in the shadow memory is
one of `CellKeys` values (2^32 in `smem_entry`, RH:159), compared with whole keys. `made` is when a temporary's operands were
recorded; `of`, `by`, `level`, `storer` and `made` are history.

### ErrorCheck

A double is a bit pattern of a format of `ExpBits` and `MantBits`; `m_ulpd` is computed on it in integers of the format's
width, as the code does in 64 bits. A shadow value is an integer in units finer than the
smallest double. `mpfr_set_d`, `mpfr_get_d`, `mpfr_cmp` and `mpfr_get_exp` are external
and modelled by what MPFR documents; exponents of zeros, infinities and NaNs are markers below all others.
`Fetch` chooses the operands of the next operation, `AddSub` and `CheckBranch` compute with them, `Mul`, `Div`,
`MathFunction`, `MathFunction2` take a given result, `Recheck` stands for the calls that
compare a value a second time (RT:900, 205, 142). `did` is history: what happened,
told without the code's arithmetic (how many doubles lie between two, which relation holds, whether
the difference is drowned in the error of an operand). MPFR's values are taken as exact, though it rounds to 512 bits, and so is
`log2` in `m_update_error`, which the model compares as a power of two.

### ShadowPlacement

A function is its text (instructions with their block and operands) and the successors of its blocks, in SSA form
as LLVM's verifier requires it: what is used dominates its use (`IsSSA`), with dominance as "some set of blocks has the entry, and is only
left from the dominating one" (`BlockDominates`), which needs no paths.
`handleBranch` to `handleNewPhi` are the loops of `runOnModule` on it; they fill the tables and `code`, the calls inserted
at each instruction and at the start of each block. `getTotalFPInst` counts what
`createGEP` hands out afterwards, and each walks over the text by itself; `counted` is history. `MetadataNotFound` is the pass's exit. Then the clone runs: `Step`
passes an instruction, `Call` makes an inserted call, `Jump` takes any successor and
evaluates the phis of the block all at once, as LLVM does, while `fpsan_copy_phi` runs one after the other.
The program's value of an instruction is a number drawn when it is passed, and
its shadow that same number, so that every entry says whose shadow it holds. In `Supported` are the
conditions under which the shadows are right, and each of them is needed: without any one of them TLC
finds a function on which `RightShadows` or `LeftOnce` fails (section 5).

## 3. Runs

| run | instance | shows |
|---|---|---|
| `one_worker` | the default build (one worker, 3 buffers), buffers of 2 values, programs of 2 or 3 slices with up to 9 values | the queues implement `SliceStreams` when slices overflow any number of times; ownership, no orphaned continuation, pushes that never wait, shadow states ready, indirect callees known; termination |
| `two_workers` | 2 workers, 5 buffers, programs of 2 to 6 slices, also those on which clones go wrong | the inductive invariants of the proofs: `IInv` on all of them and `SInv` while at most one slice overflows; then also streams, complete at exit and termination; while none does, nobody else uses a running clone's shadow state (`OwnShadowState`) or the map of callees it reads (`CloneMapUnshared`) |
| `no_workers` | the `NUM_THREADS == 0` build, 3 slices that fit | `IInv`, streams, complete at exit, termination when the clone runs inside `fpsan_slice_end` |
| `mirror` | 99 bodies, 2 executions of the slice, 2 buffers, 2 workers | the inductive invariant `IInv` of the proofs; clones read what was pushed, for the instruction it was pushed for (`Mirrored`), all of it (`ReadsAll`), and the program leaves handed over buffers alone (`OwnBufferOnly`) |
| `trace_frames` | 2 temporaries, 1 address, 3 clones, nested or one after the other, 3 different keys in memory; calls and memory only | the inductive invariant `IInv` of the proofs; a load or trace that the locks let through finds the frame still there (`LoadedTempAlive`, `OperandsAlive`), and a load whose frame is still there is let through (`ProvenanceKept`) |
| `trace_ends` | 2 temporaries of one frame, recomputed in any order, 2 addresses, phis, negations, memory, memcpy, leftovers in `m_expr` | every trace ends (`TraceEnds`), and one that follows a pointer finds what the operation used (`OperandIntact`) |
| `error_check` | the doubles of a format of 2 exponent and 2 mantissa bits (without -0 and negative NaNs), with shadows that equal them, are off by half or one and a half of the smallest double, have the other sign with the same or another exponent, or are no numbers; 2 operations in each of 2 slices | the inductive invariant `IInv` of the proofs; the counters say what happened (`ErrorsCounted`, `FlipsCounted`), a cancellation is found and none invented (`CancellationDetected`, `NoFalseCancellation`), a report is of its own slice (`ReportIsOwn`) |
| `placement` | 270 functions, every path of up to 6 jumps | the inductive invariant `RInv` of the proofs; each call gets the shadows of the values of its instruction (`RightShadows`), a clone leaves its frame once and returns the right shadow (`LeftOnce`), the pass finds its metadata (`NothingMissing`), the array is large enough (`EntriesFit`) |
| `v_two_overflows`, `v_boundary_call`, `v_after_end`, `v_memcpy` | the smallest instance | section 5 |

**Bounds.** Buffers of two values give all the cases of a boundary: a push into an
empty, a half-full and a full buffer, slices that stop before, at and after a boundary, and with nine
values more continuations than there are buffers, so that the producer blocks.
Two slices that meet in the queues need three for one of them to find the
state that an earlier one left. Two workers are enough for two clones to be on
one shadow state or to take each other's continuation; the proofs cover any
number. In `mirror` a comparison and two users of it are enough for one that
is exchanged twice or not at all, so the bodies have every two conditional instructions, and every three of which one
uses a comparison made there, including a branch that skips one;
memory and calls do not share anything, and pairs of them show an order that
is wrong. Two executions of the slice on two buffers make the second reuse
what the first left behind. In `trace_frames` three clones let a frame
return and another take its place, with a pointer to the first still in memory, and a pointer go up and
down through two calls; the keys of the clones are 2, 3 and 4, so that with three different ones in memory the second is 0 there
and the third like that of the outermost frame. `trace_ends` has keys wide enough, and the phis. Wider keys, deeper stacks and
longer executions are the theorems'.
`MaxTime`, `MaxCalls`, `MaxDepth` and `MaxLeft` cap counters that only grow.
In `error_check` two bits of exponent give subnormals, normals in two binades and
infinities, and two bits of mantissa a difference between losing one bit and all;
two operations let a count of two be told from one twice counted, two slices let one find what
the other left. In `placement` the loops have two phis, a cast, a select, a
computation before and one after the select, taking each other in all ways for which shadows are right, and in some for which they are not; six jumps enter
the loop's header three times and still return, so that entries have been written twice when a phi, or what was
computed from it two iterations ago through the other phi, is used. Straight code has every kind of call, constant, argument,
converted integer and two nested casts, in slices and in callees. Two returns, and blocks whose text is not in the order of their
values, are functions of their own, also with a cast between the value and its use. Shadow memory is left to `ShadowTrace`: a load draws a value.

**Preconditions of the passing runs.** In the runs of `SliceQueues` they are in the properties, as
`Supported` and `Fit`; the programs of `one_worker` and `no_workers` all satisfy `Supported`. The bodies of `mirror` all
satisfy the `Supported` of `PassMirrorInv` (`EveryBodySupported`); `trace_frames` has no memcpy and no negation, and excepts keys that are 0 in the width of a cell and operands recorded with the key 0;
`OperandIntact` excepts what a phi has copied (`OwnOperands`) and temporaries that have taken over
an older timestamp (`OwnTime`); `FlipsCounted` the unordered comparison of a number with a NaN; `ReportIsOwn` the number
of infinities after a slice that met one; `NoFalseCancellation` allows a report as soon as an operand is inexact;
`CancellationDetected` is about numbers, and excepts an operand whose shadow has its exponent and the other sign (`Crossed`),
unless a bit has cancelled next to it.
`NothingMissing` excepts functions that are not `Resolvable`: what an instruction uses, seen through its casts, comes before it in the text, casts are shallow,
and results that the pass does not know are not used. `RightShadows` and `LeftOnce` have `Supported`: besides, no phi takes itself or one copied before it (`CopiesApart`),
no phi is cast, all declared functions are listed, there is one return. Section 5 says what happens otherwise.
Slices follow each other and are entered through the entry of their function.

**Fairness.** `SliceQueues!FairSpec` has weak fairness of the producer and of each worker:
they are OS threads without priorities, and every blocking operation is a TBB `push` or
`pop` or a `pthread_join`. Weak fairness does for them, since what a blocked thread
waits for stays there, except where two workers want the same task or continuation:
there one of them gets it, and the liveness properties do not ask which.
`ShadowTrace!FairSpec` has weak fairness of the rounds of `fpsan_trace` only: it runs
while the debugger has stopped everything else, so it is interrupted by nothing.

`PassMirror`, `ErrorCheck` and `ShadowPlacement` state no fairness: they have safety properties only.

**Deadlock** is checked in `one_worker`, `no_workers` and `mirror`, where only the end
of the program stops it (`Terminated`, `Done`). It is not in `two_workers`, where clones may
wait for a continuation which never comes (`Terminates` covers the programs where they must not), in
`trace_*` and `error_check` (the bounds end a behaviour), and in `placement` (a clone that has returned, or
a pass that has exited, is at its end).

Every property has a mutant in `PROJECT.json`: a plausible slip in the code, such as a buffer
not given up after it was handed over, a key not cleared on return, or one bit too many
allowed to cancel, which
makes TLC find the property violated under the same configuration.

## 4. Proofs

The theorems hold for all values of the constants under the assumptions that the modules declare and
TLC evaluates in every run; these say no more than that the constants have sensible types (a finite set of workers that
does not have the main thread, a buffer that has room for a value, numbers for bounds, functions as LLVM's verifier accepts them). Where a theorem needs more it says so.

### SliceQueues, whatever the program does

`SliceQueuesProofs`, for every finite set of workers (also none), every buffer size and every set of executions,
also those on which clones read foreign values:

* `TypeCorrect`: `Spec => []TypeOK`. In particular no push and no read is outside
  its buffer (`QIdx` and `CQIdx` are tested before they are used, whatever the
  two sides disagree about).
* `Inductive`: `Spec => []IInv`.
* `BufferOwnership`: `Spec => []OneOwner`. Every buffer is in exactly one place,
  unless the program has crashed.
* `RoomForPushes`: `Spec => []PushesDoNotBlock`. `empty_list` and `task_queue` have a capacity (`set_capacity(NUM_QUEUES)`),
  but are never at it when someone pushes: whoever has a buffer in his hands has one that is in no list, and a list without repetitions
  that lacks a buffer is shorter than the capacity (`ShortList`, by the pigeonhole principle). Threads wait only at empty queues.

`OneOwner` counts places and is not inductive: it does not say who may put a
buffer where. `IInv == TypeOK /\ Control /\ Owned` is. `Control` ties the
control states to the variables they promise (a producer in a slice has a buffer
and a slice, a consumer that runs has a task). `Ownership` says the same as `OneOwner` in
parts a step can preserve one by one: no list has repetitions (`NoRepeats`), the
places exclude each other (`Apart`), together they have every buffer (`Covered`).
`Alone` is for the build without workers, which has a single buffer: there the clone
runs on the producer's buffer and never meets a continuation.

The proof has three parts. `NextTyped` shows that each action preserves `TypeOK /\ Control`,
one lemma per action. `NextOwned` does so for `Owned`: actions that move no buffer go by
`SameOwners`, the others by one lemma per kind of move (`ProducerTakes`,
`ProducerGives`, `ConsumerSteals`, `ConsumerTakes`, `ConsumerGives`), which rest on what
`Append` and `Tail` do to the elements and repetitions of a list. Finally
`OneOwnerOfAll` shows that the places of a buffer, of which `Apart` and
`NoRepeats` leave at most one and `Covered` at least one, form a singleton.

### SliceQueues, on the programs the hand-over is made for

`SliceQueuesStreamProofs` and `SliceQueuesRefinement`, for every number of workers, every buffer size, and all programs in `Supported`:

* `StreamsInductive`: `Spec => []SInv`.
* `NoOrphans`, `ShadowReady`, `CalleesKnown`, `ExitComplete`: the invariants `NoOrphanContinuation`, `ShadowStateReady`, `CalleeKnown` and
  `CompleteAtExit`. The last says that when the program has ended every slice was reported, once, with all its values, and
  no buffer is missing.
* `ShadowStateOwned`, `CloneMapsUnshared`: `OwnShadowState` and `CloneMapUnshared`. They need `Fit` as well, also in the theorem:
  a clone that waits for a continuation has given its first buffer back, and the next slice may be on it.
* `QueuesImplementStreams`: `Spec => StreamsSpec`, the refinement of `SliceStreams`.

None of these is inductive. `SInv` says where the values of each slice are (`StreamInv`). A slice handed over has its first values in the first buffer,
which is with a task or with the clone that runs it (`IsTask`, `OnFirst`); its other values are in buffers of `full_list`,
each of which starts where the one before it ends (`Follows`, `Await`). The heart of the proof is that `full_list`, which has
no names, has its buffers in the order in which they are wanted (`InOrder`): with one worker since slices are replayed in the order in which
they were filled, with several since only one of them has continuations. So a clone that takes the head of the list
(`TakeNext`) takes its own, and it is the next. That needs the tasks in order too (`Queued`), a clone's position
to be what it has read (`Replays`), and every slice that is not reported to be followed up by a task or a clone (`FollowedUp`). Buffers that are
not being filled do not change, which is where the ownership proved before comes in.

For the refinement each action has a lemma: `PushRefines`, `EndRefines`, `ReadRefines` and `ReportRefines` are the steps
`Send`, `End`, `Shadow` and `Report` of `SliceStreams`, of the slice at hand, and all others leave its variables alone.

### PassMirror

`PassMirrorProofs`, for functions of any length and all conditions, any number of workers, buffers and
executions of the slice, if the bodies are all in `Supported`:

* `MirrorInductive`: `Spec => []IInv`.
* `MirrorTypes`: `Spec => []TypeOK`. In particular a slice that fits its buffer pushes and reads inside it.
* `MirrorsPushes`: `Mirrored`. Whatever a clone reads was pushed by the same execution of its slice, for the
  same instruction and in the same role.
* `EverythingRead`: `ReadsAll`. When a clone reaches `end_slice` it has read all that its slice pushed.
* `WritesOwnBuffer`: `OwnBufferOnly`. The program writes only to the buffer it has taken. This and `Mirrored` are false of
  bodies that push after `end_slice` (`v_after_end`).

The first half is about the pass. `Tables` says, for each loop, which kinds of instruction have their pushes and which
have their reads after it (`PushedOps`, `ReadOps`), and that these are the same `Exchange` for both. The exception is
a comparison that a branch or a select takes to itself: `FCMPMapPush` and `FCMPMap` are filled by different loops, at different times,
and the proof shows that each loop which looks into its table finds all comparisons shared that it must leave out. Each loop has a lemma
(`PushCallsKeeps`, `HandleComparesKeeps`, ...), and after the last `push = read` (`Finished`).

That is not yet enough, since a clone takes its branches from the buffer: one value that is off and it is somewhere else from there on. The second
half shows that it never is. `Recorded` says that the trail of a slice is a path from its entry to its `end_slice`: from each place to the next
the slice pushed what the pass inserted there, and went where the outcome it pushed leads (`Leads`). `OntoLeads` and
`GrowsRecorded` show that each step of the program adds to such a path. `Replaying` says that a running clone is at a place of the trail of its slice, with as many
values read as the slice had pushed when it was there. Since the reads are the pushes, and the buffer has what was pushed (`Filled` while the
slice runs, `Queued` and `Replays` afterwards), the clone gets the outcome that the slice had, and its step
is to the next place of the trail (`CloneReads`, `ReadingOn`). A buffer stays as it is until its clone is done because no
two of the program, the queues and the clones have the same one (`Owned`).
What the clone does behind `end_slice` is separate: it is `Beyond` the trail, and reads nothing there.

### ShadowTrace

`ShadowTraceProofs`, for any number of frames, clones, temporaries, addresses, times and keys:

* `TraceInductive`, `TraceTypes`: `Spec => []IInv`, `Spec => []TypeOK`. In particular `m_key_stack_top` stays in the map, as
  long as the recursion is no deeper than `MaxDepth`, and every pointer is to a temporary of a clone that was entered.
* `LoadsAlive`: `LoadedTempAlive` for programs without `memcpy`. With it the property is false (`v_memcpy`).
* `ProvenanceStays`: `ProvenanceKept`, for all programs.
* `TracedAlive`: `OperandsAlive` for programs without negations. With them it is false (section 5).
* `TracedIntact`: `OperandIntact`, for all programs.

`IInv` says what locks and keys are. `Frames`: the lock of a frame is its depth plus one, its key is the number of its clone plus one and is in the map
exactly while the frame is there; all locks above are free and have key 0. `Guarding` and `Storing`: the key recorded with a pointer is that of
a clone which the frame pointed to *outlives* (`Outlives`: while the one is on the stack so is the other, further out or the same). So
when the key still matches, that clone is running, and the frame pointed to is there. This is why keys never repeat (a counter, never the
depth) and why a return must clear the key. `Recording`: a temporary's operands were recorded no later than its time, and where
the timestamps let a trace follow one, that has not been computed again. Two of the properties turned out too strong for the code on longer executions than a run
has, and were corrected: section 5, *Tracing*.

### ErrorCheck

`ErrorCheckProofs`, for every format, threshold, set of values, and number of operations and slices:

* `FlipsRight`: `FlipsCounted`. It rests on `BranchHolds`: for each of the sixteen predicates and all shadow values, NaN among them, `m_check_branch`
  decides as the predicate's bits say, but for `uno` on one NaN. Nothing is assumed.
* `ErrorsInductive`, `ErrorTypes`: `Spec => []IInv`, `Spec => []TypeOK`. What a slice has counted is what it has met, no operation counts twice, nothing is left of
  a slice in the counters of the next but the infinities, which add up exactly, and the report is what was counted.
* `ErrorsAddUp`: `ErrorsCounted`. `CancellationsFound`, `NoneInvented`: `CancellationDetected`, `NoFalseCancellation`. `ReportsOwn`: `ReportIsOwn`.

Assumed is what the constants are: an exponent of two bits or more, a mantissa of one or more, a threshold below the width of the format (50 and 64 in the
code), shadows that are integers and computed values that are bit patterns. Of the operands nothing is assumed beyond that; what the code gets wrong is in the properties.

That the code judges each single value and subtraction as it should is `ErrorRight`, `FindsCancels` and `InventsNone`. There is no induction in them: powers of two
are understood as numbers of subsets (`PowerSum`), exponents as numbers of bits. `ErrorRight` has three parts. The order of bit patterns is the order of the numbers
they stand for (`MagValueGrows`: within an exponent by the mantissa, between exponents since the next begins above the last).
So the doubles between two are as many as the integers between their places in that order, infinities included (`StepsRight`). And `m_ulpd`'s wrapped
differences are exact (`Orders`, `Distances`), with room for the 1 that is added before the logarithm, also to the distance of a NaN. `FindsCancels` rests on `DrownedBits`:
an operand has no more exact bits than have cancelled if its error has a larger exponent than the difference. With the sign of the computed value, this is since its error has
no larger exponent than itself; with the other sign the error has one larger, `m_get_exact_bits` takes the distance of the two exponents for an exact
bit, and a cancelled bit is needed to make up for it. This is how the exception in `Drowned` was found to be both needed and enough.

### ShadowPlacement

`ShadowPlacementProofs` and `ShadowPlacementRunProofs`, for all functions that LLVM may hand to the pass (`FunctionsAssumption`: blocks end with a terminator and
begin with their phis, operands are values and dominate their uses), of any length, and any number of jumps:

* `Invariant`, `Typed`: `Spec => []IInv`, `Spec => []TypeOK`.
* `Fits`: `EntriesFit`. Every entry that an inserted call writes is inside the array that `getTotalFPInst` sized.
* `Resolved`: `NothingMissing`. The pass exits for want of metadata only at functions that are not `Resolvable`.
* `RunInvariant`: `Spec => []RInv`.
* `ShadowsRight`: `RightShadows`. Each pointer that a clone passes to the runtime leads to the shadow of the value that the
  program's instruction had, on every path, however often loops have overwritten the entries.
* `LeavesOnce`: `LeftOnce`. A clone that returns has left its frame once, and has given its caller the right shadow.

The last two are for functions in `Supported`, which is part of the properties.

`IInv` says what each loop has when it comes to an instruction. `Counted`: the walk that hands out is never ahead of what the other had counted
at the same place, instruction by instruction (`CreateCounted`, from `Counts`), so that it ends inside the array. This is where the operands of
comparisons that are calls matter: one walk counts them and the other does not use them. `Tables`: what is in the tables is
an entry handed out, or the pointer that an instruction chooses. `Complete`: before a loop comes to an instruction, those before it have
their entries, constants and pointers. `Resolves` looks at every way in which `handleOperand` can come to its answer, through none, one or two
casts, and shows that one of them is open if the function is `Resolvable`. The attempt showed that the order in the text
must be asked of what the casts are applied to, and of the uses of the casts: `Resolvable` had asked it of the casts
alone, which is too weak where a block comes before the one that its values are from. `Pointing`: when the clone runs, selects and phis choose from pointers that the pass has made
and that are chosen themselves by then (`TargetOf`).

`RInv` adds `CodeInv`, which is about what the pass inserts, and `RunInv`, about the clone. `CodeInv`: each instruction and
constant has an entry of its own (`Unshared`); every inserted call has one of six forms, by which it reads what `handleOperand` finds for the operands of
its instruction and writes the entry of that instruction or none (`Form`); blocks begin with the copies of their phis in the order of
the text (`Copies`); what must be written is (`Written`); the one return gives, leaves, and then clears (`Leaves`, `ClearsLast`). The
loops run one after the other, so each lemma also shows that the tables only grow and that an operand once found stays where it is.

`RunInv` says, while the clone runs, that the shadow of each *available* value is where its pointer leads (`Right`), unless the
call that writes it is still in `todo`. Available are the values computed in the current block so far, or in a block that dominates it. The heart
of the proof is that entries are overwritten without harm. `Right` also says whose entries a pointer can lead to: if that of another value `x`, then the value *stands
for* `x`, being chosen or cast from it through selects and casts only, and these do not cross an iteration: a value that stands for `x` is computed
after `x` in every iteration. So when the clone comes to `x` again and writes its entry, no available value but `x` itself has a pointer
there: those that had one are no longer available. That is the lemma `Stale`, from `IsSSA` and from `Reached`, which says that the current block can be
reached from the entry (in a block that cannot, everything would dominate everything). Arguments and constants have entries that nothing writes.
A phi is the exception, being the one thing that takes a value across an iteration: it does so by `fpsan_copy_phi`, into an entry of its own. `Ready` says that each copy
still to be made finds its shadow, and that no copy before it overwrites that, which is where `CopiesApart` is needed;
`~CastsOfPhis` is needed since a cast of a phi would have a pointer that leads elsewhere. `Leaving` follows the calls of the return, and says that clears
come after the shadow was given.

The chains of selects and casts have no bound, and induction over them cannot be done here. `StandsFor` is therefore the
least set closed under them, stated with sets (`Chains`), and what the proof needs of a value and all it stands for follows by giving a closed set.

### What is only model-checked, and why

* `Terminates` and `TraceEnds` (liveness and fairness are beyond this prover).

Every other property of the passing runs is stated by a theorem. The theorems about placement take SSA form as LLVM's guarantee.

## 5. Where the code disagrees with itself or its comments

Each of these is a run that TLC must find violated, with its counterexample:

* `v_two_overflows`: with two workers, two slices that overflow at the same time
  can take each other's continuations from `full_list` (RT:417). The default build
  has one worker and is not affected.
* `v_boundary_call`: a slice fills its buffer exactly and then enters a function that
  pushes nothing. The clone tests for the end of the buffer when it enters the callee (P:4740), the
  producer only when it pushes, so the clone waits for a buffer that never comes,
  and the program with it.
* `v_after_end`: what a slice function pushes after `end_slice` is pushed without a test
  (P:5151-5196), through the stale `CurIndex` and from slot 0: over the first values of the slice
  that was just handed over. `QIdx` is left nonzero as well, which misaligns the next slice.
* `v_memcpy`: `fpsan_handle_memcpy` renews the lock and key of a pointer without looking whether
  it was still valid (RT:819), so that a later load follows a pointer into a frame that has returned.

Met on the way, each by leaving the preconditions of a passing run, and not kept as a run of its own:

*Hand-over.*

* A function entered on a later buffer of a slice uses the shadow state of that buffer
  (RT:499, RT:1671), which no `fpsan_shadow_slice_start` may have made
  (`ShadowStateReady`, action `Crash`).
* A clone keeps the shadow state of its first buffer after giving the buffer back, and the next
  slice on it shares it, with two workers and an overflow (`OwnShadowState`). It also
  reads that buffer's `clone_func_map`, an unlocked `std::map`, while the producer
  fills it (`CloneMapUnshared`).
* `clone_func_map` is filled under the index of the buffer in use (RT:345) and searched under the
  first one (RT:433): an indirect callee first entered after an overflow is not found, and its
  shadow computation is skipped (`CalleeKnown`, action `Dummy`).
* Without workers a slice that overflows waits forever for the only buffer (RT:408).

*Tracing.*

* A returned value keeps the lock of the callee (RT:882-905), so an operation of the caller that uses
  it records key 0, the key of every lock not in use (RT:1211). The trace takes it for valid until the
  lock is used again and stops there afterwards, so that whether an expression is printed depends on later calls.
  And when the caller returns such a result, its own temporary is one more operand with the key 0, valid to a trace
  of the next caller though the frame has returned (RH:143). This takes two returns and was met in the proof: `OperandsAlive` excepts
  operands with key 0.
* A negation keeps the lock and key of its operand (RT:1391). If that is an argument, they are the caller's,
  and a trace in the caller follows a pointer into the callee's frame after it has returned: five
  instructions violate `OperandsAlive`.
* The shadow memory keeps keys in 32 bits (RH:159) and compares them with whole ones: after 2^32 calls no stored
  temporary is found any more (`ProvenanceKept`), and a key that is 0 in 32 bits equals that of every
  free lock (`LoadedTempAlive`).
* A phi has its own timestamp but the operands of the value it copied (RT:922), so the timestamps
  do not tell when these have been computed again. What is copied from a phi, or returned, takes over
  operands that are older than its time in the same way (`OwnOperands` in `OperandIntact`; also met in the proof).
* The shadow memory is a table of 2^20 entries without tags (RT:771): addresses 4 MB apart share one.
* A trace that stops early leaves its list to the next (`m_expr`), which then starts with it.

*Error detection.*

* `infCount` is not reset at the end of a slice (RT:480); the next reports it again.
* `fcmp uno` holds in the shadow only if both values are NaN (RT:1515), in the program if one is.
* An operand whose shadow has another exponent, being just across a power of two, counts as having no
  exact bit (RT:1239), and every subtraction of it is reported.
* An operand whose shadow has the other sign and the same exponent counts as exact in one bit (RT:1246), so that a difference
  drowned in its error goes unreported if no bit has cancelled next to it. `CancellationDetected` fails for such operands, which the run has, without the last
  conjunct of `Drowned`.
* The report says "above 45 bits" (RT:459); `ERRORTHRESHOLD` is 50 (RH:78).
* The counters count comparisons, not values: a returned value is compared twice (RT:900), and
  printing a trace in the debugger compares, and counts, once more.

*Placement.* Each is a function on which `RightShadows`, or `LeftOnce`, fails without a part of `Supported`:

* `fpsan_copy_phi` runs for one phi after the other (P:2174), where LLVM evaluates the phis of a block at
  once: of `x_old = x; x = next` around a loop, `x_old` gets the shadow of the new `x`.
* A cast of a phi stands for the pointer chosen when the block was entered (P:1704), not for the copy, and
  is the shadow of the next iteration's value once that has been computed.
* A phi that takes itself along an edge has no pointer for that edge (P:2121); what is copied is undefined.
* A value without metadata is stored as the shadow of a constant (P:2087), where all other handlers exit; the
  "constant" is the instruction itself, which is deleted later.
* The result of a declared function that is in neither list has a temporary that nothing writes (P:1506).
* With several returns, all calls to leave a frame go to the last one in the text (P:2267): it pops
  several frames and the others none.

## 6. What is not modelled

* *The programs under `performance/` and `case_study/`, and `correctness_suite/`.* They are what the sanitizer is run on, not
  the sanitizer: copies of the AMG and MILC benchmarks (under `bench` as they are, under `spec` with
  `start_slice` and `end_slice` put in) and of a Cholesky decomposition, more than 200,000 lines of C. Nothing of PFPSanitizer is implemented there; the suite's programs and scripts
  were read for what slices look like. The sanitizer's own source, the three files `P`, `RT` and `RH`,
  has about 7,600 lines of code, of which the modules cover some 60 %; of the whole tree
  that is 2 %, and could not become more than 4 %.
* *Shadow arithmetic.* MPFR's values at 512 bits are out of reach, and the wrappers have no
  control flow. `ShadowTrace` has what they do to the metadata, `ErrorCheck` what they count and, on small numbers,
  addition and subtraction.
* *The rewriting of functions*: `RemoveEveryThingButFloat`, the cloning code copied from LLVM, the splitting of
  blocks, the rewriting of `main` and types. `PassMirror` and `ShadowPlacement` take functions as these leave them.
  They depend on LLVM's data structures more than on any state of their own.
* *Types.* Conditions are Booleans, also those of switches, which travel as doubles (P:4852), and values have one
  floating point type. The pass has no case for vectors.
* *Debug output*: `fpsan_fpcore`, `m_get_depth`, which repeats the walk of `fpsan_trace` to size that output,
  `fpsan_check_error_f/d`, `fpsan_check_branch` and `fpsan_check_conversion`, for breakpoints, which
  no inserted code calls; `handlePrint`, `fpsanx_print_*`.
* *Data races.* What a race on `clone_func_map` does is not modelled; `CloneMapUnshared` says when there is none.
* *External code.* TBB's bounded queue is modelled as the FIFO its `push` and `pop` promise,
  LLVM by the order of instructions.
* *Slices that nest, or a second slice in one activation of a function.* The program would
  index `queue[-1]`; the model takes slices as the test programs have them.
* *Depth of recursion and size of shadow memory.* `MAX_STACK_SIZE` (RT:502) is not tested by the code; `MaxDepth` bounds the model.

## 7. What is left

Done: the five components as modules with their runs; the proofs of `SliceQueues` with its refinement, of
`PassMirror`, of `ShadowTrace`, of `ErrorCheck` with its arithmetic for every format, and of `ShadowPlacement`.
Every invariant that a run checks is stated by a theorem, and so are the action properties and the refinement.

What could still be modelled: functions with several slices, types, and switches as the pass sees them.
