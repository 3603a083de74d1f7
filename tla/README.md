# A TLA+ model of the out-of-order MIPS simulator

`src/sim_ooo` simulates an out-of-order MIPS processor cycle by cycle: it fetches,
renames, schedules, executes and retires the instructions of a statically linked
big-endian MIPS program, and can compare every retired register with a functional
interpreter that runs beside it (`use_interp_check`). This directory holds a model of
that core and of the parts under it (queues, caches, predictors, threads, memory, the
interpreter), the properties they should have, their model-checking runs, and proofs
about renaming, the pipeline's window and its renaming, the queues, the caches, the
threads and the loop predictor. File names below are relative to `src/sim_ooo`.

## The system

The simulator is one process and one OS thread. Its pipeline stages are coroutines
("gthreads") that run in a fixed round-robin order: each does one cycle of work and
calls `gthread_yield`. All communication is through the fields of `sim_state`; the order
of the threads within a cycle is therefore part of the design.

| component | state | operations | what it shares |
|---|---|---|---|
| pipeline threads (`ooo_core.cc`) | fetch, decode queues, rob, reservation stations, load and store tables, `nuke`, `alloc_blocked`, `fetch_blocked`, `delay_slot_npc`, `terminate_sim` | `fetch`, `decode`, `allocate`, `execute`, `complete`, `retire`, `cache`, `cycle_count` | everything in `sim_state` |
| op classes (`mips_op.cc`) | `mips_meta_op`: sources, destinations, cycles, exceptions | `allocate`, `ready`, `execute`, `complete`, `retire` of some 30 classes | the rename tables, the tables, memory |
| renaming (`machine_state.hh`) | for each of four files: RAT, retired RAT, in-use vector, retired in-use vector, valid bits, physical file | inside the methods of the op classes; restored by the recovery of `retire` | |
| caches (`sim_cache.cc`) | tags and replacement state, the list of accesses in flight | `read`, `write`, `flush`, `flush_line`, `tick`, `nuke_inflight` | pointers to operations; writes `complete_cycle` |
| predictors, return stack, loop predictor | tables, global history | `predict` in fetch, `update` in retire | read by fetch |
| interpreter (`interpret.cc`) | `state_t`: pc, registers, memory, icnt | `execMips`, one instruction (a branch with its slot) | stepped by `retire` for the comparison |
| memory (`sparse_mem.cc`) | pages, the bit vector of those present | `get`, `set`, `copy`, `equal` | the core and the interpreter have one each |
| queues, stacks, bit vectors | ring indices, bits | push, pop, `peek_next_pop`, `find_first_unset` | |
| gthreads (`gthread.cc`) | a circular list of threads | start, yield, terminate | |
| loader, disassembler, records, options | | file and text I/O | |

What is hard in it:

- *Speculation and recovery.* Any prediction may be wrong, any load may have read too
  early. `retire` drops the window (a "nuke") at any moment; rename tables, tables of
  loads and stores, accesses in flight and the flags of fetch and allocate must all be
  put right, over several cycles when `flash_restart` is 0.
- *Delay slots.* A branch retires together with its slot, which may be anywhere in the
  pipeline, may not have been allocated because the branch itself blocked allocation,
  and may have an exception of its own. Likely branches annul it.
- *Memory ordering.* Loads read memory at completion and stores write it at retirement;
  a retiring store finds the loads that read too early, and `load_alias_map` keeps them
  from doing so again.
- *Timing by equality.* Operations complete when a stored cycle equals the current one.
- *Late training.* Predictors are read at fetch, before older branches have retired, and
  trained at retirement by the index of the fetch; the loop predictor counts iterations
  that a recovery drops.
- *Ending.* Eight threads leave a list they keep walking, from wherever they are, when
  one of them sets `terminate_sim`; some loops of `retire` do not look at it.

There is no persistence, no network and no preemption, hence no crash, no lost message
and no data race to model. `PROJECT.json` lists the hazards line by line, with the
property that covers each or the reason why none does.

Correctness, by component:

- renaming is precise and leaks no register;
- the core retires what the interpreter executes, loads see older stores, the pointers
  held by stations, tables and caches are live, no stage stays blocked, every run ends;
- the two implementations of each instruction agree, and so do the two memories;
- a queue is a bounded queue, and rob slots stay valid while an operation is in it;
- the list of a cache set stays a list, a level is LRU and costs what its levels cost;
- the threads are a round robin, and all of them end;
- a predictor learns a branch that always goes the same way.

## The modules

| module | models | abstracts from |
|---|---|---|
| `InOrder` | what renaming promises: registers change one operation at a time | |
| `RegRename` | the protocol of `allocate/execute/complete/retire` of all op classes, and the recovery | one register file; operations are arbitrary (`Src`, `Dst`, `WriteAt`, `Eval`) |
| `MemOps` | the byte-level arithmetic of loads and stores, core and interpreter | the number of bits in a byte |
| `MipsOps` | each op class: sources, destinations, station, latency, results; the decoder | fields instead of bits; floating point arithmetic is a parameter |
| `InterpOps` | the arithmetic, conditions, moves and accesses of the interpreter | as `MipsOps` |
| `SparseMem` | the pages of a memory and the comparison of two | a page is one word |
| `Cosim` | core and interpreter executing the same instructions side by side | order and timing (they are `OoOCore`'s) |
| `Isa` | the interpreter, instruction after instruction | |
| `OoOCore` | the threads of `ooo_core.cc`, the in-flight list of the caches | predictors, cache contents, statistics |
| `Fifo`, `SimQueue` | a bounded queue; the ring of `sim_queue.hh` with its masks and slots | what is queued |
| `LruLevels`, `MyList`, `SimCache` | LRU levels; the list of a set, pointer by pointer; the seven cache classes over several levels | hit counters |
| `ReadyQueue`, `GThreads` | a round robin; the linked list of `gthread.cc` under the loops of the eight threads | the pipeline, but for the delay slot `retire` waits for |
| `Predictors` | gshare, gnoalias, bimode, the loop predictor, and their use in fetch, retire and recovery | the return stack, instructions that are no branches |
| `DataLemmas` | lemmas about sequences without repetition: their elements, tails, concatenation, removal | |
| `RegRename_proofs`, `OoOCore_proofs`, `SimQueue_proofs`, `SimCache_proofs`, `GThreads_proofs`, `Predictors_proofs` | the theorems about the module of that name | |
| `OoOData_proofs` | the theorems about what `OoOCore` computes and executes, on top of `OoOCore_proofs` | |
| `MC...` | instances for TLC: sets of registers and operations, programs, geometries | |

`MipsOps` EXTENDS `MemOps`, `InterpOps` EXTENDS `MipsOps`, and `Isa` and `Cosim` EXTEND
`InterpOps`. `OoOCore` EXTENDS `MipsOps`, and uses `Isa` and `RegRename`
through INSTANCE: `ImplementsIsa` says that the core is a refinement of the interpreter,
`ImplementsRename` that its renaming is `RegRename`. `RegRename` in turn refines `InOrder`.
In the same way `SimQueue` implements `Fifo`, `SimCache` implements `LruLevels` (when its
levels are `setAssocCache`, as `main` builds them) and `GThreads` implements `ReadyQueue`.

### How state and actions correspond to the code

*OoOCore.* `turn` is the running gthread. A step is one operation passing through a
stage (`FetchInsn`, `FetchSlot`, `DecodeOne`, `AllocateOne`, `ExecuteOne`, `CompleteOne`,
`RetireOne`), a whole cycle of a thread without a loop (`CacheTick`, `NextCycle`), or the
yield. The inner loop of each thread is a guard (`FetchMore`, `DecodeMore`,
`AllocateMore`, `ReadyAt`, `Completing`, `RetireMore`) over the counts of the cycle
(`loc`). Only `retire` yields in the middle of its work, so only it has a program
counter, `rpc`: `loop`, `slot` (waiting for a delay slot), `exc` (an exception at the
head), `excslot`, `excuu` (retiring a mispredicted branch and its slot), `nuke`,
`sleep` (recovery over several cycles), `end`, `done`. A `mips_meta_op` is a record in
`op`, and queues and tables hold its id as the code holds its pointer: a deleted
operation is `Null`. Cycle stamps are relative: `cc` is `complete_cycle - curr_cycle`,
`aux` the same for `aux_cycle`, `age` counts from fetch or decode up to 2, -1 is unset.
`path` is a history variable: the pc of the next instruction to retire, and where
to go after its delay slot.

*RegRename.* Variables have the names of the `gpr_*` fields of `sim_state`; note that a
set bit of `freevec` means "in use". `faulted` is a completed load with
`load_exception`. `RetireMonitor` is apart because `monitor_op::retire` writes its
destination itself and leaves the valid bit of the previous register set.

*Isa.* `execMips` runs a branch and its slot in one call; here they are two steps and
`pend` holds the target between them.

*Cosim.* The computations of the op classes (`Value`, `LoadValue`, `StoreValue`, `TakeBr`)
run on one set of registers and memory, those of `InterpOps` on another, as when
`use_interp_check` is set. `WrongPathLoad` is a load of the core that a recovery drops:
it leaves a page allocated. A run exercises one unit (loads and stores, integer
arithmetic, condition codes).

*SimQueue.* `read_idx`, `write_idx` and the slots are those of the code; `rob_idx` is the
field of `mips_meta_op`. `&` is a parameter (`Band`), of which only `GranuleAssumption` is
used: masking with a length minus one is a remainder by the largest power of two that
divides the length. TLC evaluates it with the real `&`.

*SimCache.* A set of the list classes is a record of node functions (`next`, `prev`,
`data`), `head`, `tail` and `cnt`, relinked as the methods of `mylist` do; the node a
freed entry returns to is the first free one, as in `boost::object_pool`. `recent` is a
history variable.

*Bitwise operators.* `&`, `|` and `^` are parameters (`Band`, `Bor`, `Bxor`) of `MemOps`,
`MipsOps`, `SimQueue` and `Predictors`; the MC modules give them the real ones. The proofs
assume nothing of them but `GranuleAssumption`.

*GThreads.* An action is what a thread does up to its next yield. `retiring` says in which
of its loops `retire` is, `slot` how far the delay slot it waits for has come, `idle` is
`curr_cycle - last_retire_cycle`. What `RetireGroup` finds in the rob is a choice: retired
operations or none, a branch whose slot is missing, a recovery that sleeps, the end of
the program. A wait may start only while `idle` is small (`BranchLag`): the branch that
waits has just become the oldest.

*Predictors.* `window` is the branches in flight with the index and the prediction they were
fetched with. The outcome of a branch is a choice at retirement, so a program is only
the addresses of its branches and jumps and their kinds. `just` and `streak` are history
variables.

## The runs

| run | bounds | shows |
|---|---|---|
| `regrename` | 2 registers, 5 physical, rob 3, 2 values, one operation of each kind | all interleavings of renaming, with the inductive invariant of the proofs |
| `memcosim` | one-bit bytes (words of four bits), two pages of a word, every alignment, all operand values and sequences (condition unit: zero, one, the most negative word and all ones to start with) | core and interpreter agree on registers, branches and memory, swl and `Excluded` apart; lwl+lwr compose |
| `memcosim_swl`, `memcosim_swlzero` | as above, swl at offsets 1-3 and at 0 | findings 1 and 2 |
| `core` | 9 programs, rob 4, width 2, l1d latency 1, 2 or 5, `flash_restart` | refinement of the interpreter, fresh loads, no dangling pointer, no missed completion, no block, termination |
| `core_wide` | the programs, rob 8, width 4 (retire 2), no l1d, `flash_restart` 0 | the same questions where recovery takes several cycles and a slot faults with its branch |
| `core_rename` | 3 of the programs, rob 4 | the renaming of the core is `RegRename` |
| `simqueue` | lengths 1, 2, 3, 4, 6, 12; 5 operations | the ring is a bounded queue; rob slots, the slot scan of the recovery and `peek_next_pop` are right |
| `caches` | 9 hierarchies of one or two levels, up to 4 ways or 2 sets, 5 lines, all sequences of accesses and flushes | lists stay intact, `setAssocCache` levels are LRU, trees keep recent lines, no line twice |
| `caches_direct` | `setAssocCache` with one way | finding 3 |
| `gthreads` | 8 threads, with and without l1d, `mem_latency` 6 (also the watchdog's minimum), 1 or 3 cycles per stage of a slot, recoveries of up to 2 cycles | round robin, the end of all threads, the watchdog |
| `predictors` | 2 programs, 2 branches in flight, tables of one index bit, one bit of history, loop counters up to 2, with and without a loop predictor | learning, iterations attributed to the right branch |

*Why the bounds are enough.* In `regrename` two registers let an operation read and write
the same register, write two at once and be followed by a second writer and a reader;
three spare physical registers are fewer than a full rob can ask for, so that
allocation also has to wait. The operations of `RegRename` are not tied to a program, so
every sequence of them is explored; the proofs then remove the bounds. The programs of
`MCOoOCore` are chosen for the situations listed above: a load aliasing an older store in
a loop, in a delay slot of a mispredicted branch and of a predicted one; calls nested
deeper than the return stack; a likely branch whose slot stores; host calls through a
stub; a wrong path that meets sync and a host call; doubles that alias with singles; a
loop that only `maxicnt` ends. Predictions of branches that have retired once are
nondeterministic, and so are load latencies and the results of host calls. Words are
four bytes of three bits, so that addresses (below 4096) and arithmetic wrap. `MaxIcnt`
(22) is `maxicnt`, which the endless loop reaches and the others do not.

In `memcosim` a word of four bits has every pattern of sign, zero, carry and one-byte
difference; instructions are drawn in any order between two registers, so that the
results of one are the operands of the next. The lengths of `simqueue` are the powers of
two and what `--scale 3` makes of them; five operations fill a ring of four and wait for a
slot. In `caches` five lines are one more than the largest set holds and fall into both
sets of the small ones; the second level has the longer line, so that its sets do not
follow those of the first. The pool of nodes has one spare. In `gthreads` the delays of a
slot and the patience of the watchdog have the ratio of the default parameters: a slot
takes at most ten cycles after `BranchLag`, the watchdog waits 12 (`2 * mem_latency`); the
mutant that halves it shows that this matters. In `predictors` tables of two entries make
addresses collide under every hash, two branches of the first program share the only
entry of the loop predictor, and one of them is likely.

*Fairness.* `Spec` of `OoOCore` assumes that steps keep happening until the simulation
ends: `[]<>(rpc = "done") \/ []<><<Next>>_vars`. A step is enabled in every state (deadlock
is checked in all runs), so this is weak fairness of `Next`. Nothing is assumed of single
stages: their order is fixed by `turn`, as `gthread_yield` fixes it. The loads of the
programs are aligned and their pcs stay inside the program; a misaligned load replays for
ever (see the hazards).

`GThreads` assumes `WF_vars(Next)`: all threads are functions of one host thread, which
keeps running; which of them runs is decided by the list. `WatchdogEnds` holds under
that alone. `Predictors` assumes `WF_vars(fetch)`: fetch runs in every round of the
threads, and the queue in front of it is emptied by retirement and recoveries. Nothing
is assumed of retirement, since `Learns` speaks of what has retired.

*What `ImplementsIsa` does not show.* Core and interpreter are translated apart, from
`mips_op.cc` and from `interpret.cc`, in the arithmetic too; but a run of `OoOCore` only
meets the operands of its programs. All operands are the business of `memcosim`. There
`Excluded` names the encodings on which the two sides differ or the host traps: `$0` as
the destination of a three-register or shift instruction (the interpreter writes it) or of
an immediate one, a division by zero (the core leaves an old value), and the most negative word divided by
-1. Bit fields as wide as a word shift by the width, which is undefined on both sides,
and are left out of the instructions. Floating point compares stand for compares of
integers there; other floating point arithmetic is an operator common to both sides. The
programs of `OoOCore` contain no branch or break in a delay slot, no division by
zero and no teq that traps. Writes to `$0` differ between the two sides for some
instructions; the programs avoid them. For immediate instructions and lui that is an
assumption (`ItypeAssumption`): with `$0` as destination they take no physical register
and then use -1 as one, which ends the core (see below).

*Host calls.* With `use_interp_check` the core ends the simulation at open, read and lseek, at a
write to a descriptor above 1 and at a close of one up to 2, and asks the host otherwise.
`UseInterpCheck` is that option: it is true in `core_wide` and false in the other runs of
`OoOCore`; `Cosim` has no host calls. The theorems hold for both.

### Findings

1. `mips_op.cc:1430`: swl shifts a signed value, so that a negative register leaves
   0xff bytes in front of an unaligned address (run `memcosim_swl`).
2. `interpret.cc:1095`: the interpreter's swl shifts by 32 for an aligned address, which
   is undefined and on x86 merges the old word (run `memcosim_swlzero`).
3. `sim_cache.hh:100`: removing the last entry of a list leaves `head` at the freed node;
   with `l1d_assoc` 1 the next entry is linked to itself, and a lookup that misses does
   not end (run `caches_direct`). For two ways and more `ListIntact` holds.

Seen on the way and not stated as properties: `sparse_mem::equal` (`sparse_mem.cc:125`)
stops when one side has no further page, so it may call different memories equal;
`gselect` reads a table of its own that is never allocated (`branch_predictor.cc:86`); a
branch that is never taken is mispredicted again and again with a loop predictor, whose
limit starts at one (`Learns` excludes that case); `highAssocCache` allocates `assoc/2 + 2`
bytes for the nodes of a tree that uses `assoc` of them (`sim_cache.cc:92`), too few with more than four
ways: the model has all the nodes, so what is proved for more ways is about the algorithm
with the array it needs; an immediate instruction or lui whose destination is `$0` is renamed
nowhere (`mips_op.cc:607`), but executes into `gpr_prf[-1]` (634) and ends in `die()` when it
completes (661), also on a wrong path; host call 34 returns and stores times in the interpreter, and
clears two words in the core (`mips_op.cc:3799-3803`); 52 and 53 exist in the core only.

## The proofs

All theorems hold for every value of the constants that satisfies the assumptions named
below; TLC evaluates each assumption in the runs of its module. The bounds of the runs
(lengths, widths, latencies, programs, geometries, numbers of threads) are gone.

| module | theorems | about |
|---|---|---|
| `RegRename_proofs` | `TypeCorrect`, `Invariance`, `DataflowCorrect`, `NoRegisterLeak`, `PopcountHolds`, `SourcesNeverFreed`, `PreciseState`, `RefinesInOrder` | every property of run `regrename` |
| `OoOCore_proofs` | `Window`, `PointersAreLive`, `InflightFits`, `NoOrphanBlock`, `EveryCompletionIsSeen`, `RenamingInvariant`, `RenamingIsExact`, `RetiredTables`, `TypesHold` | `NoDangling`, `BlockedHasOwner`, `NoMissedCompletion`, `RenameExact`, `TypeOK`, the assertions on the in-flight list and of the recovery (`ooo_core.cc:586-587`) |
| `OoOData_proofs` | `LoadsStayFresh`, `StreamHolds`, `CoreRenames`, `CoreRunsProgram` | `LoadsFresh`, `Stream`, `ImplementsRename` of `OoOCore`; what each retirement does to registers, memory and pc |
| `SimQueue_proofs` | `TypeCorrect`, `SlotsAreExact`, `RobIdxIsHeld`, `FullIsExact`, `PeekNextIsSecond`, `Refinement` | every property of run `simqueue` |
| `SimCache_proofs` | `ListsIntact`, `WaysAreExact`, `RecentKept`, `Refinement` | every property of run `caches` |
| `GThreads_proofs` | `Refinement` | `ImplementsReadyQueue` |
| `Predictors_proofs` | `LoopLimits` | `LimitWithinRun` |

Two devices recur. The provers have no induction over data, so where one would induct
over a sequence or a walk the proofs take a least counterexample (the smallest index at
which the claim fails, from the well-ordering of the naturals) or carry a shape of the
whole sequence in the invariant; a recursive function is unfolded at a point by the
equation that defines it. And queues are spoken of by `Elems` and `NoRepeat`
(`DataLemmas`), so that popping, pushing and erasing become facts about sets.

### Renaming (`RegRename_proofs`)

*Assumptions:* operations have sources and destinations among the
registers and produce values for their destinations (`SigAssumption`, `EvalAssumption`);
the initial mapping is injective, as `initialize_rat_mappings` makes it
(`InitMapAssumption`); registers are finitely many (`FiniteAssumption`, needed only to
speak of the popcount).

None of the properties is inductive alone. `FreevecExact` survives a
retirement only if the register freed is owned by nobody else (`Distinct`) and is the one
the retired table maps (`SequentialDataflow` for the previous destination of the head);
that in turn needs the speculative table to be the retired one with every renaming in
flight applied (`RatCurrent`), which a nuke re-establishes by emptying the rob. The
refinement needs to know, at retirement, that the value in the head's destination
is one its operation computes from the architectural registers: `ResultsHeld` keeps it
from execution on, `ValidExact` that no one overwrites its sources, `ArchPrecise` that
at the head the sources hold the architectural values. `IInv` is their conjunction.
The module proves lemmas about ranges, tails and `MapsTo`, then one lemma per action that
`IInv` is preserved, with one step per conjunct, then the theorems.
For the refinement, `Retire` and `RetireMonitor` map to a step of `InOrder`, every other
action to a stutter. `CoreRenames` (below) shows each step of the core to be a step of
`RegRename` or a stutter, so these results are about the core too.

### The pipeline (`OoOCore_proofs`)

*Assumptions:* the sizes of the queues are naturals (`SizesAssumption`); the words of the
program decode (`ProgramAssumption`); without an l1d a load takes at least a cycle
(`LatsAssumption`). The last is needed: `execute` stores `curr_cycle + latency` after
`complete` has had its turn in that cycle, and `complete` tests for equality. Option
parsing does not forbid `l1d_latency` 0.

`NoDangling` is about stations, tables and the cache, and what makes it true is where a
deleted operation may still be: `WindowInv` says that every live operation is in
exactly one place of one of three queues (`OnePlace`), that stations hold operations of
the rob that were not issued, each once, in the station of their class (`Waiting`),
tables operations of the rob (`Tables`), the cache issued operations that have not
completed (`InFlight`), that what was not issued has no outcome (`Unissued`), that
`retire`, when it sleeps for a slot or an exception, does so with the completed
oldest operation (`HeadDone`), and that during a recovery rob and cache are already empty
(`Recovery`). `Waiting` and `Tables` are claimed only outside a recovery: with
`flash_restart` 0 the stations do hold deleted operations while `retire` sleeps, and
`NoDangling` allows exactly that, since nobody reads them then. There is one lemma per
action. `HeadDone` is what lets `RetireOne`
delete the head, or the head and its slot, without a pointer left in a station (it was
issued) or in the cache (it is done). `InflightFits` counts: the in-flight list is a
subset of the rob.

`NoOrphanBlock` adds, outside the states where the recovery unblocks, the operation that
will: `AllocOwned` (a sync, a monitor call or a branch with an exception in the rob) and
`FetchOwned` (a monitor call anywhere in the window). The owner survives every action but
its own retirement, which clears the flag or leads to a recovery.

`EveryCompletionIsSeen` uses the order of the threads: `CycleInv` says that an issued
operation has a cycle to complete in or is in the cache with one (`Completes`), that
from the turn after `complete` on nothing completes in this cycle (`NothingNow`), and
after the cache's turn no access ends in it (`NothingOver`). `cycle_count` may then let
the cycle go.

### The renaming of the pipeline (`OoOCore_proofs`)

*Assumptions:* those of the pipeline, and `RegsAssumption`: the instructions of the program
name modelled registers, and each file has at least one physical register for each of its
architectural ones, without which `initialize_rat_mappings` would have nothing to map them
to. How many spare ones there are, down to none, is left open.

`RenameExact` states `SequentialDataflow`, `FreevecExact` and `ValidExact` of the registers the
core itself keeps, for every program and every op class. It is not inductive: nothing in
the core records which table an operation was renamed with. The invariant brings these
tables back. `Chained` says that there is a sequence of tables, one longer than the rob,
that starts with the retired table and ends with the speculative one, such that each
operation took its sources and previous destinations from the table before it and led,
by its destinations, to the table after it. `allocate` extends the sequence at its end,
`retire` drops its beginning (which is why copying the new destinations of the head into the
retired table makes it the next one), a recovery cuts it down to the retired table.
Beside it stand `OneOwner` (no physical register is mapped by the retired table and taken
by an operation in flight, or taken twice), `InUse` (the two in-use vectors) and `ValidBits`.
A register freed at retirement leaves all tables of the rest of the chain, and the
sources of the operations in flight are in those tables (`ChainOwned`): this is
why no reader is left.

The valid bits need to know what was done to an operation. A load that will be replayed
completes without setting the valid bits of its destination, and retirement relies on
them: `MarkInv` says that only loads are marked for a replay (`Marks`), and that the
operation `retire` is about to delete is not (`HeadMarks`), also when it slept between its
test of the mark and the retirement.

That the destinations of an operation are at most two different registers of one file
(`DecodeDst`, `SigsShaped`) is proved of all cases of the decoder, and `find_first_unset` is
shown to return free registers, two different ones when asked twice (`NthFreeIsFree`).
One lemma per action and invariant follows. `HeldIsMapsTo` and its neighbours translate the
chain to the formulation of `RegRename`, which counts writers backwards through the rob.
Sequences are again treated by least counterexamples (`ChainOwned`, `ChainMaps`).

TLC checks `RenameExact`, which the invariant implies; `Chained` quantifies over sequences
of tables and is not something it can enumerate.

### Values in the pipeline (`OoOCore_proofs`, `OoOData_proofs`)

*Assumptions:* those of the renaming; `ByteBitsAssumption`, and `PowersAssumption`, which states
of `2 ^ n`, for the few exponents the word size allows, what an induction would show;
`FieldsAssumption`, that the fields of an instruction fit into it and the target of a direct jump
is an address. *Hypotheses* of the theorems:

- `WordOps` and `FpWords`: the bitwise and floating-point operators, parameters of the model,
  take words to words. They are hypotheses and no assumptions because they quantify over all
  words; TLC found them to hold of samples of the instances.
- `[]StoresAligned`: a store that retires is aligned as its access requires. The code checks
  the alignment of no store; what `sparse_mem` does with a misaligned one depends on the
  host and is not modelled, and `store_op::retire()` looks for younger loads within eight bytes of
  it, which catches every load it overlaps only if it is aligned. Misaligned
  loads, and misaligned stores on a wrong path, are within the theorems. The hypothesis holds
  in every reachable state of the three runs of the core.

`TypesHold` is inductive with `DataInv`: the physical registers and memory hold words, and
an issued load or store of the rob holds an address and data that are words. Each op class is
shown to compute words from words (`WriteTyped`), down to the merging of bytes in the unaligned
accesses; that operands are found at all (`Operands`) is `RenameInv`.

`LoadsFresh` speaks of loads with no older store left in the rob. Its invariant speaks of all
loads, at all times: each word of memory a completed load without a replay mark depends on is
still what the load's result says (`LoadsHeld`), whatever stores are older than it. This
is stronger than what one expects, and it is what the code does: a store that retires marks
each younger completed load within eight bytes of it, whether or not it changes the value
(`EightBytes`: two aligned accesses farther apart share no word), and `execute` reads a
value memory holds at that instant. Two things need care. The result must still be in the
physical register: its register has one owner and no other operation in flight writes it (`OneOwner`).
And host calls write memory without looking for loads: they retire alone, because they raise an
exception when executed (`MonitorsMarked`), are never in a delay slot of an operation
retired with them (`HeadSlot`), and block allocation behind them until they have left
(`Blocks`), so that no load is there to be missed (`MonitorAlone`).

### The path through the pipeline (`OoOData_proofs`)

`StreamHolds` says that the operation at the head of the rob is the one the program executes
next, and the one behind a branch or jump its delay slot. It needs the invariants
of the values (a target is what execution computed from words) and two hypotheses more:

- `PlainSlots`, of the program: no delay slot holds a branch, a jump, a break or a host
  call, which have no defined meaning there, and none is at address 0, which `delay_slot_npc`
  uses for "none".
- `[]LinksAway`: a jalr does not lead to its own delay slot. Unless a jalr has retired before
  and is predicted taken, `fetch()` goes on behind it, and `jump_op::execute` takes it for mispredicted if the target is not the next
  address (`mips_op.cc:794`). With the slot as target it is not mispredicted and the slot is
  executed once, where `execMips` executes it twice. TLC finds `Stream` and `ImplementsIsa`
  violated with such a program; the programs of the runs have none.

`Stream` compares the retired program, `path`, with the head, and the addresses of neighbours in
the window with each other. The invariant, `PathInv`, also knows how each of them was fetched: `InStream` says that there are values `F` and `D` that
`fetch_pc` and `delay_slot_npc` had before each operation of the rob, the decode queue and the
fetch queue was fetched, each operation leading from one pair to the next (`FetchedAt`), that
the first pair is where the program is (`Fits`) and the last pair is what the two registers
are now. `fetch` extends the sequence at its end, `decode` and `allocate` move operations along
it, a retirement drops its beginning, a recovery leaves only its restart, which has to be the
program's next address. `SlotNext` says that an operation retires alone only if no
delay slot goes with it, and `RetirePoint` where a sleeping `retire` will restart.

That a retirement fits needs to know what the execution of a branch may leave behind:
`ControlInv` says that a completed branch has the target of its condition and raised an exception
unless `fetch` went there (`BranchResolved`), that a jump leads to its target unless it raised one,
and that nothing else is mispredicted; a likely branch that is not taken has no slot any more
and raised an exception if the slot was fetched. `TargetsInv` says that a predicted target is
that of the branch it was learned from, which is what lets `fetch` follow `branch_target_map`
without decoding.

### The core renames as `RegRename` does (`OoOData_proofs`)

`CoreRenames` is the refinement that run `core_rename` checks, for every program, op class,
size and latency. An operation of `RegRename` is an address of the program, an entry of its rob
an operation of the core with a phase (`RenameEntry`), and the values an operation may write
are those its class computes from its operands (`EvalOf`). Every step of the pipeline is of one
of the kinds of `StepKinds`; each kind is one action of `RegRename` or leaves what
`RegRename` sees alone (`ExecuteRenames`, `CompleteRenames`, `QuietRenames`, `AllocateRenames`,
`RetireRenames`, `NukeRenames`, `SleepRenames`). A mapped step has to say two things.

- *The other entries do not change.* The phase of a load depends on whether its new registers
  are valid, so an execution or a completion must not touch registers of another
  operation: that is `OneOwner` and `ValidBits` of `RenameInv`.
- *The result is one the instruction has.* Destinations are listed by position in the core
  and by register in `RegRename`; `EntryWrites` turns one into the other, and needs that no
  class names a destination twice. What an op class computes depends on what its fresh
  registers held in one case only, a division by zero (`ValueFresh`); there `EvalOf` allows
  any word, and the divisor is read from the operands. That a loaded value is a word is
  `DataInv`.

*Hypotheses:* those of `TypesHold`, and `Word \subseteq LoadVals`: `LoadVals` is the set of
values that a load may produce in `RegRename`, where memory does not exist. In `core_rename` it holds
just the words that programs load, to keep the sets small.

### The core runs the program (`OoOData_proofs`)

`CoreRunsProgram` puts the pieces together. `RunsProgram` is a state machine over the
retired registers, memory, the place in the program and the count of instructions: while it has
not stopped, a step takes the instruction at that place, reads its sources from the retired
registers and does what its op class does with them (`Runs`); it says nothing of queues,
tables, predictions or time. The theorem is that the core only takes such steps: every
retirement, whatever was fetched, executed out of order, replayed or thrown away before it, is
one, and every other step leaves those variables alone. The argument needs all earlier
invariants and two more.

- `Computed`: an executed operation of the rob is what its class makes of its sources *as
  they are now* (`HasOutcome`). It is executed once and its sources are then valid, registers with a
  set valid bit are not written again while they have an owner, and `Chained` with `OneOwner` keeps them
  owned; so the outcome stays right (`ComputedKept`) although thousands of steps may pass
  before it retires.
- `StopPoint`: after a break or a host call that ends the simulation `retire` is on its way out,
  also through a recovery that sleeps.

At the head of the rob the sources are the retired registers, because the chain of tables
begins with the retired one. A load produces its result when it completes, not from
`Computed`; that its value is still that of memory is `LoadsHeld`. That the place in the program
follows the instruction is `HeadOnPath` with `ControlInv` (`RetireOnPath`, `AdvanceFollows`).
Whether a host call ends the simulation depends on its argument in `$4`; a state of
`RunsProgram` tells by the retired `$4` whether the last instruction did, since a host call writes
`$2` only (`MonitorKeepsArgs`).

*Hypotheses:* those of `StreamHolds`. After a division by zero `Runs` allows any word in `lo` and
`hi`, as the core does.

### Queues (`SimQueue_proofs`)

*Assumptions:* lengths are positive, and `&` with a length minus one masks as
`GranuleAssumption` says. The remainders of the model are first replaced by case distinctions
(`SmallMod`, `At`, `Dist`), in which a slot is linear in the indices. `SlotsExact` is
inductive only with `AtMostGranule`, that is, with the discipline of the callers, which
push after testing `full()`; `RobIdxHeld` only with `SlotsExact`: a push must not land on a
slot that is held. `Refinement` shows that `contents` gains at the end and loses at the
front what `Fifo` says.

### Caches (`SimCache_proofs`)

*Assumptions:* levels have a geometry of positive numbers and the list classes a pool of
as many nodes as ways (`ConfigsAssumption`, `NodesAssumption`), addresses are naturals;
`PowersAssumption` states the laws of powers of two, true of every geometry, because the
provers have no theory of `^`.
`ListsIntact` and `Refinement` have the hypothesis `Wide` (two ways or more in the list
classes), which finding 3 shows to be necessary; `WaysAreExact` and `RecentKept` have none.

`Rep(l, w)` says that the nodes of a list, followed through `next` from `head` and through
`prev` from `tail`, are the sequence `w` without repetition, that exactly they are in use and
that they are counted. Each operation of `mylist` (`push_front`, `pop_back`,
`move_to_head`, `erase`) is shown to take a list that is `w` to one that is
the sequence it should be; then `find`, which walks the nodes, is shown to return the
entry of `w` with that tag (a least counterexample over the walk). From this a level's
access, its sets, and the accesses of all levels follow; the invariant is
`ListInv`, that every set of a list class has such a `w` no longer than the
associativity. The refinement maps a level to the tags of its `w`; the latency of an access
is a sum over the levels that it reached, and both sides reach the same. `WaysAreExact` has its own
invariant, `TreeInv`: the tags of valid ways are different and `allvalid` is exact.

`RecentKept` is the argument behind the tree of `highAssocCache`. Its invariant,
`RecentInv`, gives every recently used line a way (`SparedAt`) and says of each node above
that way: if `findLRU` would turn towards it there, some line used more recently is
on the other side of that node (`Splits`). Using a way points all nodes above it away from it, so
a node that comes to lead to an older line splits it from the new one (`UsedSpared`). Two
ways part at one node only (`SplitsOnce`). A way that `findLRU` would find has every node above it
leading to it, at least *d* of them in a tree of depth *d*, and each needs a more
recent line of its own: so the line is not among the last *d* (`NotFound`). The nodes above a
way are powers of two apart, which is where `PowersAssumption` comes in; the number of ways
need not be a power of two.

### Threads (`GThreads_proofs`)

*Assumptions:* the threads are different and not null, `retire` and `cycle_count` are among
them (`ThreadsAssumption`). `RingInv` says that the list is a ring of some threads `q`: `next`
and `prev` invert each other, `head` alone has no predecessor, and from the running thread,
which is `q[1]`, `get_next` visits `q` and comes back. It holds whatever the pipeline does,
so its preservation needs only three facts, of yielding, terminating and the last thread;
the abstract order is then `q` itself.

### Loop predictor (`Predictors_proofs`)

*Assumptions:* table sizes and addresses are naturals. `LimitWithinRun` relates an entry in
training to the run of its branch. It is inductive with `Placed`: an entry in training is
the one its branch maps to, so two entries never train for the same branch, and a
collision restarts the training at one.

### Model-checked only

- `OoOCore`: the refinement of the interpreter, `ImplementsIsa`. `CoreRunsProgram` is this
  refinement with the op classes of the core for the arithmetic of the interpreter. What is left
  is a statement about single instructions: for the same source values the op class and the case
  of `execMips` write the same values, which `Cosim` checks for all operands at a small
  width.
- `Cosim`: `InterpCheck`, `MemCheck`, `UnalignedLoad`. They compare arithmetic on words, bit by
  bit in part; for words of any size this is nonlinear arithmetic and bitwise operators
  that have no theory in the provers. TLC covers all operands at a small width.
- `Terminates`, `Shutdown`, `WatchdogEnds` and `Learns` are liveness under fairness, which
  is beyond the prover.

## Not modelled, and why

- fetch with the oracle, a variant for experiments that follows the interpreter, and
  statistics;
- in `OoOCore`: cache contents and predictors, which influence only latencies and
  predictions and are arbitrary there; they have modules of their own;
- `gselect`, which has no table, and `perceptron`, which nothing instantiates;
- `sim_list` and the bit vectors, which are sequences and sets in the models; of
  `sparse_mem` the checksums, parity and the read-only mark;
- in the interpreter `lwxc1`, `ldxc1`, `ll`, `sc` and `mfc0`, which the core does not decode,
  and `add`, `addi` and `maddu`, which it decodes but has no case for in `execute`;
- several reservation stations per class (`num_alu_ports` and so on): one per class here;
- the stack switch of gthreads (assembly), the loader, the disassembler, the HTML records,
  saved states, option parsing, microbenchmarks and scripts: sequential I/O without
  state the pipeline reads;
- what host calls 7, 35 and 55 write to memory, and 34 in the interpreter: data of the host.
  In the core 34 clears two words, as 33 does.

## Plan

Done: the survey; all modules of the table above; proofs of every safety property of
`RegRename`, `SimQueue` and `GThreads`, of the window, the renaming, the values and the path
of `OoOCore`, of its refinement of `RegRename` and of what it makes of a program, of the
lists, tags and trees of `SimCache`, and of the loop predictor.

Left: `ImplementsIsa`, on top of `CoreRunsProgram`, from a proof that each op class
and the interpreter agree on one instruction, which `memcosim` checks.
