# Formal models of mini-haywire's guarded command dispatcher

This directory holds TLA+ models of the monitor in `src/src/`, TLC configurations
that model-check them, and TLAPS proofs in five modules. The proofs cover the
dispatcher's three safety invariants, the MMU driver's page-table invariant,
the cache-range loop's coverage, and the kboot allocator's disjointness (when the
requests fit). They also show that the bulk memory helpers implement the atomic
transfer their header promises.
The main subject is the *guarded command-dispatch protocol* of the spec. Two
subsystems the proxy drives are also modelled: kernel boot staging with its
allocator, and the MMU driver. In the protocol, a host sends
a request over the link, `proxy_process` (proxy.c) runs it under a transient
fault guard and replies, and `exc_handler` (exception.c) decides what happens
when the touch faults.

## The system and how its parts interact

| Part | Code | What it does |
|---|---|---|
| Request Dispatcher | `proxy.c` `proxy_process` | saves `exc_guard` in `guard_save`, defaults the reply, runs one case of the switch, then `dsb`/`isb` and `exc_guard = guard_save` |
| Fault Guard | `exception.c` `exc_guard`, `exc_count` | one cell that the dispatcher writes around each access, plus a fault counter |
| Exception Router | `exception.c` `exc_handler` | reboots on Undefined, Instruction Abort and Data Abort, returns on SVC/IRQ/FIQ |
| Memory helpers | `utils.h` read/write/set/clear/mask/writeread, `utils.c` memsetN/memcpyN | the hardware touches the cases make |
| Cache range ops | `memory.c` `CACHE_RANGE_OP` | the by-address cache maintenance loops |
| MMU driver | `memory.c` `mmu_init`, `mmu_add_mapping`, `mmu_shutdown`, `mmu_disable`, `mmu_restore` | builds the 1 MB section table `__pgtables`, installs it, and switches translation and caches |
| Kernel boot staging | `kboot.c` `kboot_set_chosen`, `kboot_set_initrd`, `kboot_prepare_dt` | collects boot parameters and builds the next stage's device tree in memory taken from the top of RAM |
| Top-of-memory allocator | `utils.c` `top_of_memory_alloc` | carves blocks off the end of `mem_size`, with a guard page on the first call |
| Delay | `utils.c` `udelay`, `timer.c` `timer_init`, `get_ticks` | a busy wait on the timer |
| Hand-off | `main.c` `mini_main`, `kboot.c` `kboot_boot` | after the proxy loop returns, jump to `next_stage.entry` or panic |
| Transport and host | uartproxy (not in `src/`) | delivers one request and waits for its reply |

One thread serves the link (spec §5). A request runs to its reply, or to a
reboot (`reboot()`, which resets every static variable except memory), or it
leaves the loop (`P_EXIT`, `P_KBOOT_BOOT`).

## Modules

* **`Proxy.tla`** models the dispatcher, the guard cell, the exception handler,
  the hand-off, and the host as its environment.
  * **State.** `excGuard` and `excCount` are `exc_guard` and `exc_count`; `guardSave` is
    the local `guard_save`; `reply` is the `ProxyReply`. `pc` is where control is: idle, at the
    access, in a bulk loop, in the handler, in udelay, at the tail, out of the loop, or
    jumped. `mem` is a few 2-bit cells, some unmapped. `cursor` is the loop index `i`
    of the bulk helpers, and `nextEntry` stands for `next_stage.entry != NULL`.
  * **Actions.** `Dispatch` is everything `proxy_process` does up to the hardware
    touch: the save, the reply defaults, the status, and the guard of the case; the
    guard-management cases and `P_EXIT`/`P_KBOOT_BOOT` complete in it.
    * `Touch`, `TouchFault`, `CallReturn` and `CallTrap` model the single access.
    * `BulkStep`, `BulkFault` and `BulkEnd` model the memset/memcpy loop.
    * `ExcHandler` is `exc_handler`, `Delay` is `udelay`, and `Complete` is the tail of `proxy_process`.
    * `Handoff` and `NothingToDo` are the end of `mini_main`.
    * `HostReceive` is the host taking the reply. It keeps ghost state: the baseline guard it set, and the value it was told a cell holds.
  * **Grouping.** Opcodes are grouped by case group, and widths are merged.
  * **Abstracted cases.** Cases that only drive subsystems that are not modelled
    (baud rate, MMU, decoders, SMP, allocation, kboot set/prepare, PMGR, iodev) are
    one step with no effect on the modelled state.
* **`MemOps.tla`** models one call of `memset8/16/32/64` or `memcpy8/16/32/64`,
  byte by byte. Each initial byte holds its own address, so every byte written can be traced to its source.
  `Step` is one iteration of the unit loop.
* **`BulkTransfer.tla`** is the abstract specification of the same helpers, taken
  from the comment above their declarations in `utils.h`. A call is one atomic
  `Transfer` step. It changes no byte outside `dst .. dst + floor(size/w)*w - 1`.
  Unless a copy's source and destination overlap, that range then holds the
  fill pattern or the old source bytes. `MemOps` instantiates it as `Bulk`:
  * `call` maps to itself;
  * `done` maps to `Finished`, which says that the loop index has reached its bound;
  * the abstract `mem` is the initial memory until the loop has finished, and
    the real memory after that.

  The property `BulkRefinement == Bulk!Spec` says that the unit loop, seen
  from outside, is the promised atomic transfer.
* **`CacheRange.tla`** models one call of a `CACHE_RANGE_OP` loop. It records the cache lines that a `cacheop` was issued for.
* **`Kboot.tla`** models the kboot opcodes over the allocator, in pages, with u32
  wrap-around at `Wrap` pages.
  * **State.** `memSize` and `guardInserted` are the allocator's statics; `chosen`
    is the `chosen[]` table; `initrd`, `dt` and `logbuf` are the blocks kboot holds;
    `ramMap` is the `/memory` reg that `dt_set_memory` writes; `allocs` and `freed`
    record what was allocated and what was passed to `free`.
  * **Actions.** `SetChosen`, `SetInitrd` and `PrepareDt` are the three handlers.
    `PrepareDt` takes three outcomes: the tree opens, `fdt_open_into` fails, or a
    later step fails. `TopAlloc` is `top_of_memory_alloc`.
* **`Mmu.tla`** models the MMU driver over a write-back data cache.
  * **State.** `table` is `__pgtables` as the CPU sees it; `walked` is the copy in
    memory that the table walker reads. A store made while `SCTLR.C` is set reaches
    `walked` only when its line is cleaned or evicted. `sctlr` is the set of SCTLR
    bits the code touches; `ttbr` says whose table TTBR0 points to; and `dirty`
    stands for other data the host wrote through the cache.
  * **Actions.** `mmu_init` is one action per step, in the code's order: early
    return or memset, one range per step, DRAM, TTBR0, clean, and enable. It runs
    at boot (`mini_main`) and on `P_MMU_INIT`. `MmuShutdown`, `MmuDisable` and
    `MmuRestore` are the other three functions. `Evict` is the cache writing a
    line back by itself.
  * **The host.** The host restores what its last `P_MMU_DISABLE` returned, as the
    spec's disable/restore bracket intends.
* **`Proxy_proofs.tla`, `Mmu_proofs.tla`, `MemOps_proofs.tla` and
  `CacheRange_proofs.tla`** hold the TLAPS proofs about these modules.
* **`MC_*.tla`** give the constants for TLC.

## Runs

| Run | Expect | Checks | Shows |
|---|---|---|---|
| `proxy_core` (`MC_Proxy.cfg`) | pass | `TypeOK`, `GuardRestored`, `ReadAfterWrite` | The guard always comes back to the host's baseline, and a READ after an OK write returns the value the host knows (29,644 states). |
| `proxy_sleep_fallthrough` | violation | `BadcmdNoSideEffect` | `P_SLEEP`/`P_EL3_CALL` answer BADCMD and still write memory (proxy.c:85–90, no `break`). |
| `proxy_guard_ignored` | violation | `GuardedFaultResumes` | A Data Abort under SKIP/MARK/RETURN reboots: `exc_handler` never reads `exc_guard` (spec §4.3 says it resumes). |
| `memops` | pass | `TypeOK`, `TouchesOnlyTruncated`, `BulkRefinement` | The helpers other than memcpy8 never write outside the first `floor(size/w)*w` bytes, and each call implements `BulkTransfer` (1,362 states). |
| `memops_memcpy8` | violation | `TouchesOnlyTruncated` | `memcpy8` uses `u16` pointers and copies `2*size` bytes. |
| `cache_range` | pass | `TypeOK`, `LinesAtExit` | When the loop ends it has operated only on lines of the range, on all of them but at most the last, and on every one when `addr` is line-aligned (300 states). |
| `cache_range_unaligned` | violation | `AllRangeLines` | With an unaligned start it misses the last line of the range. |
| `kboot` | pass | `TypeOK`, `AllocsDisjoint`, `ChosenWellFormed` | Any four kboot requests within what memory allows: the blocks never overlap each other, the guard page or usable RAM, and `chosen[]` stays a duplicate-free prefix (8,010 states). |
| `kboot_free_top` | violation | `FreeOnlyHeap` | A second `P_KBOOT_PREPARE_DT` passes the `top_of_memory_alloc` tree buffer to `free` (kboot.c:601). |
| `kboot_fdt_region` | violation | `RamMapCoversDt` | `dt_set_memory` says it adds the tree's buffer to the RAM map but stores the initrd region instead (kboot.c:343). |
| `mmu` | pass | `TypeOK`, `LiveTableMapsIdentity`, `CleanBeforeCacheOff` | From every entry SCTLR and in any order of the MMU opcodes: once `mmu_init` has returned with translation on, the table in memory maps DRAM (cacheable) and arm-io (device) to themselves, and no path that clears `SCTLR.C` leaves dirty lines (2,252 states). |
| `mmu_ttbr_before_flush` | violation | `MonitorMapped` | If the previous stage left the MMU and D-cache on, `mmu_init` points TTBR0 at `__pgtables` (memory.c:96) before it cleans the table (line 100). A walk in between finds the monitor's own DRAM unmapped. |

Two more failures are listed as hazards in `PROJECT.json`. The first is
stated in the modules; the second is `AllocsDisjoint` on a smaller instance:

* `NoNullDeref` fails in two requests: `kboot_set_chosen(name, NULL)`, then
  `P_KBOOT_PREPARE_DT`, which calls `strlen(NULL)` (kboot.c:195).
* `AllocsDisjoint` fails with 5 pages of RAM. An allocation larger than what is
  left wraps the u32 `mem_size` (utils.c:168).

The action properties `BadcmdNoSideEffect` and `GuardedFaultResumes` state what
the spec promises. The model of the code breaks them, so they are checked only
in the violation runs. Each is listed as a finding in `PROJECT.json`.

### Bounds

**Proxy.** The constants are:

* NAddr = 2, with cell 0 mapped and cell 1 unmapped. This gives both a fault and a successful access to the same kind of request.
* GuardArgs = {0, 1, 258}. These are off, SKIP, and MARK|SILENT (0x102). `GuardType` strips the flag, as `GUARD_TYPE_MASK` does.
* MaxUnits = 2. This allows a bulk request that writes one unit and then faults on the next.

Words are 2 bits, which is enough to tell set, clear, mask and writeread apart.

The state space is closed: there are no counters, `cursor` is bounded by the
request, and a reboot returns to the initial control state.

**MemOps.** There are 48 bytes, the offsets are 0 and 12, and sizes go from 0 to 17. This covers:

* sizes below, at and above each unit width;
* overlapping and disjoint copies;
* memcpy8's overrun.

**Kboot.** There are 20 pages of RAM at page 2 of a 32-page address space, 2 chosen
slots, 3 names and 1 value (plus NULL), initrds of 0 or 2 pages, trees of 1 or 2
pages, and at most 4 requests. This is enough to fill the table, replace a
value, and prepare twice. The sizes fit in RAM, so the run checks how the
allocator lays blocks out, not its missing bound.

**Mmu.** There are 6 sections: two one-section arm-io ranges, then 3 sections
of DRAM that `ALIGN_UP` rounds to 4 (`Align` = 2). Four entry SCTLR values are
used: all off, cache only, the previous stage's MMU with cache, and MMU with
alignment checking. The ADT may or may not have `/arm-io` ranges. The 4096-entry
bound of `__pgtables` is stated as `MmuAssumption` and not exercised: no range
reaches past the table.

**CacheRange.** The line size is 4, starts go from 0 to 11, and lengths from 0 to 9. This covers aligned and unaligned starts, and ranges of one to three lines.

### Fairness and deadlock

No run checks liveness, so no fairness is assumed. The only request that can
hang is `P_UDELAY` with no timer: `get_ticks` then returns 0 for ever. The
code says so at timer.c:53 ("report because caller may get stuck"). With a timer,
every dispatcher path is acyclic, so a property "every request ends" would hold
by the shape of the model alone. `CHECK_DEADLOCK FALSE` is set for the proxy
runs because the model really stops after the jump to the next stage, which
ends the monitor.

## Proofs (checked by `tlapm`)

Every theorem below is proved for all values of the constants that satisfy the
ASSUMEs of its module. The temporal steps use the PTL backend. Each inductive
invariant was checked with TLC as an invariant of the module's MC instance
before its proof was written.

### `Proxy_proofs.tla`

The following hold for every value of the constants that satisfies the ASSUMEs of
`Proxy`: at least one cell, `Mapped ⊆ Addr`, `GuardArgs ⊆ Nat`, `MaxUnits ∈ Nat`,
and a Boolean `TimerPresent`.

* **`TypeCorrect`: `Spec => []TypeOK`.** `TypeOK` is not inductive alone. The
  strengthening `TypeInv` adds `Consistent`:
  * the reply echoes the request's opcode;
  * `exc_count` stays 0, because nothing in the code increments it;
  * each control point carries a request of the matching case group. For example, `pc = "bulk"` implies memset or memcpy.

  The proof has one step per action. It rests on these lemmas:
  * `RequestFields`: what the fields of a request are, by opcode;
  * `NewValueInWord` and `BitOpsInWord`: set, clear, mask and writeread stay in a word;
  * `RebootTypeInv`: a reboot is well typed from any state;
  * `NoWriteType`.
* **`GuardRestoration`: `Spec => []GuardRestored`.** While a request runs,
  `exc_guard` holds the transient guard, so the invariant must say what brings
  the baseline back. The inductive invariant `GuardInv` is `TypeInv` plus these facts:
  1. during a request, `guard_save` equals the baseline the host will know once it takes the reply: the request's argument for `P_SET_EXC_GUARD`, otherwise the host's current baseline;
  2. a reply is on the link only when the dispatcher is idle or has left the loop;
  3. the exit paths never change the guard.

  With these, `Complete` (`exc_guard = guard_save`) and `HostReceive` (the host
  learns the new baseline) each preserve the invariant. Every other path reboots
  to GUARD_OFF. TLC checked `GuardInv` as an invariant of `MC_Proxy` before the proof was written.
* **`ReadAfterWriteHolds`: `Spec => []ReadAfterWrite`.** The inductive
  invariant `ReadInv` is `GuardInv` plus `HostFacts`:
  * at `pc = "trap"`, the trap taken is a data abort unless the request is `P_CALL`;
  * once a mark-group request has been answered, its `retval` is the cell's value;
  * after an OK `P_WRITE`, the cell holds the written value;
  * what the host last learned of a cell (`hostKnows`) is still true, unless a
    request that can write memory is in flight.

  With these, `HostReceive` can record a fresh fact, and `Dispatch` of a READ
  returns the remembered value. Every writer first invalidates what the host
  knows. `Writers` names the opcodes that may change memory.

### `Mmu_proofs.tla`

The constants satisfy `MmuAssumption`: the ranges and the rounded DRAM span lie
within the table, and `Align > 0`.

* **`MmuTypeCorrect`: `Spec => []TypeOK`.** It is proved through `CacheInv`,
  which is `TypeOK` plus `CInSaved`: while the data cache is on, a saved SCTLR
  value also has C set. Without `CInSaved`, `MmuRestore` could not be shown to
  keep the cache bits consistent.
* **`CacheOffClean`: `Spec => CleanBeforeCacheOff`.** Every step that clears
  `SCTLR.C` leaves no dirty line, and leaves memory equal to the table. The
  step lemma `CacheOffStepHolds` is proved from `CacheInv`.
* **`LiveTableCorrect`: `IoOutsideDram => (Spec => []LiveTableMapsIdentity)`.**
  The hypothesis is that no arm-io range lies in the rounded-up DRAM span. The
  ADT gives this; `MC_Mmu` states it as an ASSUME, and TLC evaluates it. Without
  the hypothesis, the DRAM mapping would overwrite such a range as cacheable.
  The inductive invariant `MmuInv` adds `TableFacts` to `CacheInv`. It says how
  far `mmu_init` has built the table at each of its steps:
  * the ranges before `ri` are mapped;
  * after the DRAM step, the whole table is good;
  * from the enable step on, memory equals the table.

  The lemmas it rests on are `AlignUpCovers` (`ALIGN_UP` never rounds down),
  `RangeStepDone`, `DramStepGood`, and `AddMappingType`.

### `MemOps_proofs.tla`

* **`LoopCorrect`: `NoMemcpy8 => (Spec => []LoopInv)`.** After i units, exactly
  the bytes `dst .. dst + i*w - 1` have changed. Each holds its fill byte, or its
  source byte when source and destination are disjoint.
* **`BulkImplemented`: `NoMemcpy8 => (Spec => BulkRefinement)`.** The initial
  states map to initial states of `BulkTransfer`. A step that does not finish
  the loop maps to a stutter. The last step maps to `Transfer`, by `LoopInv` in
  the next state.

The lemmas it rests on:

* `UnitOffset`: `(n*w + r) % w = r`;
* `WholeUnits`;
* `UnitsCoverTruncated`: the loop bound times the unit size is the truncated size;
* `LoopInvTouches`: `LoopInv` implies `TouchesOnlyTruncated`;
* `UnitCountBound`: the loop bound is at most `size \div w`.

Two more theorems use these lemmas:

* **`TouchesOnlyTruncatedHolds`: `NoMemcpy8 => (Spec => []TouchesOnlyTruncated)`.**
  This follows from `LoopCorrect` and `LoopInvTouches`.
* **`MemOpsTypeCorrect`: `Spec => []TypeOK`.** This also holds for memcpy8. The
  strengthening `TypeInv` adds that the call lies in memory and that `i`
  never passes the loop bound.

The hypothesis `NoMemcpy8` excludes memcpy8, which the run `memops_memcpy8`
shows breaks the promise.

### `CacheRange_proofs.tla`

* **`LinesAtExitHolds`: `Spec => []LinesAtExit`.** This holds for every line
  size and every bound on the arguments. The inductive invariant `RangeInv`
  describes the loop exactly:
  * `p` keeps `addr`'s offset within a line;
  * the lines done are `LineOf(addr) .. LineOf(p) - 1`;
  * an empty range never moves `p`.

  At the exit `p` lies in `end .. end + LineSize - 1`, so `LineOf(p) - 1` is
  the range's last line or the one before it. When `addr`, and so `p`, is
  aligned, it is the last line (`RangeInvExit`). The lemmas on division by a
  symbolic line size are proved from scratch:
  * `LineDivMod`;
  * `LineUnique` (the line and offset of `a*LineSize + b`);
  * `LineShift` (adding one line size adds one line);
  * `LineBelowAligned`;
  * `LineOfMonotone`.
* **`CacheRangeTypeCorrect`: `Spec => []TypeOK`.** It uses the same inductive invariant.

### `Kboot_proofs.tla`

The proofs hold for every value of the constants that satisfies `KbootAssumption`.

* **`KbootTypeCorrect`: `Spec => []TypeOK`.** The proof goes through
  `KInv == TypeOK /\ ChosenWellFormed`. The lemma `TopAllocType` shows that
  `top_of_memory_alloc` keeps `mem_size` and its result in `0 .. 2^32-1`,
  including when the subtraction wraps.
* **`ChosenWellFormedHolds`: `Spec => []ChosenWellFormed`.** The names in
  `chosen_params` form a duplicate-free prefix. `FirstSlotFacts` says that
  `kboot_set_chosen` writes the first slot whose name matches or is empty.
* **`AllocsDisjointHolds`: `FitsInMemory(k) => (Spec => []AllocsDisjoint)`,
  for every `k \in Nat`.** `FitsInMemory(k)` says:
  * RAM ends below 2^32;
  * every initrd size, and every device-tree size plus the extra pages, is at most `k`;
  * `MaxReqs * k + 1 <= MemPages`.

  The inductive invariant `AllocInv(k)` adds two facts to `KInv`:
  * `Geometry`: `mem_size` only shrinks, the guard page sits just below the
    first block, and every block lies between it and the end of RAM, disjoint
    from the others;
  * `Budget(k)`: the pages left cover the remaining requests and the guard page.

  `Budget` is what rules out the u32 underflow at utils.c:168. The allocator
  does not check it, so the theorem must assume it. With 5 pages of RAM
  instead of `MC_Kboot`'s 20, TLC finds `AllocsDisjoint` violated. `MC_Kboot` satisfies
  `FitsInMemory(4)`, so the hypothesis is not vacuous. The main lemmas are
  `TopAllocFits` (the block lands right below the guard), `AllocKeepsGeometry`
  and `BudgetArith`.

### What stays with TLC

* **Liveness.** None is checked (see Fairness and deadlock). TLAPS could not
  prove liveness under fairness or `ENABLED` in any case.
* **Kboot beyond `FitsInMemory`.** `AllocsDisjoint` does not hold when the
  requests exceed memory, because the allocator has no bound (utils.c:168). TLC
  shows the failure on a 5-page instance. The theorem covers only the case where the requests fit.
* **The violation runs.** What they show is a counterexample, not a theorem.

## What is not modelled

* **Code that is never called.** `spin_lock`/`spin_unlock` (only `spin_init` is
  called, and spec §5 assumes a single core), `poll32`/`poll64`, and
  `firmware_iboot_in_range`.
* **Subsystems.** The
  set/way cache operations, the MMU's access-permission bits, and the device-tree
  library calls themselves. `Kboot` reduces the tree to the RAM map it receives.
* **Hardware and output.** USB, clocks, watchdog, firmware version parsing,
  startup and CPU tweaks. These are register programming with no protocol state.
  The diagnostic printing in `exc_handler` is output only.
* **Timer values and access widths.** The timer's tick value is not modelled; only
  whether it advances. The 8/16/32/64-bit widths of single accesses are merged;
  MemOps models the widths of the bulk helpers.
