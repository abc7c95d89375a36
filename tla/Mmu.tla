-------------------------------- MODULE Mmu --------------------------------
(***************************************************************************)
(* The short-descriptor MMU driver of src/src/memory.c: mmu_init builds    *)
(* the one-level section table __pgtables (1 MB sections) from the         *)
(* /arm-io "ranges" and the DRAM of the boot arguments, installs it in     *)
(* TTBR0 and turns translation on; mmu_shutdown, mmu_disable and           *)
(* mmu_restore write SCTLR.  mini_main calls mmu_init at boot and          *)
(* mmu_shutdown before the jump to the next stage; the proxy opcodes       *)
(* P_MMU_INIT/SHUTDOWN/DISABLE/RESTORE call them at any time in between.   *)
(*                                                                         *)
(* Addresses are counted in sections.  The data cache is write-back: a     *)
(* store made while SCTLR.C is set reaches memory only when its line is    *)
(* cleaned or evicted.  "table" is the CPU's view of __pgtables, "walked"  *)
(* the copy in memory that the table walker reads, and "dirty" stands for  *)
(* other data the host wrote through the cache.  SCTLR is the set of its   *)
(* bits the code touches.                                                  *)
(***************************************************************************)
EXTENDS Naturals, Sequences

CONSTANTS
    NSec,        \* sections the table describes (4096 in the code)
    IoRanges,    \* the /arm-io ranges, as a sequence of [bus, size]
    PhysBase,    \* cur_boot_args.phys_base, in sections
    MemSize,     \* cur_boot_args.mem_size, in sections
    Align,       \* BIT(24) of ALIGN_UP, in sections
    AdtCases,    \* whether adt_path_offset/adt_getprop find /arm-io ranges
    InitSctlr    \* the SCTLR values the previous stage may leave

Bits == {"M", "A", "C", "I", "Z"}

(* ALIGN_UP(mem_size, BIT(24)).                                            *)
AlignUp(n) == ((n + Align - 1) \div Align) * Align

ASSUME MmuAssumption ==
    /\ NSec \in Nat \ {0}
    /\ IoRanges \in Seq([bus : Nat, size : Nat])
    /\ \A i \in 1 .. Len(IoRanges) :
           IoRanges[i].bus + IoRanges[i].size <= NSec
    /\ PhysBase \in Nat /\ MemSize \in Nat /\ Align \in Nat \ {0}
    /\ PhysBase + AlignUp(MemSize) <= NSec
    /\ AdtCases \subseteq BOOLEAN /\ AdtCases # {}
    /\ InitSctlr \subseteq SUBSET Bits /\ InitSctlr # {}

Sec == 0 .. NSec - 1
(* A first-level descriptor: a zero word faults, a section maps one      *)
(* section to the output section "out", cacheable or as a device.         *)
Entry == [valid : BOOLEAN, out : Sec, cacheable : BOOLEAN]
Fault == [valid |-> FALSE, out |-> 0, cacheable |-> FALSE]
Section(out, cacheable) == [valid |-> TRUE, out |-> out, cacheable |-> cacheable]
NoSaved == {"none"}          \* not a set of SCTLR bits

VARIABLES
    adtOk,    \* the ADT has /arm-io with a ranges property
    sctlr,    \* SCTLR bits that are set
    ttbr,     \* the table TTBR0 points to: the previous stage's, or ours
    table,    \* __pgtables as the CPU sees it
    walked,   \* __pgtables as memory holds it
    dirty,    \* other data is in the cache and not in memory
    initPc,   \* where mmu_init is
    ri,       \* the range loop counter of mmu_init
    saved,    \* the value the host got from its last P_MMU_DISABLE
    phase     \* mini_main: booting, serving the proxy, or handed off

vars == <<adtOk, sctlr, ttbr, table, walked, dirty, initPc, ri, saved, phase>>

TypeOK ==
    /\ adtOk \in BOOLEAN
    /\ sctlr \subseteq Bits
    /\ ttbr \in {"previous", "pgtables"}
    /\ table \in [Sec -> Entry]
    /\ walked \in [Sec -> Entry]
    /\ dirty \in BOOLEAN
    /\ initPc \in {"idle", "start", "ranges", "dram", "ttbr", "flush", "enable"}
    /\ ri \in 1 .. Len(IoRanges) + 1
    /\ saved \in (SUBSET Bits) \cup {NoSaved}
    /\ phase \in {"boot", "proxy", "done"}

(* The program starts in mini_main, __pgtables in BSS, the cache as the    *)
(* previous stage left it.                                                 *)
Init ==
    /\ adtOk \in AdtCases
    /\ sctlr \in InitSctlr
    /\ ttbr = "previous"
    /\ table = [s \in Sec |-> Fault]
    /\ walked = table
    /\ dirty \in IF "C" \in sctlr THEN BOOLEAN ELSE {FALSE}
    /\ initPc = "start"
    /\ ri = 1
    /\ saved = NoSaved
    /\ phase = "boot"

(* A store to the table: it reaches memory now only if the cache is off.  *)
StoreTable(t) ==
    /\ table' = t
    /\ walked' = IF "C" \in sctlr THEN walked ELSE t

(* dcsw_op_all(DCSW_OP_DCCISW): clean and invalidate the whole cache.      *)
CleanAll ==
    /\ walked' = table
    /\ dirty' = FALSE

(* mmu_add_mapping(from, from, size, AP_RW_ALL, attr): section from_off+k  *)
(* gets output address to_off+k for k < size.                              *)
MmuAddMappingNoStep(from, size, cacheable) ==
    StoreTable([s \in Sec |->
                  IF s \in from .. from + size - 1
                    THEN Section(from, cacheable)
                    ELSE table[s]])
MmuAddMappingPastEnd(from, size, cacheable) ==
    StoreTable([s \in Sec \cup (from .. from + size) |->
                  IF s \in from .. from + size
                    THEN Section(s, cacheable)
                    ELSE table[s]])
MmuAddMapping(from, size, cacheable) ==
    StoreTable([s \in Sec |->
                  IF s \in from .. from + size - 1
                    THEN Section(s, cacheable)
                    ELSE table[s]])

Idle == initPc = "idle"

(* mmu_init entry: return early without /arm-io ranges, otherwise memset  *)
(* __pgtables to 0.                                                        *)
MmuInitStart ==
    /\ initPc = "start"
    /\ IF adtOk
         THEN /\ StoreTable([s \in Sec |-> Fault])
              /\ initPc' = "ranges"
              /\ UNCHANGED phase
         ELSE /\ initPc' = "idle"
              /\ phase' = IF phase = "boot" THEN "proxy" ELSE phase
              /\ UNCHANGED <<table, walked>>
    /\ ri' = 1
    /\ UNCHANGED <<adtOk, sctlr, ttbr, dirty, saved>>

(* One iteration of while (range_cnt--): map bus..bus+size as device.     *)
MmuInitRange ==
    /\ initPc = "ranges"
    /\ IF ri <= Len(IoRanges)
         THEN /\ MmuAddMapping(IoRanges[ri].bus, IoRanges[ri].size, FALSE)
              /\ ri' = ri + 1
              /\ UNCHANGED initPc
         ELSE /\ initPc' = "dram"
              /\ UNCHANGED <<table, walked, ri>>
    /\ UNCHANGED <<adtOk, sctlr, ttbr, dirty, saved, phase>>

(* Map DRAM, rounded up to 16 MB, cacheable.                               *)
MmuInitDram ==
    /\ initPc = "dram"
    /\ MmuAddMapping(PhysBase, AlignUp(MemSize), TRUE)
    /\ initPc' = "ttbr"
    /\ UNCHANGED <<adtOk, sctlr, ttbr, dirty, ri, saved, phase>>

(* write_dacr, write_ttbr0((u32)__pgtables), write_ttbcr(0).               *)
MmuInitTtbr ==
    /\ initPc = "ttbr"
    /\ ttbr' = "pgtables"
    /\ initPc' = "flush"
    /\ UNCHANGED <<adtOk, sctlr, table, walked, dirty, ri, saved, phase>>

(* dc_cvac_range(__pgtables, sizeof(__pgtables)): clean the table.         *)
MmuInitFlushSkip ==
    /\ initPc = "flush"
    /\ initPc' = "enable"
    /\ UNCHANGED <<adtOk, sctlr, ttbr, table, walked, dirty, ri, saved, phase>>
MmuInitFlush ==
    /\ initPc = "flush"
    /\ walked' = table
    /\ initPc' = "enable"
    /\ UNCHANGED <<adtOk, sctlr, ttbr, table, dirty, ri, saved, phase>>

(* sctlr2 = (sctlr & ~A) | Z | M | I; write_sctlr(sctlr2).                 *)
MmuInitEnable ==
    /\ initPc = "enable"
    /\ sctlr' = (sctlr \ {"A"}) \cup {"Z", "M", "I"}
    /\ initPc' = "idle"
    /\ phase' = IF phase = "boot" THEN "proxy" ELSE phase
    /\ UNCHANGED <<adtOk, ttbr, table, walked, dirty, ri, saved>>

(* P_MMU_INIT.                                                             *)
ProxyMmuInit ==
    /\ phase = "proxy" /\ Idle
    /\ initPc' = "start"
    /\ UNCHANGED <<adtOk, sctlr, ttbr, table, walked, dirty, ri, saved, phase>>

(* mmu_shutdown: clean and invalidate, then clear A, I, C and M; from      *)
(* P_MMU_SHUTDOWN, or from mini_main before the jump (phase "done").       *)
MmuShutdown ==
    /\ phase = "proxy" /\ Idle
    /\ CleanAll
    /\ sctlr' = sctlr \ {"A", "I", "C", "M"}
    /\ phase' \in {"proxy", "done"}
    /\ UNCHANGED <<adtOk, ttbr, table, initPc, ri, saved>>

(* mmu_disable: return SCTLR as it was; if M was set, clean and           *)
(* invalidate first and clear I, C and M.                                  *)
MmuDisableNoClean ==
    /\ phase = "proxy" /\ Idle
    /\ saved' = sctlr
    /\ sctlr' = IF "M" \in sctlr THEN sctlr \ {"I", "C", "M"} ELSE sctlr
    /\ UNCHANGED <<adtOk, ttbr, table, walked, dirty, initPc, ri, phase>>
MmuDisable ==
    /\ phase = "proxy" /\ Idle
    /\ saved' = sctlr
    /\ IF "M" \in sctlr
         THEN /\ CleanAll
              /\ sctlr' = sctlr \ {"I", "C", "M"}
         ELSE UNCHANGED <<sctlr, walked, dirty>>
    /\ UNCHANGED <<adtOk, ttbr, table, initPc, ri, phase>>

(* mmu_restore(state): write_sctlr(state), with the host passing back what *)
(* P_MMU_DISABLE returned, as the disable/restore bracket intends.         *)
MmuRestore ==
    /\ phase = "proxy" /\ Idle
    /\ saved # NoSaved
    /\ sctlr' = saved
    /\ UNCHANGED <<adtOk, ttbr, table, walked, dirty, initPc, ri, saved, phase>>

(* A host store through the proxy (P_WRITE*, P_MEMSET*, ...).              *)
HostWrite ==
    /\ phase = "proxy" /\ Idle
    /\ dirty' = ("C" \in sctlr \/ dirty)
    /\ UNCHANGED <<adtOk, sctlr, ttbr, table, walked, initPc, ri, saved, phase>>

(* The cache writes a dirty line back on its own, at any time.            *)
Evict ==
    /\ phase # "done"
    /\ \/ \E s \in Sec :
             /\ walked[s] # table[s]
             /\ walked' = [walked EXCEPT ![s] = table[s]]
             /\ UNCHANGED dirty
       \/ /\ dirty
          /\ dirty' = FALSE
          /\ UNCHANGED walked
    /\ UNCHANGED <<adtOk, sctlr, ttbr, table, initPc, ri, saved, phase>>

Next ==
    \/ MmuInitStart \/ MmuInitRange \/ MmuInitDram \/ MmuInitTtbr
    \/ MmuInitFlush \/ MmuInitEnable
    \/ ProxyMmuInit \/ MmuShutdown \/ MmuDisable \/ MmuRestore
    \/ HostWrite \/ Evict

(* mini_main ends in the next stage: a handed-off state is final.          *)
Spec == Init /\ [][Next]_vars
-----------------------------------------------------------------------------
RangeSecs(i) == IoRanges[i].bus .. IoRanges[i].bus + IoRanges[i].size - 1
IoSecs == UNION {RangeSecs(i) : i \in 1 .. Len(IoRanges)}
DramSecs == PhysBase .. PhysBase + MemSize - 1
DramSpan == PhysBase .. PhysBase + AlignUp(MemSize) - 1

(* The ADT places no arm-io range inside the rounded-up DRAM span; where   *)
(* one did, mmu_init's DRAM mapping would overwrite it as cacheable.       *)
IoOutsideDram == \A i \in 1 .. Len(IoRanges) : RangeSecs(i) \cap DramSpan = {}

(* The table mmu_init promises (its last printf: "Running with caches and  *)
(* translation enabled"): once it has returned with translation on, a walk *)
(* of the table in memory maps every DRAM and arm-io section to itself,    *)
(* DRAM cacheable and the devices not.                                     *)
LiveTableMapsIdentity ==
    ("M" \in sctlr /\ ttbr = "pgtables" /\ Idle) =>
        /\ \A s \in DramSecs : walked[s] = Section(s, TRUE)
        /\ \A s \in IoSecs : walked[s] = Section(s, FALSE)

(* Turning the data cache off (mmu_shutdown, mmu_disable, mmu_restore)     *)
(* never strands data in it: every line is in memory once C is clear.      *)
CleanBeforeCacheOff ==
    [][("C" \in sctlr /\ "C" \notin sctlr') => (~dirty' /\ walked' = table')]_vars

(* Whenever translation is on through __pgtables, also in the middle of    *)
(* mmu_init, a table walk finds the monitor's own DRAM mapped to itself:   *)
(* the code, stack and heap the CPU is using never become unmapped.        *)
MonitorMapped ==
    ("M" \in sctlr /\ ttbr = "pgtables") =>
        \A s \in DramSecs : walked[s] = Section(s, TRUE)
=============================================================================
