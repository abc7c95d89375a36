----------------------------- MODULE Mmu_proofs -----------------------------
(***************************************************************************)
(* Proofs about the MMU driver model: the table mmu_init leaves behind is   *)
(* the identity map it promises, for every table size, range list and      *)
(* DRAM layout that keeps the arm-io ranges out of the rounded DRAM span;  *)
(* and no SCTLR write that turns the data cache off strands dirty lines.   *)
(***************************************************************************)
EXTENDS Mmu, SequenceTheorems, TLAPS

(* The table maps every section of the ranges 1 .. n to itself as a       *)
(* device.                                                                 *)
RangesDone(t, n) ==
    \A i \in 1 .. n : \A s \in RangeSecs(i) : t[s] = Section(s, FALSE)

(* The finished table: DRAM cacheable, every arm-io range a device, all   *)
(* identity.                                                               *)
TableGood(t) ==
    /\ \A s \in DramSecs : t[s] = Section(s, TRUE)
    /\ RangesDone(t, Len(IoRanges))

(* What makes LiveTableMapsIdentity inductive: mmu_init builds the table   *)
(* range by range, TTBR0 is ours only once a table with ranges has been    *)
(* built, and from the clean on memory holds the table the CPU sees.       *)
TableFacts ==
    /\ ttbr = "pgtables" => adtOk
    /\ initPc \notin {"idle", "start"} => adtOk
    /\ initPc \in {"ranges", "dram"} => RangesDone(table, ri - 1)
    /\ initPc = "dram" => ri = Len(IoRanges) + 1
    /\ (initPc \in {"ttbr", "flush", "enable"} \/ (Idle /\ ttbr = "pgtables"))
         => TableGood(table)
    /\ (initPc = "enable" \/ (Idle /\ ttbr = "pgtables")) => walked = table

(* The cache is on only with C in what the host would restore.             *)
CInSaved == ("C" \in sctlr /\ saved # NoSaved) => "C" \in saved

CacheInv == TypeOK /\ CInSaved
MmuInv == CacheInv /\ TableFacts
-----------------------------------------------------------------------------
(* ALIGN_UP never rounds down.                                             *)
LEMMA AlignUpCovers ==
    ASSUME NEW n \in Nat, NEW a \in Nat \ {0}
    PROVE  n <= ((n + a - 1) \div a) * a
<1> DEFINE q == (n + a - 1) \div a
<1>1. q \in Nat /\ n + a - 1 < (q + 1) * a
  BY SMT
<1>2. QED
  BY <1>1, SMT

(* The range list has a length.                                            *)
LEMMA RangeCount == Len(IoRanges) \in Nat
  BY MmuAssumption, LenProperties

(* Every section a range or the DRAM span names is a table index.         *)
LEMMA SectionsInTable ==
    /\ \A i \in 1 .. Len(IoRanges) : RangeSecs(i) \subseteq Sec
    /\ DramSpan \subseteq Sec
    /\ DramSecs \subseteq DramSpan
<1>1. \A i \in 1 .. Len(IoRanges) : RangeSecs(i) \subseteq Sec
  <2> SUFFICES ASSUME NEW i \in 1 .. Len(IoRanges)
               PROVE  RangeSecs(i) \subseteq Sec
    OBVIOUS
  <2>0. IoRanges \in Seq([bus : Nat, size : Nat])
    BY MmuAssumption
  <2>1. IoRanges[i] \in [bus : Nat, size : Nat]
    BY <2>0, ElementOfSeq
  <2>2. IoRanges[i].bus \in Nat /\ IoRanges[i].size \in Nat
    BY <2>1
  <2>3. IoRanges[i].bus + IoRanges[i].size <= NSec
    BY MmuAssumption
  <2>6. NSec \in Nat
    BY MmuAssumption
  <2>7. \A bus, size \in Nat : bus + size <= NSec =>
            \A x \in bus .. bus + size - 1 : x \in 0 .. NSec - 1
    BY <2>6
  <2>4. \A x \in IoRanges[i].bus .. IoRanges[i].bus + IoRanges[i].size - 1 :
            x \in 0 .. NSec - 1
    BY <2>2, <2>3, <2>7, Zenon
  <2>5. QED
    BY <2>4 DEF RangeSecs, Sec
<1>2. AlignUp(MemSize) \in Nat /\ MemSize <= AlignUp(MemSize)
  BY MmuAssumption, AlignUpCovers DEF AlignUp
<1>3. DramSpan \subseteq Sec
  BY <1>2, MmuAssumption DEF DramSpan, Sec
<1>4. DramSecs \subseteq DramSpan
  BY <1>2, MmuAssumption DEF DramSecs, DramSpan
<1>5. QED
  BY <1>1, <1>3, <1>4
(* A table that mmu_add_mapping writes into is still a table.             *)
LEMMA MappingType ==
    ASSUME NEW t \in [Sec -> Entry], NEW X, NEW c \in BOOLEAN
    PROVE  [s \in Sec |-> IF s \in X THEN Section(s, c) ELSE t[s]]
             \in [Sec -> Entry]
  BY DEF Section, Entry

(* A step of mmu_add_mapping keeps both views of the table typed.         *)
LEMMA AddMappingType ==
    ASSUME TypeOK, NEW from, NEW size, NEW c \in BOOLEAN,
           MmuAddMapping(from, size, c)
    PROVE  table' \in [Sec -> Entry] /\ walked' \in [Sec -> Entry]
<1> DEFINE t == [s \in Sec |-> IF s \in from .. from + size - 1
                               THEN Section(s, c) ELSE table[s]]
<1>1. t \in [Sec -> Entry]
  <2>1. table \in [Sec -> Entry]
    BY DEF TypeOK
  <2>2. QED
    BY <2>1, MappingType
<1>2. table' = t /\ walked' = IF "C" \in sctlr THEN walked ELSE t
  BY DEF MmuAddMapping, StoreTable
<1>3. QED
  BY <1>1, <1>2 DEF TypeOK
-----------------------------------------------------------------------------
LEMMA CacheInvInit == Init => CacheInv
<1> SUFFICES ASSUME Init PROVE CacheInv
  OBVIOUS
<1>1. Fault \in Entry
  BY MmuAssumption DEF Fault, Entry, Sec
<1>2. table \in [Sec -> Entry] /\ walked \in [Sec -> Entry]
  BY <1>1 DEF Init
<1>3. ri \in 1 .. Len(IoRanges) + 1
  BY RangeCount DEF Init
<1>4. sctlr \subseteq Bits /\ adtOk \in BOOLEAN /\ dirty \in BOOLEAN
  BY MmuAssumption DEF Init
<1>5. TypeOK
  BY <1>2, <1>3, <1>4 DEF Init, TypeOK
<1>6. CInSaved
  BY DEF Init, CInSaved
<1>7. QED
  BY <1>5, <1>6 DEF CacheInv

LEMMA CacheInvStep == CacheInv /\ [Next]_vars => CacheInv'
<1> SUFFICES ASSUME CacheInv, [Next]_vars PROVE CacheInv'
  OBVIOUS
<1> USE DEF CacheInv
<1>1. CASE MmuInitStart
  <2>1. Fault \in Entry
    BY MmuAssumption DEF Fault, Entry, Sec
  <2>2. QED
    BY <1>1, <2>1 DEF MmuInitStart, StoreTable, TypeOK, CInSaved
<1>2. CASE MmuInitRange
  <2>1. CASE ri <= Len(IoRanges)
    <3>1. table' \in [Sec -> Entry] /\ walked' \in [Sec -> Entry]
      BY <1>2, <2>1, AddMappingType DEF MmuInitRange
    <3>2. ri' \in 1 .. Len(IoRanges) + 1
      BY <1>2, <2>1, RangeCount DEF MmuInitRange, TypeOK
    <3>3. QED
      BY <1>2, <2>1, <3>1, <3>2 DEF MmuInitRange, TypeOK, CInSaved
  <2>2. CASE ~(ri <= Len(IoRanges))
    BY <1>2, <2>2 DEF MmuInitRange, TypeOK, CInSaved
  <2>3. QED
    BY <2>1, <2>2
<1>3. CASE MmuInitDram
  <2>1. table' \in [Sec -> Entry] /\ walked' \in [Sec -> Entry]
    BY <1>3, AddMappingType DEF MmuInitDram
  <2>2. QED
    BY <1>3, <2>1 DEF MmuInitDram, TypeOK, CInSaved
<1>4. CASE MmuInitTtbr
  BY <1>4 DEF MmuInitTtbr, TypeOK, CInSaved
<1>5. CASE MmuInitFlush
  BY <1>5 DEF MmuInitFlush, TypeOK, CInSaved
<1>6. CASE MmuInitEnable
  BY <1>6 DEF MmuInitEnable, TypeOK, CInSaved, Bits
<1>7. CASE ProxyMmuInit
  BY <1>7 DEF ProxyMmuInit, TypeOK, CInSaved
<1>8. CASE MmuShutdown
  BY <1>8 DEF MmuShutdown, CleanAll, TypeOK, CInSaved
<1>9. CASE MmuDisable
  BY <1>9 DEF MmuDisable, CleanAll, TypeOK, CInSaved
<1>10. CASE MmuRestore
  BY <1>10 DEF MmuRestore, TypeOK, CInSaved, NoSaved, Bits
<1>11. CASE HostWrite
  BY <1>11 DEF HostWrite, TypeOK, CInSaved
<1>12. CASE Evict
  BY <1>12 DEF Evict, TypeOK, CInSaved
<1>13. CASE UNCHANGED vars
  BY <1>13 DEF vars, TypeOK, CInSaved
<1>14. QED
  BY <1>1, <1>2, <1>3, <1>4, <1>5, <1>6, <1>7, <1>8, <1>9, <1>10, <1>11,
     <1>12, <1>13 DEF Next

(* The model of memory.c is well typed for every table size, range list,  *)
(* DRAM layout and entry SCTLR the assumptions allow.                      *)
THEOREM MmuTypeCorrect == Spec => []TypeOK
<1>1. Spec => []CacheInv
  BY CacheInvInit, CacheInvStep, PTL DEF Spec
<1>2. QED
  BY <1>1, PTL DEF CacheInv

(* One step of CleanBeforeCacheOff: C cleared only over a clean cache.     *)
CacheOffStep ==
    ("C" \in sctlr /\ "C" \notin sctlr') => (~dirty' /\ walked' = table')

LEMMA CacheOffStepHolds == CacheInv /\ [Next]_vars => [CacheOffStep]_vars
<1> SUFFICES ASSUME CacheInv, [Next]_vars PROVE [CacheOffStep]_vars
  OBVIOUS
<1> USE DEF CacheInv
<1>1. CASE MmuShutdown
  BY <1>1 DEF MmuShutdown, CleanAll, CacheOffStep
<1>2. CASE MmuDisable
  <2>1. CASE "M" \in sctlr
    BY <1>2, <2>1 DEF MmuDisable, CleanAll, CacheOffStep
  <2>2. CASE "M" \notin sctlr
    BY <1>2, <2>2 DEF MmuDisable, CacheOffStep
  <2>3. QED
    BY <2>1, <2>2
<1>3. CASE MmuRestore
  BY <1>3 DEF MmuRestore, CInSaved, CacheOffStep
<1>4. CASE MmuInitEnable
  BY <1>4 DEF MmuInitEnable, CacheOffStep
<1>5. CASE \/ MmuInitStart \/ MmuInitRange \/ MmuInitDram \/ MmuInitTtbr
           \/ MmuInitFlush \/ ProxyMmuInit \/ HostWrite \/ Evict
  BY <1>5 DEF MmuInitStart, MmuInitRange, MmuInitDram, MmuInitTtbr,
              MmuInitFlush, ProxyMmuInit, HostWrite, Evict, CacheOffStep
<1>6. CASE UNCHANGED vars
  BY <1>6 DEF vars
<1>7. QED
  BY <1>1, <1>2, <1>3, <1>4, <1>5, <1>6 DEF Next

(* mmu_shutdown and mmu_disable clean before they clear SCTLR.C, and the   *)
(* host's P_MMU_RESTORE of what P_MMU_DISABLE returned never clears it:    *)
(* no SCTLR write of the monitor strands dirty lines in a disabled cache.  *)
THEOREM CacheOffClean == Spec => CleanBeforeCacheOff
<1>1. Spec => []CacheInv
  BY CacheInvInit, CacheInvStep, PTL DEF Spec
<1>2. QED
  BY <1>1, CacheOffStepHolds, PTL DEF Spec, CleanBeforeCacheOff, CacheOffStep
-----------------------------------------------------------------------------
LEMMA MmuInvInit == Init => MmuInv
<1> SUFFICES ASSUME Init PROVE MmuInv
  OBVIOUS
<1>1. CacheInv
  BY CacheInvInit
<1>2. TableFacts
  BY DEF Init, TableFacts
<1>3. QED
  BY <1>1, <1>2 DEF MmuInv

(* The range loop: after range ri is stored, ranges 1 .. ri are mapped.   *)
LEMMA RangeStepDone ==
    ASSUME TypeOK, RangesDone(table, ri - 1), ri \in 1 .. Len(IoRanges),
           MmuAddMapping(IoRanges[ri].bus, IoRanges[ri].size, FALSE)
    PROVE  RangesDone(table', ri)
<1> SUFFICES ASSUME NEW i \in 1 .. ri, NEW s \in RangeSecs(i)
             PROVE  table'[s] = Section(s, FALSE)
  BY DEF RangesDone
<1>1. s \in Sec
  BY SectionsInTable, RangeCount
<1>2. table' = [x \in Sec |-> IF x \in RangeSecs(ri) THEN Section(x, FALSE)
                                                    ELSE table[x]]
  BY DEF MmuAddMapping, StoreTable, RangeSecs
<1>3. CASE s \in RangeSecs(ri)
  BY <1>1, <1>2, <1>3
<1>4. CASE s \notin RangeSecs(ri)
  <2>1. i # ri
    BY <1>4
  <2>2. i \in 1 .. ri - 1
    BY <2>1
  <2>3. QED
    BY <1>1, <1>2, <1>4, <2>2 DEF RangesDone
<1>5. QED
  BY <1>3, <1>4

(* The DRAM mapping completes the table when the ranges lie outside it.   *)
LEMMA DramStepGood ==
    ASSUME IoOutsideDram, TypeOK, RangesDone(table, Len(IoRanges)),
           MmuAddMapping(PhysBase, AlignUp(MemSize), TRUE)
    PROVE  TableGood(table')
<1>1. table' = [x \in Sec |-> IF x \in DramSpan THEN Section(x, TRUE)
                                                ELSE table[x]]
  BY DEF MmuAddMapping, StoreTable, DramSpan
<1>2. \A s \in DramSecs : table'[s] = Section(s, TRUE)
  BY <1>1, SectionsInTable
<1>3. RangesDone(table', Len(IoRanges))
  <2> SUFFICES ASSUME NEW i \in 1 .. Len(IoRanges), NEW s \in RangeSecs(i)
               PROVE  table'[s] = Section(s, FALSE)
    BY DEF RangesDone
  <2>1. s \in Sec /\ s \notin DramSpan
    BY SectionsInTable DEF IoOutsideDram
  <2>2. QED
    BY <1>1, <2>1 DEF RangesDone
<1>4. QED
  BY <1>2, <1>3 DEF TableGood

LEMMA MmuInvStep ==
    ASSUME IoOutsideDram
    PROVE  MmuInv /\ [Next]_vars => MmuInv'
<1> SUFFICES ASSUME MmuInv, [Next]_vars PROVE MmuInv'
  OBVIOUS
<1>0. CacheInv'
  BY CacheInvStep DEF MmuInv
<1> SUFFICES TableFacts'
  BY <1>0 DEF MmuInv
<1> USE DEF MmuInv, CacheInv
<1>1. CASE MmuInitStart
  <2>1. CASE adtOk
    BY <1>1, <2>1 DEF MmuInitStart, StoreTable, TableFacts, RangesDone, Idle
  <2>2. CASE ~adtOk
    BY <1>1, <2>2 DEF MmuInitStart, TableFacts, Idle
  <2>3. QED
    BY <2>1, <2>2
<1>2. CASE MmuInitRange
  <2>1. CASE ri <= Len(IoRanges)
    <3>1. ri \in 1 .. Len(IoRanges) /\ RangesDone(table, ri - 1)
      BY <1>2, <2>1 DEF MmuInitRange, TypeOK, TableFacts
    <3>2. RangesDone(table', ri)
      BY <1>2, <2>1, <3>1, RangeStepDone DEF MmuInitRange
    <3>3. ri' - 1 = ri /\ initPc' = "ranges" /\ initPc = "ranges"
      BY <1>2, <2>1, <3>1 DEF MmuInitRange
    <3>4. RangesDone(table', ri' - 1)
      BY <3>2, <3>3
    <3>5. QED
      BY <1>2, <2>1, <3>3, <3>4 DEF MmuInitRange, TableFacts, Idle
  <2>2. CASE ~(ri <= Len(IoRanges))
    <3>1. ri = Len(IoRanges) + 1
      BY <2>2, RangeCount DEF TypeOK
    <3>2. QED
      BY <1>2, <2>2, <3>1 DEF MmuInitRange, TableFacts, Idle
  <2>3. QED
    BY <2>1, <2>2
<1>3. CASE MmuInitDram
  <2>1. RangesDone(table, Len(IoRanges))
    BY <1>3 DEF MmuInitDram, TableFacts
  <2>2. TableGood(table')
    BY <1>3, <2>1, DramStepGood DEF MmuInitDram
  <2>3. QED
    BY <1>3, <2>2 DEF MmuInitDram, TableFacts, Idle
<1>4. CASE MmuInitTtbr
  BY <1>4 DEF MmuInitTtbr, TableFacts, Idle
<1>5. CASE MmuInitFlush
  BY <1>5 DEF MmuInitFlush, TableFacts, Idle
<1>6. CASE MmuInitEnable
  BY <1>6 DEF MmuInitEnable, TableFacts, Idle
<1>7. CASE ProxyMmuInit
  BY <1>7 DEF ProxyMmuInit, TableFacts, Idle
<1>8. CASE MmuShutdown
  BY <1>8 DEF MmuShutdown, CleanAll, TableFacts, Idle
<1>9. CASE MmuDisable
  BY <1>9 DEF MmuDisable, CleanAll, TableFacts, Idle
<1>10. CASE MmuRestore
  BY <1>10 DEF MmuRestore, TableFacts, Idle
<1>11. CASE HostWrite
  BY <1>11 DEF HostWrite, TableFacts, Idle
<1>12. CASE Evict
  BY <1>12 DEF Evict, TableFacts, Idle
<1>13. CASE UNCHANGED vars
  BY <1>13 DEF vars, TableFacts, Idle, TableGood, RangesDone
<1>14. QED
  BY <1>1, <1>2, <1>3, <1>4, <1>5, <1>6, <1>7, <1>8, <1>9, <1>10, <1>11,
     <1>12, <1>13 DEF Next

(* The invariant gives the property: idle with our table installed, memory *)
(* holds the finished table.                                               *)
LEMMA MmuInvLive == MmuInv => LiveTableMapsIdentity
<1> SUFFICES ASSUME MmuInv, "M" \in sctlr, ttbr = "pgtables", Idle
             PROVE  /\ \A s \in DramSecs : walked[s] = Section(s, TRUE)
                    /\ \A s \in IoSecs : walked[s] = Section(s, FALSE)
  BY DEF LiveTableMapsIdentity
<1>1. walked = table /\ TableGood(table)
  BY DEF MmuInv, TableFacts
<1>2. \A s \in DramSecs : walked[s] = Section(s, TRUE)
  BY <1>1 DEF TableGood
<1>3. \A s \in IoSecs : walked[s] = Section(s, FALSE)
  <2> SUFFICES ASSUME NEW s \in IoSecs PROVE walked[s] = Section(s, FALSE)
    OBVIOUS
  <2>1. PICK i \in 1 .. Len(IoRanges) : s \in RangeSecs(i)
    BY DEF IoSecs
  <2>2. QED
    BY <1>1, <2>1 DEF TableGood, RangesDone
<1>4. QED
  BY <1>2, <1>3

(* Whenever mmu_init has returned with translation on through __pgtables, *)
(* the table the walker reads maps every DRAM section to itself as        *)
(* cacheable memory and every arm-io section to itself as a device: for   *)
(* every table size, range list and DRAM layout whose ranges lie outside  *)
(* the rounded-up DRAM span, every entry SCTLR, and any order of          *)
(* P_MMU_INIT, P_MMU_SHUTDOWN, P_MMU_DISABLE, P_MMU_RESTORE and evictions. *)
THEOREM LiveTableCorrect == IoOutsideDram => (Spec => []LiveTableMapsIdentity)
<1> SUFFICES ASSUME IoOutsideDram PROVE Spec => []LiveTableMapsIdentity
  OBVIOUS
<1>1. Spec => []MmuInv
  BY MmuInvInit, MmuInvStep, PTL DEF Spec
<1>2. QED
  BY <1>1, MmuInvLive, PTL
=============================================================================
