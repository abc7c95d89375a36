------------------------------- MODULE Kboot --------------------------------
(***************************************************************************)
(* Kernel boot staging (src/src/kboot.c) over the top-of-memory allocator  *)
(* top_of_memory_alloc (src/src/utils.c), driven by the host through       *)
(* P_KBOOT_SET_CHOSEN, P_KBOOT_SET_INITRD, P_KBOOT_PREPARE_DT and          *)
(* P_KBOOT_BOOT in any order (proxy.c 328-339).                            *)
(*                                                                         *)
(* Memory is counted in pages: every size the allocator sees is rounded up *)
(* to a page by ALIGN_UP, so a size here is a page count, and the u32      *)
(* cur_boot_args.mem_size and the addresses wrap at Wrap pages (2^32 bytes *)
(* / PAGE_SIZE in the code).  A NULL pointer is address 0, below          *)
(* phys_base; a NULL string is the model value NULL.  Strings are model   *)
(* values; the flattened device tree is reduced to the RAM map   *)
(* dt_set_memory writes into it.                                           *)
(***************************************************************************)
EXTENDS Naturals, FiniteSets

CONSTANTS
    PhysBase,     \* cur_boot_args.phys_base, in pages
    MemPages,     \* cur_boot_args.mem_size at boot, in pages
    Wrap,         \* 2^32 / PAGE_SIZE: where u32 sizes and addresses wrap
    Names,        \* chosen parameter names the host passes
    Values,       \* chosen parameter values the host passes
    NULL,         \* a NULL name or value
    MaxChosen,    \* MAX_CHOSEN_PARAMS
    InitrdSizes,  \* initrd sizes the host passes, in pages
    FdtSizes,     \* fdt_totalsize of the trees the host passes, in pages
    Extra,        \* 4 * SZ_16K of room kboot_prepare_dt adds, in pages
    LogPages,     \* LOGBUF_SIZE, in pages
    MaxReqs       \* bound on the number of kboot requests of a run

ASSUME KbootAssumption ==
    /\ Wrap \in Nat \ {0}
    /\ PhysBase \in 1 .. Wrap - 1
    /\ MemPages \in 0 .. Wrap - 1
    /\ NULL \notin Names \cup Values
    /\ MaxChosen \in Nat \ {0}
    /\ InitrdSizes \cup FdtSizes \subseteq Nat
    /\ {Extra, LogPages, MaxReqs} \subseteq Nat

Idx == 0 .. MaxChosen - 1
Block == [start : 0 .. Wrap - 1, size : Nat]
Overlap(a, b) ==
    /\ a.size > 0 /\ b.size > 0
    /\ a.start < b.start + b.size /\ b.start < a.start + a.size

VARIABLES
    memSize,        \* cur_boot_args.mem_size
    guardInserted,  \* top_of_memory_alloc's static guard_page_inserted
    chosen,         \* chosen_params: slot -> [name, value]
    initrd,         \* initrd_start and initrd_size, as a block
    dt,             \* dt and dt_bufsize, as a block (start NULL: none)
    logbuf,         \* logbuf.buffer and LOGBUF_SIZE, as a block
    ramMap,         \* the /memory reg regions in the prepared tree, or {}
    allocs,         \* ghost: every block top_of_memory_alloc handed out
    freed,          \* ghost: where each pointer passed to free came from
    nullRead,       \* ghost: strlen was called on a NULL value
    reqs            \* number of kboot requests so far

vars == <<memSize, guardInserted, chosen, initrd, dt, logbuf, ramMap, allocs,
          freed, nullRead, reqs>>

NoBlock == [start |-> 0, size |-> 0]

TypeOK ==
    /\ memSize \in 0 .. Wrap - 1
    /\ guardInserted \in BOOLEAN
    /\ chosen \in [Idx -> [name : Names \cup {NULL}, value : Values \cup {NULL}]]
    /\ {initrd, dt, logbuf} \subseteq Block
    /\ ramMap \subseteq Block
    /\ allocs \subseteq Block
    /\ freed \subseteq {"heap", "top_of_memory"}
    /\ nullRead \in BOOLEAN
    /\ reqs \in 0 .. MaxReqs

Init ==
    /\ memSize = MemPages
    /\ guardInserted = FALSE
    /\ chosen = [i \in Idx |-> [name |-> NULL, value |-> NULL]]
    /\ initrd = NoBlock /\ dt = NoBlock /\ logbuf = NoBlock
    /\ ramMap = {}
    /\ allocs = {}
    /\ freed = {}
    /\ nullRead = FALSE
    /\ reqs = 0

(* top_of_memory_alloc(size) from allocator state a: mem_size -= size;    *)
(* ret = phys_base + mem_size; the first call then takes one more page as *)
(* a guard page below ret, later calls return one page higher instead, so *)
(* the guard page is always the page at phys_base + mem_size.             *)
TopAllocNoShift(a, size) ==
    LET ms == (a.memSize + Wrap - (size % Wrap)) % Wrap
        ret == (PhysBase + ms) % Wrap
    IN  IF ~a.guard
          THEN [memSize |-> (ms + Wrap - 1) % Wrap, guard |-> TRUE, ret |-> ret]
          ELSE [memSize |-> ms, guard |-> TRUE, ret |-> ret]
TopAlloc(a, size) ==
    LET ms == (a.memSize + Wrap - (size % Wrap)) % Wrap
        ret == (PhysBase + ms) % Wrap
    IN  IF ~a.guard
          THEN [memSize |-> (ms + Wrap - 1) % Wrap, guard |-> TRUE, ret |-> ret]
          ELSE [memSize |-> ms, guard |-> TRUE, ret |-> (ret + 1) % Wrap]

Alloc0 == [memSize |-> memSize, guard |-> guardInserted]

Request == reqs < MaxReqs /\ ~nullRead /\ reqs' = reqs + 1
-----------------------------------------------------------------------------
(* kboot_set_chosen(name, value): NULL name returns -1; else the first     *)
(* slot that is empty or holds name: an empty slot takes a copy of name,   *)
(* a matching one frees its value; no such slot returns -1; then a         *)
(* non-NULL value is copied in, and a NULL one leaves the slot's value    *)
(* NULL.                                                                   *)
FirstSlot(name) ==
    {i \in Idx : /\ chosen[i].name \in {NULL, name}
                 /\ \A j \in 0 .. i - 1 : chosen[j].name \notin {NULL, name}}

SetChosenNoBreak(name, value) ==
    /\ Request
    /\ name # NULL
    /\ \E i \in FirstSlot(name) :
         /\ chosen' = [j \in Idx |->
                        IF j = i \/ (j > i /\ chosen[j].name = NULL)
                          THEN [name |-> name, value |-> value]
                          ELSE chosen[j]]
         /\ freed' = IF chosen[i].name = name /\ chosen[i].value # NULL
                       THEN freed \cup {"heap"} ELSE freed
    /\ UNCHANGED <<memSize, guardInserted, initrd, dt, logbuf, ramMap, allocs,
                   nullRead>>
SetChosenPastEnd(name, value) ==
    /\ Request
    /\ \/ /\ name = NULL
          /\ UNCHANGED <<chosen, freed>>
       \/ /\ name # NULL /\ FirstSlot(name) = {}
          /\ chosen' = [j \in 0 .. MaxChosen |->
                          IF j = MaxChosen THEN [name |-> name, value |-> value]
                          ELSE chosen[j]]
          /\ UNCHANGED freed
       \/ /\ name # NULL
          /\ \E i \in FirstSlot(name) :
               /\ chosen' = [chosen EXCEPT ![i] = [name |-> name, value |-> value]]
               /\ freed' = IF chosen[i].name = name /\ chosen[i].value # NULL
                             THEN freed \cup {"heap"} ELSE freed
    /\ UNCHANGED <<memSize, guardInserted, initrd, dt, logbuf, ramMap, allocs,
                   nullRead>>
SetChosen(name, value) ==
    /\ Request
    /\ \/ /\ name = NULL \/ FirstSlot(name) = {}
          /\ UNCHANGED <<chosen, freed>>
       \/ /\ name # NULL
          /\ \E i \in FirstSlot(name) :
               /\ chosen' = [chosen EXCEPT ![i] = [name |-> name, value |-> value]]
               /\ freed' = IF chosen[i].name = name /\ chosen[i].value # NULL
                             THEN freed \cup {"heap"} ELSE freed
    /\ UNCHANGED <<memSize, guardInserted, initrd, dt, logbuf, ramMap, allocs,
                   nullRead>>

(* kboot_set_initrd(start, size): allocate at the top and copy.            *)
SetInitrd(size) ==
    LET a == TopAlloc(Alloc0, size)
    IN  /\ Request
        /\ memSize' = a.memSize
        /\ guardInserted' = a.guard
        /\ initrd' = [start |-> a.ret, size |-> size]
        /\ allocs' = allocs \cup {initrd'}
        /\ UNCHANGED <<chosen, dt, logbuf, ramMap, freed, nullRead>>
-----------------------------------------------------------------------------
(* The regions dt_set_memory puts in /memory reg: usable RAM phys_base ..  *)
(* phys_base + mem_size, the reserved-memory nodes above it (the log       *)
(* buffer's phram node), the initrd, and an entry for the tree itself,     *)
(* which the code builds from initrd_start and initrd_size.                *)
RamMap(ms, lb) ==
    {[start |-> PhysBase, size |-> ms], lb}
    \cup (IF initrd.start # 0 /\ initrd.size # 0 THEN {initrd} ELSE {})
    \cup {initrd}

(* The values dt_set_chosen passes to strlen: every slot up to the first   *)
(* empty name.                                                             *)
ChosenValues ==
    {chosen[i].value : i \in {k \in Idx : \A j \in 0 .. k : chosen[j].name # NULL}}

(* kboot_prepare_dt(fdt): free the previous tree, allocate dt_bufsize =    *)
(* fdt_totalsize + 64K at the top, open the tree into it (may fail),       *)
(* allocate the log buffer (dt_setup_mtd_phram, result unchecked), set the *)
(* chosen parameters (strlen on each value), then the other nodes (may     *)
(* fail) and the RAM map.                                                  *)
PrepareDt(fsize, outcome) ==
    LET a1 == TopAlloc(Alloc0, fsize + Extra)
        a2 == TopAlloc(a1, LogPages)
        newDt == [start |-> a1.ret, size |-> fsize + Extra]
        newLog == [start |-> a2.ret, size |-> LogPages]
    IN  /\ Request
        /\ freed' = IF dt.start # 0 THEN freed \cup {"top_of_memory"} ELSE freed
        /\ dt' = newDt
        /\ IF outcome = "open_fails"
             THEN /\ memSize' = a1.memSize /\ guardInserted' = a1.guard
                  /\ allocs' = allocs \cup {newDt}
                  /\ UNCHANGED <<logbuf, nullRead>>
             ELSE /\ memSize' = a2.memSize /\ guardInserted' = a2.guard
                  /\ allocs' = allocs \cup {newDt, newLog}
                  /\ logbuf' = newLog
                  /\ nullRead' = (NULL \in ChosenValues)
        /\ ramMap' = IF outcome = "ok" /\ NULL \notin ChosenValues
                       THEN RamMap(a2.memSize, newLog) ELSE {}
        /\ UNCHANGED <<chosen, initrd>>

Next ==
    \/ \E n \in Names \cup {NULL}, v \in Values \cup {NULL} : SetChosen(n, v)
    \/ \E s \in InitrdSizes : SetInitrd(s)
    \/ \E s \in FdtSizes, o \in {"ok", "open_fails", "later_fails"} :
         PrepareDt(s, o)

Spec == Init /\ [][Next]_vars
-----------------------------------------------------------------------------
(* Allocator soundness (utils.c top_of_memory_alloc): no two blocks handed *)
(* out overlap, and none overlaps the guard page or the RAM still counted  *)
(* as usable in mem_size, which the kernel will be given.                  *)
AllocsDisjoint ==
    LET usable == [start |-> PhysBase, size |-> memSize]
        guard == [start |-> (PhysBase + memSize) % Wrap,
                  size |-> IF guardInserted THEN 1 ELSE 0]
    IN  \A b \in allocs :
            /\ ~Overlap(b, usable) /\ ~Overlap(b, guard)
            /\ \A c \in allocs : b # c => ~Overlap(b, c)

(* The chosen table dt_set_chosen walks: names form a prefix of the slots  *)
(* (the walk stops at the first empty one) and no name appears twice, so   *)
(* every parameter the host set reaches the tree exactly once.             *)
ChosenWellFormed ==
    \A i, j \in Idx :
        /\ chosen[j].name # NULL /\ i < j => chosen[i].name # NULL
        /\ i # j /\ chosen[i].name # NULL => chosen[i].name # chosen[j].name

(* dt_set_chosen never hands strlen a NULL value.                          *)
NoNullDeref == ~nullRead

(* free is only given what malloc/calloc returned.                         *)
FreeOnlyHeap == freed \subseteq {"heap"}

(* The RAM map of a prepared tree covers the tree's own buffer, so the    *)
(* kernel maps the memory it reads its device tree from.                   *)
RamMapCoversDt == ramMap # {} => dt \in ramMap
=============================================================================
