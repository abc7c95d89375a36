---------------------------- MODULE Kboot_proofs ----------------------------
(***************************************************************************)
(* Proofs about Kboot: type correctness of the kboot requests and of the   *)
(* top-of-memory allocator, and the shape of the chosen table that         *)
(* kboot_set_chosen maintains, for every table size, address-space size    *)
(* and number of requests.                                                 *)
(***************************************************************************)
EXTENDS Kboot, TLAPS

(* An allocator state in range stays in range: mem_size and the returned   *)
(* pointer wrap at Wrap pages, whatever size is asked for.                 *)
LEMMA TopAllocType ==
    ASSUME NEW a, a.memSize \in 0 .. Wrap - 1, a.guard \in BOOLEAN,
           NEW size \in Nat
    PROVE  /\ TopAlloc(a, size).memSize \in 0 .. Wrap - 1
           /\ TopAlloc(a, size).guard \in BOOLEAN
           /\ TopAlloc(a, size).ret \in 0 .. Wrap - 1
BY KbootAssumption DEF TopAlloc

(* The regions of a RAM map are blocks.                                    *)
LEMMA RamMapType ==
    ASSUME NEW ms \in Nat, NEW lb \in Block, initrd \in Block
    PROVE  RamMap(ms, lb) \subseteq Block
BY KbootAssumption DEF RamMap, Block

(* The table slot the first free-or-matching search picks, and the slots  *)
(* before it.                                                              *)
LEMMA FirstSlotFacts ==
    ASSUME NEW name, NEW i \in FirstSlot(name)
    PROVE  /\ i \in Idx
           /\ chosen[i].name \in {NULL, name}
           /\ \A j \in 0 .. i - 1 : chosen[j].name \notin {NULL, name}
BY DEF FirstSlot

KInv == TypeOK /\ ChosenWellFormed

LEMMA KInvInit == Init => KInv
<1> SUFFICES ASSUME Init PROVE KInv
  OBVIOUS
<1>1. TypeOK
  <2>1. NoBlock \in Block
    BY KbootAssumption DEF NoBlock, Block
  <2>2. chosen \in [Idx -> [name : Names \cup {NULL}, value : Values \cup {NULL}]]
    BY DEF Init
  <2>3. memSize \in 0 .. Wrap - 1 /\ reqs \in 0 .. MaxReqs
    BY KbootAssumption DEF Init
  <2>4. QED
    BY <2>1, <2>2, <2>3 DEF Init, TypeOK
<1>2. ChosenWellFormed
  BY DEF Init, ChosenWellFormed
<1>3. QED
  BY <1>1, <1>2 DEF KInv

(* kboot_set_chosen keeps the names a duplicate-free prefix: it only       *)
(* writes the first slot that is empty or already holds the name.          *)
LEMMA SetChosenStep ==
    ASSUME KInv, NEW n \in Names \cup {NULL}, NEW v \in Values \cup {NULL},
           SetChosen(n, v)
    PROVE  KInv'
<1>1. reqs' \in 0 .. MaxReqs
  BY KbootAssumption DEF SetChosen, Request, KInv, TypeOK
<1>0. /\ memSize' = memSize /\ guardInserted' = guardInserted
      /\ initrd' = initrd /\ dt' = dt /\ logbuf' = logbuf
      /\ ramMap' = ramMap /\ allocs' = allocs /\ nullRead' = nullRead
  BY DEF SetChosen
<1>2. CASE UNCHANGED <<chosen, freed>>
  <2>1. chosen' = chosen /\ freed' = freed
    BY <1>2
  <2>2. QED
    BY <1>0, <1>1, <2>1 DEF KInv, TypeOK, ChosenWellFormed
<1>3. CASE /\ n # NULL
           /\ \E i \in FirstSlot(n) :
                /\ chosen' = [chosen EXCEPT ![i] = [name |-> n, value |-> v]]
                /\ freed' = IF chosen[i].name = n /\ chosen[i].value # NULL
                              THEN freed \cup {"heap"} ELSE freed
  <2>1. PICK i \in FirstSlot(n) :
          /\ chosen' = [chosen EXCEPT ![i] = [name |-> n, value |-> v]]
          /\ freed' = IF chosen[i].name = n /\ chosen[i].value # NULL
                        THEN freed \cup {"heap"} ELSE freed
    BY <1>3
  <2>2. /\ i \in Idx
        /\ chosen[i].name \in {NULL, n}
        /\ \A j \in 0 .. i - 1 : chosen[j].name \notin {NULL, n}
    BY FirstSlotFacts
  <2>3. TypeOK'
    <3>1. chosen' \in [Idx -> [name : Names \cup {NULL}, value : Values \cup {NULL}]]
      BY <2>1, <2>2 DEF KInv, TypeOK
    <3>2. freed' \subseteq {"heap", "top_of_memory"}
      BY <2>1 DEF KInv, TypeOK
    <3>3. QED
      BY <1>0, <1>1, <3>1, <3>2 DEF KInv, TypeOK
  <2>4. ChosenWellFormed'
    <3> SUFFICES ASSUME NEW j \in Idx, NEW k \in Idx
                 PROVE  /\ chosen'[k].name # NULL /\ j < k => chosen'[j].name # NULL
                        /\ j # k /\ chosen'[j].name # NULL =>
                             chosen'[j].name # chosen'[k].name
      BY DEF ChosenWellFormed
    <3>1. chosen \in [Idx -> [name : Names \cup {NULL}, value : Values \cup {NULL}]]
      BY DEF KInv, TypeOK
    <3>2. \A x \in Idx : chosen'[x].name = IF x = i THEN n ELSE chosen[x].name
      BY <2>1, <2>2, <3>1
    <3>3. \A x \in Idx : x > i /\ chosen[i].name = NULL => chosen[x].name = NULL
      BY <2>2 DEF KInv, ChosenWellFormed, Idx
    <3>4. \A x \in Idx : x # i /\ chosen[i].name = n => chosen[x].name # n
      BY <2>2, <1>3 DEF KInv, ChosenWellFormed
    <3>5. \A x \in Idx : x < i => chosen[x].name \notin {NULL, n}
      BY <2>2 DEF Idx
    <3>6. QED
      BY <3>2, <3>3, <3>4, <3>5, <2>2, <1>3 DEF KInv, ChosenWellFormed, Idx
  <2>5. QED
    BY <2>3, <2>4 DEF KInv
<1>4. QED
  BY <1>2, <1>3 DEF SetChosen

LEMMA SetInitrdStep ==
    ASSUME KInv, NEW s \in InitrdSizes, SetInitrd(s)
    PROVE  KInv'
<1>1. /\ Alloc0.memSize \in 0 .. Wrap - 1 /\ Alloc0.guard \in BOOLEAN
      /\ s \in Nat
  BY KbootAssumption DEF Alloc0, KInv, TypeOK
<1>2. /\ TopAlloc(Alloc0, s).memSize \in 0 .. Wrap - 1
      /\ TopAlloc(Alloc0, s).guard \in BOOLEAN
      /\ TopAlloc(Alloc0, s).ret \in 0 .. Wrap - 1
  BY <1>1, TopAllocType
<1>3. initrd' \in Block
  BY <1>1, <1>2 DEF SetInitrd, Block
<1>4. reqs' \in 0 .. MaxReqs
  BY KbootAssumption DEF SetInitrd, Request, KInv, TypeOK
<1>5. QED
  BY <1>2, <1>3, <1>4 DEF SetInitrd, KInv, TypeOK, ChosenWellFormed

LEMMA PrepareDtStep ==
    ASSUME KInv, NEW s \in FdtSizes, NEW o \in {"ok", "open_fails", "later_fails"},
           PrepareDt(s, o)
    PROVE  KInv'
<1> DEFINE a1 == TopAlloc(Alloc0, s + Extra)
           a2 == TopAlloc(a1, LogPages)
           newDt == [start |-> a1.ret, size |-> s + Extra]
           newLog == [start |-> a2.ret, size |-> LogPages]
<1>1. /\ Alloc0.memSize \in 0 .. Wrap - 1 /\ Alloc0.guard \in BOOLEAN
      /\ s + Extra \in Nat /\ LogPages \in Nat
  BY KbootAssumption DEF Alloc0, KInv, TypeOK
<1>2. /\ a1.memSize \in 0 .. Wrap - 1 /\ a1.guard \in BOOLEAN
      /\ a1.ret \in 0 .. Wrap - 1
  BY <1>1, TopAllocType
<1>3. /\ a2.memSize \in 0 .. Wrap - 1 /\ a2.guard \in BOOLEAN
      /\ a2.ret \in 0 .. Wrap - 1
  BY <1>1, <1>2, TopAllocType
<1>4. newDt \in Block /\ newLog \in Block
  BY <1>1, <1>2, <1>3 DEF Block
<1>5. ramMap' \subseteq Block
  <2>1. initrd \in Block
    BY DEF KInv, TypeOK
  <2>2. RamMap(a2.memSize, newLog) \subseteq Block
    BY <1>3, <1>4, <2>1, RamMapType
  <2>3. QED
    BY <2>2 DEF PrepareDt
<1>6. reqs' \in 0 .. MaxReqs
  BY KbootAssumption DEF PrepareDt, Request, KInv, TypeOK
<1>7. CASE o = "open_fails"
  BY <1>2, <1>4, <1>5, <1>6, <1>7 DEF PrepareDt, KInv, TypeOK, ChosenWellFormed
<1>8. CASE o # "open_fails"
  BY <1>3, <1>4, <1>5, <1>6, <1>8 DEF PrepareDt, KInv, TypeOK, ChosenWellFormed
<1>9. QED
  BY <1>7, <1>8

LEMMA KInvStep == KInv /\ [Next]_vars => KInv'
<1> SUFFICES ASSUME KInv, [Next]_vars PROVE KInv'
  OBVIOUS
<1>1. CASE UNCHANGED vars
  BY <1>1 DEF vars, KInv, TypeOK, ChosenWellFormed
<1>2. QED
  BY <1>1, SetChosenStep, SetInitrdStep, PrepareDtStep DEF Next

(* Type correctness of the kboot requests: mem_size, every block the       *)
(* top-of-memory allocator hands out and the request count stay in range,  *)
(* whatever sizes the host passes and however often the u32 arithmetic    *)
(* wraps.                                                                  *)
THEOREM KbootTypeCorrect == Spec => []TypeOK
<1>1. Spec => []KInv
  BY KInvInit, KInvStep, PTL DEF Spec
<1>2. QED
  BY <1>1, PTL DEF KInv

(* kboot_set_chosen keeps chosen_params a duplicate-free prefix of the     *)
(* slots, for every MAX_CHOSEN_PARAMS and every sequence of names and      *)
(* values the host passes: dt_set_chosen, which stops at the first empty   *)
(* slot, puts every parameter set into the tree exactly once.              *)
THEOREM ChosenWellFormedHolds == Spec => []ChosenWellFormed
<1>1. Spec => []KInv
  BY KInvInit, KInvStep, PTL DEF Spec
<1>2. QED
  BY <1>1, PTL DEF KInv
-----------------------------------------------------------------------------
(***************************************************************************)
(* Allocator soundness.  top_of_memory_alloc never checks that mem_size   *)
(* covers the request, so AllocsDisjoint holds only while the u32         *)
(* subtraction does not wrap.  FitsInMemory(k) is the condition under     *)
(* which it cannot: RAM ends below 2^32, no request takes more than k     *)
(* pages, and MaxReqs requests of k pages plus the guard page fit in the  *)
(* memory the boot arguments report.                                       *)
(***************************************************************************)
FitsInMemory(k) ==
    /\ PhysBase + MemPages < Wrap
    /\ \A s \in InitrdSizes : s <= k
    /\ \A s \in FdtSizes : s + Extra + LogPages <= k
    /\ MaxReqs * k + 1 <= MemPages

(* The blocks handed out lie, pairwise disjoint, above the guard page at   *)
(* phys_base + mem_size and below the top of RAM.                          *)
GeometryOf(ms, g, A) ==
    /\ ms <= MemPages
    /\ ~g => A = {} /\ ms = MemPages
    /\ g => ms < MemPages
    /\ \A b \in A :
         PhysBase + ms + 1 <= b.start /\ b.start + b.size <= PhysBase + MemPages
    /\ \A b, c \in A : b # c => ~Overlap(b, c)
Geometry == GeometryOf(memSize, guardInserted, allocs)

(* What is left of mem_size covers the requests still to come.             *)
Budget(k) ==
    memSize >= (MaxReqs - reqs) * k + (IF guardInserted THEN 0 ELSE 1)

AllocInv(k) == KInv /\ Geometry /\ Budget(k)

(* An allocation that fits does not wrap: mem_size drops by the size (and  *)
(* the guard page on the first call) and the block returned ends at the    *)
(* old guard page, or at the top of RAM on the first call.                 *)
LEMMA TopAllocFits ==
    ASSUME NEW a, a.memSize \in Nat, a.guard \in BOOLEAN, NEW size \in Nat,
           a.memSize >= size + (IF a.guard THEN 0 ELSE 1),
           PhysBase + a.memSize + (IF a.guard THEN 1 ELSE 0) < Wrap
    PROVE  /\ TopAlloc(a, size).guard = TRUE
           /\ TopAlloc(a, size).memSize =
                a.memSize - size - (IF a.guard THEN 0 ELSE 1)
           /\ TopAlloc(a, size).memSize \in Nat
           /\ TopAlloc(a, size).ret = PhysBase + TopAlloc(a, size).memSize + 1
           /\ TopAlloc(a, size).ret + size =
                PhysBase + a.memSize + (IF a.guard THEN 1 ELSE 0)
<1>1. /\ Wrap \in Nat /\ PhysBase \in 1 .. Wrap - 1
      /\ size \in 0 .. Wrap - 1 /\ a.memSize \in 0 .. Wrap - 1
      /\ PhysBase + a.memSize < Wrap
  BY KbootAssumption
<1>2. size % Wrap = size
  BY <1>1
<1>3. PICK ms \in Nat : ms = (a.memSize + Wrap - (size % Wrap)) % Wrap
  BY <1>1
<1>4. ms = a.memSize - size
  BY <1>1, <1>2, <1>3
<1>5. (PhysBase + ms) % Wrap = PhysBase + ms
  BY <1>1, <1>4
<1>6. CASE ~a.guard
  <2>1. (ms + Wrap - 1) % Wrap = ms - 1
    BY <1>1, <1>4, <1>6
  <2>2. TopAlloc(a, size) = [memSize |-> ms - 1, guard |-> TRUE, ret |-> PhysBase + ms]
    BY <1>3, <1>5, <1>6, <2>1 DEF TopAlloc
  <2>3. QED
    BY <2>2, <1>4, <1>6, <1>1
<1>7. CASE a.guard
  <2>1. (PhysBase + ms + 1) % Wrap = PhysBase + ms + 1
    BY <1>1, <1>4, <1>7
  <2>2. TopAlloc(a, size) = [memSize |-> ms, guard |-> TRUE, ret |-> PhysBase + ms + 1]
    BY <1>3, <1>5, <1>7, <2>1 DEF TopAlloc
  <2>3. QED
    BY <2>2, <1>4, <1>7, <1>1
<1>8. QED
  BY <1>6, <1>7

(* A block placed below every block handed out, ending at or below lo     *)
(* where they start, overlaps none of them.                                *)
LEMMA AddBlockBelow ==
    ASSUME NEW A \in SUBSET Block, NEW nb \in Block, NEW lo \in Nat,
           \A b \in A : lo <= b.start,
           nb.start + nb.size <= lo,
           \A b, c \in A : b # c => ~Overlap(b, c)
    PROVE  \A b, c \in A \cup {nb} : b # c => ~Overlap(b, c)
BY DEF Overlap, Block

(* One top_of_memory_alloc call that fits keeps the geometry: the new     *)
(* block sits just above the new guard page and below every earlier block. *)
LEMMA AllocKeepsGeometry ==
    ASSUME NEW a, a.memSize \in Nat, a.guard \in BOOLEAN,
           NEW A \in SUBSET Block, NEW size \in Nat,
           PhysBase + MemPages < Wrap,
           GeometryOf(a.memSize, a.guard, A),
           a.memSize >= size + (IF a.guard THEN 0 ELSE 1)
    PROVE  /\ TopAlloc(a, size).guard = TRUE
           /\ TopAlloc(a, size).memSize =
                a.memSize - size - (IF a.guard THEN 0 ELSE 1)
           /\ TopAlloc(a, size).memSize \in Nat
           /\ [start |-> TopAlloc(a, size).ret, size |-> size] \in Block
           /\ GeometryOf(TopAlloc(a, size).memSize, TRUE,
                         A \cup {[start |-> TopAlloc(a, size).ret, size |-> size]})
<1> DEFINE t == TopAlloc(a, size)
           nb == [start |-> t.ret, size |-> size]
<1>0. PICK g \in {0, 1} : g = IF a.guard THEN 1 ELSE 0
  OBVIOUS
<1>1. /\ a.memSize <= MemPages
      /\ ~a.guard => A = {} /\ a.memSize = MemPages
      /\ a.guard => a.memSize < MemPages
      /\ \A b \in A : PhysBase + a.memSize + 1 <= b.start
                      /\ b.start + b.size <= PhysBase + MemPages
      /\ \A b, c \in A : b # c => ~Overlap(b, c)
  BY DEF GeometryOf
<1>2. /\ PhysBase + a.memSize + g < Wrap
      /\ a.memSize + g <= MemPages
      /\ MemPages \in Nat /\ PhysBase \in Nat
  BY <1>0, <1>1, KbootAssumption
<1>3. /\ t.guard = TRUE
      /\ t.memSize = a.memSize - size - (IF a.guard THEN 0 ELSE 1)
      /\ t.memSize \in Nat
      /\ t.ret = PhysBase + t.memSize + 1
      /\ t.ret + size = PhysBase + a.memSize + g
  <2>1. /\ a.memSize >= size + (IF a.guard THEN 0 ELSE 1)
        /\ PhysBase + a.memSize + (IF a.guard THEN 1 ELSE 0) < Wrap
    BY <1>0, <1>2
  <2>2. /\ TopAlloc(a, size).guard = TRUE
        /\ TopAlloc(a, size).memSize = a.memSize - size - (IF a.guard THEN 0 ELSE 1)
        /\ TopAlloc(a, size).memSize \in Nat
        /\ TopAlloc(a, size).ret = PhysBase + TopAlloc(a, size).memSize + 1
        /\ TopAlloc(a, size).ret + size =
             PhysBase + a.memSize + (IF a.guard THEN 1 ELSE 0)
    BY <2>1, TopAllocFits
  <2>3. QED
    BY <2>2, <1>0 DEF t
<1>4. nb \in Block
  BY <1>2, <1>3, KbootAssumption DEF Block, nb
<1>5. t.memSize <= a.memSize /\ t.memSize < MemPages
  <2>1. CASE a.guard
    BY <2>1, <1>1, <1>2, <1>3
  <2>2. CASE ~a.guard
    BY <2>2, <1>1, <1>2, <1>3
  <2>3. QED
    BY <2>1, <2>2
<1>6. \A b \in A \cup {nb} :
        PhysBase + t.memSize + 1 <= b.start /\ b.start + b.size <= PhysBase + MemPages
  <2>1. /\ nb.start = PhysBase + t.memSize + 1
        /\ nb.start + nb.size = PhysBase + a.memSize + g
    BY <1>3 DEF nb
  <2>2. \A b \in A : PhysBase + t.memSize + 1 <= b.start
                    /\ b.start + b.size <= PhysBase + MemPages
    BY <1>1, <1>2, <1>3, <1>5 DEF Block
  <2>3. PhysBase + t.memSize + 1 <= nb.start /\ nb.start + nb.size <= PhysBase + MemPages
    BY <2>1, <1>2, <1>3
  <2>4. QED
    BY <2>2, <2>3, Zenon
<1>7. \A b, c \in A \cup {nb} : b # c => ~Overlap(b, c)
  <2>1. /\ PhysBase + a.memSize + 1 \in Nat
        /\ nb.start + nb.size <= PhysBase + a.memSize + 1
    BY <1>0, <1>2, <1>3 DEF nb
  <2>2. QED
    BY <1>1, <1>4, <2>1, AddBlockBelow
<1>8. GeometryOf(t.memSize, TRUE, A \cup {nb})
  <2>1. t.memSize <= MemPages /\ t.memSize < MemPages
    BY <1>2, <1>3, <1>5
  <2>2. QED
    BY <2>1, <1>6, <1>7 DEF GeometryOf
<1>9. QED
  BY <1>3, <1>4, <1>8 DEF t, nb

(* The budget left for n + 1 requests is that for n plus one request.      *)
LEMMA BudgetArith ==
    ASSUME NEW k \in Nat, NEW n \in Nat
    PROVE  n * k \in Nat /\ (n + 1) * k = n * k + k
BY SMT

LEMMA AllocInvInit ==
    ASSUME NEW k \in Nat, FitsInMemory(k)
    PROVE  Init => AllocInv(k)
<1> SUFFICES ASSUME Init PROVE AllocInv(k)
  OBVIOUS
<1>1. KInv
  BY KInvInit
<1>2. Geometry
  BY KbootAssumption DEF Init, Geometry, GeometryOf
<1>3. Budget(k)
  <2>1. MaxReqs \in Nat /\ MaxReqs * k \in Nat
    BY KbootAssumption, BudgetArith
  <2>2. QED
    BY <2>1 DEF Init, Budget, FitsInMemory
<1>4. QED
  BY <1>1, <1>2, <1>3 DEF AllocInv

(* A request other than the allocating ones uses up its share of the       *)
(* budget without allocating.                                              *)
LEMMA AllocInvSetChosen ==
    ASSUME NEW k \in Nat, AllocInv(k), KInv',
           NEW n \in Names \cup {NULL}, NEW v \in Values \cup {NULL}, SetChosen(n, v)
    PROVE  AllocInv(k)'
<1>1. /\ memSize' = memSize /\ guardInserted' = guardInserted /\ allocs' = allocs
      /\ reqs < MaxReqs /\ reqs' = reqs + 1
      /\ reqs \in Nat /\ MaxReqs \in Nat /\ memSize \in Nat
  BY KbootAssumption DEF SetChosen, Request, AllocInv, KInv, TypeOK
<1>2. PICK r \in Nat : r = MaxReqs - reqs - 1
  BY <1>1
<1>3. /\ (MaxReqs - reqs) * k = r * k + k
      /\ (MaxReqs - reqs') * k = r * k
      /\ r * k \in Nat
  BY <1>1, <1>2, BudgetArith
<1>4. Budget(k)'
  BY <1>1, <1>3 DEF AllocInv, Budget
<1>5. Geometry'
  BY <1>1 DEF AllocInv, Geometry
<1>6. QED
  BY <1>4, <1>5 DEF AllocInv

(* kboot_set_initrd: one allocation of at most k pages.                   *)
LEMMA AllocInvSetInitrd ==
    ASSUME NEW k \in Nat, FitsInMemory(k), AllocInv(k), KInv',
           NEW s \in InitrdSizes, SetInitrd(s)
    PROVE  AllocInv(k)'
<1> DEFINE t == TopAlloc(Alloc0, s)
           g == IF guardInserted THEN 0 ELSE 1
<1>1. /\ reqs < MaxReqs /\ reqs' = reqs + 1
      /\ reqs \in Nat /\ MaxReqs \in Nat /\ memSize \in Nat
      /\ guardInserted \in BOOLEAN /\ allocs \in SUBSET Block
      /\ s \in Nat /\ s <= k
  BY KbootAssumption DEF SetInitrd, Request, AllocInv, KInv, TypeOK, FitsInMemory
<1>2. PICK r \in Nat : r = MaxReqs - reqs - 1
  BY <1>1
<1>3. /\ (MaxReqs - reqs) * k = r * k + k
      /\ (MaxReqs - reqs') * k = r * k
      /\ r * k \in Nat
  BY <1>1, <1>2, BudgetArith
<1>4. memSize >= r * k + k + g
  BY <1>3 DEF AllocInv, Budget, g
<1>5. /\ Alloc0.memSize = memSize /\ Alloc0.guard = guardInserted
      /\ GeometryOf(Alloc0.memSize, Alloc0.guard, allocs)
  BY DEF Alloc0, AllocInv, Geometry
<1>6. /\ t.guard = TRUE
      /\ t.memSize = memSize - s - g
      /\ t.memSize \in Nat
      /\ [start |-> t.ret, size |-> s] \in Block
      /\ GeometryOf(t.memSize, TRUE, allocs \cup {[start |-> t.ret, size |-> s]})
  <2>1. /\ Alloc0.memSize \in Nat /\ Alloc0.guard \in BOOLEAN
        /\ Alloc0.memSize >= s + (IF Alloc0.guard THEN 0 ELSE 1)
        /\ PhysBase + MemPages < Wrap
    BY <1>1, <1>3, <1>4, <1>5 DEF g, FitsInMemory
  <2>2. /\ TopAlloc(Alloc0, s).guard = TRUE
        /\ TopAlloc(Alloc0, s).memSize =
             Alloc0.memSize - s - (IF Alloc0.guard THEN 0 ELSE 1)
        /\ TopAlloc(Alloc0, s).memSize \in Nat
        /\ [start |-> TopAlloc(Alloc0, s).ret, size |-> s] \in Block
        /\ GeometryOf(TopAlloc(Alloc0, s).memSize, TRUE,
                      allocs \cup {[start |-> TopAlloc(Alloc0, s).ret, size |-> s]})
    BY <1>1, <1>5, <2>1, AllocKeepsGeometry
  <2>3. QED
    BY <2>2, <1>5 DEF t, g
<1>7. /\ memSize' = t.memSize /\ guardInserted' = t.guard
      /\ allocs' = allocs \cup {[start |-> t.ret, size |-> s]}
  BY DEF SetInitrd, t
<1>8. Geometry'
  BY <1>6, <1>7 DEF Geometry
<1>9. Budget(k)'
  BY <1>1, <1>3, <1>4, <1>6, <1>7 DEF Budget
<1>10. QED
  BY <1>8, <1>9 DEF AllocInv

(* kboot_prepare_dt: the tree buffer, then (unless opening the tree fails) *)
(* the log buffer, at most k pages together.                               *)
LEMMA AllocInvPrepareDt ==
    ASSUME NEW k \in Nat, FitsInMemory(k), AllocInv(k), KInv',
           NEW s \in FdtSizes, NEW o \in {"ok", "open_fails", "later_fails"},
           PrepareDt(s, o)
    PROVE  AllocInv(k)'
<1> DEFINE a1 == TopAlloc(Alloc0, s + Extra)
           a2 == TopAlloc(a1, LogPages)
           newDt == [start |-> a1.ret, size |-> s + Extra]
           newLog == [start |-> a2.ret, size |-> LogPages]
           g == IF guardInserted THEN 0 ELSE 1
<1>1. /\ reqs < MaxReqs /\ reqs' = reqs + 1
      /\ reqs \in Nat /\ MaxReqs \in Nat /\ memSize \in Nat
      /\ guardInserted \in BOOLEAN /\ allocs \in SUBSET Block
      /\ s + Extra \in Nat /\ LogPages \in Nat /\ s + Extra + LogPages <= k
      /\ PhysBase + MemPages < Wrap
  BY KbootAssumption DEF PrepareDt, Request, AllocInv, KInv, TypeOK, FitsInMemory
<1>2. PICK r \in Nat : r = MaxReqs - reqs - 1
  BY <1>1
<1>3. /\ (MaxReqs - reqs) * k = r * k + k
      /\ (MaxReqs - reqs') * k = r * k
      /\ r * k \in Nat
  BY <1>1, <1>2, BudgetArith
<1>4. memSize >= r * k + k + g
  BY <1>3 DEF AllocInv, Budget, g
(* The tree buffer.                                                        *)
<1>5. /\ a1.guard = TRUE
      /\ a1.memSize = memSize - (s + Extra) - g
      /\ a1.memSize \in Nat
      /\ newDt \in Block
      /\ GeometryOf(a1.memSize, TRUE, allocs \cup {newDt})
  <2>1. /\ Alloc0.memSize = memSize /\ Alloc0.guard = guardInserted
        /\ GeometryOf(Alloc0.memSize, Alloc0.guard, allocs)
    BY DEF Alloc0, AllocInv, Geometry
  <2>2. /\ Alloc0.memSize \in Nat /\ Alloc0.guard \in BOOLEAN
        /\ Alloc0.memSize >= (s + Extra) + (IF Alloc0.guard THEN 0 ELSE 1)
    BY <1>1, <1>3, <1>4, <2>1 DEF g
  <2>3. /\ TopAlloc(Alloc0, s + Extra).guard = TRUE
        /\ TopAlloc(Alloc0, s + Extra).memSize =
             Alloc0.memSize - (s + Extra) - (IF Alloc0.guard THEN 0 ELSE 1)
        /\ TopAlloc(Alloc0, s + Extra).memSize \in Nat
        /\ [start |-> TopAlloc(Alloc0, s + Extra).ret, size |-> s + Extra] \in Block
        /\ GeometryOf(TopAlloc(Alloc0, s + Extra).memSize, TRUE,
                      allocs \cup {[start |-> TopAlloc(Alloc0, s + Extra).ret,
                                    size |-> s + Extra]})
    BY <1>1, <2>1, <2>2, AllocKeepsGeometry
  <2>4. QED
    BY <2>1, <2>3 DEF a1, newDt, g
(* The log buffer, below the tree buffer.                                  *)
<1>6. /\ a2.memSize = a1.memSize - LogPages
      /\ a2.memSize \in Nat
      /\ a2.guard = TRUE
      /\ newLog \in Block
      /\ GeometryOf(a2.memSize, TRUE, (allocs \cup {newDt}) \cup {newLog})
  <2>1. a1.memSize >= LogPages + (IF a1.guard THEN 0 ELSE 1)
    BY <1>1, <1>3, <1>4, <1>5
  <2>2. /\ (allocs \cup {newDt}) \in SUBSET Block
        /\ a1.guard \in BOOLEAN
        /\ GeometryOf(a1.memSize, a1.guard, allocs \cup {newDt})
    BY <1>1, <1>5
  <2>3. /\ TopAlloc(a1, LogPages).guard = TRUE
        /\ TopAlloc(a1, LogPages).memSize =
             a1.memSize - LogPages - (IF a1.guard THEN 0 ELSE 1)
        /\ TopAlloc(a1, LogPages).memSize \in Nat
        /\ [start |-> TopAlloc(a1, LogPages).ret, size |-> LogPages] \in Block
        /\ GeometryOf(TopAlloc(a1, LogPages).memSize, TRUE,
                      (allocs \cup {newDt}) \cup
                        {[start |-> TopAlloc(a1, LogPages).ret, size |-> LogPages]})
    BY <1>1, <1>5, <2>1, <2>2, AllocKeepsGeometry
  <2>4. a2.memSize = a1.memSize - LogPages
    BY <1>1, <1>5, <2>3 DEF a2
  <2>5. QED
    BY <1>5, <2>3, <2>4 DEF a2, newLog
<1>7. CASE o = "open_fails"
  <2>1. /\ memSize' = a1.memSize /\ guardInserted' = a1.guard
        /\ allocs' = allocs \cup {newDt}
    BY <1>7 DEF PrepareDt, a1, newDt
  <2>2. Geometry'
    BY <1>5, <2>1 DEF Geometry
  <2>3. Budget(k)'
    BY <1>1, <1>3, <1>4, <1>5, <2>1 DEF Budget, g
  <2>4. QED
    BY <2>2, <2>3 DEF AllocInv
<1>8. CASE o # "open_fails"
  <2>1. /\ memSize' = a2.memSize /\ guardInserted' = a2.guard
        /\ allocs' = allocs \cup {newDt, newLog}
    BY <1>8 DEF PrepareDt, a1, a2, newDt, newLog
  <2>2. allocs \cup {newDt, newLog} = (allocs \cup {newDt}) \cup {newLog}
    OBVIOUS
  <2>3. Geometry'
    BY <1>6, <2>1, <2>2 DEF Geometry
  <2>4. Budget(k)'
    BY <1>1, <1>3, <1>4, <1>5, <1>6, <2>1 DEF Budget, g
  <2>5. QED
    BY <2>3, <2>4 DEF AllocInv
<1>9. QED
  BY <1>7, <1>8

LEMMA AllocInvStep ==
    ASSUME NEW k \in Nat, FitsInMemory(k)
    PROVE  AllocInv(k) /\ [Next]_vars => AllocInv(k)'
<1> SUFFICES ASSUME AllocInv(k), [Next]_vars PROVE AllocInv(k)'
  OBVIOUS
<1>0. KInv'
  BY KInvStep DEF AllocInv
<1>1. CASE UNCHANGED vars
  BY <1>0, <1>1 DEF vars, AllocInv, Geometry, Budget
<1>2. QED
  BY <1>0, <1>1, AllocInvSetChosen, AllocInvSetInitrd, AllocInvPrepareDt DEF Next

(* Allocator soundness (AllocsDisjoint), for every address-space size,     *)
(* phys_base, memory size, request sizes and number of requests, provided *)
(* the requests fit (FitsInMemory): no two blocks top_of_memory_alloc      *)
(* hands out overlap, and none overlaps the guard page or the RAM still    *)
(* reported to the kernel in mem_size.  Without the proviso the u32        *)
(* subtraction in top_of_memory_alloc wraps and the property fails.        *)
THEOREM AllocsDisjointHolds ==
    ASSUME NEW k \in Nat, FitsInMemory(k)
    PROVE  Spec => []AllocsDisjoint
<1>1. AllocInv(k) => AllocsDisjoint
  <2> SUFFICES ASSUME AllocInv(k), NEW b \in allocs
               PROVE  /\ ~Overlap(b, [start |-> PhysBase, size |-> memSize])
                      /\ ~Overlap(b, [start |-> (PhysBase + memSize) % Wrap,
                                      size |-> IF guardInserted THEN 1 ELSE 0])
                      /\ \A c \in allocs : b # c => ~Overlap(b, c)
    BY DEF AllocsDisjoint
  <2>1. /\ memSize \in Nat /\ memSize <= MemPages
        /\ PhysBase + memSize + 1 <= b.start
        /\ \A c \in allocs : b # c => ~Overlap(b, c)
        /\ b.start \in Nat /\ b.size \in Nat
    BY DEF AllocInv, KInv, TypeOK, Geometry, GeometryOf, Block
  <2>2. (PhysBase + memSize) % Wrap = PhysBase + memSize
    <3>1. PhysBase + memSize \in 0 .. Wrap - 1 /\ Wrap \in Nat \ {0}
      BY <2>1, KbootAssumption DEF FitsInMemory
    <3>2. QED
      BY <3>1
  <2>3. QED
    BY <2>1, <2>2, KbootAssumption DEF Overlap
<1>2. QED
  BY <1>1, AllocInvInit, AllocInvStep, PTL DEF Spec
=============================================================================
