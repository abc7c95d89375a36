--------------------------- MODULE MemOps_proofs ---------------------------
(***************************************************************************)
(* Proofs about MemOps: the unit loop of memset8..64 and memcpy16..64      *)
(* implements BulkTransfer, the header's promise, for every memory size,  *)
(* pointer set and size bound.  memcpy8 is excluded: it writes u16 units  *)
(* and does not keep the promise (run memops_memcpy8).                     *)
(***************************************************************************)
EXTENDS MemOps, TLAPS

(* No call is to memcpy8.                                                  *)
NoMemcpy8 == 1 \notin CopyWidths

(* The bytes one unit of the loop writes, and those written so far.        *)
E == ElemBytes(call.op, call.w)
Written == call.dst .. call.dst + i * E - 1

Disjoint ==
    \/ call.op = "memset"
    \/ call.src + call.size <= call.dst
    \/ call.dst + call.size <= call.src

(* What byte k of the destination is to hold.                              *)
Source(k) == IF call.op = "memset" THEN FillByte(k % call.w) ELSE call.src + k

(* After i units, the first i*E bytes of dst hold what they should, and no *)
(* other byte has changed.                                                 *)
LoopInv ==
    /\ TypeOK
    /\ InMemory(call)
    /\ i <= UnitCount(call.op, call.w, call.size)
    /\ \A b \in Bytes \ Written : mem[b] = b
    /\ Disjoint => \A k \in 0 .. i * E - 1 : mem[call.dst + k] = Source(k)
-----------------------------------------------------------------------------
(* Arithmetic of the unit widths.                                          *)

(* Byte r of a unit that starts n units in is byte r of the fill value.    *)
LEMMA UnitOffset ==
    ASSUME NEW w \in {1, 2, 4, 8}, NEW n \in Nat, NEW r \in 0 .. w - 1
    PROVE  (n * w + r) % w = r
BY SMT

(* A whole number of units never exceeds size, and is zero only when the   *)
(* number of units is.                                                     *)
LEMMA WholeUnits ==
    ASSUME NEW w \in {1, 2, 4, 8}, NEW s \in Nat
    PROVE  /\ (s \div w) \in Nat
           /\ (s \div w) * w \in 0 .. s
           /\ (s \div w) * w = 0 <=> s \div w = 0
BY SMT

(* The fields of a call, and the unit size and count the loop takes.      *)
LEMMA CallFacts ==
    ASSUME NEW c \in Calls
    PROVE  /\ c.op \in {"memset", "memcpy"}
           /\ c.w \in {1, 2, 4, 8}
           /\ c.size \in Nat
           /\ c.dst \in Bytes
           /\ c.op = "memcpy" => c.src \in Bytes
           /\ c.op = "memset" => c.w \in SetWidths
           /\ c.op = "memcpy" => c.w \in CopyWidths
           /\ ElemBytes(c.op, c.w) \in {1, 2, 4, 8}
           /\ UnitCount(c.op, c.w, c.size) \in Nat
<1>1. /\ c.op \in {"memset", "memcpy"}
      /\ c.w \in SetWidths \cup CopyWidths
      /\ c.size \in 0 .. MaxSize
      /\ c.dst \in Offsets
      /\ c.op = "memcpy" => c.src \in Offsets
      /\ c.op = "memset" => c.w \in SetWidths
      /\ c.op = "memcpy" => c.w \in CopyWidths
  BY DEF Calls
<1>2. c.w \in {1, 2, 4, 8}
  BY <1>1, MemOpsAssumption, Zenon
<1>3. c.size \in Nat
  BY <1>1, MemOpsAssumption, SMT
<1>4. c.dst \in Bytes /\ (c.op = "memcpy" => c.src \in Bytes)
  BY <1>1, MemOpsAssumption, Zenon DEF Bytes
<1>5. ElemBytes(c.op, c.w) \in {1, 2, 4, 8}
  BY <1>2 DEF ElemBytes
<1>6. UnitCount(c.op, c.w, c.size) \in Nat
  BY <1>2, <1>3 DEF UnitCount
<1>7. QED
  BY <1>1, <1>2, <1>3, <1>4, <1>5, <1>6

(* Without memcpy8 a unit is w bytes and the loop covers the truncated     *)
(* range exactly.                                                          *)
LEMMA UnitsCoverTruncated ==
    ASSUME NoMemcpy8, NEW c \in Calls
    PROVE  /\ ElemBytes(c.op, c.w) = c.w
           /\ UnitCount(c.op, c.w, c.size) = c.size \div c.w
           /\ UnitCount(c.op, c.w, c.size) * c.w = Truncated(c)
<1>1. c.w \in {1, 2, 4, 8} /\ c.size \in Nat /\ (c.op = "memcpy" => c.w \in CopyWidths)
  BY CallFacts
<1>2. ElemBytes(c.op, c.w) = c.w
  BY <1>1 DEF NoMemcpy8, ElemBytes
<1>3. UnitCount(c.op, c.w, c.size) = c.size \div c.w
  BY <1>1 DEF UnitCount
<1>4. QED
  BY <1>1, <1>2, <1>3 DEF Truncated
-----------------------------------------------------------------------------
(* The loop invariant.                                                     *)

LEMMA LoopInvInit == Init => LoopInv
<1> SUFFICES ASSUME Init PROVE LoopInv
  OBVIOUS
<1>1. call \in Calls /\ InMemory(call)
  BY DEF Init
<1>2. /\ call.w \in {1, 2, 4, 8}
      /\ call.size \in Nat
      /\ E \in {1, 2, 4, 8}
      /\ UnitCount(call.op, call.w, call.size) \in Nat
  BY <1>1, CallFacts DEF E
<1>3. TypeOK
  <2>1. (call.size \div call.w) \in Nat
    BY <1>2, WholeUnits
  <2>2. mem \in [Bytes -> Nat]
    BY MemOpsAssumption DEF Init, Bytes
  <2>3. QED
    BY <1>1, <2>1, <2>2 DEF Init, TypeOK
<1>4. i <= UnitCount(call.op, call.w, call.size)
  BY <1>2 DEF Init
<1>5. \A b \in Bytes \ Written : mem[b] = b
  BY DEF Init
<1>6. 0 .. i * E - 1 = {}
  BY <1>2 DEF Init
<1>7. QED
  BY <1>1, <1>3, <1>4, <1>5, <1>6 DEF LoopInv

LEMMA LoopInvStep ==
    ASSUME NoMemcpy8
    PROVE  LoopInv /\ [Next]_vars => LoopInv'
<1> SUFFICES ASSUME LoopInv, [Next]_vars PROVE LoopInv'
  OBVIOUS
<1>1. CASE UNCHANGED vars
  BY <1>1 DEF LoopInv, TypeOK, InMemory, Written, E, Disjoint, Source, vars
<1>2. CASE Step
  <2> DEFINE n == UnitCount(call.op, call.w, call.size)
  <2>0. /\ call \in Calls
        /\ InMemory(call)
        /\ call' = call
        /\ i \in Nat
        /\ i' = i + 1
        /\ i < n
        /\ mem \in [Bytes -> Nat]
    BY <1>2 DEF Step, LoopInv, TypeOK
  <2>1. E' = E
    BY <2>0 DEF E
  <2>2. /\ E = call.w
        /\ E \in {1, 2, 4, 8}
        /\ n = call.size \div call.w
        /\ n \in Nat
        /\ n * E <= call.size
        /\ call.size \in Nat
        /\ call.dst \in Bytes
        /\ call.op \in {"memset", "memcpy"}
        /\ call.op = "memcpy" => call.src \in Bytes
    BY <2>0, CallFacts, UnitsCoverTruncated, WholeUnits DEF E
  (* m bytes are written before this unit, and T by the whole loop.        *)
  <2>3. PICK m \in Nat : m = i * E
    BY <2>0, <2>2
  <2>4. PICK T \in Nat : T = n * E
    BY <2>2
  <2>5. (i + 1) * E = m + E
    BY <2>0, <2>2, <2>3
  <2>6. m + E <= T /\ T <= call.size
    BY <2>0, <2>2, <2>3, <2>4, <2>5
  <2>7. /\ call.dst + T <= NBytes
        /\ call.op = "memcpy" => call.src + T <= NBytes
    BY <2>0, <2>2, <2>4 DEF InMemory, E
  <2>8. mem' = [b \in Bytes |->
                  IF b \in call.dst + m .. call.dst + m + E - 1
                    THEN IF call.op = "memset"
                           THEN FillByte(b - (call.dst + m))
                           ELSE mem[call.src + m + (b - (call.dst + m))]
                    ELSE mem[b]]
    BY <1>2, <2>3 DEF Step, E
  <2>9. i' * E' = m + E
    <3>1. i' = i + 1 /\ E' = E
      BY <2>1, <2>0
    <3>2. QED
      BY <3>1, <2>5
  <2>10. Written = call.dst .. call.dst + m - 1
        /\ Written' = call.dst .. call.dst + m + E - 1
    <3>1. Written = call.dst .. call.dst + m - 1
      BY <2>3 DEF Written
    <3>2. Written' = call'.dst .. call'.dst + i' * E' - 1
      BY DEF Written
    <3>3. call'.dst = call.dst /\ call'.dst + i' * E' - 1 = call.dst + m + E - 1
      <4>1. call'.dst = call.dst
        BY <2>0
      <4>2. call.dst \in Nat /\ E \in Nat
        BY <2>2, MemOpsAssumption DEF Bytes
      <4>3. QED
        BY <4>1, <4>2, <2>9
    <3>4. call'.dst .. call'.dst + i' * E' - 1 = call.dst .. call.dst + m + E - 1
      BY <3>3, Zenon
    <3>5. QED
      BY <3>1, <3>2, <3>4, Zenon
  <2>11. TypeOK'
    <3>1. ASSUME NEW b \in Bytes
          PROVE  mem'[b] \in Nat
      <4>1. CASE b \in call.dst + m .. call.dst + m + E - 1 /\ call.op = "memset"
        BY <4>1, <2>2, <2>3, <2>8, MemOpsAssumption DEF FillByte, Bytes
      <4>2. CASE b \in call.dst + m .. call.dst + m + E - 1 /\ call.op = "memcpy"
        <5>1. call.src + m + (b - (call.dst + m)) \in Bytes
          BY <4>2, <2>2, <2>3, <2>6, <2>7, MemOpsAssumption DEF Bytes
        <5>2. QED
          BY <4>2, <5>1, <2>0, <2>8
      <4>3. CASE b \notin call.dst + m .. call.dst + m + E - 1
        BY <4>3, <2>0, <2>8
      <4>4. QED
        BY <4>1, <4>2, <4>3, <2>2
    <3>2. mem' \in [Bytes -> Nat]
      BY <3>1, <2>8
    <3>3. i' \in 0 .. call'.size \div call'.w
      BY <2>0, <2>2
    <3>4. QED
      BY <2>0, <3>2, <3>3 DEF TypeOK
  <2>12. (i <= n)'
    BY <2>0, <2>2
  <2>13. \A b \in Bytes \ Written' : mem'[b] = b
    <3> SUFFICES ASSUME NEW b \in Bytes, b \notin call.dst .. call.dst + m + E - 1
                 PROVE  mem'[b] = b
      BY <2>10
    <3>1. b \notin call.dst + m .. call.dst + m + E - 1 /\ b \in Bytes \ Written
      <4>1. b \notin call.dst .. call.dst + m - 1 /\ b \notin call.dst + m .. call.dst + m + E - 1
        BY <2>2, MemOpsAssumption DEF Bytes
      <4>2. QED
        BY <4>1, <2>10, Zenon
    <3>2. QED
      BY <3>1, <2>8 DEF LoopInv
  <2>14. Disjoint' => \A k \in 0 .. i' * E' - 1 : mem'[call'.dst + k] = Source(k)'
    <3> SUFFICES ASSUME Disjoint, NEW k \in 0 .. m + E - 1
                 PROVE  mem'[call.dst + k] = Source(k)
      <4>1. Disjoint' = Disjoint
        BY <2>0 DEF Disjoint
      <4>2. \A j : Source(j)' = Source(j)
        BY <2>0 DEF Source
      <4>3. \A j : mem'[call'.dst + j] = mem'[call.dst + j]
        BY <2>0
      <4>5. 0 .. i' * E' - 1 = 0 .. m + E - 1
        BY <2>9, <2>2
      <4>4. QED
        BY <4>1, <4>2, <4>3, <4>5, Zenon
    <3>1. call.dst + k \in Bytes
      BY <2>2, <2>3, <2>6, <2>7, MemOpsAssumption DEF Bytes
    <3>2. CASE k < m
      <4>1. call.dst + k \notin call.dst + m .. call.dst + m + E - 1
        BY <3>2, <2>2, <2>3, MemOpsAssumption DEF Bytes
      <4>2. k \in 0 .. i * E - 1
        BY <3>2, <2>3
      <4>3. QED
        BY <4>1, <4>2, <3>1, <2>8 DEF LoopInv
    <3>3. CASE k >= m
      <4>1. call.dst + k \in call.dst + m .. call.dst + m + E - 1
        BY <3>3, <2>2, <2>3, MemOpsAssumption DEF Bytes
      <4>2. CASE call.op = "memset"
        <5>1. (i * E + (k - m)) % E = k - m
          <6>1. k - m \in 0 .. E - 1 /\ i * E + (k - m) = k
            BY <3>3, <2>2, <2>3
          <6>2. QED
            BY <6>1, <2>0, <2>2, UnitOffset
        <5>2. k % call.w = k - m
          BY <5>1, <2>2, <2>3
        <5>3. (call.dst + k) - (call.dst + m) = k - m
          BY <2>2, <2>3, MemOpsAssumption DEF Bytes
        <5>4. QED
          BY <4>1, <4>2, <5>2, <5>3, <3>1, <2>8 DEF Source
      <4>3. CASE call.op = "memcpy"
        <5>1. call.src + k \in Bytes \ Written
          <6>1. call.src + k \in Bytes /\ call.src + k \notin call.dst .. call.dst + m - 1
            BY <4>3, <2>2, <2>6, <2>7, MemOpsAssumption DEF Disjoint, Bytes
          <6>2. QED
            BY <6>1, <2>10, Zenon
        <5>2. mem'[call.dst + k] = mem[call.src + k]
          <6>1. call.src + m + ((call.dst + k) - (call.dst + m)) = call.src + k
            BY <4>3, <2>2, <2>3, MemOpsAssumption DEF Bytes
          <6>2. QED
            BY <6>1, <4>1, <4>3, <3>1, <2>8
        <5>3. QED
          BY <5>1, <5>2, <4>3 DEF LoopInv, Source
      <4>4. QED
        BY <4>2, <4>3, <2>2
    <3>4. QED
      BY <3>2, <3>3
  <2>15. QED
    BY <2>0, <2>11, <2>12, <2>13, <2>14 DEF LoopInv, InMemory
<1>3. QED
  BY <1>1, <1>2 DEF Next

THEOREM LoopCorrect == NoMemcpy8 => (Spec => []LoopInv)
<1> SUFFICES ASSUME NoMemcpy8 PROVE Spec => []LoopInv
  OBVIOUS
<1>1. QED
  BY LoopInvInit, LoopInvStep, PTL DEF Spec

(* After i units the loop has written no byte past the truncated range.    *)
LEMMA LoopInvTouches ==
    ASSUME NoMemcpy8
    PROVE  LoopInv => TouchesOnlyTruncated
<1> SUFFICES ASSUME LoopInv, NEW b \in Bytes,
                    b < call.dst \/ b >= call.dst + Truncated(call)
             PROVE  mem[b] = b
  BY DEF TouchesOnlyTruncated
<1>1. /\ call \in Calls
      /\ i \in Nat
      /\ i <= UnitCount(call.op, call.w, call.size)
  BY DEF LoopInv, TypeOK
<1>2. /\ E = call.w
      /\ E \in {1, 2, 4, 8}
      /\ UnitCount(call.op, call.w, call.size) * call.w = Truncated(call)
      /\ UnitCount(call.op, call.w, call.size) \in Nat
      /\ call.dst \in Bytes
  BY <1>1, CallFacts, UnitsCoverTruncated DEF E
<1>3. PICK m \in Nat : m = i * E
  BY <1>1, <1>2
<1>4. PICK T \in Nat : T = Truncated(call)
  BY <1>2
<1>5. m <= T
  BY <1>1, <1>2, <1>3, <1>4
<1>6. b \notin call.dst .. call.dst + m - 1
  BY <1>4, <1>5, <1>2, MemOpsAssumption DEF Bytes
<1>7. b \notin Written
  BY <1>3, <1>6 DEF Written
<1>8. QED
  BY <1>7 DEF LoopInv

(* Bulk truncation (utils.h, spec 8): while memset8..64 or memcpy16..64   *)
(* runs, no byte outside dst .. dst + floor(size/w)*w - 1 has changed, for *)
(* every memory size, pointer set and size bound.                          *)
THEOREM TouchesOnlyTruncatedHolds == NoMemcpy8 => (Spec => []TouchesOnlyTruncated)
<1> SUFFICES ASSUME NoMemcpy8 PROVE Spec => []TouchesOnlyTruncated
  OBVIOUS
<1>1. QED
  BY LoopCorrect, LoopInvTouches, PTL
-----------------------------------------------------------------------------
(* Type correctness, for every helper memcpy8 included.                    *)

(* The loop bound never exceeds size / w, and a unit never exceeds 8 bytes *)
(* even where the pointer type is wider than the name says.                *)
LEMMA UnitCountBound ==
    ASSUME NEW c \in Calls
    PROVE  UnitCount(c.op, c.w, c.size) <= c.size \div c.w
<1>1. c.w \in {1, 2, 4, 8} /\ c.size \in Nat
  BY CallFacts
<1>2. QED
  BY <1>1 DEF UnitCount

(* The loop is within its bound and the call within memory.               *)
TypeInv ==
    /\ TypeOK
    /\ InMemory(call)
    /\ i <= UnitCount(call.op, call.w, call.size)

LEMMA TypeInvStep == TypeInv /\ [Next]_vars => TypeInv'
<1> SUFFICES ASSUME TypeInv, [Next]_vars PROVE TypeInv'
  OBVIOUS
<1>1. CASE UNCHANGED vars
  BY <1>1 DEF TypeInv, TypeOK, InMemory, vars
<1>2. CASE Step
  <2> DEFINE n == UnitCount(call.op, call.w, call.size)
  <2>0. /\ call \in Calls
        /\ InMemory(call)
        /\ call' = call
        /\ i \in Nat
        /\ i' = i + 1
        /\ i < n
        /\ mem \in [Bytes -> Nat]
    BY <1>2 DEF Step, TypeInv, TypeOK
  <2>1. /\ E \in {1, 2, 4, 8}
        /\ n \in Nat
        /\ n <= call.size \div call.w
        /\ call.size \div call.w \in Nat
        /\ call.w \in {1, 2, 4, 8}
        /\ call.size \in Nat
        /\ call.dst \in Bytes
        /\ call.op \in {"memset", "memcpy"}
        /\ call.op = "memcpy" => call.src \in Bytes
    BY <2>0, CallFacts, UnitCountBound, WholeUnits DEF E
  <2>2. PICK m \in Nat : m = i * E
    BY <2>0, <2>1
  <2>3. PICK T \in Nat : T = n * E
    BY <2>1
  <2>4. m + E <= T
    BY <2>0, <2>1, <2>2, <2>3
  <2>5. call.op = "memcpy" => call.src + T <= NBytes
    BY <2>0, <2>3 DEF InMemory, E
  <2>6. mem' = [b \in Bytes |->
                  IF b \in call.dst + m .. call.dst + m + E - 1
                    THEN IF call.op = "memset"
                           THEN FillByte(b - (call.dst + m))
                           ELSE mem[call.src + m + (b - (call.dst + m))]
                    ELSE mem[b]]
    BY <1>2, <2>2 DEF Step, E
  <2>7. ASSUME NEW b \in Bytes
        PROVE  mem'[b] \in Nat
    <3>1. CASE b \in call.dst + m .. call.dst + m + E - 1 /\ call.op = "memset"
      BY <3>1, <2>1, <2>2, <2>6, MemOpsAssumption DEF FillByte, Bytes
    <3>2. CASE b \in call.dst + m .. call.dst + m + E - 1 /\ call.op = "memcpy"
      <4>1. call.src + m + (b - (call.dst + m)) \in Bytes
        BY <3>2, <2>1, <2>2, <2>4, <2>5, MemOpsAssumption DEF Bytes
      <4>2. QED
        BY <3>2, <4>1, <2>0, <2>6
    <3>3. CASE b \notin call.dst + m .. call.dst + m + E - 1
      BY <3>3, <2>0, <2>6
    <3>4. QED
      BY <3>1, <3>2, <3>3, <2>1
  <2>8. mem' \in [Bytes -> Nat]
    BY <2>7, <2>6
  <2>9. i' \in 0 .. call'.size \div call'.w /\ i' <= UnitCount(call'.op, call'.w, call'.size)
    BY <2>0, <2>1
  <2>10. QED
    BY <2>0, <2>8, <2>9 DEF TypeInv, TypeOK, InMemory
<1>3. QED
  BY <1>1, <1>2 DEF Next

(* Type correctness of the unit loop of every memset and memcpy helper,    *)
(* memcpy8's u16 pointers included: the index stays within size / w and    *)
(* every byte read or written lies in memory.                              *)
THEOREM MemOpsTypeCorrect == Spec => []TypeOK
<1>1. Init => TypeInv
  BY LoopInvInit DEF LoopInv, TypeInv, Init
<1>2. QED
  BY <1>1, TypeInvStep, PTL DEF Spec, TypeInv
-----------------------------------------------------------------------------
(* The refinement.                                                         *)

LEMMA BulkInit ==
    ASSUME NoMemcpy8
    PROVE  Init => Bulk!Init
<1> SUFFICES ASSUME Init PROVE Bulk!Init
  OBVIOUS
<1>1. call \in Calls /\ InMemory(call) /\ i = 0 /\ mem = [b \in Bytes |-> b]
  BY DEF Init
<1>2. /\ call.w \in {1, 2, 4, 8}
      /\ call.size \in Nat
      /\ UnitCount(call.op, call.w, call.size) = call.size \div call.w
      /\ UnitCount(call.op, call.w, call.size) * call.w = Truncated(call)
  BY <1>1, CallFacts, UnitsCoverTruncated
<1>3. Finished = (Truncated(call) = 0)
  BY <1>1, <1>2, WholeUnits DEF Finished
<1>4. (IF Finished THEN mem ELSE [b \in Bytes |-> b]) = [b \in Bytes |-> b]
  BY <1>1
<1>5. QED
  BY <1>1, <1>3, <1>4 DEF Bulk!Init, Bulk!Bytes, Bytes, Bulk!Truncated, Truncated

LEMMA BulkStep ==
    ASSUME NoMemcpy8
    PROVE  LoopInv /\ LoopInv' /\ [Next]_vars => [Bulk!Transfer]_(Bulk!vars)
<1> SUFFICES ASSUME LoopInv, LoopInv', [Next]_vars
             PROVE  [Bulk!Transfer]_(Bulk!vars)
  OBVIOUS
<1>1. CASE UNCHANGED vars
  BY <1>1 DEF vars, Bulk!vars, Finished
<1>2. CASE Step
  <2> DEFINE n == UnitCount(call.op, call.w, call.size)
  <2>1. /\ call \in Calls
        /\ InMemory(call)
        /\ call' = call
        /\ i \in Nat
        /\ i' = i + 1
        /\ i < n
        /\ Finished = (i = n)
        /\ Finished' = (i' = n)
    BY <1>2 DEF Step, LoopInv, TypeOK, Finished
  <2>2. /\ E = call.w
        /\ E' = E
        /\ call.w \in {1, 2, 4, 8}
        /\ n \in Nat
        /\ n * call.w = Truncated(call)
    BY <2>1, CallFacts, UnitsCoverTruncated DEF E
  <2>3. CASE i' < n
    <3>1. ~Finished /\ ~Finished'
      <4>1. i # n /\ i' # n
        BY <2>1, <2>3, <2>2
      <4>2. QED
        BY <4>1, <2>1, Zenon
    <3>2. QED
      BY <3>1, <2>1 DEF Bulk!vars
  <2>4. CASE i' = n
    <3>1. ~Finished /\ Finished'
      <4>1. i # n /\ i' = n
        BY <2>1, <2>4, <2>2
      <4>2. QED
        BY <4>1, <2>1, Zenon
    <3>2. i' * E' = Truncated(call) /\ Truncated(call) \in Nat
      BY <2>1, <2>2, <2>4
    <3>3. Written' = Bulk!Target(call)
      BY <3>2, <2>1 DEF Written, Bulk!Target, Bulk!Truncated, Truncated
    <3>4. mem' \in [Bytes -> Nat]
      BY DEF LoopInv, TypeOK
    <3>5. \A b \in Bytes \ Bulk!Target(call) : mem'[b] = b
      BY <3>3 DEF LoopInv
    <3>6. ASSUME Bulk!Disjoint(call), NEW j \in 0 .. Truncated(call) - 1
          PROVE  mem'[call.dst + j] =
                   IF call.op = "memset" THEN FillByte(j % call.w)
                   ELSE [b \in Bytes |-> b][call.src + j]
      <4>1. Disjoint' /\ j \in 0 .. i' * E' - 1
        BY <3>6, <3>2, <2>1 DEF Disjoint, Bulk!Disjoint
      <4>2. mem'[call.dst + j] = Source(j)'
        <5>1. (Disjoint => \A k \in 0 .. i * E - 1 : mem[call.dst + k] = Source(k))'
          BY DEF LoopInv
        <5>2. QED
          BY <5>1, <4>1, <2>1, Zenon
      <4>3. call.op = "memcpy" => call.src + j \in Bytes
        <5>1. call.op = "memcpy" => call.src \in Bytes /\ call.src + Truncated(call) <= NBytes
          BY <2>1, <2>2, CallFacts DEF InMemory, E
        <5>2. QED
          BY <5>1, <3>2, MemOpsAssumption DEF Bytes
      <4>4. Source(j)' = IF call.op = "memset" THEN FillByte(j % call.w) ELSE call.src + j
        BY <2>1 DEF Source
      <4>5. call.op = "memcpy" => [b \in Bytes |-> b][call.src + j] = call.src + j
        BY <4>3
      <4>6. call.op \in {"memset", "memcpy"}
        BY <2>1, CallFacts
      <4>7. QED
        BY <4>2, <4>4, <4>5, <4>6, Zenon
    <3>7. QED
      BY <3>1, <3>4, <3>5, <3>6, <2>1
         DEF Bulk!Transfer, Bulk!Bytes, Bytes, Bulk!FillByte, FillByte, Bulk!Truncated, Truncated
  <2>5. QED
    BY <2>1, <2>2, <2>3, <2>4
<1>3. QED
  BY <1>1, <1>2 DEF Next

(* The unit loop of memset8..64 and memcpy16..64 implements the header's   *)
(* promise: a call, taken as a whole, writes only the truncated            *)
(* destination range, with the fill pattern or the source bytes when the   *)
(* two do not overlap.                                                     *)
THEOREM BulkImplemented == NoMemcpy8 => (Spec => BulkRefinement)
<1> SUFFICES ASSUME NoMemcpy8 PROVE Spec => Bulk!Spec
  BY DEF BulkRefinement
<1>1. QED
  BY LoopCorrect, BulkInit, BulkStep, PTL DEF Spec, Bulk!Spec
=============================================================================
