-------------------------- MODULE CacheRange_proofs --------------------------
(***************************************************************************)
(* Proofs about CacheRange: what the by-address maintenance loop has done  *)
(* when it ends, for every line size and every bound on the arguments.     *)
(***************************************************************************)
EXTENDS CacheRange, TLAPS

(* Integer division by the line size is monotone.                          *)
LEMMA LineOfMonotone ==
    ASSUME NEW a \in Nat, NEW b \in Nat, a <= b
    PROVE  LineOf(a) <= LineOf(b) /\ LineOf(a) \in Nat /\ LineOf(b) \in Nat
BY CacheRangeAssumption DEF LineOf

(* Euclidean division by the line size: an address is its line times the  *)
(* line size plus its offset, and the offset is below the line size.       *)
LEMMA LineDivMod ==
    ASSUME NEW x \in Nat
    PROVE  /\ x = LineOf(x) * LineSize + (x % LineSize)
           /\ x % LineSize \in 0 .. LineSize - 1
           /\ LineOf(x) \in Nat
BY CacheRangeAssumption DEF LineOf

(* Multiplication by the line size is strictly monotone, by whole lines.   *)
LEMMA LineMulMono ==
    ASSUME NEW a \in Nat, NEW b \in Nat, a < b
    PROVE  a * LineSize + LineSize <= b * LineSize
<1>1. b * LineSize = a * LineSize + (b - a) * LineSize
  BY CacheRangeAssumption
<1>2. (b - a) * LineSize >= LineSize
  BY CacheRangeAssumption
<1>3. QED
  BY <1>1, <1>2, CacheRangeAssumption

(* An address written as whole lines plus an offset below the line size    *)
(* has that line and that offset.                                          *)
LEMMA LineUnique ==
    ASSUME NEW a \in Nat, NEW b \in 0 .. LineSize - 1, NEW y \in Nat,
           y = a * LineSize + b
    PROVE  LineOf(y) = a /\ y % LineSize = b
<1>1. /\ y = LineOf(y) * LineSize + (y % LineSize)
      /\ y % LineSize \in 0 .. LineSize - 1
      /\ LineOf(y) \in Nat
  BY LineDivMod
<1>2. ~(LineOf(y) < a)
  BY <1>1, LineMulMono, CacheRangeAssumption
<1>3. ~(a < LineOf(y))
  BY <1>1, LineMulMono, CacheRangeAssumption
<1>4. LineOf(y) = a
  BY <1>1, <1>2, <1>3, CacheRangeAssumption DEF LineOf
<1>5. QED
  BY <1>1, <1>4, CacheRangeAssumption

(* One step of p += CACHE_LINE_SIZE moves to the next line and keeps the   *)
(* offset within the line.                                                 *)
LEMMA LineShift ==
    ASSUME NEW x \in Nat
    PROVE  /\ LineOf(x + LineSize) = LineOf(x) + 1
           /\ (x + LineSize) % LineSize = x % LineSize
<1>1. /\ x = LineOf(x) * LineSize + (x % LineSize)
      /\ x % LineSize \in 0 .. LineSize - 1
      /\ LineOf(x) \in Nat
  BY LineDivMod
<1>2. x + LineSize = (LineOf(x) + 1) * LineSize + (x % LineSize)
  BY <1>1, CacheRangeAssumption
<1>3. /\ LineOf(x) + 1 \in Nat
      /\ x % LineSize \in 0 .. LineSize - 1
      /\ x + LineSize \in Nat
  BY <1>1, CacheRangeAssumption
<1>4. QED
  BY <1>2, <1>3, LineUnique

(* An address below a line-aligned address lies on an earlier line.        *)
LEMMA LineBelowAligned ==
    ASSUME NEW x \in Nat, NEW y \in Nat, x < y, y % LineSize = 0
    PROVE  LineOf(x) < LineOf(y)
<1>1. /\ y = LineOf(y) * LineSize + (y % LineSize)
      /\ LineOf(y) \in Nat
      /\ x = LineOf(x) * LineSize + (x % LineSize)
      /\ x % LineSize \in 0 .. LineSize - 1
      /\ LineOf(x) \in Nat
  BY LineDivMod
<1>2. y = LineOf(y) * LineSize
  BY <1>1, CacheRangeAssumption DEF LineOf
<1>3. ~(LineOf(y) < LineOf(x))
  BY <1>1, <1>2, LineMulMono, CacheRangeAssumption
<1>4. LineOf(x) # LineOf(y)
  BY <1>1, <1>2, CacheRangeAssumption
<1>5. QED
  BY <1>1, <1>3, <1>4

(* The loop pointer keeps addr's offset within a line, and the lines done  *)
(* so far are exactly those from addr's line up to the line before p's;   *)
(* an empty range never moves p.                                           *)
RangeInv ==
    /\ TypeOK
    /\ p >= addr
    /\ length = 0 => p = addr
    /\ p % LineSize = addr % LineSize
    /\ done = LineOf(addr) .. LineOf(p) - 1

LEMMA RangeInvInit == Init => RangeInv
<1> SUFFICES ASSUME Init PROVE RangeInv
  OBVIOUS
<1>1. p \in addr .. addr + length + LineSize - 1
  BY CacheRangeAssumption DEF Init
<1>2. LineOf(addr) .. LineOf(p) - 1 = {}
  BY CacheRangeAssumption DEF Init, LineOf
<1>3. QED
  BY <1>1, <1>2 DEF Init, RangeInv, TypeOK

LEMMA RangeInvStep == RangeInv /\ [Next]_vars => RangeInv'
<1> SUFFICES ASSUME RangeInv, [Next]_vars PROVE RangeInv'
  OBVIOUS
<1>1. CASE UNCHANGED vars
  BY <1>1 DEF vars, RangeInv, TypeOK
<1>2. CASE LoopStep
  <2>1. /\ addr \in 0 .. MaxAddr /\ length \in 0 .. MaxLength
        /\ p \in addr .. addr + length - 1
        /\ addr' = addr /\ length' = length
        /\ p' = p + LineSize
        /\ done' = done \cup {LineOf(p)}
    BY <1>2, CacheRangeAssumption DEF LoopStep, RangeInv, TypeOK
  <2>2. /\ LineOf(p) <= LineOf(MaxAddr + MaxLength)
        /\ LineOf(addr) <= LineOf(p)
        /\ LineOf(p) \in Nat /\ LineOf(addr) \in Nat
    BY <2>1, LineOfMonotone, CacheRangeAssumption
  <2>3. LineOf(p') = LineOf(p) + 1 /\ p' % LineSize = p % LineSize
    BY <2>1, LineShift
  <2>4. done' = LineOf(addr') .. LineOf(p') - 1
    BY <2>1, <2>2, <2>3 DEF RangeInv
  <2>5. TypeOK'
    <3>1. p' \in addr' .. addr' + length' + LineSize - 1
      BY <2>1, CacheRangeAssumption
    <3>2. done' \subseteq 0 .. LineOf(MaxAddr + MaxLength)
      BY <2>1, <2>2 DEF RangeInv, TypeOK
    <3>3. QED
      BY <2>1, <3>1, <3>2 DEF TypeOK
  <2>6. QED
    BY <2>1, <2>3, <2>4, <2>5, CacheRangeAssumption DEF RangeInv
<1>3. QED
  BY <1>1, <1>2 DEF Next

(* At the loop's end, RangeInv pins the lines done between the range's     *)
(* last line and the line before it.                                       *)
LEMMA RangeInvExit == RangeInv => LinesAtExit
<1> SUFFICES ASSUME RangeInv, p >= addr + length
             PROVE  /\ done \subseteq RangeLines
                    /\ RangeLines \ done \subseteq {LineOf(addr + length - 1)}
                    /\ addr % LineSize = 0 => done = RangeLines
  BY DEF LinesAtExit
<1>1. /\ addr \in Nat /\ length \in Nat /\ p \in Nat
      /\ p <= addr + length + LineSize - 1
      /\ done = LineOf(addr) .. LineOf(p) - 1
  BY CacheRangeAssumption DEF RangeInv, TypeOK
<1>2. CASE length = 0
  <2>1. p = addr
    BY <1>2 DEF RangeInv
  <2>2. done = {} /\ RangeLines = {}
    BY <1>1, <1>2, <2>1, CacheRangeAssumption DEF LineOf, RangeLines
  <2>3. QED
    BY <2>2
<1>3. CASE length # 0
  <2> DEFINE Z == LineOf(addr + length - 1)
  <2>1. RangeLines = LineOf(addr) .. Z
    BY <1>3 DEF RangeLines
  <2>2. Z <= LineOf(p) /\ Z \in Nat /\ LineOf(p) \in Nat
    BY <1>1, <1>3, LineOfMonotone
  <2>3. LineOf(p) - 1 <= Z
    <3>1. CASE p < LineSize
      BY <3>1, <1>1, <2>2, CacheRangeAssumption DEF LineOf
    <3>2. CASE p >= LineSize
      <4>1. p - LineSize \in Nat /\ p - LineSize <= addr + length - 1
        BY <3>2, <1>1, CacheRangeAssumption
      <4>2. LineOf(p - LineSize) <= Z
        BY <4>1, <1>1, <1>3, LineOfMonotone
      <4>3. LineOf(p - LineSize) = LineOf(p) - 1
        <5>1. LineOf((p - LineSize) + LineSize) = LineOf(p - LineSize) + 1
          BY <4>1, LineShift
        <5>2. (p - LineSize) + LineSize = p
          BY <4>1, <1>1, CacheRangeAssumption
        <5>3. LineOf(p) = LineOf(p - LineSize) + 1
          BY <5>1, <5>2
        <5>4. LineOf(p - LineSize) \in Nat
          BY <4>1, LineOfMonotone
        <5>5. QED
          BY <5>3, <5>4
      <4>4. QED
        BY <4>2, <4>3
    <3>3. QED
      BY <3>1, <3>2, <1>1, CacheRangeAssumption
  <2>4. addr % LineSize = 0 => Z < LineOf(p)
    <3> SUFFICES ASSUME addr % LineSize = 0 PROVE Z < LineOf(p)
      OBVIOUS
    <3>1. p % LineSize = 0
      BY DEF RangeInv
    <3>2. QED
      BY <3>1, <1>1, <1>3, LineBelowAligned
  <2>5. QED
    BY <1>1, <2>1, <2>2, <2>3, <2>4
<1>4. QED
  BY <1>2, <1>3

(* The cache-range loops of memory.c, once p has reached end, have         *)
(* operated only on lines of the range, on all of them but at most the     *)
(* line holding the last byte, and on that one too when addr is aligned,   *)
(* whatever the line size and the bounds on addr and length.               *)
THEOREM LinesAtExitHolds == Spec => []LinesAtExit
<1>1. Spec => []RangeInv
  BY RangeInvInit, RangeInvStep, PTL DEF Spec
<1>2. QED
  BY <1>1, RangeInvExit, PTL

(* Type correctness of the cache-range loops: the pointer stays within     *)
(* addr .. addr + length + LineSize - 1 and every line done is a line of   *)
(* the address space.                                                      *)
THEOREM CacheRangeTypeCorrect == Spec => []TypeOK
<1>1. Spec => []RangeInv
  BY RangeInvInit, RangeInvStep, PTL DEF Spec
<1>2. QED
  BY <1>1, PTL DEF RangeInv
=============================================================================
