----------------------------- MODULE CacheRange -----------------------------
(***************************************************************************)
(* The by-address cache maintenance loops ic_ivau_range, dc_ivac_range,    *)
(* dc_cvac_range, dc_cvau_range and dc_civac_range that CACHE_RANGE_OP     *)
(* generates in src/src/memory.c, called by P_IC_IVAU, P_DC_IVAC,          *)
(* P_DC_CVAC, P_DC_CVAU, P_DC_CIVAC and by mmu_init on the page tables.    *)
(* A by-MVA operation acts on the whole line that holds the address.  The  *)
(* line size is a constant (64 in the code, smaller here).                 *)
(***************************************************************************)
EXTENDS Naturals

CONSTANTS
    LineSize,   \* CACHE_LINE_SIZE
    MaxAddr,    \* largest start address of a call
    MaxLength   \* largest length of a call

ASSUME CacheRangeAssumption ==
    /\ LineSize \in Nat \ {0}
    /\ MaxAddr \in Nat
    /\ MaxLength \in Nat

LineOf(a) == a \div LineSize

VARIABLES
    addr,     \* the addr argument
    length,   \* the length argument
    p,        \* the loop pointer
    done      \* the lines a cacheop has been issued for

vars == <<addr, length, p, done>>

TypeOK ==
    /\ addr \in 0 .. MaxAddr
    /\ length \in 0 .. MaxLength
    /\ p \in addr .. addr + length + LineSize - 1
    /\ done \subseteq 0 .. LineOf(MaxAddr + MaxLength)

InitAlignUp ==
    /\ addr \in 0 .. MaxAddr
    /\ length \in 0 .. MaxLength
    /\ p = ((addr + LineSize - 1) \div LineSize) * LineSize
    /\ done = {}
Init ==
    /\ addr \in 0 .. MaxAddr
    /\ length \in 0 .. MaxLength
    /\ p = addr       \* u64 p = addr, not aligned down to a line
    /\ done = {}

(* while (p < end) { cacheop(op, p); p += CACHE_LINE_SIZE; }               *)
LoopStepInclusive ==
    /\ p <= addr + length
    /\ done' = done \cup {LineOf(p)}
    /\ p' = p + LineSize
    /\ UNCHANGED <<addr, length>>
LoopStep ==
    /\ p < addr + length
    /\ done' = done \cup {LineOf(p)}
    /\ p' = p + LineSize
    /\ UNCHANGED <<addr, length>>

Next == LoopStep

(* The loop ends when p reaches end; a finished call is a final state.     *)
Spec == Init /\ [][Next]_vars
-----------------------------------------------------------------------------
(* The lines that hold some byte of addr .. addr + length - 1.             *)
RangeLines == IF length = 0 THEN {}
              ELSE LineOf(addr) .. LineOf(addr + length - 1)

(* What a call has done once its loop has ended (memory.c:17 exits at     *)
(* p >= end): it has operated only on lines that hold a byte of the range, *)
(* on every such line except at most the one holding the last byte, and   *)
(* on that one too when addr is line-aligned, as __pgtables is for the     *)
(* clean in mmu_init.  So an unaligned start can lose only the final line, *)
(* and an aligned start loses none.                                         *)
LinesAtExit ==
    p >= addr + length =>
        /\ done \subseteq RangeLines
        /\ RangeLines \ done \subseteq {LineOf(addr + length - 1)}
        /\ addr % LineSize = 0 => done = RangeLines

(* Complete maintenance: when the loop has ended every line holding a byte *)
(* of the range has been operated on (a clean before DMA or an icache      *)
(* invalidate after writing code must not miss the last line).             *)
AllRangeLines == p >= addr + length => RangeLines \subseteq done
=============================================================================
