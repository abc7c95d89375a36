------------------------------- MODULE MemOps -------------------------------
(***************************************************************************)
(* The unit-wise bulk helpers memset8/16/32/64 and memcpy8/16/32/64 of     *)
(* src/src/utils.c, which P_MEMSETn and P_MEMCPYn call.  utils.h promises  *)
(* that they "copy by reading from src and writing to dst in <n>-bit       *)
(* units.  If size is not aligned, the remaining bytes are not copied."   *)
(*                                                                         *)
(* One call is modelled byte-exactly: the loop index i advances one unit   *)
(* per step over a byte-addressed memory whose initial byte at b is b, and *)
(* the fill value's byte k is FillByte(k), so every byte written can be    *)
(* traced to where it came from.                                           *)
(***************************************************************************)
EXTENDS Naturals

CONSTANTS
    NBytes,      \* size of the byte-addressed memory
    Offsets,     \* the dst and src pointers a call may pass
    MaxSize,     \* largest size argument, in bytes
    SetWidths,   \* unit widths, in bytes, of the memset helpers called
    CopyWidths   \* unit widths, in bytes, of the memcpy helpers called

ASSUME MemOpsAssumption ==
    /\ NBytes \in Nat
    /\ Offsets \subseteq 0 .. NBytes - 1
    /\ MaxSize \in Nat
    /\ SetWidths \subseteq {1, 2, 4, 8}
    /\ CopyWidths \subseteq {1, 2, 4, 8}

Bytes == 0 .. NBytes - 1
FillByte(k) == NBytes + k

(* The element type of the pointers each helper uses: memcpy8 declares its *)
(* buf and source as volatile u16 *.                                       *)
ElemBytesWide(op, w) == IF op = "memcpy" /\ w = 2 THEN 4 ELSE w
ElemBytesU8(op, w) == IF op = "memcpy" /\ w = 2 THEN 1 ELSE w
ElemBytes(op, w) == IF op = "memcpy" /\ w = 1 THEN 2 ELSE w

(* The loop bound: count = size / n, and size itself for the 8-bit ones.   *)
UnitCountCeil(op, w, size) == (size + w - 1) \div w
UnitCount(op, w, size) == IF w = 1 THEN size ELSE size \div w

Calls ==
    [op : {"memset"}, w : SetWidths, dst : Offsets, src : {0},
     size : 0 .. MaxSize]
    \cup [op : {"memcpy"}, w : CopyWidths, dst : Offsets, src : Offsets,
          size : 0 .. MaxSize]

VARIABLES
    call,   \* the helper and its arguments
    mem,    \* the bytes of memory
    i       \* the loop index

vars == <<call, mem, i>>

TypeOK ==
    /\ call \in Calls
    /\ mem \in [Bytes -> Nat]
    /\ i \in 0 .. call.size \div call.w

(* Calls whose every unit lies in memory: the model's memory stands for    *)
(* everything the helper can reach.                                        *)
InMemory(c) ==
    /\ c.dst + UnitCount(c.op, c.w, c.size) * ElemBytes(c.op, c.w) <= NBytes
    /\ c.op = "memcpy" =>
         c.src + UnitCount(c.op, c.w, c.size) * ElemBytes(c.op, c.w) <= NBytes

Init ==
    /\ call \in {c \in Calls : InMemory(c)}
    /\ mem = [b \in Bytes |-> b]
    /\ i = 0

(* One iteration: buf[i] = value, or buf[i] = source[i], in units of       *)
(* ElemBytes bytes; the fill value is truncated to the unit width.         *)
Step ==
    LET e == ElemBytes(call.op, call.w)
        base == call.dst + i * e
    IN  /\ i < UnitCount(call.op, call.w, call.size)
        /\ mem' = [b \in Bytes |->
                     IF b \in base .. base + e - 1
                       THEN IF call.op = "memset"
                              THEN FillByte(b - base)
                              ELSE mem[call.src + i * e + (b - base)]
                       ELSE mem[b]]
        /\ i' = i + 1
        /\ UNCHANGED call

Next == Step

(* The loop ends: a finished call is a final state.                        *)
Spec == Init /\ [][Next]_vars
-----------------------------------------------------------------------------
(* The bytes the header comment promises to write: the largest multiple of *)
(* the unit width not above size.                                          *)
Truncated(c) == (c.size \div c.w) * c.w

(* Bulk truncation (spec 8, utils.h): at no point of the loop has a byte   *)
(* outside dst .. dst + floor(size/w)*w - 1 changed.                       *)
TouchesOnlyTruncated ==
    \A b \in Bytes :
        (b < call.dst \/ b >= call.dst + Truncated(call)) => mem[b] = b

(* The state BulkTransfer sees: the memory as it was until the last unit  *)
(* is written, and the call done once the loop has run to its bound.       *)
Finished == i = UnitCount(call.op, call.w, call.size)
Bulk == INSTANCE BulkTransfer
          WITH Calls <- {c \in Calls : InMemory(c)},
               mem <- IF Finished THEN mem ELSE [b \in Bytes |-> b],
               done <- Finished

(* The unit loop implements the header's promise (spec 8, utils.h): taken  *)
(* as a whole, a call changes only dst .. dst + floor(size/w)*w - 1 and    *)
(* leaves there the fill pattern, or the source bytes when the source and  *)
(* the destination do not overlap.                                         *)
BulkRefinement == Bulk!Spec
=============================================================================
