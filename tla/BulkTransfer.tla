---------------------------- MODULE BulkTransfer ----------------------------
(***************************************************************************)
(* What utils.h promises of memsetN and memcpyN, as one atomic step: the   *)
(* helper "copies by reading from src and writing to dst in <n>-bit        *)
(* units.  If size is not aligned, the remaining bytes are not copied."   *)
(* The step changes no byte outside dst .. dst + floor(size/w)*w - 1 and,  *)
(* unless a copy's source and destination overlap, leaves there the fill  *)
(* pattern or the bytes the source held before the call.  Nothing here   *)
(* says in which order or in which units the bytes are written.           *)
(***************************************************************************)
EXTENDS Naturals

CONSTANTS
    NBytes,   \* size of the byte-addressed memory
    Calls     \* the calls (op, unit width w, dst, src, size) that may be made

Bytes == 0 .. NBytes - 1
FillByte(k) == NBytes + k

VARIABLES
    call,   \* the helper and its arguments
    mem,    \* the bytes of memory
    done    \* the call has returned

vars == <<call, mem, done>>

Truncated(c) == (c.size \div c.w) * c.w
Target(c) == c.dst .. c.dst + Truncated(c) - 1
Disjoint(c) ==
    \/ c.op = "memset"
    \/ c.src + c.size <= c.dst
    \/ c.dst + c.size <= c.src

(* A call with nothing to write has its effect as soon as it is made.      *)
Init ==
    /\ call \in Calls
    /\ mem = [b \in Bytes |-> b]
    /\ done = (Truncated(call) = 0)

Transfer ==
    /\ ~done
    /\ done' = TRUE
    /\ mem' \in [Bytes -> Nat]
    /\ \A b \in Bytes \ Target(call) : mem'[b] = mem[b]
    /\ Disjoint(call) =>
         \A j \in 0 .. Truncated(call) - 1 :
           mem'[call.dst + j] =
             IF call.op = "memset" THEN FillByte(j % call.w)
                                   ELSE mem[call.src + j]
    /\ UNCHANGED call

Spec == Init /\ [][Transfer]_vars
=============================================================================
