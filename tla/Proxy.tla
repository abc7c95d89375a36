------------------------------- MODULE Proxy -------------------------------
(***************************************************************************)
(* The guarded command dispatcher of mini-haywire: proxy_process          *)
(* (src/src/proxy.c), the fault-guard cell exc_guard and the fault counter *)
(* exc_count with the synchronous exception handler exc_handler            *)
(* (src/src/exception.c), the memory helpers it calls (src/src/utils.h,   *)
(* src/src/utils.c) and the hand-off in mini_main (src/src/main.c).       *)
(*                                                                         *)
(* One request is processed at a time.  A request that touches memory is  *)
(* split into the dispatch (guard installed, reply defaulted), the single *)
(* hardware touch, which may raise a synchronous exception, and the       *)
(* completion (barrier, guard restored, reply sent), because an exception *)
(* can only arrive between those points.  The host and the framing loop   *)
(* (uartproxy, not under src/) are modelled from the spec: the host sends *)
(* one request and waits for its reply.                                    *)
(*                                                                         *)
(* Data is abstracted: a machine word is a 2-bit value, an address a cell *)
(* of 0..NAddr-1, and the access width is not distinguished (the bulk      *)
(* loops of each width are modelled in MemOps).                            *)
(***************************************************************************)
EXTENDS Naturals

CONSTANTS
    NAddr,         \* number of addressable cells
    Mapped,        \* the cells an access can reach without a data abort
    GuardArgs,     \* the values the host passes to P_SET_EXC_GUARD
    MaxUnits,      \* largest unit count of a bulk request
    TimerPresent   \* timer_init found /arm-io/timer, so get_ticks advances

Addr == 0 .. NAddr - 1

ASSUME NAddrAssumption == NAddr \in Nat \ {0}
ASSUME MappedAssumption == Mapped \subseteq Addr
ASSUME GuardArgsAssumption == GuardArgs \subseteq Nat
ASSUME MaxUnitsAssumption == MaxUnits \in Nat
ASSUME TimerAssumption == TimerPresent \in BOOLEAN

(* A 2-bit machine word and the bitwise operators set/clear/mask use.      *)
Word == 0 .. 3
BitAnd(x, y) == (x % 2) * (y % 2) + 2 * ((x \div 2) * (y \div 2))
BitOr(x, y) == x + y - BitAnd(x, y)
BitNot(x) == 3 - x

(* enum exc_guard_t (exception.h): the low byte is the guard type.         *)
GUARD_OFF == 0
GUARD_SKIP == 1
GUARD_MARK == 2
GUARD_RETURN == 3
GUARD_TYPE_MASK == 255
GuardType(g) == g % (GUARD_TYPE_MASK + 1)
GuardVals == GuardArgs \cup {GUARD_OFF, GUARD_SKIP, GUARD_MARK, GUARD_RETURN}

(* The exception types of exception.h that are raised synchronously.       *)
SyncExc == {"UNDEFINED", "SVC", "INSTRUCTION_ABORT", "DATA_ABORT"}
(* The types exc_handler reboots on.                                       *)
FatalExc == {"UNDEFINED", "INSTRUCTION_ABORT", "DATA_ABORT"}

(***************************************************************************)
(* Opcodes, one name per case group of the switch, widths merged:         *)
(*   NOP      P_NOP and every case that only queries or drives a device   *)
(*            without a memory touch the model tracks (GET_BOOTARGS,      *)
(*            GET_BASE, SET_BAUD, IC_IALLx, DC_xSW, MMU_x, XZDEC, GZDEC,  *)
(*            SMP_START/STOP, allocation, KBOOT_SET_x, KBOOT_x_DT, IODEV_x) *)
(*   SLEEP    P_SLEEP and P_EL3_CALL, which fall through into P_WRITE64   *)
(*   WRITE    P_WRITE8..64           READ   P_READ8..64                   *)
(*   SET, CLEAR, MASK, WRITEREAD    their 8..64-bit cases                  *)
(*   MEMSET, MEMCPY                  P_MEMSET8..64, P_MEMCPY8..64         *)
(*   CACHE_RANGE  P_IC_IVAU, P_DC_IVAC, P_DC_CVAC, P_DC_CVAU, P_DC_CIVAC  *)
(*   BADCMD   every case that only sets S_BADCMD, and default             *)
(***************************************************************************)
SkipOps == {"WRITE", "SLEEP"}
MarkOps == {"READ", "SET", "CLEAR", "MASK", "WRITEREAD"}
BulkOps == {"MEMSET", "MEMCPY"}
TouchOps == SkipOps \cup MarkOps \cup {"CACHE_RANGE", "CALL"}
ExitOps == {"EXIT", "KBOOT_BOOT"}

OpNames ==
    {"NOP", "EXIT", "CALL", "GET_EXC_COUNT", "REBOOT", "KBOOT_BOOT", "BADCMD",
     "UDELAY", "SET_EXC_GUARD", "CACHE_RANGE", "MEMSET", "MEMCPY"}
    \cup SkipOps \cup MarkOps

NoReq == [op |-> "NONE", addr |-> 0, val |-> 0, val2 |-> 0]
Requests ==
    [op : {"NOP", "EXIT", "CALL", "GET_EXC_COUNT", "REBOOT", "BADCMD"},
     addr : {0}, val : {0}, val2 : {0}]
    \cup [op : {"UDELAY", "KBOOT_BOOT"}, addr : {0}, val : {0, 1}, val2 : {0}]
    \cup [op : {"SET_EXC_GUARD"}, addr : {0}, val : GuardArgs, val2 : {0}]
    \cup [op : {"READ", "CACHE_RANGE"}, addr : Addr, val : {0}, val2 : {0}]
    \cup [op : {"WRITE", "SLEEP", "SET", "CLEAR", "WRITEREAD"}, addr : Addr,
          val : Word, val2 : {0}]
    \cup [op : {"MASK"}, addr : Addr, val : Word, val2 : Word]
    \cup [op : {"MEMSET"}, addr : Addr, val : Word, val2 : 0 .. MaxUnits]
    \cup [op : {"MEMCPY"}, addr : Addr, val : Addr, val2 : 0 .. MaxUnits]

NoWrite == [addr |-> 0, val |-> 0, known |-> FALSE]

VARIABLES
    excGuard,   \* exc_guard
    excCount,   \* exc_count
    pc,         \* where the single thread of control is
    req,        \* the request being processed
    guardSave,  \* proxy_process's local guard_save
    reply,      \* the ProxyReply being built, then sent
    sent,       \* the reply is on the link and the host has not taken it
    mem,        \* contents of the addressable cells
    trap,       \* the pending synchronous exception type, or "NONE"
    cursor,     \* loop index i of the bulk helpers
    nextEntry,  \* next_stage.entry # NULL
    hostGuard,  \* host: the baseline guard it has set (ghost)
    hostKnows   \* host: the value a cell holds after its last reply (ghost)

vars == <<excGuard, excCount, pc, req, guardSave, reply, sent, mem, trap,
          cursor, nextEntry, hostGuard, hostKnows>>

Pcs == {"idle", "access", "bulk", "trap", "delay", "done", "exit", "next"}
Busy == {"access", "bulk", "trap", "delay", "done"}

TypeOK ==
    /\ excGuard \in GuardVals
    /\ excCount \in Nat
    /\ pc \in Pcs
    /\ req \in Requests \cup {NoReq}
    /\ guardSave \in GuardVals
    /\ reply \in [op : OpNames \cup {"NONE"},
                  status : {"OK", "BADCMD"}, retval : Word]
    /\ sent \in BOOLEAN
    /\ mem \in [Addr -> Word]
    /\ trap \in SyncExc \cup {"NONE"}
    /\ cursor \in Nat
    /\ nextEntry \in BOOLEAN
    /\ hostGuard \in GuardVals
    /\ hostKnows \in [addr : Addr, val : Word, known : BOOLEAN]

(* Monitor start (mini_start, static initialisers): exc_guard = GUARD_OFF, *)
(* exc_count = 0, next_stage zeroed; memory holds whatever it holds.       *)
Init ==
    /\ excGuard = GUARD_OFF
    /\ excCount = 0
    /\ pc = "idle"
    /\ req = NoReq
    /\ guardSave = GUARD_OFF
    /\ reply = [op |-> "NONE", status |-> "OK", retval |-> 0]
    /\ sent = FALSE
    /\ mem \in [Addr -> Word]
    /\ trap = "NONE"
    /\ cursor = 0
    /\ nextEntry = FALSE
    /\ hostGuard = GUARD_OFF
    /\ hostKnows = NoWrite

(* reboot(): the board resets and mini starts again with its static state; *)
(* the link drops, so the host forgets what it set.  Memory is kept.       *)
Reboot ==
    /\ excGuard' = GUARD_OFF
    /\ excCount' = 0
    /\ pc' = "idle"
    /\ req' = NoReq
    /\ guardSave' = GUARD_OFF
    /\ reply' = [op |-> "NONE", status |-> "OK", retval |-> 0]
    /\ sent' = FALSE
    /\ trap' = "NONE"
    /\ cursor' = 0
    /\ nextEntry' = FALSE
    /\ hostGuard' = GUARD_OFF
    /\ hostKnows' = NoWrite
    /\ UNCHANGED mem
-----------------------------------------------------------------------------
(* The transient guard each touching case installs.                        *)
TransientGuard(op) ==
    CASE op \in SkipOps -> GUARD_SKIP
      [] op \in MarkOps -> GUARD_MARK
      [] op \in BulkOps -> GUARD_RETURN

(* Where proxy_process goes after the switch selected the case.            *)
AfterSwitch(op) ==
    CASE op \in ExitOps -> "exit"
      [] op = "UDELAY" -> "delay"
      [] op \in TouchOps -> "access"
      [] op \in BulkOps -> "bulk"
      [] OTHER -> "done"

(* proxy_process up to the hardware touch: guard_save = exc_guard, the     *)
(* reply defaulted, the case's status and guard set.  P_SET_EXC_GUARD and  *)
(* P_GET_EXC_COUNT complete here; P_EXIT returns nonzero at once and       *)
(* P_KBOOT_BOOT sets next_stage and returns 1, neither restoring the guard *)
(* (they never changed it); the loop sends the reply and leaves.           *)
Dispatch(r) ==
    /\ pc = "idle"
    /\ ~sent
    /\ r.op # "REBOOT"
    /\ req' = r
    /\ guardSave' = IF r.op = "SET_EXC_GUARD" THEN r.val ELSE excGuard
    /\ excCount' = IF r.op \in {"SET_EXC_GUARD", "GET_EXC_COUNT"}
                      THEN 0 ELSE excCount
    /\ excGuard' = IF r.op \in SkipOps \cup MarkOps \cup BulkOps
                      THEN TransientGuard(r.op) ELSE excGuard
    /\ reply' = [op |-> r.op,
                 status |-> IF r.op \in {"BADCMD", "SLEEP"}
                              THEN "BADCMD" ELSE "OK",
                 retval |-> IF r.op = "GET_EXC_COUNT" THEN excCount ELSE 0]
    /\ cursor' = 0
    /\ nextEntry' = IF r.op = "KBOOT_BOOT" THEN r.val # 0 ELSE nextEntry
    /\ pc' = AfterSwitch(r.op)
    /\ sent' = (r.op \in ExitOps)
    /\ UNCHANGED <<mem, trap, hostGuard, hostKnows>>

(* P_REBOOT: reboot() inside the switch, no reply.                         *)
DispatchReboot ==
    /\ pc = "idle"
    /\ ~sent
    /\ Reboot
-----------------------------------------------------------------------------
(* Value stored and value returned by the read-modify-write helpers of     *)
(* utils.h (set, clear, mask, writeread): each returns the value it wrote. *)
NewValueAdd(op, old, r) ==
    CASE op = "WRITE" -> r.val
      [] op = "SLEEP" -> r.val
      [] op = "SET" -> old + r.val
      [] op = "CLEAR" -> BitAnd(old, BitNot(r.val))
      [] op = "MASK" -> BitOr(BitAnd(old, BitNot(r.val)), r.val2)
      [] op = "WRITEREAD" -> r.val
      [] op = "READ" -> old
NewValue(op, old, r) ==
    CASE op = "WRITE" -> r.val
      [] op = "SLEEP" -> r.val
      [] op = "SET" -> BitOr(old, r.val)
      [] op = "CLEAR" -> BitAnd(old, BitNot(r.val))
      [] op = "MASK" -> BitOr(BitAnd(old, BitNot(r.val)), r.val2)
      [] op = "WRITEREAD" -> r.val
      [] op = "READ" -> old

RetValOld(op, old, r) ==
    CASE op \in SkipOps -> 0
      [] op \in {"SET", "CLEAR"} -> old
      [] OTHER -> NewValue(op, old, r)
RetVal(op, old, r) ==
    CASE op \in SkipOps -> 0
      [] OTHER -> NewValue(op, old, r)

(* The single guarded access of a WRITE/READ/SET/CLEAR/MASK/WRITEREAD case *)
(* (or of the SLEEP fall-through) to a mapped cell, or a cache maintenance *)
(* by address on a mapped line.  A read-modify-write touches one cell.     *)
Touch ==
    /\ pc = "access"
    /\ req.op \in SkipOps \cup MarkOps \cup {"CACHE_RANGE"}
    /\ req.addr \in Mapped
    /\ mem' = IF req.op \in SkipOps \cup MarkOps
                 THEN [mem EXCEPT ![req.addr] = NewValue(req.op, @, req)]
                 ELSE mem
    /\ reply' = IF req.op \in MarkOps
                   THEN [reply EXCEPT !.retval =
                            RetVal(req.op, mem[req.addr], req)]
                   ELSE reply
    /\ pc' = "done"
    /\ UNCHANGED <<excGuard, excCount, req, guardSave, sent, trap, cursor,
                   nextEntry, hostGuard, hostKnows>>

(* The same access to an unmapped cell: the first load or store aborts     *)
(* before anything is written.                                             *)
TouchFault ==
    /\ pc = "access"
    /\ req.op \in SkipOps \cup MarkOps \cup {"CACHE_RANGE"}
    /\ req.addr \notin Mapped
    /\ pc' = "trap"
    /\ trap' = "DATA_ABORT"
    /\ UNCHANGED <<excGuard, excCount, req, guardSave, reply, sent, mem,
                   cursor, nextEntry, hostGuard, hostKnows>>

(* P_CALL: the host's function returns, or raises any synchronous         *)
(* exception; no guard is installed around it.                             *)
CallReturn ==
    /\ pc = "access"
    /\ req.op = "CALL"
    /\ pc' = "done"
    /\ UNCHANGED <<excGuard, excCount, req, guardSave, reply, sent, mem, trap,
                   cursor, nextEntry, hostGuard, hostKnows>>

CallTrap(t) ==
    /\ pc = "access"
    /\ req.op = "CALL"
    /\ pc' = "trap"
    /\ trap' = t
    /\ UNCHANGED <<excGuard, excCount, req, guardSave, reply, sent, mem,
                   cursor, nextEntry, hostGuard, hostKnows>>

(* One iteration of memsetN/memcpyN: buf[i] = value or buf[i] = source[i]. *)
(* memcpy reads source[i] first, so an unmapped source aborts the unit.    *)
BulkSrc == req.val + cursor
BulkDst == req.addr + cursor
BulkUnitOK ==
    /\ BulkDst \in Mapped
    /\ req.op = "MEMCPY" => BulkSrc \in Mapped

BulkStep ==
    /\ pc = "bulk"
    /\ cursor < req.val2
    /\ BulkUnitOK
    /\ mem' = [mem EXCEPT ![BulkDst] =
                 IF req.op = "MEMSET" THEN req.val ELSE mem[BulkSrc]]
    /\ cursor' = cursor + 1
    /\ UNCHANGED <<excGuard, excCount, pc, req, guardSave, reply, sent, trap,
                   nextEntry, hostGuard, hostKnows>>

BulkFault ==
    /\ pc = "bulk"
    /\ cursor < req.val2
    /\ ~BulkUnitOK
    /\ pc' = "trap"
    /\ trap' = "DATA_ABORT"
    /\ UNCHANGED <<excGuard, excCount, req, guardSave, reply, sent, mem,
                   cursor, nextEntry, hostGuard, hostKnows>>

BulkEnd ==
    /\ pc = "bulk"
    /\ cursor = req.val2
    /\ pc' = "done"
    /\ UNCHANGED <<excGuard, excCount, req, guardSave, reply, sent, mem, trap,
                   cursor, nextEntry, hostGuard, hostKnows>>

(* exc_handler: it prints the registers and reboots on Undefined,          *)
(* Instruction Abort and Data Abort; it never reads exc_guard nor counts   *)
(* the fault.  On a Supervisor Call it returns and the code resumes.       *)
ExcHandler ==
    /\ pc = "trap"
    /\ IF trap \in FatalExc
         THEN Reboot
         ELSE /\ pc' = "done"
              /\ trap' = "NONE"
              /\ UNCHANGED <<excGuard, excCount, req, guardSave, reply, sent,
                             mem, cursor, nextEntry, hostGuard, hostKnows>>

(* get_ticks advances only if timer_init found /arm-io/timer and set       *)
(* timer_base; otherwise every call returns 0.                             *)
TicksAdvance == TimerPresent

(* P_UDELAY: udelay spins until get_ticks has advanced by d * 24; without  *)
(* a timer get_ticks returns 0 and a nonzero delay never ends.             *)
Delay ==
    /\ pc = "delay"
    /\ req.val = 0 \/ TicksAdvance
    /\ pc' = "done"
    /\ UNCHANGED <<excGuard, excCount, req, guardSave, reply, sent, mem, trap,
                   cursor, nextEntry, hostGuard, hostKnows>>

(* The tail of proxy_process: dsb/isb, exc_guard = guard_save, return 0;   *)
(* the loop then sends the reply.                                          *)
CompleteNoRestore ==
    /\ pc = "done"
    /\ pc' = "idle"
    /\ sent' = TRUE
    /\ UNCHANGED <<excGuard, excCount, req, guardSave, reply, mem, trap, cursor,
                   nextEntry, hostGuard, hostKnows>>
Complete ==
    /\ pc = "done"
    /\ excGuard' = guardSave
    /\ pc' = "idle"
    /\ sent' = TRUE
    /\ UNCHANGED <<excCount, req, guardSave, reply, mem, trap, cursor,
                   nextEntry, hostGuard, hostKnows>>

(* mini_main after the proxy loop returned: with next_stage.entry set it   *)
(* shuts exceptions, USB and the MMU down and jumps; otherwise it panics.  *)
Handoff ==
    /\ pc = "exit"
    /\ nextEntry
    /\ pc' = "next"
    /\ UNCHANGED <<excGuard, excCount, req, guardSave, reply, sent, mem, trap,
                   cursor, nextEntry, hostGuard, hostKnows>>

NothingToDo ==
    /\ pc = "exit"
    /\ ~nextEntry
    /\ Reboot
-----------------------------------------------------------------------------
(* The host takes the reply.  Its ghost view: the guard it set with an     *)
(* acknowledged P_SET_EXC_GUARD, and the value a cell holds after an OK    *)
(* WRITE (the value written) or read-modify-write (the value returned).    *)
HostReceive ==
    /\ sent
    /\ sent' = FALSE
    /\ hostGuard' = IF reply.op = "SET_EXC_GUARD" THEN req.val ELSE hostGuard
    /\ hostKnows' =
         CASE reply.status = "OK" /\ reply.op = "WRITE" ->
                [addr |-> req.addr, val |-> req.val, known |-> TRUE]
           [] reply.status = "OK" /\ reply.op \in MarkOps ->
                [addr |-> req.addr, val |-> reply.retval, known |-> TRUE]
           [] OTHER -> NoWrite
    /\ UNCHANGED <<excGuard, excCount, pc, req, guardSave, reply, mem, trap,
                   cursor, nextEntry>>

DispatcherStep ==
    \/ Touch \/ TouchFault \/ CallReturn \/ \E t \in SyncExc : CallTrap(t)
    \/ BulkStep \/ BulkFault \/ BulkEnd \/ ExcHandler \/ Delay \/ Complete
    \/ Handoff \/ NothingToDo

Next ==
    \/ \E r \in Requests : Dispatch(r)
    \/ DispatchReboot
    \/ DispatcherStep
    \/ HostReceive

Spec == Init /\ [][Next]_vars
-----------------------------------------------------------------------------
(***************************************************************************)
(* Properties                                                              *)
(***************************************************************************)

(* Guard restoration (spec 3, 8): whenever the monitor waits for the next  *)
(* request, exc_guard is the baseline the host last set with an            *)
(* acknowledged P_SET_EXC_GUARD (GUARD_OFF since boot otherwise): no       *)
(* transient SKIP/MARK/RETURN guard of proxy_process outlives its request. *)
GuardRestored ==
    pc = "idle" /\ ~sent => excGuard = hostGuard

(* Host view soundness (spec 8, read-after-write): when a READ is answered *)
(* right after an OK WRITE or read-modify-write of the same cell, it       *)
(* returns the value the host was told is there.                           *)
ReadAfterWrite ==
    (sent /\ reply.op = "READ" /\ hostKnows.known
          /\ hostKnows.addr = req.addr)
        => reply.retval = hostKnows.val

(* Spec 7: a BADCMD request has no side effect; no step of a request       *)
(* already answered BADCMD changes memory.                                 *)
BadcmdNoSideEffect ==
    [][(pc \in Busy /\ reply.status = "BADCMD") => mem' = mem]_vars

(* Spec 4.3: a data abort while a guard other than GUARD_OFF is installed  *)
(* is recoverable: the handler resumes inside the dispatcher's call.       *)
GuardedFaultResumes ==
    [][(pc = "trap" /\ trap = "DATA_ABORT" /\ GuardType(excGuard) # GUARD_OFF)
         => pc' = "done"]_vars
=============================================================================
