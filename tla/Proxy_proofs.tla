---------------------------- MODULE Proxy_proofs ----------------------------
(***************************************************************************)
(* Proofs about the dispatcher model Proxy, for every value of its         *)
(* constants: type correctness, and guard restoration (GuardRestored).     *)
(***************************************************************************)
EXTENDS Proxy, TLAPS

(***************************************************************************)
(* Lemmas about the data the model is built from.                          *)
(***************************************************************************)

(* The 2-bit bitwise operators of set/clear/mask stay within a word.       *)
LEMMA BitOpsInWord ==
    ASSUME NEW x \in Word, NEW y \in Word
    PROVE  /\ BitAnd(x, y) \in Word
           /\ BitOr(x, y) \in Word
           /\ BitNot(x) \in Word
<1>1. x \in {0, 1, 2, 3} /\ y \in {0, 1, 2, 3}
    BY DEF Word
<1>2. QED
    BY <1>1 DEF BitAnd, BitOr, BitNot, Word

(* What the fields of a request are, by the case group of its opcode.      *)
LEMMA RequestFields ==
    ASSUME NEW r \in Requests
    PROVE  /\ r.op \in OpNames
           /\ r.addr \in Addr
           /\ r.op \in SkipOps \cup MarkOps => r.val \in Word /\ r.val2 \in Word
           /\ r.op = "MEMSET" => r.val \in Word /\ r.val2 \in Nat
           /\ r.op = "MEMCPY" => r.val \in Addr /\ r.val2 \in Nat
           /\ r.op = "SET_EXC_GUARD" => r.val \in GuardArgs
<1>1. 0 \in Addr
    BY NAddrAssumption DEF Addr
<1>2. QED
    BY <1>1 DEF Requests, OpNames, SkipOps, MarkOps, Word

(* A touching case stores and returns a word.                              *)
LEMMA NewValueInWord ==
    ASSUME NEW op \in SkipOps \cup MarkOps, NEW old \in Word,
           NEW r, r.val \in Word, r.val2 \in Word
    PROVE  /\ NewValue(op, old, r) \in Word
           /\ RetVal(op, old, r) \in Word
<1>1. NewValue(op, old, r) \in Word
    <2>1. /\ BitOr(old, r.val) \in Word
          /\ BitNot(r.val) \in Word
        BY BitOpsInWord
    <2>2. BitAnd(old, BitNot(r.val)) \in Word
        BY <2>1, BitOpsInWord
    <2>3. BitOr(BitAnd(old, BitNot(r.val)), r.val2) \in Word
        BY <2>2, BitOpsInWord
    <2>4. QED
        BY <2>1, <2>2, <2>3 DEF NewValue, SkipOps, MarkOps
<1>2. QED
    BY <1>1 DEF RetVal, Word
-----------------------------------------------------------------------------
(***************************************************************************)
(* Type correctness.  TypeOK alone is not inductive: a step's effect       *)
(* depends on which case group the request in progress belongs to, so the *)
(* invariant also ties the control point to the opcode.  exc_count stays 0 *)
(* because nothing in the code increments it.                              *)
(***************************************************************************)
Consistent ==
    /\ reply.op = req.op
    /\ excCount = 0
    /\ pc \in Busy \cup {"exit", "next"} => req \in Requests
    /\ pc = "access" => req.op \in TouchOps
    /\ pc = "bulk" => req.op \in BulkOps
    /\ pc = "delay" => req.op = "UDELAY"
    /\ pc \in {"exit", "next"} => req.op \in ExitOps

TypeInv == TypeOK /\ Consistent

(* The host's "nothing known" record is a well-typed write record.         *)
LEMMA NoWriteType == NoWrite \in [addr : Addr, val : Word, known : BOOLEAN]
BY NAddrAssumption DEF NoWrite, Addr, Word

(* A reboot lands in a well-typed state whatever the state before it.      *)
LEMMA RebootTypeInv ==
    ASSUME TypeOK, Reboot
    PROVE  TypeInv'
<1>1. TypeOK'
    <2>1. /\ GUARD_OFF \in GuardVals /\ "idle" \in Pcs /\ 0 \in Word
          /\ [op |-> "NONE", status |-> "OK", retval |-> 0]
               \in [op : OpNames \cup {"NONE"},
                     status : {"OK", "BADCMD"}, retval : Word]
        BY DEF GuardVals, Pcs, Word
    <2>2. QED
        BY <2>1, NoWriteType DEF Reboot, TypeOK
<1>2. Consistent'
    BY DEF Reboot, Consistent, NoReq, Busy
<1>3. QED
    BY <1>1, <1>2 DEF TypeInv

LEMMA TypeInvInit == Init => TypeInv
<1> SUFFICES ASSUME Init PROVE TypeInv
    OBVIOUS
<1>1. TypeOK
    <2>1. /\ GUARD_OFF \in GuardVals /\ "idle" \in Pcs /\ 0 \in Word
          /\ [op |-> "NONE", status |-> "OK", retval |-> 0]
               \in [op : OpNames \cup {"NONE"},
                     status : {"OK", "BADCMD"}, retval : Word]
        BY DEF GuardVals, Pcs, Word
    <2>2. QED
        BY <2>1, NoWriteType DEF Init, TypeOK
<1>2. Consistent
    BY DEF Init, Consistent, NoReq, Busy
<1>3. QED
    BY <1>1, <1>2 DEF TypeInv

LEMMA TypeInvStep == TypeInv /\ [Next]_vars => TypeInv'
<1> SUFFICES ASSUME TypeInv, [Next]_vars PROVE TypeInv'
    OBVIOUS
<1> USE DEF TypeInv
<1>1. ASSUME NEW r \in Requests, Dispatch(r) PROVE TypeInv'
    <2>1. /\ r.op \in OpNames /\ r.addr \in Addr
          /\ r.op = "SET_EXC_GUARD" => r.val \in GuardArgs
        BY RequestFields
    <2>2. r.op \in SkipOps \cup MarkOps \cup BulkOps =>
            TransientGuard(r.op) \in GuardVals
        BY DEF TransientGuard, GuardVals, SkipOps, MarkOps, BulkOps
    <2>3. AfterSwitch(r.op) \in Pcs
        BY DEF AfterSwitch, Pcs
    <2>4. AfterSwitch(r.op) = "access" => r.op \in TouchOps
        BY DEF AfterSwitch, ExitOps, TouchOps, SkipOps, MarkOps
    <2>5. AfterSwitch(r.op) = "bulk" => r.op \in BulkOps
        BY DEF AfterSwitch, ExitOps, TouchOps, SkipOps, MarkOps, BulkOps
    <2>6. AfterSwitch(r.op) = "delay" => r.op = "UDELAY"
        BY DEF AfterSwitch, ExitOps
    <2>7. AfterSwitch(r.op) \in {"exit", "next"} => r.op \in ExitOps
        BY DEF AfterSwitch, ExitOps, TouchOps, SkipOps, MarkOps, BulkOps
    <2>8. nextEntry' \in BOOLEAN
        BY <1>1 DEF Dispatch, TypeOK
    <2>9. QED
        BY <1>1, <2>1, <2>2, <2>3, <2>4, <2>5, <2>6, <2>7, <2>8
        DEF Dispatch, TypeOK, Consistent, Busy, Word, GuardVals
<1>2. CASE DispatchReboot
    BY <1>2, RebootTypeInv DEF DispatchReboot
<1>3. CASE Touch
    <2>1. /\ req \in Requests
          /\ req.op \in SkipOps \cup MarkOps \cup {"CACHE_RANGE"}
          /\ req.addr \in Mapped
        BY <1>3 DEF Touch, Consistent, Busy
    <2>2. req.op \in SkipOps \cup MarkOps =>
            /\ NewValue(req.op, mem[req.addr], req) \in Word
            /\ RetVal(req.op, mem[req.addr], req) \in Word
        BY <2>1, RequestFields, NewValueInWord, MappedAssumption DEF TypeOK
    <2>3. QED
        BY <1>3, <2>1, <2>2, MappedAssumption
        DEF Touch, TypeOK, Consistent, Busy, Pcs, MarkOps
<1>4. CASE TouchFault
    BY <1>4 DEF TouchFault, TypeOK, Consistent, Busy, Pcs, SyncExc
<1>5. CASE CallReturn
    BY <1>5 DEF CallReturn, TypeOK, Consistent, Busy, Pcs
<1>6. ASSUME NEW t \in SyncExc, CallTrap(t) PROVE TypeInv'
    BY <1>6 DEF CallTrap, TypeOK, Consistent, Busy, Pcs
<1>7. CASE BulkStep
    <2>1. /\ req \in Requests
          /\ req.op \in BulkOps
          /\ BulkDst \in Mapped
          /\ req.op = "MEMCPY" => BulkSrc \in Mapped
        BY <1>7 DEF BulkStep, BulkUnitOK, Consistent, Busy
    <2>2. (IF req.op = "MEMSET" THEN req.val ELSE mem[BulkSrc]) \in Word
        BY <2>1, RequestFields, MappedAssumption DEF TypeOK, BulkOps
    <2>3. QED
        BY <1>7, <2>1, <2>2, MappedAssumption
        DEF BulkStep, TypeOK, Consistent, Busy
<1>8. CASE BulkFault
    BY <1>8 DEF BulkFault, TypeOK, Consistent, Busy, Pcs, SyncExc
<1>9. CASE BulkEnd
    BY <1>9 DEF BulkEnd, TypeOK, Consistent, Busy, Pcs
<1>10. CASE ExcHandler
    <2>1. CASE trap \in FatalExc
        BY <1>10, <2>1, RebootTypeInv DEF ExcHandler
    <2>2. CASE trap \notin FatalExc
        BY <1>10, <2>2 DEF ExcHandler, TypeOK, Consistent, Busy, Pcs
    <2>3. QED
        BY <2>1, <2>2
<1>11. CASE Delay
    BY <1>11 DEF Delay, TypeOK, Consistent, Busy, Pcs
<1>12. CASE Complete
    BY <1>12 DEF Complete, TypeOK, Consistent, Busy, Pcs
<1>13. CASE Handoff
    BY <1>13 DEF Handoff, TypeOK, Consistent, Busy, Pcs
<1>14. CASE NothingToDo
    BY <1>14, RebootTypeInv DEF NothingToDo
<1>15. CASE HostReceive
    <2>1. reply.op \in {"WRITE"} \cup MarkOps => req \in Requests
        BY DEF Consistent, TypeOK, NoReq, MarkOps
    <2>2. reply.op = "WRITE" => req.addr \in Addr /\ req.val \in Word
        BY <2>1, RequestFields DEF Consistent, SkipOps
    <2>3. reply.op \in MarkOps => req.addr \in Addr
        BY <2>1, RequestFields
    <2>4. reply.op = "SET_EXC_GUARD" => req.val \in GuardVals
        <3>1. reply.op = "SET_EXC_GUARD" => req \in Requests
            <4>1. req \in Requests \/ req = NoReq
                BY DEF TypeOK
            <4>2. reply.op = req.op
                BY DEF Consistent
            <4>3. NoReq.op # "SET_EXC_GUARD"
                BY DEF NoReq
            <4>4. QED
                BY <4>1, <4>2, <4>3
        <3>2. QED
            BY <3>1, RequestFields DEF Consistent, GuardVals
    <2>5. hostKnows' \in [addr : Addr, val : Word, known : BOOLEAN]
        BY <1>15, <2>2, <2>3, NoWriteType DEF HostReceive, TypeOK
    <2>6. hostGuard' \in GuardVals
        BY <1>15, <2>4 DEF HostReceive, TypeOK
    <2>7. QED
        BY <1>15, <2>5, <2>6 DEF HostReceive, TypeOK, Consistent
<1>16. CASE UNCHANGED vars
    BY <1>16 DEF vars, TypeOK, Consistent
<1>17. QED
    BY <1>1, <1>2, <1>3, <1>4, <1>5, <1>6, <1>7, <1>8, <1>9, <1>10, <1>11,
       <1>12, <1>13, <1>14, <1>15, <1>16 DEF Next, DispatcherStep

(* Every reachable state of the dispatcher is well typed.                  *)
THEOREM TypeCorrect == Spec => []TypeOK
<1>1. Spec => []TypeInv
    BY TypeInvInit, TypeInvStep, PTL DEF Spec
<1>2. QED
    BY <1>1, PTL DEF TypeInv
-----------------------------------------------------------------------------
(***************************************************************************)
(* Guard restoration.  GuardRestored is not inductive by itself: while a   *)
(* request is in progress exc_guard holds the transient guard, and what    *)
(* brings it back is the guard_save proxy_process took on entry.  So the   *)
(* invariant states what guard_save holds during a request (the baseline   *)
(* the host will know once it has the reply), that a reply is only on the *)
(* link when the dispatcher is between requests or has left the loop, and *)
(* that the EXIT and KBOOT_BOOT paths never touch the guard.               *)
(***************************************************************************)
Baseline == IF req.op = "SET_EXC_GUARD" THEN req.val ELSE hostGuard

GuardFacts ==
    /\ sent => pc \in {"idle", "exit", "next"}
    /\ pc \in Busy => guardSave = Baseline
    /\ pc = "idle" /\ sent => excGuard = Baseline
    /\ pc = "idle" /\ ~sent => excGuard = hostGuard
    /\ pc \in {"exit", "next"} => excGuard = hostGuard

GuardInv == TypeInv /\ GuardFacts

(* A reboot re-establishes the guard facts: everything is GUARD_OFF.       *)
LEMMA RebootGuardFacts ==
    ASSUME Reboot PROVE GuardFacts'
BY DEF Reboot, GuardFacts, Baseline, NoReq, Busy

LEMMA GuardInvInit == Init => GuardInv
<1> SUFFICES ASSUME Init PROVE TypeInv /\ GuardFacts
    BY DEF GuardInv
<1>1. TypeInv
    BY TypeInvInit
<1>2. GuardFacts
    BY DEF Init, GuardFacts, Busy
<1>3. QED
    BY <1>1, <1>2

LEMMA GuardInvStep == GuardInv /\ [Next]_vars => GuardInv'
<1> SUFFICES ASSUME TypeInv, GuardFacts, [Next]_vars
             PROVE  TypeInv' /\ GuardFacts'
    BY DEF GuardInv
<1>0. TypeInv'
    BY TypeInvStep
<1> USE <1>0
<1>1. ASSUME NEW r \in Requests, Dispatch(r) PROVE GuardFacts'
    <2>1. excGuard = hostGuard
        BY <1>1 DEF Dispatch, GuardFacts
    <2>2. guardSave' = Baseline'
        BY <1>1, <2>1 DEF Dispatch, Baseline
    <2>3. r.op \in ExitOps => excGuard' = excGuard
        BY <1>1 DEF Dispatch, ExitOps, SkipOps, MarkOps, BulkOps
    <2>4. AfterSwitch(r.op) # "idle"
        BY DEF AfterSwitch
    <2>5. AfterSwitch(r.op) \in {"exit", "next"} => r.op \in ExitOps
        BY DEF AfterSwitch, ExitOps, TouchOps, SkipOps, MarkOps, BulkOps
    <2>6. /\ AfterSwitch(r.op) \in Busy \cup {"exit"}
          /\ r.op \in ExitOps => AfterSwitch(r.op) = "exit"
        <3>1. AfterSwitch(r.op) \in Busy \cup {"exit"}
            BY DEF AfterSwitch, Busy
        <3>2. r.op \in ExitOps => AfterSwitch(r.op) = "exit"
            BY DEF AfterSwitch, ExitOps, TouchOps, SkipOps, MarkOps, BulkOps
        <3>3. QED
            BY <3>1, <3>2
    <2>7. QED
        BY <1>1, <2>1, <2>2, <2>3, <2>4, <2>5, <2>6
        DEF Dispatch, GuardFacts, Busy
<1>2. CASE DispatchReboot
    BY <1>2, RebootGuardFacts DEF DispatchReboot
<1>3. CASE Touch
    BY <1>3 DEF Touch, GuardFacts, Baseline, Busy
<1>4. CASE TouchFault
    BY <1>4 DEF TouchFault, GuardFacts, Baseline, Busy
<1>5. CASE CallReturn
    BY <1>5 DEF CallReturn, GuardFacts, Baseline, Busy
<1>6. ASSUME NEW t \in SyncExc, CallTrap(t) PROVE GuardFacts'
    BY <1>6 DEF CallTrap, GuardFacts, Baseline, Busy
<1>7. CASE BulkStep
    BY <1>7 DEF BulkStep, GuardFacts, Baseline, Busy
<1>8. CASE BulkFault
    BY <1>8 DEF BulkFault, GuardFacts, Baseline, Busy
<1>9. CASE BulkEnd
    BY <1>9 DEF BulkEnd, GuardFacts, Baseline, Busy
<1>10. CASE ExcHandler
    <2>1. CASE trap \in FatalExc
        BY <1>10, <2>1, RebootGuardFacts DEF ExcHandler
    <2>2. CASE trap \notin FatalExc
        BY <1>10, <2>2 DEF ExcHandler, GuardFacts, Baseline, Busy
    <2>3. QED
        BY <2>1, <2>2
<1>11. CASE Delay
    BY <1>11 DEF Delay, GuardFacts, Baseline, Busy
<1>12. CASE Complete
    (* exc_guard = guard_save brings back the baseline.                    *)
    BY <1>12 DEF Complete, GuardFacts, Baseline, Busy
<1>13. CASE Handoff
    BY <1>13 DEF Handoff, GuardFacts, Baseline, Busy
<1>14. CASE NothingToDo
    BY <1>14, RebootGuardFacts DEF NothingToDo
<1>15. CASE HostReceive
    (* The host learns the baseline from the reply it takes.               *)
    <2>1. reply.op = req.op
        BY DEF TypeInv, Consistent
    <2>2. pc \in {"idle", "exit", "next"}
        BY <1>15 DEF HostReceive, GuardFacts
    <2>3. pc \in {"exit", "next"} => req.op \in ExitOps
        BY DEF TypeInv, Consistent
    <2>4. hostGuard' = Baseline
        BY <1>15, <2>1 DEF HostReceive, Baseline
    <2>5. pc \in {"exit", "next"} => hostGuard' = hostGuard
        BY <1>15, <2>1, <2>3 DEF HostReceive, ExitOps
    <2>6. QED
        BY <1>15, <2>2, <2>4, <2>5 DEF HostReceive, GuardFacts, Busy
<1>16. CASE UNCHANGED vars
    BY <1>16 DEF vars, GuardFacts, Baseline
<1>17. QED
    BY <1>0, <1>1, <1>2, <1>3, <1>4, <1>5, <1>6, <1>7, <1>8, <1>9, <1>10,
       <1>11, <1>12, <1>13, <1>14, <1>15, <1>16 DEF Next, DispatcherStep

(* Guard restoration (GuardRestored), for every number of cells, mapping,  *)
(* guard argument set and bulk size: whenever the monitor waits for a      *)
(* request, exc_guard is the baseline the host set, because every path     *)
(* through proxy_process that changes exc_guard ends in                    *)
(* exc_guard = guard_save, and every other path reboots.                   *)
THEOREM GuardRestoration == Spec => []GuardRestored
<1>1. GuardInv => GuardRestored
    BY DEF GuardInv, GuardFacts, GuardRestored
<1>2. QED
    BY <1>1, GuardInvInit, GuardInvStep, PTL DEF Spec
-----------------------------------------------------------------------------
(***************************************************************************)
(* Read after write.  ReadAfterWrite relates the reply of a READ to the    *)
(* reply of the request before it, so the invariant carries what each      *)
(* reply says about memory from the moment it is built until the host has *)
(* taken the next one: a faulting touch always ends in a data abort (and a *)
(* reboot), so a touching case reaches its completion only through the     *)
(* access itself; the value a WRITE stored or a read-modify-write returned *)
(* stays in its cell until the reply is taken; and what the host knows of  *)
(* a cell holds as long as no request that may write memory is in          *)
(* progress.                                                               *)
(***************************************************************************)
Writers == SkipOps \cup (MarkOps \ {"READ"}) \cup BulkOps

HostFacts ==
    /\ pc = "trap" /\ req.op # "CALL" => trap = "DATA_ABORT"
    /\ (pc = "done" \/ sent) /\ req.op \in MarkOps =>
         reply.retval = mem[req.addr]
    /\ (pc = "done" \/ sent) /\ req.op = "WRITE" => mem[req.addr] = req.val
    /\ hostKnows.known /\ ~(req.op \in Writers /\ (pc # "idle" \/ sent)) =>
         mem[hostKnows.addr] = hostKnows.val

ReadInv == GuardInv /\ HostFacts

(* A reboot forgets what the host knew and leaves no request in progress.  *)
LEMMA RebootHostFacts ==
    ASSUME Reboot PROVE HostFacts'
BY DEF Reboot, HostFacts, NoReq, NoWrite, MarkOps

(* The case groups that complete without touching memory.                 *)
LEMMA AfterSwitchDone ==
    ASSUME NEW op, AfterSwitch(op) = "done"
    PROVE  op \notin MarkOps \cup {"WRITE"}
BY DEF AfterSwitch, ExitOps, TouchOps, SkipOps, MarkOps, BulkOps

LEMMA ReadInvInit == Init => ReadInv
<1> SUFFICES ASSUME Init PROVE GuardInv /\ HostFacts
    BY DEF ReadInv
<1>1. GuardInv
    BY GuardInvInit
<1>2. HostFacts
    BY DEF Init, HostFacts, NoReq, NoWrite
<1>3. QED
    BY <1>1, <1>2

LEMMA ReadInvStep == ReadInv /\ [Next]_vars => ReadInv'
<1> SUFFICES ASSUME GuardInv, HostFacts, [Next]_vars
             PROVE  GuardInv' /\ HostFacts'
    BY DEF ReadInv
<1>0. GuardInv'
    BY GuardInvStep
<1> USE <1>0
<1>1. ASSUME NEW r \in Requests, Dispatch(r) PROVE HostFacts'
    <2>1. pc = "idle" /\ ~sent /\ mem' = mem /\ hostKnows' = hostKnows
        BY <1>1 DEF Dispatch
    <2>2. hostKnows.known => mem[hostKnows.addr] = hostKnows.val
        BY <2>1 DEF HostFacts
    <2>3. AfterSwitch(r.op) = "done" => r.op \notin MarkOps \cup {"WRITE"}
        BY AfterSwitchDone
    <2>4. sent' => r.op \in ExitOps
        BY <1>1 DEF Dispatch
    <2>5. r.op \in ExitOps => r.op \notin MarkOps \cup {"WRITE"}
        BY DEF ExitOps, MarkOps
    <2>6. /\ req' = r /\ pc' = AfterSwitch(r.op)
          /\ AfterSwitch(r.op) # "trap"
        BY <1>1 DEF Dispatch, AfterSwitch
    <2>7. (pc' = "done" \/ sent') => r.op \notin MarkOps \cup {"WRITE"}
        BY <2>3, <2>4, <2>5, <2>6
    <2>8. QED
        BY <2>1, <2>2, <2>6, <2>7 DEF HostFacts
<1>2. CASE DispatchReboot
    BY <1>2, RebootHostFacts DEF DispatchReboot
<1>3. CASE Touch
    <2>1. /\ req \in Requests
          /\ req.op \in SkipOps \cup MarkOps \cup {"CACHE_RANGE"}
          /\ req.addr \in Addr
          /\ mem \in [Addr -> Word]
          /\ pc' = "done" /\ sent' = sent /\ req' = req
          /\ hostKnows' = hostKnows
        BY <1>3, MappedAssumption DEF Touch, GuardInv, TypeInv, TypeOK, Consistent, Busy
    (* READ stores back what it loaded, and CACHE_RANGE stores nothing.     *)
    <2>2. req.op \notin Writers => mem' = mem
        <3>1. req.op \notin Writers => req.op \in {"READ", "CACHE_RANGE"}
            BY <2>1 DEF Writers
        <3>2. NewValue("READ", mem[req.addr], req) = mem[req.addr]
            BY DEF NewValue
        <3>3. QED
            BY <1>3, <2>1, <3>1, <3>2 DEF Touch, MarkOps, SkipOps
    (* The value the reply returns is the one now in the cell.             *)
    <2>3. req.op \in MarkOps => reply'.retval = mem'[req.addr]
        <3>1. req.op \in MarkOps =>
                /\ reply'.retval = RetVal(req.op, mem[req.addr], req)
                /\ mem'[req.addr] = NewValue(req.op, mem[req.addr], req)
            BY <1>3, <2>1 DEF Touch
        <3>2. req.op \in MarkOps =>
                RetVal(req.op, mem[req.addr], req) = NewValue(req.op, mem[req.addr], req)
            BY DEF RetVal, MarkOps, SkipOps
        <3>3. QED
            BY <3>1, <3>2
    <2>4. req.op = "WRITE" => mem'[req.addr] = req.val
        BY <1>3, <2>1 DEF Touch, SkipOps, NewValue
    <2>5. QED
        BY <2>1, <2>2, <2>3, <2>4 DEF HostFacts
<1>4. CASE TouchFault
    BY <1>4 DEF TouchFault, HostFacts
<1>5. CASE CallReturn
    BY <1>5 DEF CallReturn, HostFacts, MarkOps
<1>6. ASSUME NEW t \in SyncExc, CallTrap(t) PROVE HostFacts'
    BY <1>6 DEF CallTrap, HostFacts
<1>7. CASE BulkStep
    (* Only a request that may write memory is in progress.                *)
    <2>1. req.op \in BulkOps /\ pc = "bulk"
        BY <1>7 DEF BulkStep, GuardInv, TypeInv, Consistent
    <2>2. req.op \in Writers /\ req.op \notin MarkOps \cup {"WRITE"}
        BY <2>1 DEF Writers, BulkOps, MarkOps
    <2>3. QED
        BY <1>7, <2>1, <2>2 DEF BulkStep, HostFacts
<1>8. CASE BulkFault
    BY <1>8 DEF BulkFault, HostFacts
<1>9. CASE BulkEnd
    <2>1. req.op \in BulkOps
        BY <1>9 DEF BulkEnd, GuardInv, TypeInv, Consistent
    <2>2. req.op \in Writers /\ req.op \notin MarkOps \cup {"WRITE"}
        BY <2>1 DEF Writers, BulkOps, MarkOps
    <2>3. QED
        BY <1>9, <2>2 DEF BulkEnd, HostFacts
<1>10. CASE ExcHandler
    <2>1. CASE trap \in FatalExc
        BY <1>10, <2>1, RebootHostFacts DEF ExcHandler
    (* Only P_CALL can resume: a faulting touch raised a data abort.        *)
    <2>2. CASE trap \notin FatalExc
        <3>1. req.op = "CALL"
            BY <1>10, <2>2 DEF ExcHandler, HostFacts, FatalExc
        <3>2. QED
            BY <1>10, <2>2, <3>1 DEF ExcHandler, HostFacts, MarkOps
    <2>3. QED
        BY <2>1, <2>2
<1>11. CASE Delay
    <2>1. req.op = "UDELAY"
        BY <1>11 DEF Delay, GuardInv, TypeInv, Consistent
    <2>2. QED
        BY <1>11, <2>1 DEF Delay, HostFacts, MarkOps
<1>12. CASE Complete
    BY <1>12 DEF Complete, HostFacts
<1>13. CASE Handoff
    BY <1>13 DEF Handoff, HostFacts
<1>14. CASE NothingToDo
    BY <1>14, RebootHostFacts DEF NothingToDo
<1>15. CASE HostReceive
    <2>1. /\ reply.op = req.op
          /\ pc \in {"idle", "exit", "next"}
          /\ pc \in {"exit", "next"} => req.op \in ExitOps
        BY <1>15 DEF HostReceive, GuardInv, GuardFacts, TypeInv, Consistent
    <2>2. sent /\ ~sent' /\ mem' = mem /\ pc' = pc /\ req' = req
        BY <1>15 DEF HostReceive
    (* The host learns what the reply says, and it is what memory holds.   *)
    <2>3. hostKnows'.known => mem[hostKnows'.addr] = hostKnows'.val
        <3>1. CASE reply.status = "OK" /\ reply.op = "WRITE"
            <4>1. hostKnows' = [addr |-> req.addr, val |-> req.val, known |-> TRUE]
                BY <1>15, <3>1 DEF HostReceive, MarkOps
            <4>2. QED
                BY <4>1, <2>1, <2>2, <3>1 DEF HostFacts
        <3>2. CASE reply.status = "OK" /\ reply.op \in MarkOps
            <4>1. hostKnows' = [addr |-> req.addr, val |-> reply.retval, known |-> TRUE]
                BY <1>15, <3>2 DEF HostReceive, MarkOps
            <4>2. QED
                BY <4>1, <2>1, <2>2, <3>2 DEF HostFacts
        <3>3. CASE ~(reply.status = "OK" /\ reply.op \in {"WRITE"} \cup MarkOps)
            <4>1. hostKnows' = NoWrite
                BY <1>15, <3>3 DEF HostReceive
            <4>2. QED
                BY <4>1 DEF NoWrite
        <3>4. QED
            BY <3>1, <3>2, <3>3
    <2>4. pc \in {"exit", "next"} => req.op \notin MarkOps \cup {"WRITE"}
        BY <2>1 DEF ExitOps, MarkOps
    <2>5. QED
        BY <2>2, <2>3, <2>4, <1>15 DEF HostReceive, HostFacts
<1>16. CASE UNCHANGED vars
    BY <1>16 DEF vars, HostFacts
<1>17. QED
    BY <1>1, <1>2, <1>3, <1>4, <1>5, <1>6, <1>7, <1>8, <1>9, <1>10, <1>11,
       <1>12, <1>13, <1>14, <1>15, <1>16 DEF Next, DispatcherStep

(* Read after write (ReadAfterWrite), for every number of cells, mapping,  *)
(* guard argument set and bulk size: a READ answered right after an OK     *)
(* WRITE, SET, CLEAR, MASK, WRITEREAD or READ of the same cell returns the *)
(* value the previous reply told the host is there, because a touch that   *)
(* faults reboots and a completed touch leaves its value in the cell.      *)
THEOREM ReadAfterWriteHolds == Spec => []ReadAfterWrite
<1>1. ReadInv => ReadAfterWrite
    <2> SUFFICES ASSUME ReadInv, sent, reply.op = "READ", hostKnows.known,
                        hostKnows.addr = req.addr
                 PROVE  reply.retval = hostKnows.val
        BY DEF ReadAfterWrite
    <2>1. req.op = "READ"
        BY DEF ReadInv, GuardInv, TypeInv, Consistent
    <2>2. req.op \in MarkOps /\ req.op \notin Writers
        BY <2>1 DEF MarkOps, Writers, SkipOps, BulkOps
    <2>3. QED
        BY <2>2 DEF ReadInv, HostFacts
<1>2. QED
    BY <1>1, ReadInvInit, ReadInvStep, PTL DEF Spec
=============================================================================
