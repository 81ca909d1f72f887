------------------------------ MODULE I2ecBus --------------------------------
(***************************************************************************)
(* The I2EC register access of minibook_ec (minibook_ec_i2ec.c).  A call   *)
(* takes i2ec_lock and makes twelve port accesses: each pnpcfg_select is   *)
(* an outb to the index port and one to the data port, and the address and *)
(* the data travel as three such pairs.  The chip between the ports keeps  *)
(* the last index, sub-index and address bytes, so two threads whose       *)
(* accesses interleave would read or write the wrong register.             *)
(***************************************************************************)
EXTENDS Integers

CONSTANTS Threads, Addrs, Vals, NoCall,
  Free       \* value of i2ec_lock when nobody holds it

Byte == 0 .. 255

ASSUME BusAssumption ==
  /\ \A a \in Addrs : a \in Nat /\ a \div 256 \in Byte   \* u16
  /\ Vals \subseteq Byte /\ Vals # {}
  /\ Free \notin Threads

Requests ==
  [op : {"read"}, addr : Addrs] \cup [op : {"write"}, addr : Addrs, val : Vals]

ASSUME CallAssumption == NoCall \notin Requests

VARIABLES
  regs, req, ret,        \* as in AtomicRegs
  lock,                  \* holder of i2ec_lock
  pc,                    \* next port access of the holder; 0 without the lock
  index, sub, hi, lo     \* the chip: PNPCFG index, I2EC sub-index, address

chipVars == <<index, sub, hi, lo>>
vars == <<regs, req, ret, lock, pc, chipVars>>

PNPCFG_D2ADR == 46
PNPCFG_D2DAT == 47
I2EC_SUB_ADDR_L == 16
I2EC_SUB_ADDR_H == 17
I2EC_SUB_DATA == 18

AnyVal == CHOOSE v \in Vals : TRUE

\* Number of port accesses of a call.
Last == 12

Init ==
  /\ regs \in [Addrs -> Vals]
  /\ req = [p \in Threads |-> NoCall]
  /\ ret = [p \in Threads |-> AnyVal]
  /\ lock = Free
  /\ pc = [p \in Threads |-> 0]
  /\ index = 0 /\ sub = 0 /\ hi = 0 /\ lo = 0

-----------------------------------------------------------------------------
(* The chip, as the driver uses it *)

outb_index(i) == index' = i /\ UNCHANGED <<regs, sub, hi, lo>>

Selected == hi * 256 + lo

\* Bytes sent to sub-indices or addresses the driver never names are dropped.
outb_data(b) ==
  /\ sub' = IF index = PNPCFG_D2ADR THEN b ELSE sub
  /\ hi' = IF index = PNPCFG_D2DAT /\ sub = I2EC_SUB_ADDR_H THEN b ELSE hi
  /\ lo' = IF index = PNPCFG_D2DAT /\ sub = I2EC_SUB_ADDR_L THEN b ELSE lo
  /\ regs' = IF index = PNPCFG_D2DAT /\ sub = I2EC_SUB_DATA
             THEN [a \in Addrs |-> IF a = Selected THEN b ELSE regs[a]]
             ELSE regs
  /\ UNCHANGED index

inb_data ==
  IF index = PNPCFG_D2DAT /\ sub = I2EC_SUB_DATA /\ Selected \in Addrs
  THEN regs[Selected] ELSE AnyVal

-----------------------------------------------------------------------------
(* minibook_ec_i2ec_read and minibook_ec_i2ec_write *)

Call(p) ==
  /\ req[p] = NoCall
  /\ \E r \in Requests : req' = [req EXCEPT ![p] = r]
  /\ UNCHANGED <<regs, ret, lock, pc, chipVars>>

\* Mutant: no mutex.
EnterUnlocked(p) == lock' = p

\* mutex_lock
Enter(p) == lock = Free /\ lock' = p

Acquire(p) ==
  /\ req[p] # NoCall /\ pc[p] = 0
  /\ Enter(p)
  /\ pc' = [pc EXCEPT ![p] = 1]
  /\ UNCHANGED <<regs, req, ret, chipVars>>

\* (addr >> 8) & 0xFF
HighByte(a) == (a \div 256) % 256

LowByte(a) == a % 256

\* What the k-th port access (k even) puts on the data port.
DataByte(k, r) ==
  CASE k = 2  -> I2EC_SUB_ADDR_H
    [] k = 4  -> HighByte(r.addr)
    [] k = 6  -> I2EC_SUB_ADDR_L
    [] k = 8  -> LowByte(r.addr)
    [] k = 10 -> I2EC_SUB_DATA
    [] k = 12 -> r.val

PortAccess(p) ==
  /\ pc[p] \in 1 .. Last
  /\ pc' = [pc EXCEPT ![p] = @ + 1]
  /\ \/ /\ pc[p] \in {1, 5, 9}
        /\ outb_index(PNPCFG_D2ADR) /\ UNCHANGED ret
     \/ /\ pc[p] \in {3, 7, 11}
        /\ outb_index(PNPCFG_D2DAT) /\ UNCHANGED ret
     \/ /\ pc[p] \in {2, 4, 6, 8, 10} \/ (pc[p] = 12 /\ req[p].op = "write")
        /\ outb_data(DataByte(pc[p], req[p])) /\ UNCHANGED ret
     \/ /\ pc[p] = 12 /\ req[p].op = "read"
        /\ ret' = [ret EXCEPT ![p] = inb_data]
        /\ UNCHANGED <<regs, chipVars>>
  /\ UNCHANGED <<req, lock>>

\* Mutant: the lock is kept.
LeaveLocked == UNCHANGED lock

\* mutex_unlock
Leave == lock' = Free

Finish(p) ==
  /\ pc[p] = Last + 1
  /\ Leave
  /\ pc' = [pc EXCEPT ![p] = 0]
  /\ req' = [req EXCEPT ![p] = NoCall]
  /\ UNCHANGED <<regs, ret, chipVars>>

\* The EC firmware works on its own registers.
FirmwareWrite ==
  /\ \E a \in Addrs, v \in Vals : regs' = [regs EXCEPT ![a] = v]
  /\ UNCHANGED <<req, ret, lock, pc, chipVars>>

Next ==
  \/ \E p \in Threads : Call(p) \/ Acquire(p) \/ PortAccess(p) \/ Finish(p)
  \/ FirmwareWrite

Spec == Init /\ [][Next]_vars

\* A thread inside the accessor is scheduled, and the mutex hands itself over
\* to its waiters.
Fairness ==
  \A p \in Threads :
    SF_vars(Acquire(p)) /\ WF_vars(PortAccess(p)) /\ WF_vars(Finish(p))

FairSpec == Spec /\ Fairness

-----------------------------------------------------------------------------
(* Properties *)

\* Type invariant.
TypeOK ==
  /\ regs \in [Addrs -> Vals]
  /\ req \in [Threads -> Requests \cup {NoCall}]
  /\ ret \in [Threads -> Vals]
  /\ lock \in Threads \cup {Free}
  /\ pc \in [Threads -> 0 .. Last + 1]
  /\ index \in Byte /\ sub \in Byte /\ hi \in Byte /\ lo \in Byte

\* Only the holder of i2ec_lock is between the first and the last access.
OneInside == \A p \in Threads : pc[p] # 0 => (lock = p /\ req[p] # NoCall)

\* What the chip holds after k - 1 accesses of the call r.
ChipAt(k, r) ==
  /\ k \in {2, 6, 10} => index = PNPCFG_D2ADR
  /\ k \in {4, 8, 12} => index = PNPCFG_D2DAT
  /\ k \in {3, 4} => sub = I2EC_SUB_ADDR_H
  /\ k \in {7, 8} => sub = I2EC_SUB_ADDR_L
  /\ k \in {11, 12} => sub = I2EC_SUB_DATA
  /\ k \in 5 .. 12 => hi = HighByte(r.addr)
  /\ k \in 9 .. 12 => lo = LowByte(r.addr)

\* The inductive invariant: the chip is where the holder of the lock left it.
IInv ==
  /\ TypeOK
  /\ OneInside
  /\ \A p \in Threads : ChipAt(pc[p], req[p])

Atomic ==
  INSTANCE AtomicRegs WITH done <- {p \in Threads : pc[p] = Last + 1}

\* The calls behave as single reads and writes of the register they name, in
\* spite of the twelve port accesses and the state the chip keeps between them.
AccessIsAtomic == Atomic!RegsSpec

\* No thread waits for the lock, or holds it, for ever.
CallsReturn == \A p \in Threads : req[p] # NoCall ~> req[p] = NoCall
=============================================================================
