---------------------------- MODULE I2ecBus_proof ----------------------------
(* Proofs about the I2EC register access: its inductive invariant, and that  *)
(* it implements atomic registers for any number of threads and addresses.   *)
EXTENDS I2ecBus, TLAPS

(* A 16-bit address is its two bytes. *)
LEMMA BytesOfAddress ==
  ASSUME NEW a \in Addrs
  PROVE  /\ HighByte(a) \in Byte /\ LowByte(a) \in Byte
         /\ HighByte(a) * 256 + LowByte(a) = a
<1>1. a \in Nat /\ a \div 256 \in Byte
  BY BusAssumption
<1>2. a \div 256 \in Int /\ a \div 256 >= 0 /\ a \div 256 <= 255
  BY <1>1 DEF Byte
<1>3. a % 256 \in 0 .. 255 /\ (a \div 256) * 256 + (a % 256) = a
  BY <1>1
<1>4. (a \div 256) % 256 = a \div 256
  BY <1>2
<1>5. HighByte(a) = a \div 256 /\ LowByte(a) = a % 256
  BY <1>4 DEF HighByte, LowByte
<1>6. a \div 256 \in 0 .. 255
  BY <1>2
<1> QED BY <1>3, <1>5, <1>6, Zenon DEF Byte

(* Every port access puts a byte on the data port. *)
LEMMA DataByteType ==
  ASSUME NEW r \in Requests, NEW k \in {2, 4, 6, 8, 10}
  PROVE  DataByte(k, r) \in Byte
<1>1. r.addr \in Addrs
  BY DEF Requests
<1>2. HighByte(r.addr) \in Byte /\ LowByte(r.addr) \in Byte
  BY <1>1, BytesOfAddress
<1> QED BY <1>2
  DEF DataByte, Byte, I2EC_SUB_ADDR_H, I2EC_SUB_ADDR_L, I2EC_SUB_DATA

\* At the start nobody is inside the accessor.
LEMMA InitIInv == Init => IInv
<1> SUFFICES ASSUME Init PROVE IInv
  OBVIOUS
<1>1. AnyVal \in Vals
  BY BusAssumption DEF AnyVal
<1>2. TypeOK
  BY <1>1 DEF Init, TypeOK, Byte, Last
<1>3. OneInside /\ \A p \in Threads : ChipAt(pc[p], req[p])
  BY DEF Init, OneInside, ChipAt
<1> QED BY <1>2, <1>3 DEF IInv

(* The port accesses of the holder keep the invariant: no other thread is    *)
(* inside, and the chip moves as its program expects.                        *)
LEMMA PortAccessIInv ==
  ASSUME IInv, NEW p \in Threads, PortAccess(p)
  PROVE  IInv'
<1>1. /\ req[p] \in Requests /\ lock = p /\ pc[p] \in 1 .. 12
      /\ \A q \in Threads : q # p => pc[q] = 0
  BY DEF IInv, TypeOK, OneInside, PortAccess, Last
<1>2. /\ pc' = [pc EXCEPT ![p] = @ + 1] /\ req' = req /\ lock' = lock
      /\ pc'[p] = pc[p] + 1 /\ \A q \in Threads : q # p => pc'[q] = 0
      /\ pc' \in [Threads -> 0 .. Last + 1]
  BY <1>1 DEF PortAccess, IInv, TypeOK, Last
<1>3. ChipAt(pc[p], req[p])
  BY DEF IInv
<1>4. req[p].addr \in Addrs
  BY <1>1 DEF Requests
<1>5. OneInside'
  BY <1>1, <1>2 DEF OneInside, IInv
<1>6. ASSUME NEW q \in Threads, q # p PROVE ChipAt(pc[q], req[q])'
  BY <1>2, <1>6 DEF ChipAt
<1>7. CASE pc[p] \in {1, 5, 9} /\ outb_index(PNPCFG_D2ADR) /\ UNCHANGED ret
  <2>1. ChipAt(pc[p], req[p])'
    BY <1>1, <1>2, <1>3, <1>7 DEF ChipAt, outb_index
  <2>2. TypeOK'
    BY <1>2, <1>7 DEF IInv, TypeOK, outb_index, PNPCFG_D2ADR, Byte
  <2> QED BY <1>5, <1>6, <2>1, <2>2 DEF IInv
<1>8. CASE pc[p] \in {3, 7, 11} /\ outb_index(PNPCFG_D2DAT) /\ UNCHANGED ret
  <2>1. ChipAt(pc[p], req[p])'
    BY <1>1, <1>2, <1>3, <1>8 DEF ChipAt, outb_index
  <2>2. TypeOK'
    BY <1>2, <1>8 DEF IInv, TypeOK, outb_index, PNPCFG_D2DAT, Byte
  <2> QED BY <1>5, <1>6, <2>1, <2>2 DEF IInv
<1>9. CASE /\ pc[p] \in {2, 4, 6, 8, 10} \/ (pc[p] = 12 /\ req[p].op = "write")
           /\ outb_data(DataByte(pc[p], req[p])) /\ UNCHANGED ret
  <2>1. ChipAt(pc[p], req[p])'
    BY <1>1, <1>2, <1>3, <1>9
    DEF ChipAt, outb_data, DataByte, PNPCFG_D2ADR, PNPCFG_D2DAT,
        I2EC_SUB_ADDR_H, I2EC_SUB_ADDR_L, I2EC_SUB_DATA
  <2>2. /\ DataByte(pc[p], req[p]) \in Byte
        /\ pc[p] = 12 => DataByte(pc[p], req[p]) \in Vals
    <3>1. CASE pc[p] # 12
      BY <1>1, <1>9, <3>1, DataByteType
    <3>2. CASE pc[p] = 12
      <4>1. req[p].val \in Vals
        BY <1>1, <1>9, <3>2 DEF Requests
      <4>2. DataByte(pc[p], req[p]) = req[p].val
        BY <3>2 DEF DataByte
      <4>3. req[p].val \in 0 .. 255
        BY <4>1, BusAssumption DEF Byte
      <4> QED BY <4>1, <4>2, <4>3 DEF Byte
    <3> QED BY <3>1, <3>2
  <2>3. regs' \in [Addrs -> Vals]
    BY <1>1, <1>3, <1>9, <2>2
    DEF IInv, TypeOK, outb_data, ChipAt, PNPCFG_D2ADR, PNPCFG_D2DAT,
        I2EC_SUB_ADDR_H, I2EC_SUB_ADDR_L, I2EC_SUB_DATA
  <2>4. TypeOK'
    BY <1>2, <1>9, <2>2, <2>3 DEF IInv, TypeOK, outb_data
  <2> QED BY <1>5, <1>6, <2>1, <2>4 DEF IInv
<1>10. CASE /\ pc[p] = 12 /\ req[p].op = "read"
            /\ ret' = [ret EXCEPT ![p] = inb_data]
            /\ UNCHANGED <<regs, chipVars>>
  <2>1. ChipAt(pc[p], req[p])'
    BY <1>1, <1>2, <1>3, <1>10 DEF ChipAt, chipVars
  <2>2. inb_data \in Vals
    <3>1. AnyVal \in Vals
      BY BusAssumption DEF AnyVal
    <3>2. regs \in [Addrs -> Vals]
      BY DEF IInv, TypeOK
    <3> QED BY <3>1, <3>2 DEF inb_data
  <2>3. TypeOK'
    BY <1>2, <1>10, <2>2 DEF IInv, TypeOK, chipVars
  <2> QED BY <1>5, <1>6, <2>1, <2>3 DEF IInv
<1> QED BY <1>7, <1>8, <1>9, <1>10 DEF PortAccess

\* Every port access keeps the chip where the holder of i2ec_lock left it.
LEMMA NextIInv == IInv /\ [Next]_vars => IInv'
<1> SUFFICES ASSUME IInv, [Next]_vars PROVE IInv'
  OBVIOUS
<1>1. CASE UNCHANGED vars
  BY <1>1 DEF vars, chipVars, IInv, TypeOK, OneInside, ChipAt
<1>2. ASSUME NEW p \in Threads, Call(p) PROVE IInv'
  BY <1>2, CallAssumption
  DEF Call, IInv, TypeOK, OneInside, ChipAt, chipVars
<1>3. ASSUME NEW p \in Threads, Acquire(p) PROVE IInv'
  <2>1. /\ lock = Free /\ lock' = p /\ req[p] # NoCall /\ p # Free
        /\ pc' = [pc EXCEPT ![p] = 1] /\ UNCHANGED <<regs, req, ret, chipVars>>
    BY <1>3, BusAssumption DEF Acquire, Enter
  <2>2. \A q \in Threads : pc[q] = 0
    BY <2>1, BusAssumption DEF IInv, OneInside
  <2>3. TypeOK'
    BY <2>1 DEF IInv, TypeOK, chipVars, Last
  <2>4. \A q \in Threads : pc'[q] = IF q = p THEN 1 ELSE 0
    BY <2>1, <2>2 DEF IInv, TypeOK
  <2>5. OneInside' /\ \A q \in Threads : ChipAt(pc[q], req[q])'
    BY <2>1, <2>4 DEF OneInside, ChipAt
  <2> QED BY <2>3, <2>5 DEF IInv
<1>4. ASSUME NEW p \in Threads, PortAccess(p) PROVE IInv'
  BY <1>4, PortAccessIInv
<1>5. ASSUME NEW p \in Threads, Finish(p) PROVE IInv'
  BY <1>5 DEF Finish, Leave, IInv, TypeOK, OneInside, ChipAt, chipVars, Last
<1>6. CASE FirmwareWrite
  BY <1>6 DEF FirmwareWrite, IInv, TypeOK, OneInside, ChipAt, chipVars
<1> QED BY <1>1, <1>2, <1>3, <1>4, <1>5, <1>6 DEF Next

(* The invariant holds: at most one thread is between its port accesses, and *)
(* the chip's index, sub-index and address are the ones it has selected.     *)
THEOREM Invariance == Spec => []IInv
BY InitIInv, NextIInv, PTL DEF Spec

(* Type correctness; the bytes sent to the chip are bytes. *)
THEOREM TypeCorrect == Spec => []TypeOK
BY Invariance, PTL DEF IInv

-----------------------------------------------------------------------------
(* Refinement *)

\* The initial states are those of the atomic registers.
LEMMA InitRefines == Init => Atomic!RegsInit
<1> SUFFICES ASSUME Init PROVE Atomic!RegsInit
  OBVIOUS
<1>1. AnyVal \in Vals
  BY BusAssumption DEF AnyVal
<1>2. {q \in Threads : pc[q] = Last + 1} = {}
  BY DEF Init, Last
<1>3. ret \in [Threads -> Vals]
  BY <1>1 DEF Init
<1> QED BY <1>2, <1>3 DEF Init, Atomic!RegsInit

(* The twelfth port access is the one that takes effect. *)
LEMMA PortAccessRefines ==
  ASSUME IInv, NEW p \in Threads, PortAccess(p)
  PROVE  Atomic!TakeEffect(p) \/ UNCHANGED Atomic!regVars
<1> DEFINE D == {q \in Threads : pc[q] = Last + 1}
<1>1. /\ req[p] \in Requests /\ req[p] # NoCall /\ pc[p] \in 1 .. 12
      /\ pc' = [pc EXCEPT ![p] = @ + 1] /\ req' = req
      /\ req[p].addr \in Addrs
  BY CallAssumption DEF IInv, TypeOK, OneInside, PortAccess, Last, Requests
<1>2. ChipAt(pc[p], req[p])
  BY DEF IInv
<1>3. CASE pc[p] # 12
  <2>1. regs' = regs /\ ret' = ret
    BY <1>1, <1>2, <1>3
    DEF PortAccess, outb_index, outb_data, ChipAt, PNPCFG_D2ADR, PNPCFG_D2DAT,
        I2EC_SUB_ADDR_H, I2EC_SUB_ADDR_L, I2EC_SUB_DATA
  <2>2. D' = D
    BY <1>1, <1>3 DEF IInv, TypeOK, Last
  <2> QED BY <1>1, <2>1, <2>2 DEF Atomic!regVars
<1>4. CASE pc[p] = 12
  <2>1. D' = D \cup {p} /\ p \notin D
    BY <1>1, <1>4 DEF IInv, TypeOK, Last
  <2>2. Selected = req[p].addr
    BY <1>1, <1>2, <1>4, BytesOfAddress DEF ChipAt, Selected
  <2>3. index = PNPCFG_D2DAT /\ sub = I2EC_SUB_DATA
    BY <1>2, <1>4 DEF ChipAt
  <2>4. CASE req[p].op = "read"
    <3>1. ret' = [ret EXCEPT ![p] = regs[req[p].addr]] /\ regs' = regs
      BY <1>1, <1>4, <2>2, <2>3, <2>4 DEF PortAccess, inb_data
    <3> QED BY <1>1, <2>1, <2>4, <3>1 DEF Atomic!TakeEffect
  <2>5. CASE req[p].op = "write"
    <3>1. DataByte(pc[p], req[p]) = req[p].val
      BY <1>4 DEF DataByte
    <3>2. outb_data(req[p].val) /\ ret' = ret
      BY <1>1, <1>4, <2>5, <3>1 DEF PortAccess
    <3>3. regs' = [a \in Addrs |-> IF a = req[p].addr THEN req[p].val ELSE regs[a]]
      BY <2>2, <2>3, <3>2 DEF outb_data
    <3>4. regs' = [regs EXCEPT ![req[p].addr] = req[p].val]
      BY <1>1, <3>3 DEF IInv, TypeOK
    <3> QED BY <1>1, <2>1, <2>5, <3>2, <3>4 DEF Atomic!TakeEffect
  <2> QED BY <1>1, <2>4, <2>5 DEF Requests
<1> QED BY <1>3, <1>4

\* A port access is a call, its effect, its return, or nothing to the callers.
LEMMA NextRefines ==
  IInv /\ [Next]_vars => [Atomic!RegsNext]_Atomic!regVars
<1> SUFFICES ASSUME IInv, [Next]_vars
             PROVE  Atomic!RegsNext \/ UNCHANGED Atomic!regVars
  OBVIOUS
<1> DEFINE D == {q \in Threads : pc[q] = Last + 1}
<1>1. CASE UNCHANGED vars
  BY <1>1 DEF vars, Atomic!regVars
<1>2. ASSUME NEW p \in Threads, Call(p) PROVE Atomic!Invoke(p)
  BY <1>2 DEF Call, Atomic!Invoke, Requests, Atomic!Requests
<1>3. ASSUME NEW p \in Threads, Acquire(p) PROVE UNCHANGED Atomic!regVars
  <2>1. D' = D
    BY <1>3 DEF Acquire, IInv, TypeOK, Last
  <2> QED BY <1>3, <2>1 DEF Acquire, Atomic!regVars
<1>4. ASSUME NEW p \in Threads, PortAccess(p)
      PROVE  Atomic!TakeEffect(p) \/ UNCHANGED Atomic!regVars
  BY <1>4, PortAccessRefines
<1>5. ASSUME NEW p \in Threads, Finish(p) PROVE Atomic!Return(p)
  <2>1. D' = D \ {p} /\ p \in D
    BY <1>5 DEF Finish, IInv, TypeOK, Last
  <2> QED BY <1>5, <2>1 DEF Finish, Atomic!Return
<1>6. ASSUME FirmwareWrite PROVE Atomic!Firmware
  BY <1>6 DEF FirmwareWrite, Atomic!Firmware
<1> QED BY <1>1, <1>2, <1>3, <1>4, <1>5, <1>6 DEF Next, Atomic!RegsNext

(* minibook_ec_i2ec_read and _write are atomic register accesses: the mutex  *)
(* makes twelve port accesses one, for any threads and any addresses.        *)
THEOREM AccessAtomic == Spec => AccessIsAtomic
<1>1. Spec => []IInv
  BY Invariance
<1> QED BY <1>1, InitRefines, NextRefines, PTL DEF Spec, AccessIsAtomic, Atomic!RegsSpec
=============================================================================
