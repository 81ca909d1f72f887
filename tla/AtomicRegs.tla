----------------------------- MODULE AtomicRegs ------------------------------
(***************************************************************************)
(* What minibook_ec_i2ec_read and minibook_ec_i2ec_write promise to the    *)
(* fan, thermal and keyboard-backlight parts of minibook_ec: between call  *)
(* and return there is one instant at which the register is read or        *)
(* written, whatever other threads do.  The EC firmware changes registers  *)
(* at any time.                                                            *)
(***************************************************************************)
EXTENDS Integers

CONSTANTS
  Threads,   \* kernel threads that call the accessors
  Addrs,     \* EC addresses in use
  Vals,      \* register values
  NoCall     \* not in a call

Requests ==
  [op : {"read"}, addr : Addrs] \cup [op : {"write"}, addr : Addrs, val : Vals]

VARIABLES
  regs,   \* contents of the EC's registers
  req,    \* the call each thread is in
  done,   \* the threads whose call has taken effect
  ret     \* value returned by the thread's last read

regVars == <<regs, req, done, ret>>

RegsInit ==
  /\ regs \in [Addrs -> Vals]
  /\ req = [p \in Threads |-> NoCall]
  /\ done = {}
  /\ ret \in [Threads -> Vals]

Invoke(p) ==
  /\ req[p] = NoCall
  /\ \E r \in Requests : req' = [req EXCEPT ![p] = r]
  /\ UNCHANGED <<regs, done, ret>>

TakeEffect(p) ==
  /\ req[p] # NoCall /\ p \notin done
  /\ done' = done \cup {p}
  /\ \/ /\ req[p].op = "read"
        /\ ret' = [ret EXCEPT ![p] = regs[req[p].addr]]
        /\ UNCHANGED regs
     \/ /\ req[p].op = "write"
        /\ regs' = [regs EXCEPT ![req[p].addr] = req[p].val]
        /\ UNCHANGED ret
  /\ UNCHANGED req

Return(p) ==
  /\ p \in done
  /\ req' = [req EXCEPT ![p] = NoCall]
  /\ done' = done \ {p}
  /\ UNCHANGED <<regs, ret>>

Firmware ==
  /\ \E a \in Addrs, v \in Vals : regs' = [regs EXCEPT ![a] = v]
  /\ UNCHANGED <<req, done, ret>>

RegsNext ==
  \/ \E p \in Threads : Invoke(p) \/ TakeEffect(p) \/ Return(p)
  \/ Firmware

RegsSpec == RegsInit /\ [][RegsNext]_regVars
=============================================================================
