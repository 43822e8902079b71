---------------------------- MODULE ChipIdProofs ----------------------------
(***************************************************************************)
(* The safety of Get, for any number of callers, devices, buffers and      *)
(* event logs, whatever the ASPs do with the memory they are given.        *)
(***************************************************************************)
EXTENDS ChipId, WellFoundedInduction, TLAPS

PCs == {"idle", "sev", "log", "find", "device", "low", "high", "issue", "poll", "check"}
AtMailbox == {"low", "high", "issue", "poll", "check"}

\* What DMA memory may hold: what the caller put there, or an ASP.
Memory == [content : HostIDs \cup {"sentinel", "zeros"}, len : Nat]

Mailbox == [lo : Addrs \cup {None}, hi : Addrs \cup {None},
            reg : {"idle", "command", "taken", "ok", "failed"}]

Kinds == {"none", "error", "error before the fallback", "panic", "id"}

Types ==
    /\ pc \in [Callers -> PCs]
    /\ dev \in [Callers -> findASPDevices \cup {0}]
    /\ addr \in [Callers -> Addrs \cup {None}]
    /\ result \in [Callers -> [kind : Kinds, id : HostIDs \cup {None}]]
    /\ gets \in [Callers -> 0 .. MaxGets]
    /\ mem \in [Addrs -> Memory]
    /\ mailbox \in [findASPDevices -> Mailbox]
    /\ running \in [findASPDevices -> (Addrs \X Addrs) \cup {None}]

\* A caller at a mailbox has memory, and once it has written a half of the
\* address there is one there, its own or another caller's.
CallerInv(c) ==
    /\ pc[c] = "device" \/ pc[c] \in AtMailbox => dev[c] \in findASPDevices
    /\ pc[c] \in AtMailbox => addr[c] # None
    /\ pc[c] \in {"high", "issue"} => mailbox[dev[c]].lo # None
    /\ pc[c] = "issue" => mailbox[dev[c]].hi # None
    /\ result[c].kind = "id" => result[c].id \in HostIDs

\* A mailbox that has had a command has both halves of an address.
DeviceInv(d) ==
    /\ mailbox[d].reg # "idle" => mailbox[d].lo # None /\ mailbox[d].hi # None
    /\ running[d] # None => mailbox[d].reg # "idle"

IInv ==
    /\ Types
    /\ \A c \in Callers : CallerInv(c)
    /\ \A d \in findASPDevices : DeviceInv(d)

\* What a caller's step does to the others: it leaves their locals alone, and
\* never empties a register.
Frame(c) ==
    /\ \A o \in Callers \ {c} :
        pc'[o] = pc[o] /\ dev'[o] = dev[o] /\ addr'[o] = addr[o] /\ result'[o] = result[o]
    /\ \A d \in findASPDevices :
        /\ mailbox[d].lo # None => mailbox'[d].lo # None
        /\ mailbox[d].hi # None => mailbox'[d].hi # None

-----------------------------------------------------------------------------
(* The operators of the model                                              *)

\* A set of numbers that has a member has a least one.
LEMMA MinOf ==
    ASSUME NEW S, S \subseteq Nat, S # {}
    PROVE  Min(S) \in S
<1> DEFINE R == OpToRel(<, Nat)
<1>1. ASSUME NEW x \in Nat, NEW y \in Nat, y < x PROVE <<y, x>> \in R
  BY <1>1, Zenon DEF OpToRel
<1>2. IsWellFoundedOn(R, Nat)
  BY NatLessThanWellFounded, Zenon
<1> HIDE DEF R
<1>3. PICK x \in S : \A y \in S : ~(<<y, x>> \in R)
  BY <1>2, WFMin
<1>4. \A y \in S : ~(y < x)
  BY <1>1, <1>3
<1>5. \A y \in S : x <= y
  BY <1>4
<1> QED  BY <1>5 DEF Min

\* The ASPs are places on the bus, so there is a first one after any other.
LEMMA DevicesAreNumbers == findASPDevices \subseteq Nat
<1>1. Len(PciBus) \in Nat
  BY ChipWorld
<1> QED  BY <1>1 DEF findASPDevices

\* What the event log is searched for is a ChipID of this host, or nothing.
LEMMA LogIsTrue ==
    ASSUME NEW log \in Logs, extractAMDChipID(log.events) # None
    PROVE  extractAMDChipID(log.events) \in HostIDs
<1> DEFINE events == log.events
           ids == {i \in 1 .. Len(events) : events[i].pcr = 1 /\ ParseAMDChipIDPayload(events[i].payload)}
<1>1. ids # {} /\ extractAMDChipID(events) = events[Min(ids)].payload
  BY DEF extractAMDChipID
<1>2. ids \subseteq Nat
  OBVIOUS
<1>3. Min(ids) \in ids
  <2> HIDE DEF ids
  <2> QED  BY <1>1, <1>2, MinOf
<1>4. events[Min(ids)].payload \in HostIDs
  <2>1. ASSUME NEW i \in ids PROVE events[i].payload \in HostIDs
    BY FirmwareLogs
  <2> HIDE DEF ids, events
  <2> QED  BY <1>3, <2>1
<1> QED  BY <1>1, <1>4

-----------------------------------------------------------------------------
(* The steps of a caller                                                   *)

\* A step has to be right for the caller that takes it and for the mailboxes.
LEMMA OneMoves ==
    ASSUME IInv, NEW c \in Callers, Types', Frame(c), CallerInv(c)',
           \A d \in findASPDevices : DeviceInv(d)'
    PROVE  IInv'
<1>1. ASSUME NEW o \in Callers, o # c PROVE CallerInv(o)'
  BY <1>1 DEF IInv, CallerInv, Frame, AtMailbox
<1> QED  BY <1>1 DEF IInv

\* Get returns.
LEMMA ReturnKeeps ==
    ASSUME IInv, NEW c \in Callers, NEW r \in [kind : Kinds, id : HostIDs \cup {None}],
           r.kind = "id" => r.id \in HostIDs,
           Return(c, r), UNCHANGED <<mem, asp>>
    PROVE  IInv'
<1> USE DEF Return, asp
<1>1. pc'[c] = "idle" /\ result'[c] = r
  BY DEF IInv, Types
<1>2. Types'
  BY DEF IInv, Types, PCs
<1>3. CallerInv(c)'
  BY <1>1 DEF CallerInv, AtMailbox
<1>4. Frame(c)
  BY DEF Frame, IInv, Types
<1>5. \A d \in findASPDevices : DeviceInv(d)'
  BY DEF IInv, DeviceInv
<1> QED  BY <1>2, <1>3, <1>4, <1>5, OneMoves

\* Get goes on to label.
LEMMA GotoKeeps ==
    ASSUME IInv, NEW c \in Callers, NEW label \in PCs, Goto(c, label), UNCHANGED <<mem, asp>>,
           label = "device" \/ label \in AtMailbox => dev[c] \in findASPDevices,
           label \in AtMailbox => addr[c] # None,
           label \notin {"high", "issue"}
    PROVE  IInv'
<1> USE DEF Goto, asp
<1>1. pc'[c] = label /\ result'[c] = result[c] /\ dev'[c] = dev[c] /\ addr'[c] = addr[c]
  BY DEF IInv, Types
<1>2. Types'
  BY DEF IInv, Types
<1>3. CallerInv(c)'
  BY <1>1 DEF IInv, CallerInv
<1>4. Frame(c)
  BY DEF Frame, IInv, Types
<1>5. \A d \in findASPDevices : DeviceInv(d)'
  BY DEF IInv, DeviceInv
<1> QED  BY <1>2, <1>3, <1>4, <1>5, OneMoves

\* The results that are no ChipID.
LEMMA NoIdTyped ==
    \A r \in {NoId, Error, EarlyError, Panic} :
        r \in [kind : Kinds, id : HostIDs \cup {None}] /\ r.kind # "id"
<1> DEFINE Good(r) == r \in [kind : Kinds, id : HostIDs \cup {None}] /\ r.kind # "id"
<1>1. Good(NoId)
  BY DEF NoId, Kinds
<1>2. Good(Error)
  BY DEF Error, Kinds
<1>3. Good(EarlyError)
  BY DEF EarlyError, Kinds
<1>4. Good(Panic)
  BY DEF Panic, Kinds
<1> HIDE DEF Good
<1>5. \A r \in {NoId, Error, EarlyError, Panic} : Good(r)
  BY <1>1, <1>2, <1>3, <1>4
<1> QED  BY <1>5 DEF Good

\* A ChipID of this host is one.
LEMMA IdTyped ==
    ASSUME NEW id \in HostIDs
    PROVE  Id(id) \in [kind : Kinds, id : HostIDs \cup {None}] /\ Id(id).id \in HostIDs
BY DEF Id, Kinds

\* The next device, or none.
LEMMA NextKeeps ==
    ASSUME IInv, NEW c \in Callers, NextDevice(c), UNCHANGED <<mem, asp>>
    PROVE  IInv'
<1> DEFINE later == {d \in findASPDevices : dev[c] < d}
<1>1. CASE Return(c, Error)
  BY <1>1, NoIdTyped, ReturnKeeps
<1>2. CASE /\ later # {}
           /\ dev' = [dev EXCEPT ![c] = Min(later)]
           /\ pc' = [pc EXCEPT ![c] = "device"]
           /\ addr' = [addr EXCEPT ![c] = None]
           /\ UNCHANGED <<result, gets>>
  <2>1. Min(later) \in findASPDevices
    <3>1. later \subseteq Nat /\ later \subseteq findASPDevices
      BY DevicesAreNumbers
    <3> HIDE DEF later
    <3> QED  BY <1>2, <3>1, MinOf
  <2> HIDE DEF later
  <2> USE DEF asp
  <2>2. pc'[c] = "device" /\ dev'[c] = Min(later) /\ result'[c] = result[c]
    BY <1>2 DEF IInv, Types
  <2>3. Types'
    BY <1>2, <2>1 DEF IInv, Types, PCs
  <2>4. CallerInv(c)'
    BY <2>1, <2>2 DEF IInv, CallerInv, AtMailbox
  <2>5. Frame(c)
    BY <1>2 DEF Frame, IInv, Types
  <2>6. \A d \in findASPDevices : DeviceInv(d)'
    BY DEF IInv, DeviceInv
  <2> QED  BY <2>3, <2>4, <2>5, <2>6, OneMoves
<1> QED  BY <1>1, <1>2 DEF NextDevice

\* A new call.
LEMMA GetKeeps == ASSUME IInv, NEW c \in Callers, Get(c) PROVE IInv'
<1> USE DEF Get, asp
<1>1. pc'[c] = "sev" /\ result'[c] = NoId
  BY DEF IInv, Types
<1>2. Types'
  <2>1. gets' \in [Callers -> 0 .. MaxGets]
    BY ChipWorld DEF IInv, Types
  <2>2. result' \in [Callers -> [kind : Kinds, id : HostIDs \cup {None}]]
    BY NoIdTyped DEF IInv, Types
  <2> QED  BY <2>1, <2>2 DEF IInv, Types, PCs
<1>3. CallerInv(c)'
  BY <1>1, NoIdTyped DEF CallerInv, AtMailbox
<1>4. Frame(c)
  BY DEF Frame, IInv, Types
<1>5. \A d \in findASPDevices : DeviceInv(d)'
  BY DEF IInv, DeviceInv
<1> QED  BY <1>2, <1>3, <1>4, <1>5, OneMoves

\* The SEV driver.
LEMMA SEVKeeps == ASSUME IInv, NEW c \in Callers, ReadSEV(c) PROVE IInv'
<1> USE DEF ReadSEV
<1>1. CASE Goto(c, "log")
  BY <1>1, GotoKeeps DEF PCs, AtMailbox
<1>2. ASSUME NEW id \in HostIDs, Return(c, Id(id)) PROVE IInv'
  BY <1>2, IdTyped, ReturnKeeps
<1>3. CASE Return(c, Error)
  BY <1>3, NoIdTyped, ReturnKeeps
<1> QED  BY <1>1, <1>2, <1>3

\* The event log.
LEMMA LogKeeps == ASSUME IInv, NEW c \in Callers, ReadEventLog(c) PROVE IInv'
<1> USE DEF ReadEventLog
<1>1. PICK log \in Logs :
          \/ Return(c, EarlyError)
          \/ extractAMDChipID(log.events) # None /\ Return(c, Id(extractAMDChipID(log.events)))
          \/ Goto(c, "find")
  OBVIOUS
<1>2. CASE Return(c, EarlyError)
  BY <1>2, NoIdTyped, ReturnKeeps
<1>3. CASE extractAMDChipID(log.events) # None /\ Return(c, Id(extractAMDChipID(log.events)))
  BY <1>3, LogIsTrue, IdTyped, ReturnKeeps
<1>4. CASE Goto(c, "find")
  BY <1>4, GotoKeeps DEF PCs, AtMailbox
<1> QED  BY <1>1, <1>2, <1>3, <1>4

\* The list of devices.
LEMMA FindKeeps == ASSUME IInv, NEW c \in Callers, FindDevices(c) PROVE IInv'
BY NoIdTyped, ReturnKeeps, NextKeeps DEF FindDevices

\* The buffers are allocated: nobody's memory changes but the caller's own.
LEMMA PrepareKeeps == ASSUME IInv, NEW c \in Callers, Prepare(c) PROVE IInv'
<1> USE DEF Prepare, asp
<1>1. CASE NextDevice(c) /\ UNCHANGED mem
  BY <1>1, NextKeeps
<1>2. ASSUME NEW a \in Addrs, getPhysicalAddress(c, a), pc' = [pc EXCEPT ![c] = "low"],
             UNCHANGED <<dev, result, gets>>
      PROVE  IInv'
  <2>1. Fresh \in Memory
    BY ChipWorld DEF Fresh, Memory
  <2>2. pc'[c] = "low" /\ dev'[c] = dev[c] /\ addr'[c] = a /\ result'[c] = result[c]
    BY <1>2 DEF getPhysicalAddress, IInv, Types
  <2>3. Types'
    BY <1>2, <2>1 DEF getPhysicalAddress, IInv, Types, PCs
  <2>4. CallerInv(c)'
    BY <2>2, ChipWorld DEF IInv, CallerInv, AtMailbox
  <2>5. Frame(c)
    BY <1>2 DEF getPhysicalAddress, Frame, IInv, Types
  <2>6. \A d \in findASPDevices : DeviceInv(d)'
    BY DEF IInv, DeviceInv
  <2> QED  BY <2>3, <2>4, <2>5, <2>6, OneMoves
<1> QED  BY <1>1, <1>2

\* A register is written: the mailbox is one still, and no half of it is lost.
LEMMA RegisterKeeps ==
    ASSUME IInv, NEW c \in Callers, NEW label, NEW next \in PCs, NEW m,
           WriteRegister(c, label, next, m), label \in AtMailbox,
           dev[c] \in findASPDevices =>
               /\ m \in Mailbox
               /\ mailbox[dev[c]].lo # None => m.lo # None
               /\ mailbox[dev[c]].hi # None => m.hi # None
               /\ mailbox[dev[c]].reg # "idle" => m.reg # "idle"
               /\ m.reg # "idle" => m.lo # None /\ m.hi # None,
           next \in {"high", "issue"} => m.lo # None,
           next = "issue" => m.hi # None
    PROVE  IInv'
<1> USE DEF WriteRegister, asp
<1>1. CASE Return(c, Panic) /\ UNCHANGED mailbox
  BY <1>1, NoIdTyped, ReturnKeeps
<1>2. CASE mailbox' = [mailbox EXCEPT ![dev[c]] = m] /\ Goto(c, next)
  <2> USE DEF Goto
  <2>1. dev[c] \in findASPDevices /\ addr[c] # None
    BY DEF IInv, CallerInv
  <2>2. /\ pc'[c] = next /\ dev'[c] = dev[c] /\ addr'[c] = addr[c] /\ result'[c] = result[c]
        /\ mailbox'[dev[c]] = m
    BY <1>2, <2>1 DEF IInv, Types
  <2>3. \A d \in findASPDevices : d # dev[c] => mailbox'[d] = mailbox[d]
    BY <1>2 DEF IInv, Types
  <2>4. Types'
    BY <1>2, <2>1 DEF IInv, Types
  <2>5. CallerInv(c)'
    BY <2>1, <2>2 DEF IInv, CallerInv
  <2>6. Frame(c)
    BY <1>2, <2>1, <2>2, <2>3 DEF Frame, IInv, Types
  <2>7. \A d \in findASPDevices : DeviceInv(d)'
    BY <2>1, <2>2, <2>3 DEF IInv, DeviceInv
  <2> QED  BY <2>4, <2>5, <2>6, <2>7, OneMoves
<1> QED  BY <1>1, <1>2

\* What a caller about to write a register has.
LEMMA AtMailboxHas ==
    ASSUME IInv, NEW c \in Callers, pc[c] \in AtMailbox
    PROVE  /\ dev[c] \in findASPDevices /\ addr[c] \in Addrs /\ addr[c] # None
           /\ mailbox[dev[c]] \in Mailbox /\ DeviceInv(dev[c])
BY DEF IInv, Types, CallerInv

\* The low half of the address.
LEMMA LowKeeps == ASSUME IInv, NEW c \in Callers, WriteLow(c) PROVE IInv'
<1> DEFINE m == [mailbox[dev[c]] EXCEPT !.lo = addr[c]]
<1>1. pc[c] = "low"
  BY DEF WriteLow, WriteRegister
<1>2. /\ dev[c] \in findASPDevices /\ addr[c] \in Addrs /\ addr[c] # None
      /\ mailbox[dev[c]] \in Mailbox /\ DeviceInv(dev[c])
  BY <1>1, AtMailboxHas DEF AtMailbox
<1>3. m \in Mailbox /\ m.lo = addr[c] /\ m.hi = mailbox[dev[c]].hi /\ m.reg = mailbox[dev[c]].reg
  BY <1>2 DEF Mailbox
<1> HIDE DEF m
<1> QED  BY <1>2, <1>3, RegisterKeeps DEF WriteLow, m, DeviceInv, PCs, AtMailbox

\* The high half.
LEMMA HighKeeps == ASSUME IInv, NEW c \in Callers, WriteHigh(c) PROVE IInv'
<1> DEFINE m == [mailbox[dev[c]] EXCEPT !.hi = addr[c]]
<1>1. pc[c] = "high"
  BY DEF WriteHigh, WriteRegister
<1>2. /\ dev[c] \in findASPDevices /\ addr[c] \in Addrs /\ addr[c] # None
      /\ mailbox[dev[c]] \in Mailbox /\ DeviceInv(dev[c])
  BY <1>1, AtMailboxHas DEF AtMailbox
<1>3. m \in Mailbox /\ m.lo = mailbox[dev[c]].lo /\ m.hi = addr[c] /\ m.reg = mailbox[dev[c]].reg
  BY <1>2 DEF Mailbox
<1>4. mailbox[dev[c]].lo # None
  BY <1>1 DEF IInv, CallerInv
<1> HIDE DEF m
<1> QED  BY <1>2, <1>3, <1>4, RegisterKeeps DEF WriteHigh, m, DeviceInv, PCs, AtMailbox

\* The command.
LEMMA IssueKeeps == ASSUME IInv, NEW c \in Callers, Issue(c) PROVE IInv'
<1> DEFINE m == [mailbox[dev[c]] EXCEPT !.reg = "command"]
<1>1. pc[c] = "issue"
  BY DEF Issue, WriteRegister
<1>2. /\ dev[c] \in findASPDevices /\ addr[c] \in Addrs /\ addr[c] # None
      /\ mailbox[dev[c]] \in Mailbox /\ DeviceInv(dev[c])
  BY <1>1, AtMailboxHas DEF AtMailbox
<1>3. m \in Mailbox /\ m.lo = mailbox[dev[c]].lo /\ m.hi = mailbox[dev[c]].hi /\ m.reg = "command"
  BY <1>2 DEF Mailbox
<1>4. mailbox[dev[c]].lo # None /\ mailbox[dev[c]].hi # None
  BY <1>1 DEF IInv, CallerInv
<1> HIDE DEF m
<1> QED  BY <1>2, <1>3, <1>4, RegisterKeeps DEF Issue, m, DeviceInv, PCs, AtMailbox

\* A response, whoever asked for it.
LEMMA PollKeeps == ASSUME IInv, NEW c \in Callers, Poll(c) PROVE IInv'
<1>1. dev[c] \in findASPDevices /\ addr[c] # None
  BY AtMailboxHas DEF Poll, AtMailbox
<1> QED  BY <1>1, GotoKeeps, NextKeeps DEF Poll, PCs

\* No response.
LEMMA TimeoutKeeps == ASSUME IInv, NEW c \in Callers, Timeout(c) PROVE IInv'
BY NextKeeps DEF Timeout

\* What passes the check was written by an ASP.
LEMMA CheckKeeps == ASSUME IInv, NEW c \in Callers, Check(c) PROVE IInv'
<1>1. addr[c] \in Addrs
  BY AtMailboxHas DEF Check, AtMailbox
<1>2. mem[addr[c]].content \in HostIDs \cup {"sentinel", "zeros"}
  BY <1>1 DEF IInv, Types, Memory
<1>3. CASE checkDMAChipID(mem[addr[c]]) /\ Return(c, Id(mem[addr[c]].content))
  <2>1. mem[addr[c]].content \in HostIDs
    BY <1>2, <1>3 DEF checkDMAChipID
  <2> QED  BY <1>3, <2>1, IdTyped, ReturnKeeps DEF Check
<1>4. CASE NextDevice(c)
  BY <1>4, NextKeeps DEF Check
<1> QED  BY <1>3, <1>4 DEF Check

-----------------------------------------------------------------------------
(* The steps of an ASP                                                     *)

\* Whatever an ASP does in its mailbox, the addresses stay.
LEMMA DeviceMoves ==
    ASSUME IInv, NEW d \in findASPDevices, NEW r \in {"taken", "ok", "failed"},
           mailbox[d].lo # None, mailbox[d].hi # None,
           mailbox' = [mailbox EXCEPT ![d].reg = r], UNCHANGED local,
           mem' \in [Addrs -> Memory],
           running' \in [findASPDevices -> (Addrs \X Addrs) \cup {None}],
           \A e \in findASPDevices \ {d} : running'[e] = running[e]
    PROVE  IInv'
<1> DEFINE m == [mailbox[d] EXCEPT !.reg = r]
<1>1. mailbox[d] \in Mailbox
  BY DEF IInv, Types
<1>2. m \in Mailbox /\ m.lo = mailbox[d].lo /\ m.hi = mailbox[d].hi /\ m.reg = r
  BY <1>1 DEF Mailbox
<1>3. mailbox' = [mailbox EXCEPT ![d] = m]
  OBVIOUS
<1> HIDE DEF m
<1>4. mailbox' \in [findASPDevices -> Mailbox]
  BY <1>2, <1>3 DEF IInv, Types
<1>5. mailbox'[d] = m /\ \A e \in findASPDevices : e # d => mailbox'[e] = mailbox[e]
  BY <1>3 DEF IInv, Types
<1>6. \A e \in findASPDevices : mailbox'[e].lo = mailbox[e].lo /\ mailbox'[e].hi = mailbox[e].hi
  BY <1>2, <1>5
<1>7. Types'
  BY <1>4 DEF local, IInv, Types
<1>8. ASSUME NEW c \in Callers PROVE CallerInv(c)'
  BY <1>6 DEF local, IInv, CallerInv, AtMailbox
<1>9. ASSUME NEW e \in findASPDevices PROVE DeviceInv(e)'
  BY <1>2, <1>5 DEF IInv, DeviceInv
<1> QED  BY <1>7, <1>8, <1>9 DEF IInv

\* A command is taken with the address that the registers hold by now.
LEMMA TakeKeeps == ASSUME IInv, NEW d \in findASPDevices, Take(d) PROVE IInv'
<1> USE DEF Take
<1>1. mailbox[d].lo # None /\ mailbox[d].hi # None
  BY DEF IInv, DeviceInv
<1>2. mailbox[d].lo \in Addrs /\ mailbox[d].hi \in Addrs
  BY <1>1 DEF IInv, Types, Mailbox
<1>3. /\ running' \in [findASPDevices -> (Addrs \X Addrs) \cup {None}]
      /\ \A e \in findASPDevices \ {d} : running'[e] = running[e]
  BY <1>2 DEF IInv, Types
<1>4. mem' \in [Addrs -> Memory]
  BY DEF IInv, Types
<1> QED  BY <1>1, <1>3, <1>4, DeviceMoves

\* A command is executed, late perhaps, and into memory that has another owner
\* by now; what it writes is a ChipID of this host, or zeros.
LEMMA CompleteKeeps ==
    ASSUME IInv, NEW d \in findASPDevices, Complete(d)
    PROVE  IInv'
<1> USE DEF Complete
<1>5. mailbox[d].lo # None /\ mailbox[d].hi # None
  BY DEF IInv, DeviceInv
<1>1. /\ running' \in [findASPDevices -> (Addrs \X Addrs) \cup {None}]
      /\ \A e \in findASPDevices \ {d} : running'[e] = running[e]
  BY DEF Respond, IInv, Types
<1>2. PICK r \in {"taken", "ok", "failed"} : mailbox' = [mailbox EXCEPT ![d].reg = r]
  BY DEF Respond
<1>3. ASSUME NEW m \in Written(d) PROVE m \in Memory
  <2>1. Chip(d) \in HostIDs /\ ChipIDSize \in Nat
    BY ChipWorld DEF HostIDs
  <2> QED  BY <2>1 DEF Written, Memory
<1>4. mem' \in [Addrs -> Memory]
  <2>1. CASE UNCHANGED mem
    BY <2>1 DEF IInv, Types
  <2>2. ASSUME NEW m \in Written(d), NEW a \in Addrs \cup {None},
               mem' = IF a = None THEN mem ELSE [mem EXCEPT ![a] = m]
        PROVE  mem' \in [Addrs -> Memory]
    BY <1>3, <2>2 DEF IInv, Types
  <2>3. Target(running[d]) \in Addrs \cup {None}
    BY DEF Target, IInv, Types
  <2> QED  BY <2>1, <2>2, <2>3
<1> QED  BY <1>1, <1>2, <1>4, <1>5, DeviceMoves

-----------------------------------------------------------------------------
(* The theorem                                                             *)

\* Initially the buffers hold the sentinel and the mailboxes nothing.
LEMMA InitInv == Init => IInv
<1> SUFFICES ASSUME Init PROVE IInv
  OBVIOUS
<1>1. Fresh \in Memory
  BY ChipWorld DEF Fresh, Memory
<1>2. NoId \in [kind : Kinds, id : HostIDs \cup {None}] /\ NoId.kind # "id"
  BY NoIdTyped
<1>3. Types
  BY <1>1, <1>2, ChipWorld DEF Init, Types, Mailbox, PCs
<1>4. ASSUME NEW c \in Callers PROVE CallerInv(c)
  BY <1>2 DEF Init, CallerInv, AtMailbox
<1>5. ASSUME NEW d \in findASPDevices PROVE DeviceInv(d)
  BY DEF Init, DeviceInv
<1> QED  BY <1>3, <1>4, <1>5 DEF IInv

\* The ChipID that Get returns belongs to a chip of this host, although the
\* mailbox is shared without a lock, commands outlive the callers that gave
\* them up, and responses cannot be told apart.
THEOREM IdBelongsToHost == Spec => []IdIsReal
<1>1. IInv => IdIsReal
  <2> SUFFICES ASSUME IInv PROVE IdIsReal
    OBVIOUS
  <2>1. TypeOK
    <3>1. ASSUME NEW c \in Callers
          PROVE  /\ dev[c] \in findASPDevices \cup {0} /\ addr[c] \in Addrs \cup {None}
                 /\ pc[c] \in AtMailbox => addr[c] # None
                 /\ gets[c] \in 0 .. MaxGets
      BY DEF IInv, Types, CallerInv
    <3>2. ASSUME NEW d \in findASPDevices
          PROVE  mailbox[d] \in Mailbox /\ running[d] \in (Addrs \X Addrs) \cup {None}
      BY DEF IInv, Types
    <3> QED  BY <3>1, <3>2 DEF IInv, Types, PCs, AtMailbox, Mailbox, TypeOK
  <2> QED  BY <2>1 DEF IInv, CallerInv, IdIsReal
<1>2. IInv /\ [Next]_vars => IInv'
  <2> SUFFICES ASSUME IInv, [Next]_vars PROVE IInv'
    OBVIOUS
  <2>1. CASE UNCHANGED vars
    <3>1. UNCHANGED <<pc, dev, addr, result, gets, mem, mailbox, running>>
      BY <2>1 DEF vars, local, asp
    <3>2. Types'
      BY <3>1 DEF IInv, Types
    <3>3. ASSUME NEW c \in Callers PROVE CallerInv(c)'
      BY <3>1 DEF IInv, CallerInv
    <3>4. ASSUME NEW d \in findASPDevices PROVE DeviceInv(d)'
      BY <3>1 DEF IInv, DeviceInv
    <3> QED  BY <3>2, <3>3, <3>4 DEF IInv
  <2>2. ASSUME NEW c \in Callers, Get(c) \/ Step(c) PROVE IInv'
    BY <2>2, GetKeeps, SEVKeeps, LogKeeps, FindKeeps, PrepareKeeps, LowKeeps, HighKeeps,
       IssueKeeps, PollKeeps, TimeoutKeeps, CheckKeeps DEF Step
  <2>3. ASSUME NEW d \in findASPDevices, Take(d) \/ Complete(d) PROVE IInv'
    BY <2>3, TakeKeeps, CompleteKeeps
  <2> QED  BY <2>1, <2>2, <2>3 DEF Next
<1> QED  BY <1>1, <1>2, InitInv, PTL DEF Spec

=============================================================================
