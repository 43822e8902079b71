------------------------------- MODULE ChipId -------------------------------
(***************************************************************************)
(* pkg/chipid on an AMD host: Get tries the SEV driver, then the UEFI event *)
(* log, then the mailbox of each AMD Secure Processor (ASP) directly.  The  *)
(* mailbox is the hard part.  It is shared by everybody who pokes it, with  *)
(* no lock; it is written register by register; the ASP answers by DMA into *)
(* the caller's memory, late if it likes; and the caller gives up after a   *)
(* timeout, which frees the memory but does not stop the ASP.               *)
(***************************************************************************)
EXTENDS Naturals, Sequences, FiniteSetsExt

CONSTANTS
    Callers,        \* who calls Get, in this process or another
    PciBus,         \* the entries of /sys/bus/pci/devices, in name order
    Logs,           \* the event logs the firmware may have written
    SevStates,      \* what /dev/sev may do
    Addrs,          \* physical addresses the allocator hands out
    ChipIDSize,     \* amdChipIDSize
    RegistersEnd,   \* the end of the last mailbox register in BAR2
    MaxGets,        \* bound: calls of Get by each caller
    None

\* An entry of the PCI bus: its vendor and device IDs, the size of its BAR2
\* (0 when the resource file does not give one) and the chip behind it.
PciEntry == [vendor : {"AMD", "other", "unreadable"}, asp : BOOLEAN, size : Nat, chip : STRING]

\* An event: the PCR it extends and its payload, too short, without the IVES
\* tag, or the first ChipID after the tag.
Unusable == {"short", "untagged"}
\* The log as it was read: readable and parsable, and then its events.
LogFile(readable, events) == [readable |-> readable, events |-> events]

Sevs == {"absent", "open fails", "ioctl fails", "firmware error", "bad length", "good"}

ASSUME ChipWorld ==
    /\ PciBus \in Seq(PciEntry)
    /\ \A i \in 1 .. Len(PciBus) : PciBus[i].chip \notin Unusable \cup {"sentinel", "zeros", "foreign"}
    /\ SevStates \subseteq Sevs
    /\ None \notin Addrs
    /\ ChipIDSize \in Nat \ {0}
    /\ RegistersEnd \in Nat
    /\ MaxGets \in Nat

-----------------------------------------------------------------------------
(* Pure parts.                                                             *)

\* findASPDevices: the places of the ASPs on the bus.
findASPDevices ==
    {i \in 1 .. Len(PciBus) : PciBus[i].vendor = "AMD" /\ PciBus[i].asp /\ PciBus[i].size # 0}

Chip(d) == PciBus[d].chip

\* The ChipIDs of this host.
HostIDs == {Chip(d) : d \in findASPDevices}

\* read32 and write32 slice the mapping of BAR2 and panic beyond its end.
Mapped(d) == PciBus[d].size >= RegistersEnd

ParseAMDChipIDPayload(payload) == payload \notin Unusable

\* extractAMDChipID: the first event of PCR 1 that holds a ChipID.
extractAMDChipID(events) ==
    LET ids == {i \in 1 .. Len(events) : events[i].pcr = 1 /\ ParseAMDChipIDPayload(events[i].payload)}
    IN  IF ids = {} THEN None ELSE events[Min(ids)].payload

\* What the firmware measures into PCR 1 under the tag is a ChipID of this host.
ASSUME FirmwareLogs ==
    \A log \in Logs : \A i \in 1 .. Len(log.events) :
        log.events[i].pcr = 1 /\ ParseAMDChipIDPayload(log.events[i].payload)
            => log.events[i].payload \in HostIDs

checkDMAChipID_LengthOnly(m) == m.len \in 1 .. ChipIDSize /\ m.content # "zeros"

\* checkDMAChipID: the buffer is not the sentinel nor zeros, the length fits.
checkDMAChipID(m) ==
    /\ m.content # "sentinel"
    /\ m.len \in 1 .. ChipIDSize
    /\ m.content # "zeros"

-----------------------------------------------------------------------------
VARIABLES
    pc,         \* what each caller does next
    dev,        \* the device it is at, 0 before the first
    addr,       \* the DMA memory it holds: ChipID and command buffer
    result,     \* what its last Get returned
    gets,       \* how often it has called Get
    mem,        \* DMA memory: what the buffers at an address hold
    mailbox,    \* per device: C2PMSG_56, C2PMSG_57 and C2PMSG_32
    running     \* per device: the command buffer of the command it executes

local == <<pc, dev, addr, result, gets>>
asp == <<mailbox, running>>
vars == <<local, mem, asp>>

Fresh == [content |-> "sentinel", len |-> ChipIDSize]
NoId == [kind |-> "none", id |-> None]

Init ==
    /\ pc = [c \in Callers |-> "idle"]
    /\ dev = [c \in Callers |-> 0]
    /\ addr = [c \in Callers |-> None]
    /\ result = [c \in Callers |-> NoId]
    /\ gets = [c \in Callers |-> 0]
    /\ mem = [a \in Addrs |-> Fresh]
    /\ mailbox = [d \in findASPDevices |-> [lo |-> None, hi |-> None, reg |-> "idle"]]
    /\ running = [d \in findASPDevices |-> None]

\* Get returns: what it held is unlocked, unmapped and left to the collector.
Return(c, r) ==
    /\ pc' = [pc EXCEPT ![c] = "idle"]
    /\ result' = [result EXCEPT ![c] = r]
    /\ addr' = [addr EXCEPT ![c] = None]
    /\ UNCHANGED <<dev, gets>>

Error == [kind |-> "error", id |-> None]
EarlyError == [kind |-> "error before the fallback", id |-> None]
Panic == [kind |-> "panic", id |-> None]
Id(id) == [kind |-> "id", id |-> id]

Goto(c, label) ==
    /\ pc' = [pc EXCEPT ![c] = label]
    /\ UNCHANGED <<dev, addr, result, gets>>

Get(c) ==
    /\ pc[c] = "idle" /\ gets[c] < MaxGets
    /\ pc' = [pc EXCEPT ![c] = "sev"]
    /\ gets' = [gets EXCEPT ![c] = @ + 1]
    /\ result' = [result EXCEPT ![c] = NoId]
    /\ dev' = [dev EXCEPT ![c] = 0]
    /\ UNCHANGED <<addr, mem, asp>>

\* readSEVChipID: only a missing /dev/sev falls through, every other problem
\* is an error of Get.
ReadSEV(c) ==
    /\ pc[c] = "sev"
    /\ \E s \in SevStates :
        \/ s = "absent" /\ Goto(c, "log")
        \/ s = "good" /\ \E id \in HostIDs : Return(c, Id(id))
        \/ s \notin {"absent", "good"} /\ Return(c, Error)
    /\ UNCHANGED <<mem, asp>>

\* The event log: unreadable or unparsable it is an error of Get, without a
\* ChipID it leads to the mailbox.
ReadEventLog(c) ==
    /\ pc[c] = "log"
    /\ \E log \in Logs :
        LET id == extractAMDChipID(log.events) IN
        \/ ~log.readable /\ Return(c, EarlyError)
        \/ log.readable /\ id # None /\ Return(c, Id(id))
        \/ log.readable /\ id = None /\ Goto(c, "find")
    /\ UNCHANGED <<mem, asp>>

\* The loop of readSEVChipIDDirect: the next device is tried, if there is one.
NextDevice(c) ==
    LET later == {d \in findASPDevices : dev[c] < d} IN
    \/ /\ later # {}
       /\ dev' = [dev EXCEPT ![c] = Min(later)]
       /\ pc' = [pc EXCEPT ![c] = "device"]
       /\ addr' = [addr EXCEPT ![c] = None]
       /\ UNCHANGED <<result, gets>>
    \/ later = {} /\ Return(c, Error)

\* readSEVChipIDDirect, before its loop: the bus cannot be listed or has no ASP.
FindDevices(c) ==
    /\ pc[c] = "find"
    /\ Return(c, Error) \/ NextDevice(c)
    /\ UNCHANGED <<mem, asp>>

\* getPhysicalAddress: the buffers of c are at address a, which nobody else
\* holds, perhaps one that an earlier attempt has freed.
getPhysicalAddress(c, a) ==
    /\ \A o \in Callers : addr[o] # a
    /\ addr' = [addr EXCEPT ![c] = a]
    /\ mem' = [mem EXCEPT ![a] = Fresh]

\* getChipIDFromDevice, up to the mailbox: /dev/mem, mlock or pagemap may
\* refuse; otherwise the buffers are filled in and at a known address.
Prepare(c) ==
    /\ pc[c] = "device"
    /\ \/ /\ NextDevice(c)
          /\ UNCHANGED mem
       \/ \E a \in Addrs :
            /\ getPhysicalAddress(c, a)
            /\ pc' = [pc EXCEPT ![c] = "low"]
            /\ UNCHANGED <<dev, result, gets>>
    /\ UNCHANGED asp

\* The mailbox registers of the device, one write each.
WriteRegister(c, label, next, m) ==
    /\ pc[c] = label
    /\ \/ /\ ~Mapped(dev[c])
          /\ Return(c, Panic)
          /\ UNCHANGED mailbox
       \/ /\ Mapped(dev[c])
          /\ mailbox' = [mailbox EXCEPT ![dev[c]] = m]
          /\ Goto(c, next)
    /\ UNCHANGED <<mem, running>>

WriteLow(c) == WriteRegister(c, "low", "high", [mailbox[dev[c]] EXCEPT !.lo = addr[c]])
WriteHigh(c) == WriteRegister(c, "high", "issue", [mailbox[dev[c]] EXCEPT !.hi = addr[c]])
Issue(c) == WriteRegister(c, "issue", "poll", [mailbox[dev[c]] EXCEPT !.reg = "command"])

\* pollCmd sees a response.  It cannot tell whose command it answers.
Poll(c) ==
    /\ pc[c] = "poll"
    /\ \/ mailbox[dev[c]].reg = "ok" /\ Goto(c, "check")
       \/ mailbox[dev[c]].reg = "failed" /\ NextDevice(c)
    /\ UNCHANGED <<mem, asp>>

Timeout_Never(c) == FALSE /\ UNCHANGED vars

\* pollCmd's deadline passes.
Timeout(c) ==
    /\ pc[c] = "poll"
    /\ NextDevice(c)
    /\ UNCHANGED <<mem, asp>>

\* The buffer is checked and copied.
Check(c) ==
    /\ pc[c] = "check"
    /\ \/ checkDMAChipID(mem[addr[c]]) /\ Return(c, Id(mem[addr[c]].content))
       \/ ~checkDMAChipID(mem[addr[c]]) /\ NextDevice(c)
    /\ UNCHANGED <<mem, asp>>

-----------------------------------------------------------------------------
(* The ASP: it takes a command from its mailbox, executes it some time     *)
(* later, and answers in the command register whatever that holds by then. *)

Take(d) ==
    /\ mailbox[d].reg = "command" /\ running[d] = None
    /\ running' = [running EXCEPT ![d] = <<mailbox[d].lo, mailbox[d].hi>>]
    /\ mailbox' = [mailbox EXCEPT ![d].reg = "taken"]
    /\ UNCHANGED <<local, mem>>

\* The ChipID, its length, or nothing at all; zeros; a length out of range.
Written(d) ==
    {[content |-> Chip(d), len |-> n] : n \in {0, ChipIDSize, ChipIDSize + 1}}
        \cup {[content |-> "zeros", len |-> ChipIDSize]}

Respond(d, r) ==
    /\ mailbox' = [mailbox EXCEPT ![d].reg = r]
    /\ running' = [running EXCEPT ![d] = None]

\* The address the command buffer was given by, if its halves belong together.
Target(r) == IF r[1] = r[2] THEN r[1] ELSE None

Complete(d) ==
    /\ running[d] # None
    /\ \/ Respond(d, "failed") /\ UNCHANGED mem
       \/ Respond(d, "ok") /\ UNCHANGED mem
       \/ \E m \in Written(d) :
            LET a == Target(running[d]) IN
            /\ Respond(d, "ok")
            /\ mem' = IF a = None THEN mem ELSE [mem EXCEPT ![a] = m]
    /\ UNCHANGED local

-----------------------------------------------------------------------------
Step(c) ==
    \/ ReadSEV(c) \/ ReadEventLog(c) \/ FindDevices(c) \/ Prepare(c)
    \/ WriteLow(c) \/ WriteHigh(c) \/ Issue(c) \/ Poll(c) \/ Timeout(c) \/ Check(c)

Next ==
    \/ \E c \in Callers : Get(c) \/ Step(c)
    \/ \E d \in findASPDevices : Take(d) \/ Complete(d)

Spec == Init /\ [][Next]_vars

\* A caller that runs keeps running; nothing is assumed of the ASP, which may
\* never answer.
FairSpec == Spec /\ \A c \in Callers : WF_vars(Step(c))

-----------------------------------------------------------------------------
\* Types of the callers' locals and of the mailboxes; a caller that talks to a
\* mailbox has DMA memory.  A part of IdIsReal.
TypeOK ==
    /\ pc \in [Callers -> {"idle", "sev", "log", "find", "device", "low", "high",
                           "issue", "poll", "check"}]
    /\ \A c \in Callers :
        /\ dev[c] \in findASPDevices \cup {0}
        /\ addr[c] \in Addrs \cup {None}
        /\ pc[c] \in {"low", "high", "issue", "poll", "check"} => addr[c] # None
        /\ gets[c] \in 0 .. MaxGets
    /\ \A d \in findASPDevices :
        /\ mailbox[d] \in [lo : Addrs \cup {None}, hi : Addrs \cup {None},
                           reg : {"idle", "command", "taken", "ok", "failed"}]
        /\ running[d] \in (Addrs \X Addrs) \cup {None}

\* The ChipID that Get returns belongs to a chip of this host: it is never the
\* sentinel, zeros, an event of another PCR, or a buffer that nobody filled,
\* although callers overwrite each other's registers, take each other's
\* responses for their own, give up on commands that are still executed, and
\* use memory that such a command may still write to.
IdIsReal ==
    /\ TypeOK
    /\ \A c \in Callers : result[c].kind = "id" => result[c].id \in HostIDs

\* Get always returns, also if no ASP ever answers: pollCmd has a deadline and
\* the loop over the devices an end.
GetEnds == \A c \in Callers : pc[c] # "idle" ~> pc[c] = "idle"

=============================================================================
