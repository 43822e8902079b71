------------------------------ MODULE IommuNics ------------------------------
(***************************************************************************)
(* pkg/iommu: FindPassthroughNICs reads sysfs file by file and gives every *)
(* PCI network function one verdict.  The host does not hold still while   *)
(* it reads: interfaces go away and are enslaved to bonds.                 *)
(*                                                                         *)
(* Netdevs are numbered in name order, which is the order of os.ReadDir:   *)
(* the first netdev of a set is its minimum.                               *)
(***************************************************************************)
EXTENDS Naturals, Sequences, FiniteSetsExt

CONSTANTS
    Netdevs,        \* the entries of /sys/class/net
    Profiles,       \* Profiles[n]: what the netdev n may be
    Functions,      \* PCI functions
    Domains,        \* what the IOMMU state of a function may be
    Forced,         \* the values of WithForcedInterface, None if not used
    Changes,        \* what happens to the host meanwhile
    None

\* A netdev: what its device link says, whether it is a representor and whether
\* its phys_port_name, which says so, can be read, whether it is enslaved, and
\* which of its address files hold a usable MAC.
Profile ==
    [link : {"class attribute", "not PCI", "unreadable"} \cup Functions,
     representor : BOOLEAN, named : BOOLEAN, bond : {"no", "slave", "unreadable"},
     perm : BOOLEAN, hwaddr : BOOLEAN, address : BOOLEAN]

\* iommu_group and its type: no group, or a malformed one; a type that cannot
\* be read, or is not known; a domain that translates, or the identity.
Domain == {"no group", "unreadable type", "unknown type", "translated", "identity"}

ASSUME HostTypes ==
    /\ Netdevs \subseteq Nat
    /\ DOMAIN Profiles = Netdevs
    /\ \A n \in Netdevs : Profiles[n] \subseteq Profile
    /\ Domains \subseteq Domain
    /\ Forced \subseteq Netdevs \cup {None}
    /\ Changes \subseteq {"unregister", "enslave"}

\* A PCI address holds colons, which no interface name does: the two are never
\* taken for each other.
ASSUME NamesDiffer ==
    /\ Functions \cap Netdevs = {}
    /\ Functions \cap {"class attribute", "not PCI", "unreadable"} = {}
    /\ None \notin Functions /\ None # "unreadable"

VARIABLES
    \* the host
    netdev,         \* Netdevs -> Profile
    domain,         \* Functions -> Domain
    gone,           \* netdevs that went away
    joined,         \* netdevs that were enslaved while readMAC was reading them
    \* the call
    forced, pc,
    unread,         \* entries of the directory still to look at
    current,        \* the entry, or the candidate for a MAC, being read
    ports,          \* pciFunction.ports
    representors,   \* pciFunction.representors
    functions,      \* functions still to be reported
    fn,             \* the function being reported
    exposed,        \* classify: what it said
    candidates,     \* report: ports still to try for a MAC
    enslaved,       \* readMAC
    NICs, Undetermined, reported

host == <<netdev, domain, gone, joined>>
found == <<ports, representors, functions>>
verdict == <<fn, exposed, candidates, enslaved>>
out == <<NICs, Undetermined, reported>>
vars == <<host, forced, pc, unread, current, found, verdict, out>>

Init ==
    /\ netdev \in {p \in [Netdevs -> UNION {Profiles[n] : n \in Netdevs}] :
                       \A n \in Netdevs : p[n] \in Profiles[n]}
    /\ domain \in [Functions -> Domains]
    /\ gone = {} /\ joined = {}
    /\ forced \in Forced
    /\ pc = "link"
    /\ unread = Netdevs /\ current = None
    /\ ports = [f \in Functions |-> {}] /\ representors = [f \in Functions |-> {}]
    /\ functions = {}
    /\ fn = None /\ exposed = FALSE /\ candidates = {} /\ enslaved = FALSE
    /\ NICs = << >> /\ Undetermined = << >> /\ reported = {}

-----------------------------------------------------------------------------
key_Interface(n, bdf) == n

\* The key undetermined reports under: cmp.Or(bdf, iface).
key(n, bdf) == IF bdf # None THEN bdf ELSE n

\* undetermined: once per key.
undetermined(n, bdf) ==
    \/ /\ key(n, bdf) \in reported
       /\ UNCHANGED out
    \/ /\ key(n, bdf) \notin reported
       /\ reported' = reported \cup {key(n, bdf)}
       /\ Undetermined' = Append(Undetermined, [iface |-> n, bdf |-> bdf])
       /\ UNCHANGED NICs

\* resolveBDF: None stands for errNotPCI.  The entry that went away has no link.
resolveBDF(n) ==
    IF n \in gone \/ netdev[n].link \in {"class attribute", "not PCI"} THEN None ELSE netdev[n].link

\* The device link of the next entry.  A class attribute is no link at all.
ReadLink ==
    /\ pc = "link" /\ unread # {}
    /\ LET n == Min(unread) IN
       \/ /\ resolveBDF(n) = None
          /\ unread' = unread \ {n}
          /\ UNCHANGED <<pc, current, out>>
       \/ /\ resolveBDF(n) = "unreadable"
          /\ undetermined(n, None)
          /\ unread' = unread \ {n}
          /\ UNCHANGED <<pc, current>>
       \/ /\ resolveBDF(n) \in Functions
          /\ pc' = "name" /\ current' = n
          /\ UNCHANGED <<unread, out>>
    /\ UNCHANGED <<host, forced, found, verdict>>

\* isRepresentor: an entry whose phys_port_name cannot be read is a port.
isRepresentor(n) == n \notin gone /\ netdev[n].named /\ netdev[n].representor

\* Its phys_port_name: it is filed under its function.
ReadName ==
    /\ pc = "name"
    /\ LET f == netdev[current].link IN
       /\ functions' = functions \cup {f}
       /\ ports' = [ports EXCEPT ![f] = IF isRepresentor(current) THEN @ ELSE @ \cup {current}]
       /\ representors' = [representors EXCEPT ![f] = IF isRepresentor(current) THEN @ \cup {current} ELSE @]
    /\ unread' = unread \ {current}
    /\ pc' = "link" /\ current' = None
    /\ UNCHANGED <<host, forced, verdict, out>>

Listed ==
    /\ pc = "link" /\ unread = {}
    /\ pc' = "report"
    /\ UNCHANGED <<host, forced, unread, current, found, verdict, out>>

-----------------------------------------------------------------------------
\* slices.Concat(fn.ports, fn.representors), and its first netdev.
netdevs(f) == ports[f] \cup representors[f]
FirstNetdev(f) == Min(IF ports[f] # {} THEN ports[f] ELSE representors[f])

\* The functions in the order in which their first netdev was listed.
NextFunction(F) == CHOOSE f \in F : \A g \in F : Min(netdevs(f)) <= Min(netdevs(g))

ClassifyFails_TypeOnly(n, f) == domain[f] \in {"unreadable type", "unknown type"}

\* classify, of the function the netdev n sits on.
ClassifyFails(n, f) == n \in gone \/ domain[f] \in {"no group", "unreadable type", "unknown type"}

\* The forced port is tried first, then the others in name order.
FirstCandidate(C) == IF forced \in C THEN forced ELSE Min(C)

\* report returns.
Reported ==
    /\ pc' = "report" /\ current' = None
    /\ fn' = None /\ exposed' = FALSE /\ candidates' = {} /\ enslaved' = FALSE

\* report, up to the first candidate for a MAC.
Classify ==
    /\ pc = "report" /\ functions # {}
    /\ LET f == NextFunction(functions)
           n == FirstNetdev(f)
           err == ClassifyFails(n, f)
           isExposed == ~err /\ domain[f] = "identity"
           isForced == forced # None /\ forced \in netdevs(f)
           only == ports[f] = {}
       IN  /\ functions' = functions \ {f}
           /\ \/ (err \/ ((isForced \/ isExposed) /\ only)) /\ undetermined(n, f)
              \/ ~(err \/ ((isForced \/ isExposed) /\ only)) /\ UNCHANGED out
           /\ \/ /\ (~isForced /\ ~isExposed) \/ only
                 /\ Reported
              \/ /\ isForced \/ isExposed
                 /\ ~only
                 /\ pc' = "stat" /\ fn' = f /\ exposed' = isExposed
                 /\ candidates' = ports[f] /\ current' = FirstCandidate(ports[f])
                 /\ UNCHANGED enslaved
    /\ UNCHANGED <<host, forced, unread, ports, representors>>

Enslaved_StatMustSucceed(n) == n \notin gone /\ netdev[n].bond = "slave"

\* readMAC: any failure to stat bonding_slave but ErrNotExist counts as enslaved.
Enslaved(n) == n \notin gone /\ netdev[n].bond # "no"

StatBond ==
    /\ pc = "stat"
    /\ enslaved' = Enslaved(current)
    /\ pc' = "perm"
    /\ UNCHANGED <<host, forced, unread, current, found, fn, exposed, candidates, out>>

Own(n) == [of |-> n]
BondMAC == [of |-> None]

Use_MarkNamed(mac) ==
    /\ NICs' = Append(NICs, [iface |-> current, bdf |-> fn, mac |-> mac, forced |-> current = forced])
    /\ Reported
    /\ UNCHANGED <<Undetermined, reported>>

\* A usable MAC ends the search: the NIC is reported under this interface.
Use(mac) ==
    /\ NICs' = Append(NICs, [iface |-> current, bdf |-> fn, mac |-> mac, forced |-> ~exposed])
    /\ Reported
    /\ UNCHANGED <<Undetermined, reported>>

ReadPermAddress ==
    /\ pc = "perm"
    /\ \/ current \notin gone /\ netdev[current].perm /\ Use(Own(current))
       \/ /\ current \in gone \/ ~netdev[current].perm
          /\ pc' = "second"
          /\ UNCHANGED <<current, verdict, out>>
    /\ UNCHANGED <<host, forced, unread, found>>

\* The second file: perm_hwaddr of an enslaved interface, which exists only for
\* a slave, or the address of one that is not, which for a slave is the bond's.
SecondFile(n) ==
    IF n \in gone THEN None
    ELSE IF enslaved THEN IF netdev[n].hwaddr /\ netdev[n].bond # "no" THEN Own(n) ELSE None
    ELSE IF ~netdev[n].address THEN None
    ELSE IF netdev[n].bond # "no" THEN BondMAC ELSE Own(n)

\* No usable MAC: the next candidate, or the function is undetermined.
ReadSecondAddress ==
    /\ pc = "second"
    /\ \/ SecondFile(current) # None /\ Use(SecondFile(current))
       \/ /\ SecondFile(current) = None /\ candidates # {current}
          /\ candidates' = candidates \ {current}
          /\ current' = FirstCandidate(candidates \ {current})
          /\ pc' = "stat"
          /\ UNCHANGED <<fn, exposed, enslaved, out>>
       \/ /\ SecondFile(current) = None /\ candidates = {current}
          /\ undetermined(FirstCandidate(ports[fn]), fn)
          /\ Reported
    /\ UNCHANGED <<host, forced, unread, found>>

Done ==
    /\ pc = "report" /\ functions = {}
    /\ pc' = "done"
    /\ UNCHANGED <<host, forced, unread, current, found, verdict, out>>

-----------------------------------------------------------------------------
(* The host changes under the reader.                                      *)

Unregister(n) ==
    /\ "unregister" \in Changes /\ pc # "done" /\ n \notin gone
    /\ gone' = gone \cup {n}
    /\ UNCHANGED <<netdev, domain, joined, forced, pc, unread, current, found, verdict, out>>

\* The bonding driver overwrites the address of its slave.  joined remembers
\* those that readMAC has taken for free and not yet read.
Enslave(n) ==
    /\ "enslave" \in Changes /\ pc # "done"
    /\ n \notin gone /\ netdev[n].bond = "no" /\ netdev[n].link \in Functions
    /\ netdev' = [netdev EXCEPT ![n].bond = "slave", ![n].hwaddr = TRUE]
    /\ joined' = IF pc \in {"perm", "second"} THEN joined \cup ({n} \cap {current}) ELSE joined
    /\ UNCHANGED <<domain, gone, forced, pc, unread, current, found, verdict, out>>

Next ==
    \/ ReadLink \/ ReadName \/ Listed \/ Classify \/ StatBond
    \/ ReadPermAddress \/ ReadSecondAddress \/ Done
    \/ \E n \in Netdevs : Unregister(n) \/ Enslave(n)

Spec == Init /\ [][Next]_vars

-----------------------------------------------------------------------------
\* The functions that a netdev still present sits on.
Present == {netdev[n].link : n \in {m \in Netdevs \ gone : netdev[m].link \in Functions}}

InNICs(f) == \E k \in DOMAIN NICs : NICs[k].bdf = f
InUndetermined(f) == \E k \in DOMAIN Undetermined : Undetermined[k].bdf = f

\* Types of the call's locals; a MAC is looked for only on a port.  A
\* part of MACIsThePorts.
TypeOK ==
    /\ pc \in {"link", "name", "report", "stat", "perm", "second", "done"}
    /\ unread \subseteq Netdevs /\ functions \subseteq Functions
    /\ pc \in {"stat", "perm", "second"} =>
        fn \in Functions /\ current \in candidates /\ candidates \subseteq ports[fn]

\* "It is only trustworthy when Undetermined is also empty": a function that the
\* enumeration reports nowhere is one whose DMA is translated, whatever could
\* not be read and whatever went away; an unreadable state is never dropped, not
\* even for a function that is collected because it was forced.
NothingDropped ==
    pc = "done" =>
        /\ \A f \in Present :
            /\ domain[f] = "identity" => InNICs(f) \/ InUndetermined(f)
            /\ domain[f] \notin {"identity", "translated"} => InUndetermined(f)
        /\ \A n \in Netdevs \ gone : netdev[n].link = "unreadable" =>
            \E k \in DOMAIN Undetermined : Undetermined[k] = [iface |-> n, bdf |-> None]

\* Every function gets one verdict, however many netdevs it has and reasons
\* there are; it is in both lists only if it was forced.
OneVerdict ==
    /\ \A j, k \in DOMAIN NICs : NICs[j].bdf = NICs[k].bdf => j = k
    /\ \A j, k \in DOMAIN Undetermined :
        /\ Undetermined[j].bdf = Undetermined[k].bdf
        /\ Undetermined[j].bdf # None \/ Undetermined[j].iface = Undetermined[k].iface
        => j = k
    /\ \A f \in Functions : InNICs(f) /\ InUndetermined(f) => forced \in netdevs(f)

\* WithForcedInterface "widens what is collected, never what is trusted": a NIC
\* whose function is not known to bypass translation is there only because it
\* was forced, and is marked so; one that bypasses it is never marked.
ForcedOnlyWidens ==
    \A k \in DOMAIN NICs :
        IF domain[NICs[k].bdf] = "identity" /\ ~InUndetermined(NICs[k].bdf) THEN ~NICs[k].forced
        ELSE NICs[k].forced /\ forced \in netdevs(NICs[k].bdf)

\* "never from a switchdev representor", and never the address of the bond: the
\* MAC of a NIC is the one of the port it is reported under.  Two gaps are left,
\* and no others: a representor passes for a port if its phys_port_name could not
\* be read, and a bond's MAC for the port's if the port was enslaved just between
\* readMAC's look at bonding_slave and its read of address.
MACIsThePorts ==
    /\ TypeOK
    /\ \A k \in DOMAIN NICs :
        LET n == NICs[k].iface IN
        /\ n \in ports[NICs[k].bdf]
        /\ netdev[n].representor => ~netdev[n].named
        /\ NICs[k].mac = Own(n) \/ (NICs[k].mac = BondMAC /\ n \in joined)

=============================================================================
