---------------------------- MODULE RedfishClient ----------------------------
(***************************************************************************)
(* The Redfish client of pkg/redfish: one Client talking to one BMC.  The  *)
(* client is used by one goroutine, so what makes it hard is the BMC: any  *)
(* single request may fail, and what a call learnt before the failure is   *)
(* kept in caches that the next call trusts.  Every HTTP request is one    *)
(* step; the code between two requests belongs to the step of the first.   *)
(*                                                                         *)
(* The BMC's resources are constants: they say what a request that is      *)
(* answered answers.  Collections are sets, because the order in which a   *)
(* BMC lists its members is its own choice: a loop over one takes its      *)
(* members in any order.                                                   *)
(***************************************************************************)
CONSTANTS
    None,           \* the empty string, nil, an absent field
    Managers,       \* members of /redfish/v1/Managers
    Systems,        \* members of /redfish/v1/Systems
    Slashed,        \* paths spelled with a trailing slash -> the path without
    Listed,         \* members of /redfish/v1/ComponentIntegrity
    Component,      \* the listed members that exist -> their content
    Adapter,        \* URIs that decode as a NetworkAdapter -> their content
    AdaptersIn,     \* target URI -> members of the collection it sits in
    PortsIn,        \* Ports URI -> members of that port collection
    PortMACs,       \* port URI -> the MAC spellings it reports
    Stubs,          \* missing resources answered by a schema stub, not a 404
    Identities,     \* what the manager may hold of certificates
    IDevIDNamed,    \* the certificate URIs whose name contains IDEVID
    OEMCert,        \* manager -> its iLOIDevID path
    Slot,           \* slot ordinals
    MAC             \* MAC addresses

(***************************************************************************)
(* A MAC address as somebody spelled it: upper or lower case, with or      *)
(* without surrounding white space.                                        *)
(***************************************************************************)
Spelling == [mac : MAC, upper : BOOLEAN, padded : BOOLEAN]

NoSlot == "no slot"          \* the Id of the component names no slot
BadSlot == "bad slot"        \* it names one that strconv.Atoi refuses

ComponentType ==
    [id : STRING \cup {None}, type : {"SPDM", "TPM"}, target : STRING \cup {None},
     measured : BOOLEAN, action : STRING \cup {None}, slot : Slot \cup {NoSlot, BadSlot}]

AdapterType ==
    [ports : STRING \cup {None}, location : {"Slot", "Embedded"}, ordinal : Slot]

\* The manager's certificates: whether it has a Certificates collection and the
\* members it lists; the URIs at which there is a certificate in PEM, or one
\* that is none.
IdentityType ==
    [collection : BOOLEAN, members : SUBSET STRING, pem : SUBSET STRING, notPEM : SUBSET STRING]

-----------------------------------------------------------------------------
(* What the BMC really holds, which the client can only learn by asking.   *)

HasPorts(a) == a \in DOMAIN Adapter /\ Adapter[a].ports # None

\* The adapters of the target's collection that sit in the component's slot.
SlotAdapters(c) ==
    {a \in AdaptersIn[c.target] :
        /\ HasPorts(a)
        /\ Adapter[a].location = "Slot"
        /\ Adapter[a].ordinal = c.slot}

\* The adapter a component describes, as a set of at most one.
TrueAdapters(c) ==
    IF HasPorts(c.target) THEN {c.target}
    ELSE IF c.slot \in Slot /\ c.target \in DOMAIN AdaptersIn THEN SlotAdapters(c)
    ELSE {}

TrimSpace(s) == [s EXCEPT !.padded = FALSE]
EqualFold(s, t) == s.mac = t.mac /\ s.padded = t.padded

\* The MACs a set of ports reports, and those of a port collection.
MACsOf(P) == {TrimSpace(s) : s \in UNION {PortMACs[p] : p \in P \cap DOMAIN PortMACs}}
TrueMACs(collection) == MACsOf(PortsIn[collection])

\* The listed component c is the one a lookup of mac is after.
Carries(c, mac) ==
    /\ c.type = "SPDM" /\ c.target # None
    /\ \E a \in TrueAdapters(c) :
        /\ Adapter[a].ports \in DOMAIN PortsIn
        /\ \E s \in TrueMACs(Adapter[a].ports) : EqualFold(s, mac)

\* The certificates named like an IDevID that the manager lists.
TrueIDevIDs(certs) == IF certs.collection THEN certs.members \cap IDevIDNamed ELSE {}

-----------------------------------------------------------------------------
ASSUME WorldTypes ==
    /\ Managers \subseteq STRING
    /\ Systems \subseteq STRING
    /\ Listed \subseteq STRING
    /\ DOMAIN Component \subseteq Listed
    /\ Component \in [DOMAIN Component -> ComponentType]
    /\ DOMAIN Adapter \subseteq STRING
    /\ Adapter \in [DOMAIN Adapter -> AdapterType]
    /\ AdaptersIn \in [DOMAIN AdaptersIn -> SUBSET STRING]
    /\ PortsIn \in [DOMAIN PortsIn -> SUBSET STRING]
    /\ PortMACs \in [DOMAIN PortMACs -> SUBSET Spelling]
    /\ DOMAIN Slashed \subseteq STRING
    /\ Slashed \in [DOMAIN Slashed -> STRING]
    /\ Identities \subseteq IdentityType
    /\ OEMCert \in [Managers \cup {Slashed[m] : m \in DOMAIN Slashed} -> STRING]
    /\ None \notin STRING
    /\ {NoSlot, BadSlot} \cap Slot = {}

\* Two members that share an Id describe one component, so one cache entry
\* under that Id serves both.
ASSUME IdsAgree ==
    \A i, j \in DOMAIN Component :
        /\ Component[i].id = Component[j].id
        /\ Component[i].id # None
        => /\ Component[i].target = Component[j].target
           /\ Component[i].slot = Component[j].slot

\* At most one adapter sits in a slot, and a component whose target URI does
\* resolve names the slot its target sits in.
ASSUME SlotsAgree ==
    \A i \in DOMAIN Component :
        LET c == Component[i] IN
        c.slot \in Slot /\ c.target \in DOMAIN AdaptersIn =>
            /\ \A a, b \in SlotAdapters(c) : a = b
            /\ HasPorts(c.target) => SlotAdapters(c) \subseteq {c.target}

-----------------------------------------------------------------------------
VARIABLES
    \* the fields of Client
    manager,        \* the manager's path, None until resolved
    integrity,      \* the ComponentIntegrity snapshot
    targets,        \* component Id -> its adapter, None when it is not one
    portMACs,       \* Ports URI -> every MAC of that adapter
    \* the call in progress
    pc,             \* the request it makes next
    call,           \* which method, the MAC it was given, the certificates there are
    result,         \* what the last call returned
    pending,        \* componentIntegrities: members still to read
    queue,          \* ComponentIntegrityFor: entries still to try
    unreadable,     \* ComponentIntegrityFor: some read failed
    entry,          \* the entry being tried
    direct,         \* resolveTarget: what the read of the target answered
    candidates,     \* resolveTarget: adapters of the collection still to read
    candidateErr,   \* resolveTarget: one of them could not be read
    adapter,        \* adapterMAC: the adapter
    ports,          \* adapterMAC: its ports still to read
    macs,           \* adapterMAC: the MACs read so far
    portErr,        \* adapterMAC: one of the ports could not be read
    path,           \* the resource the last request of the call reads
    \* the BMC
    flaky           \* requests may still fail

client == <<manager, integrity, targets, portMACs>>
resolving == <<entry, direct, candidates, candidateErr>>
reading == <<adapter, ports, macs, portErr>>
vars == <<client, pc, call, result, pending, queue, unreadable, resolving, reading, path, flaky>>

Op == {"Manager", "System", "IDevIDChain", "ComponentIntegrityFor", "TPMSignedMeasurements"}

\* integritySnapshot; listed says that c.integrity is not nil.
NoSnapshot == [listed |-> FALSE, members |-> {}, failed |-> {}, unreadable |-> FALSE]

Nothing == [x \in {} |-> None]     \* an empty map

Outcome == {"ok", "not found", "undecodable", "failed"}

ResultAt(kind, at) == [kind |-> kind, at |-> at, adapter |-> None, mac |-> None]
Result(kind) == ResultAt(kind, None)

Init ==
    /\ manager = None
    /\ integrity = NoSnapshot
    /\ targets = Nothing
    /\ portMACs = Nothing
    /\ pc = "idle"
    /\ call = [op |-> "Manager", mac |-> None, certs |-> None]
    /\ result = Result("none")
    /\ pending = {} /\ queue = {} /\ unreadable = FALSE
    /\ entry = None /\ direct = "ok" /\ candidates = {} /\ candidateErr = FALSE
    /\ adapter = None /\ ports = {} /\ macs = {} /\ portErr = FALSE
    /\ path = None
    /\ flaky = TRUE

-----------------------------------------------------------------------------
(* do: a request for a resource is answered truthfully, or fails: refused, *)
(* timed out, cut off, an error status.  The client tells a 404 and a body *)
(* that is not the JSON it expects from the other failures.                *)
do(p, present) ==
    {IF present THEN "ok" ELSE IF p \in Stubs THEN "undecodable" ELSE "not found"}
        \cup (IF flaky THEN {"failed"} ELSE {})

Return(r) ==
    /\ pc' = "idle"
    /\ result' = r
    /\ UNCHANGED <<call, path>>

\* strings.TrimRight(p, "/")
TrimSlash(p) == IF p \in DOMAIN Slashed THEN Slashed[p] ELSE p

-----------------------------------------------------------------------------
(* Definitions named X_Y are X with a plausible mistake Y, never used by    *)
(* the specification: each is what some property must tell from X.          *)

Snapshot_Forget ==
    \/ /\ integrity.listed
       /\ pc' = "members"
       /\ pending' = {}
       /\ integrity' = [integrity EXCEPT !.failed = {}, !.unreadable = FALSE]
    \/ /\ ~integrity.listed
       /\ pc' = "list"
       /\ UNCHANGED <<pending, integrity>>

\* componentIntegrities, up to its first request: a snapshot that has been
\* listed retries the members that failed, one that has not is listed.
Snapshot ==
    \/ /\ integrity.listed
       /\ pc' = "members"
       /\ pending' = integrity.failed
       /\ integrity' = [integrity EXCEPT !.failed = {}, !.unreadable = FALSE]
    \/ /\ ~integrity.listed
       /\ pc' = "list"
       /\ UNCHANGED <<pending, integrity>>

\* What a method does once it has the manager's path m.
WithManager(op, m) ==
    \/ /\ op = "Manager"
       /\ pc' = "resource" /\ path' = m
       /\ UNCHANGED <<pending, integrity>>
    \/ /\ op = "IDevIDChain"
       /\ pc' = "certificates"
       /\ UNCHANGED <<pending, integrity, path>>
    \/ /\ op = "TPMSignedMeasurements"
       /\ Snapshot
       /\ UNCHANGED path

\* A method is called.  Only a lookup takes a MAC, spelled as the host does.
\* The client keeps nothing of certificates, and the BMC may be given others
\* between two calls of IDevIDChain.
Call(op, mac) ==
    /\ pc = "idle"
    /\ call' \in [op : {op}, mac : {mac}, certs : IF op = "IDevIDChain" THEN Identities ELSE {None}]
    /\ result' = Result("none")
    /\ unreadable' = FALSE
    /\ \/ /\ op = "System"
          /\ pc' = "systems"
          /\ UNCHANGED <<pending, integrity, path>>
       \/ /\ op = "ComponentIntegrityFor"
          /\ Snapshot
          /\ UNCHANGED path
       \/ /\ op \in {"Manager", "IDevIDChain", "TPMSignedMeasurements"}
          /\ manager = None
          /\ pc' = "managers"
          /\ UNCHANGED <<pending, integrity, path>>
       \/ /\ manager # None
          /\ WithManager(op, manager)
    /\ UNCHANGED <<manager, targets, portMACs, queue, resolving, reading, flaky>>

\* firstMember: exactly one member, anything else is an error.
firstMember(members, m) == members = {m}

\* managerPath: resolves the manager and keeps its path.
ManagerPath ==
    /\ pc = "managers"
    /\ \/ /\ flaky \/ \A m \in Managers : ~firstMember(Managers, m)
          /\ Return(Result("error"))
          /\ UNCHANGED <<manager, pending, integrity>>
       \/ \E m \in Managers :
            /\ firstMember(Managers, m)
            /\ manager' = TrimSlash(m)
            /\ WithManager(call.op, TrimSlash(m))
            /\ UNCHANGED <<call, result>>
    /\ UNCHANGED <<targets, portMACs, queue, unreadable, resolving, reading, flaky>>

\* System: the collection, whose member is then read like the manager.
SystemPath ==
    /\ pc = "systems"
    /\ \/ /\ flaky \/ \A m \in Systems : ~firstMember(Systems, m)
          /\ Return(Result("error"))
       \/ \E m \in Systems :
            /\ firstMember(Systems, m)
            /\ pc' = "resource" /\ path' = m
            /\ UNCHANGED <<call, result>>
    /\ UNCHANGED <<client, pending, queue, unreadable, resolving, reading, flaky>>

\* Manager and System, their last request.
Resource ==
    /\ pc = "resource"
    /\ \E o \in do(path, TRUE) :
        \/ o = "ok" /\ Return(ResultAt("resource", path))
        \/ o # "ok" /\ Return(Result("error"))
    /\ UNCHANGED <<client, pending, queue, unreadable, resolving, reading, flaky>>

\* A certificate collection is absent (a 404 or a stub), or it failed to list.
ListingFailed_Never(o) == FALSE
ListingFailed(o) == o = "failed"

\* idevidPath: a Certificates collection that is missing, is a stub or lists
\* no IDevID falls back to the OEM path; one that failed to list is an error.
idevidPath ==
    /\ pc = "certificates"
    /\ \E o \in do(manager, call.certs.collection) :
        LET named == IF o = "ok" THEN call.certs.members \cap IDevIDNamed ELSE {} IN
        \/ /\ ListingFailed(o)
           /\ Return(Result("error"))
        \/ /\ ~ListingFailed(o)
           /\ path' \in IF named # {} THEN named ELSE {OEMCert[manager]}
           /\ pc' = IF named # {} THEN "certificate" ELSE "oem certificate"
           /\ UNCHANGED <<call, result>>
    /\ UNCHANGED <<client, pending, queue, unreadable, resolving, reading, flaky>>

\* IDevIDChain, its last request: a 404 at the OEM path says that the BMC has
\* no IDevID anywhere.
IDevIDChain ==
    /\ pc \in {"certificate", "oem certificate"}
    /\ \E o \in do(path, path \in call.certs.pem \cup call.certs.notPEM) :
        \/ o = "ok" /\ path \in call.certs.pem /\ Return(ResultAt("chain", path))
        \/ o = "ok" /\ path \notin call.certs.pem /\ Return(Result("error"))
        \/ o = "not found" /\ pc = "oem certificate" /\ Return(Result("no IDevID"))
        \/ o # "ok" /\ ~(o = "not found" /\ pc = "oem certificate") /\ Return(Result("error"))
    /\ UNCHANGED <<client, pending, queue, unreadable, resolving, reading, flaky>>

-----------------------------------------------------------------------------
(* componentIntegrities                                                    *)

\* The collection is listed, once per client: a failure leaves no snapshot.
ListMembers ==
    /\ pc = "list"
    /\ \/ /\ flaky
          /\ Return(Result("error"))
          /\ UNCHANGED <<pending, integrity>>
       \/ /\ pc' = "members"
          /\ integrity' = [NoSnapshot EXCEPT !.listed = TRUE]
          /\ pending' = Listed
          /\ UNCHANGED <<call, result, path>>
    /\ UNCHANGED <<manager, targets, portMACs, queue, unreadable, resolving, reading, flaky>>

\* One member is read into the snapshot, or back into the failed ones.
ReadMember ==
    /\ pc = "members"
    /\ \E id \in pending :
        /\ pending' = pending \ {id}
        /\ \E o \in do(id, id \in DOMAIN Component) :
            integrity' = IF o = "ok"
                         THEN [integrity EXCEPT !.members = @ \cup {id}]
                         ELSE [integrity EXCEPT !.failed = @ \cup {id}, !.unreadable = TRUE]
    /\ UNCHANGED <<manager, targets, portMACs, pc, call, result, queue, unreadable,
                   resolving, reading, path, flaky>>

-----------------------------------------------------------------------------
(* ComponentIntegrityFor                                                   *)

\* The TPM shares the collection, and an entry may lack a target.
Searchable(members) ==
    {i \in members : Component[i].type = "SPDM" /\ Component[i].target # None}

MeasuredFirst_AsListed(q) == q

\* The entries with measurements are tried before the others.
MeasuredFirst(q) ==
    IF \E i \in q : Component[i].measured THEN {i \in q : Component[i].measured} ELSE q

BeginSearch ==
    /\ pc = "members" /\ pending = {} /\ call.op = "ComponentIntegrityFor"
    /\ pc' = "search"
    /\ queue' = Searchable(integrity.members)
    /\ unreadable' = integrity.unreadable
    /\ UNCHANGED <<client, call, result, pending, resolving, reading, path, flaky>>

\* The locals of targetAdapter and adapterMAC, when they have returned.
LeaveEntry ==
    /\ entry' = None /\ direct' = "ok" /\ candidates' = {} /\ candidateErr' = FALSE
    /\ adapter' = None /\ ports' = {} /\ macs' = {} /\ portErr' = FALSE

Continue_DropError(bad) ==
    /\ pc' = "search"
    /\ queue' = queue \ {entry}
    /\ LeaveEntry
    /\ UNCHANGED unreadable

Continue_NoMatchFails(bad) ==
    /\ pc' = "search"
    /\ queue' = queue \ {entry}
    /\ unreadable' = TRUE
    /\ LeaveEntry

\* The search goes on with the next entry.
Continue(bad) ==
    /\ pc' = "search"
    /\ queue' = queue \ {entry}
    /\ unreadable' = (unreadable \/ bad)
    /\ LeaveEntry

KeepTarget_OnlyLast(a) ==
    LET id == Component[entry].id IN
    targets' = IF id = None THEN targets ELSE [k \in {id} |-> a]

\* targetAdapter: an entry under the component's Id, unless it has none.
KeepTarget(a) ==
    LET id == Component[entry].id IN
    targets' = IF id = None THEN targets
               ELSE [k \in DOMAIN targets \cup {id} |-> IF k = id THEN a ELSE targets[k]]

\* resolveTarget and targetAdapter return the adapter a.
Resolved(a) ==
    /\ KeepTarget(a)
    /\ \/ /\ a = None
          /\ Continue(FALSE)
       \/ /\ a # None
          /\ pc' = "adapter" /\ adapter' = a
          /\ UNCHANGED <<queue, unreadable, resolving, ports, macs, portErr>>

\* resolveTarget returns an error: nothing is kept.
Unresolved ==
    /\ Continue(TRUE)
    /\ UNCHANGED targets

\* The next entry: its adapter is known, or its target has to be read.
TryEntry ==
    /\ pc = "search"
    /\ \E i \in MeasuredFirst(queue) :
        LET id == Component[i].id IN
        \/ /\ id \in DOMAIN targets /\ targets[id] = None
           /\ queue' = queue \ {i}
           /\ UNCHANGED <<pc, entry, adapter>>
        \/ /\ id \in DOMAIN targets /\ targets[id] # None
           /\ pc' = "adapter" /\ entry' = i /\ adapter' = targets[id]
           /\ UNCHANGED queue
        \/ /\ id \notin DOMAIN targets
           /\ pc' = "target" /\ entry' = i
           /\ UNCHANGED <<queue, adapter>>
    /\ UNCHANGED <<client, call, result, pending, unreadable, direct, candidates,
                   candidateErr, ports, macs, portErr, path, flaky>>

\* Every entry has been tried.  A miss is definitive if nothing was unreadable.
Miss ==
    /\ pc = "search" /\ queue = {}
    /\ Return(Result(IF unreadable THEN "miss, some unreadable" ELSE "miss"))
    /\ UNCHANGED <<client, pending, queue, unreadable, resolving, reading, flaky>>

IsAdapter_AnyBody(o, t) == o = "ok"

\* The target answered, and with a body that has ports.
IsAdapter(o, t) == o = "ok" /\ HasPorts(t)

\* resolveTarget, the target itself: it is the adapter, or there is a slot to
\* fall back to, or the answer is the one the target gave.
ReadTarget ==
    /\ pc = "target"
    /\ LET c == Component[entry] IN
       \E o \in do(c.target, c.target \in DOMAIN Adapter) :
        \/ IsAdapter(o, c.target) /\ Resolved(c.target)
        \/ o = "ok" /\ ~IsAdapter(o, c.target) /\ c.slot = NoSlot /\ Resolved(None)
        \/ o # "ok" /\ c.slot = NoSlot /\ Unresolved
        \/ ~IsAdapter(o, c.target) /\ c.slot = BadSlot /\ Unresolved
        \/ /\ ~IsAdapter(o, c.target) /\ c.slot \in Slot
           /\ pc' = "collection" /\ direct' = o
           /\ UNCHANGED <<targets, queue, unreadable, entry, candidates, candidateErr, reading>>
    /\ UNCHANGED <<manager, integrity, portMACs, call, result, pending, path, flaky>>

\* resolveTarget, the collection the target sits in.
ListAdapters ==
    /\ pc = "collection"
    /\ LET t == Component[entry].target IN
       \E o \in do(t, t \in DOMAIN AdaptersIn) :
        \/ o # "ok" /\ Unresolved
        \/ /\ o = "ok"
           /\ pc' = "candidates" /\ candidates' = AdaptersIn[t]
           /\ UNCHANGED <<targets, queue, unreadable, entry, direct, candidateErr, reading>>
    /\ UNCHANGED <<manager, integrity, portMACs, call, result, pending, path, flaky>>

\* The candidate sits in the slot the component names.
InSlot(a, slot) ==
    HasPorts(a) /\ Adapter[a].location = "Slot" /\ Adapter[a].ordinal = slot

\* resolveTarget, one adapter of the collection: the first in the slot is it.
ReadCandidate ==
    /\ pc = "candidates"
    /\ \E a \in candidates : \E o \in do(a, a \in DOMAIN Adapter) :
        \/ o = "ok" /\ InSlot(a, Component[entry].slot) /\ Resolved(a)
        \/ /\ ~(o = "ok" /\ InSlot(a, Component[entry].slot))
           /\ candidates' = candidates \ {a}
           /\ candidateErr' = (candidateErr \/ o # "ok")
           /\ UNCHANGED <<targets, pc, queue, unreadable, entry, direct, reading>>
    /\ UNCHANGED <<manager, integrity, portMACs, call, result, pending, path, flaky>>

NoCandidateDefinitive_Target == direct # "failed"

\* Nothing sits in the slot: definitive only if every candidate was readable
\* and the target was missing or a stub rather than unreadable.
NoCandidateDefinitive == ~candidateErr /\ direct # "failed"

NoCandidate ==
    /\ pc = "candidates" /\ candidates = {}
    /\ \/ NoCandidateDefinitive /\ Resolved(None)
       \/ ~NoCandidateDefinitive /\ Unresolved
    /\ UNCHANGED <<manager, integrity, portMACs, call, result, pending, path, flaky>>

matchMAC_Any(known, mac) == known
matchMAC(known, mac) == {s \in known : EqualFold(s, mac)}

\* The lookup returns the entry, its adapter and the MAC as the BMC spells it.
Found(s) ==
    /\ Return([kind |-> "found", at |-> entry, adapter |-> adapter, mac |-> s])
    /\ queue' = {}
    /\ LeaveEntry
    /\ UNCHANGED unreadable

\* adapterMAC: the MACs are known, or the port collection is read.
ListPorts ==
    /\ pc = "adapter"
    /\ LET p == Adapter[adapter].ports IN
       \/ /\ p \in DOMAIN portMACs
          /\ \/ \E s \in matchMAC(portMACs[p], call.mac) : Found(s)
             \/ matchMAC(portMACs[p], call.mac) = {} /\ Continue(FALSE) /\ UNCHANGED <<call, result, path>>
       \/ /\ p \notin DOMAIN portMACs
          /\ \E o \in do(p, p \in DOMAIN PortsIn) :
             \/ o # "ok" /\ Continue(TRUE)
             \/ /\ o = "ok"
                /\ pc' = "ports" /\ ports' = PortsIn[p]
                /\ UNCHANGED <<queue, unreadable, resolving, adapter, macs, portErr>>
          /\ UNCHANGED <<call, result, path>>
    /\ UNCHANGED <<client, pending, flaky>>

\* adapterMAC, one port: a match ends the lookup, and then the adapter was not
\* read in full and is not remembered.
ReadPort ==
    /\ pc = "ports"
    /\ \E p \in ports : \E o \in do(p, p \in DOMAIN PortMACs) :
        LET now == IF o = "ok" THEN macs \cup {TrimSpace(s) : s \in PortMACs[p]} ELSE macs IN
        \/ o = "ok" /\ \E s \in matchMAC(now, call.mac) : Found(s)
        \/ /\ o # "ok" \/ matchMAC(now, call.mac) = {}
           /\ ports' = ports \ {p} /\ macs' = now /\ portErr' = (portErr \/ o # "ok")
           /\ UNCHANGED <<pc, call, result, path, queue, unreadable, resolving, adapter>>
    /\ UNCHANGED <<client, pending, flaky>>

\* adapterMAC, no port matched: the MACs are kept if every port was read.
KeepPortMACs ==
    /\ pc = "ports" /\ ports = {}
    /\ portMACs' = IF portErr THEN portMACs
                   ELSE [k \in DOMAIN portMACs \cup {Adapter[adapter].ports} |->
                            IF k = Adapter[adapter].ports THEN macs ELSE portMACs[k]]
    /\ Continue(portErr)
    /\ UNCHANGED <<manager, integrity, targets, call, result, pending, path, flaky>>

-----------------------------------------------------------------------------
(* TPMSignedMeasurements                                                   *)

QuoteMembers_AnyTPM(members, m) ==
    {i \in members : Component[i].type = "TPM" /\ Component[i].action # None}

\* The members that offer the action for the BMC's own TPM.
QuoteMembers(members, m) ==
    {i \in members : /\ Component[i].type = "TPM"
                     /\ Component[i].target # None /\ TrimSlash(Component[i].target) = m
                     /\ Component[i].action # None}

\* quoteTarget, once the snapshot has been read.
quoteTarget ==
    /\ pc = "members" /\ pending = {} /\ call.op = "TPMSignedMeasurements"
    /\ LET own == QuoteMembers(integrity.members, manager) IN
       \/ /\ own # {}
          /\ pc' = "post"
          /\ path' \in {Component[i].action : i \in own}
          /\ UNCHANGED <<call, result>>
       \/ own = {} /\ integrity.unreadable /\ Return(Result("error"))
       \/ own = {} /\ ~integrity.unreadable /\ Return(Result("no quote support"))
    /\ UNCHANGED <<client, pending, queue, unreadable, resolving, reading, flaky>>

\* The action is posted: a blob, or an answer that is empty or not base64.
Post ==
    /\ pc = "post"
    /\ \/ Return(ResultAt("signed", path))
       \/ Return(Result("error"))
    /\ UNCHANGED <<client, pending, queue, unreadable, resolving, reading, flaky>>

\* The BMC recovers: from here on it answers every request.
Recover ==
    /\ flaky
    /\ flaky' = FALSE
    /\ UNCHANGED <<client, pc, call, result, pending, queue, unreadable, resolving, reading, path>>

\* The host spells a MAC in lower case and without white space.
HostMAC(m) == [mac |-> m, upper |-> FALSE, padded |-> FALSE]

\* The steps of the call in progress.
Step ==
    \/ ManagerPath \/ SystemPath \/ Resource \/ idevidPath \/ IDevIDChain
    \/ ListMembers \/ ReadMember \/ BeginSearch \/ TryEntry \/ Miss
    \/ ReadTarget \/ ListAdapters \/ ReadCandidate \/ NoCandidate
    \/ ListPorts \/ ReadPort \/ KeepPortMACs
    \/ quoteTarget \/ Post

Next ==
    \/ \E op \in Op \ {"ComponentIntegrityFor"} : Call(op, None)
    \/ \E m \in MAC : Call("ComponentIntegrityFor", HostMAC(m))
    \/ Step
    \/ Recover

Spec == Init /\ [][Next]_vars

\* A call that has begun runs to its return: every request ends, because the
\* HTTP client carries a timeout.
FairSpec == Spec /\ WF_vars(Step)

-----------------------------------------------------------------------------
(* Properties                                                              *)

PCs == {"idle", "managers", "systems", "resource", "certificates", "certificate",
        "oem certificate", "list", "members", "search", "target", "collection",
        "candidates", "adapter", "ports", "post"}

Kinds == {"none", "error", "resource", "chain", "no IDevID", "found", "miss",
          "miss, some unreadable", "signed", "no quote support"}

AdapterWithPorts == {a \in DOMAIN Adapter : HasPorts(a)}

\* The client's fields.
ClientType ==
    /\ manager \in STRING \cup {None}
    /\ integrity \in [listed : BOOLEAN, members : SUBSET DOMAIN Component,
                      failed : SUBSET Listed, unreadable : BOOLEAN]
    /\ targets \in [DOMAIN targets -> AdapterWithPorts \cup {None}]
    /\ DOMAIN targets \subseteq STRING
    /\ portMACs \in [DOMAIN portMACs -> SUBSET Spelling]
    /\ DOMAIN portMACs \subseteq DOMAIN PortsIn

\* The call in progress.
CallType ==
    /\ pc \in PCs
    /\ call \in [op : Op, mac : Spelling \cup {None}, certs : Identities \cup {None}]
    /\ call.op = "IDevIDChain" => call.certs \in Identities
    /\ result.kind \in Kinds
    /\ pending \subseteq Listed
    /\ queue \subseteq DOMAIN Component
    /\ unreadable \in BOOLEAN
    /\ path \in STRING \cup {None}
    /\ flaky \in BOOLEAN

\* The entry being tried.
EntryType ==
    /\ entry \in DOMAIN Component \cup {None}
    /\ direct \in Outcome
    /\ candidates \subseteq STRING
    /\ candidateErr \in BOOLEAN
    /\ adapter \in AdapterWithPorts \cup {None}
    /\ ports \subseteq STRING
    /\ macs \subseteq Spelling
    /\ portErr \in BOOLEAN

\* Types of the client's fields and of the locals of the call in progress.
TypeOK == ClientType /\ CallType /\ EntryType

\* componentIntegrities never loses a listed member to a failed read: each one
\* is in the snapshot, waits for its retry or is about to be read, and in one
\* of these places only; and the snapshot reports unreadable members exactly
\* when it has some to retry.
NothingLost ==
    /\ integrity.listed => integrity.members \cup integrity.failed \cup pending = Listed
    /\ integrity.members \cap integrity.failed = {}
    /\ pending \cap (integrity.members \cup integrity.failed) = {}
    /\ integrity.unreadable <=> integrity.failed # {}

\* What a failure leaves in the caches is the truth: targetAdapter keeps an
\* adapter only for the component it belongs to and "not an adapter" only for
\* a component that has none, and adapterMAC keeps only complete lists of MACs.
CachesTruthful ==
    /\ \A i \in DOMAIN Component :
        LET c == Component[i] IN
        c.id \in DOMAIN targets =>
            IF targets[c.id] = None THEN TrueAdapters(c) = {} ELSE targets[c.id] \in TrueAdapters(c)
    /\ \A p \in DOMAIN portMACs : portMACs[p] = TrueMACs(p)

\* A truncated search never reads as a definitive miss: when
\* ComponentIntegrityFor says that no SPDM component reports the MAC and
\* nothing was unreadable, none does, whatever failed in earlier calls.
NoFalseMiss ==
    result.kind = "miss" =>
        \A i \in Listed : i \in DOMAIN Component /\ ~Carries(Component[i], call.mac)

\* The entry a lookup returns is an SPDM entry of the BMC whose own adapter
\* carries the MAC, also when adapter and MACs came out of the caches.
FoundIsRight ==
    result.kind = "found" =>
        /\ Carries(Component[result.at], call.mac)
        /\ result.adapter \in TrueAdapters(Component[result.at])
        /\ result.mac \in TrueMACs(Adapter[result.adapter].ports)
        /\ EqualFold(result.mac, call.mac)

\* Of two entries for one device the measured one is returned, unless
\* something was unreadable in this very call.
MeasuredPreferred ==
    result.kind = "found" /\ ~Component[result.at].measured /\ ~unreadable =>
        \A i \in DOMAIN Component : Component[i].measured => ~Carries(Component[i], call.mac)

\* Only the BMC's own TPM is quoted, and TPMSignedMeasurements says that the
\* BMC supports no quote only if no member, readable or not, offers one.
OwnTPMOnly ==
    LET own == {i \in DOMAIN Component :
                    /\ Component[i].type = "TPM" /\ Component[i].action # None
                    /\ \E m \in Managers : TrimSlash(Component[i].target) = TrimSlash(m)}
    IN  /\ pc = "post" \/ result.kind = "signed" => path \in {Component[i].action : i \in own}
        /\ result.kind = "no quote support" => own = {} /\ Listed \subseteq DOMAIN Component

\* IDevIDChain says that the BMC has no IDevID only if neither the manager's
\* certificates nor the OEM path hold one: a collection that failed to list does
\* not count as empty, one that is absent, a stub or without an IDevID does.  A
\* chain comes from a certificate named an IDevID whenever the BMC lists one.
NoFalseIDevIDMiss ==
    LET idevids == TrueIDevIDs(call.certs) IN
    /\ result.kind = "no IDevID" =>
        idevids = {} /\ OEMCert[manager] \notin call.certs.pem \cup call.certs.notPEM
    /\ result.kind = "chain" =>
        /\ result.at \in IF idevids # {} THEN idevids ELSE {OEMCert[manager]}
        /\ result.at \in call.certs.pem

\* What the client has resolved it never forgets nor changes: the manager, a
\* member, an adapter, a list of MACs.
NeverForgets ==
    [][/\ manager # None => manager' = manager
       /\ integrity.members \subseteq integrity'.members
       /\ \A k \in DOMAIN targets : k \in DOMAIN targets' /\ targets'[k] = targets[k]
       /\ \A k \in DOMAIN portMACs : k \in DOMAIN portMACs' /\ portMACs'[k] = portMACs[k]
      ]_<<client>>

\* A failure is never permanent: a lookup that has failed to read nothing when
\* the BMC begins to answer every request is conclusive, whatever earlier
\* calls failed to read.
LookupRecovers ==
    (/\ ~flaky /\ pc \in {"list", "members"} /\ integrity.failed = {}
     /\ call.op = "ComponentIntegrityFor")
        ~> (pc = "idle" /\ result.kind \in {"found", "miss"})

=============================================================================
