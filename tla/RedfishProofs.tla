---------------------------- MODULE RedfishProofs ----------------------------
(***************************************************************************)
(* The safety of the Redfish client, for every BMC, any number of calls    *)
(* and any sequence of failed requests.                                    *)
(***************************************************************************)
EXTENDS RedfishClient, TLAPS

Trying == {"target", "collection", "candidates", "adapter", "ports"}
Searching == Trying \cup {"search"}

\* What the control point says about the other variables.
ControlInv ==
    /\ manager = None \/ \E m \in Managers : manager = TrimSlash(m)
    /\ pc = "certificates" => manager # None /\ call.certs \in Identities
    /\ pc \in Searching \cup {"members"} => integrity.listed
    /\ pc # "members" => pending = {}
    /\ pc # "idle" => result.kind = "none"
    /\ pc \in Searching => queue \subseteq Searchable(integrity.members)
    /\ pc \in Trying => entry \in MeasuredFirst(queue)
    /\ pc \notin {"candidates", "adapter", "ports"} => ~candidateErr
    /\ pc # "ports" => ~portErr /\ macs = {}

\* ComponentIntegrityFor: the entries it has done with do not carry the MAC, or
\* it knows that something was unreadable.
SearchInv ==
    pc \in Searching =>
        /\ integrity.unreadable => unreadable
        /\ ~unreadable => \A i \in Searchable(integrity.members) \ queue :
                              ~Carries(Component[i], call.mac)

\* resolveTarget: what it has learnt about the target and its collection.
ResolveInv ==
    /\ pc \in {"collection", "candidates"} =>
        /\ Component[entry].slot \in Slot
        /\ direct # "failed" => ~HasPorts(Component[entry].target)
    /\ pc = "candidates" =>
        /\ Component[entry].target \in DOMAIN AdaptersIn
        /\ candidates \subseteq AdaptersIn[Component[entry].target]
        /\ ~candidateErr => SlotAdapters(Component[entry]) \subseteq candidates
    /\ pc \in {"adapter", "ports"} => adapter \in TrueAdapters(Component[entry])

\* adapterMAC: what it has learnt about the ports of the adapter.
PortsInv ==
    pc = "ports" =>
        /\ Adapter[adapter].ports \in DOMAIN PortsIn
        /\ ports \subseteq PortsIn[Adapter[adapter].ports]
        /\ macs \subseteq TrueMACs(Adapter[adapter].ports)
        /\ ~portErr => TrueMACs(Adapter[adapter].ports) \subseteq macs \cup MACsOf(ports)
        /\ matchMAC(macs, call.mac) = {}

Answers == NoFalseMiss /\ FoundIsRight /\ MeasuredPreferred

IInv ==
    /\ TypeOK /\ NothingLost /\ CachesTruthful
    /\ ControlInv /\ SearchInv /\ ResolveInv /\ PortsInv
    /\ Answers

-----------------------------------------------------------------------------
(* Facts about the BMC's resources.                                        *)

\* At most one adapter belongs to a component.
LEMMA OneAdapter ==
    ASSUME NEW i \in DOMAIN Component,
           NEW a \in TrueAdapters(Component[i]), NEW b \in TrueAdapters(Component[i])
    PROVE  a = b
BY SlotsAgree DEF TrueAdapters

\* The adapter found in the slot is the component's, also if the target itself
\* was unreadable.
LEMMA SlotAdapter ==
    ASSUME NEW i \in DOMAIN Component, NEW a \in SlotAdapters(Component[i]),
           Component[i].slot \in Slot, Component[i].target \in DOMAIN AdaptersIn
    PROVE  a \in TrueAdapters(Component[i])
BY SlotsAgree DEF TrueAdapters

\* Components that share an Id share their adapter.
LEMMA SameAdapters ==
    ASSUME NEW i \in DOMAIN Component, NEW j \in DOMAIN Component,
           Component[i].id = Component[j].id, Component[i].id # None
    PROVE  TrueAdapters(Component[i]) = TrueAdapters(Component[j])
BY IdsAgree DEF TrueAdapters, SlotAdapters

\* An adapter of a component has ports.
LEMMA AdapterTyped ==
    ASSUME NEW i \in DOMAIN Component, NEW a \in TrueAdapters(Component[i])
    PROVE  a \in AdapterWithPorts
BY DEF TrueAdapters, SlotAdapters, HasPorts, AdapterWithPorts

\* The fields of a component have their types.
LEMMA ComponentTyped ==
    ASSUME NEW i \in DOMAIN Component
    PROVE  /\ Component[i].id \in STRING \cup {None}
           /\ Component[i].target \in STRING \cup {None}
           /\ Component[i].action \in STRING \cup {None}
           /\ Component[i].slot \in Slot \cup {NoSlot, BadSlot}
BY WorldTypes DEF ComponentType

\* An entry that carries no MAC of its adapter's ports does not match.
LEMMA NotCarried ==
    ASSUME NEW i \in DOMAIN Component, NEW a \in TrueAdapters(Component[i]), NEW mac,
           \A s \in TrueMACs(Adapter[a].ports) : ~EqualFold(s, mac)
    PROVE  ~Carries(Component[i], mac)
BY OneAdapter DEF Carries

\* The MACs of a port and of the ports without it.
LEMMA MACsSplit ==
    ASSUME NEW P, NEW p \in P
    PROVE  /\ p \in DOMAIN PortMACs =>
                MACsOf(P) = {TrimSpace(s) : s \in PortMACs[p]} \cup MACsOf(P \ {p})
           /\ p \notin DOMAIN PortMACs => MACsOf(P) = MACsOf(P \ {p})
BY DEF MACsOf

\* No ports report no MACs.
LEMMA MACsEmpty == MACsOf({}) = {}
BY DEF MACsOf

\* The MACs of any ports are spellings of MACs.
LEMMA MACsTyped == ASSUME NEW P PROVE MACsOf(P) \subseteq Spelling
<1> SUFFICES ASSUME NEW p \in P \cap DOMAIN PortMACs, NEW s \in PortMACs[p]
             PROVE  TrimSpace(s) \in Spelling
    BY DEF MACsOf
<1>1. s \in Spelling
    BY WorldTypes
<1> QED
    BY <1>1 DEF TrimSpace, Spelling

-----------------------------------------------------------------------------
(* The initial states.                                                     *)

\* A new client satisfies the invariant.
LEMMA InitIInv == Init => IInv
<1> SUFFICES ASSUME Init PROVE IInv
    OBVIOUS
<1>1. TypeOK
    BY WorldTypes DEF Init, TypeOK, ClientType, CallType, EntryType, NoSnapshot, Nothing, Result,
         ResultAt, Op, Kinds, PCs, Outcome, Spelling
<1>2. NothingLost /\ CachesTruthful
    BY DEF Init, NothingLost, CachesTruthful, NoSnapshot, Nothing
<1>3. ControlInv /\ SearchInv /\ ResolveInv /\ PortsInv
    BY DEF Init, ControlInv, SearchInv, ResolveInv, PortsInv, NoSnapshot, Result, ResultAt, Trying, Searching
<1>4. Answers
    BY DEF Init, Answers, NoFalseMiss, FoundIsRight, MeasuredPreferred, Result, ResultAt
<1> QED
    BY <1>1, <1>2, <1>3, <1>4 DEF IInv

-----------------------------------------------------------------------------
(* The steps outside a search.  They touch neither the adapter cache nor   *)
(* the port cache, and they end outside a search.                          *)

\* A step that leaves both caches alone, ends outside a search and gives no
\* answer to one keeps the invariant if it keeps the types, the members and
\* the control facts.
LEMMA QuietStep ==
    ASSUME IInv, UNCHANGED <<targets, portMACs>>, TypeOK', NothingLost', ControlInv',
           pc' \notin Searching,
           result'.kind \notin {"found", "miss"}
    PROVE  IInv'
<1>1. CachesTruthful'
    BY DEF IInv, CachesTruthful
<1>2. SearchInv' /\ ResolveInv' /\ PortsInv'
    BY DEF SearchInv, ResolveInv, PortsInv, Searching, Trying
<1>3. Answers'
    BY DEF Answers, NoFalseMiss, FoundIsRight, MeasuredPreferred
<1> QED
    BY <1>1, <1>2, <1>3 DEF IInv

\* EntryType and the client's fields, where a step leaves them alone.
LEMMA EntryKept == ASSUME EntryType, UNCHANGED <<resolving, reading>> PROVE EntryType'
BY DEF EntryType, resolving, reading

\* The same for the client's fields.
LEMMA ClientKept == ASSUME ClientType, UNCHANGED client PROVE ClientType'
BY DEF ClientType, client

\* A call begins.
LEMMA CallIInv ==
    ASSUME IInv, NEW op \in Op, NEW mac \in Spelling \cup {None}, Call(op, mac)
    PROVE  IInv'
<1> USE DEF IInv, TypeOK
<1>a. UNCHANGED <<manager, targets, portMACs, queue, resolving, reading, flaky>>
    BY DEF Call
<1>b. /\ result' = Result("none") /\ unreadable' = FALSE
      /\ call' \in [op : {op}, mac : {mac}, certs : IF op = "IDevIDChain" THEN Identities ELSE {None}]
      /\ pc' \in {"systems", "managers", "resource", "certificates", "list", "members"}
      /\ path' \in {path, manager}
    BY DEF Call, WithManager, Snapshot
<1>c. \/ UNCHANGED <<pending, integrity>> /\ pc' # "members"
      \/ /\ integrity.listed /\ pc' = "members" /\ pending' = integrity.failed
         /\ integrity' = [integrity EXCEPT !.failed = {}, !.unreadable = FALSE]
    BY DEF Call, WithManager, Snapshot
<1>d. pc' = "certificates" => manager # None /\ op = "IDevIDChain"
    BY DEF Call, WithManager, Snapshot, Op
<1>e. /\ call' \in [op : Op, mac : Spelling \cup {None}, certs : Identities \cup {None}]
      /\ call'.op = op /\ (op = "IDevIDChain" => call'.certs \in Identities)
    BY <1>b
<1>1. ClientType'
    BY <1>a, <1>c DEF ClientType
<1>2. CallType'
  <2>1. result'.kind \in Kinds
    BY <1>b DEF Result, ResultAt, Kinds
  <2>2. pc' \in PCs
    BY <1>b DEF PCs
  <2>3. pending' \subseteq Listed
    BY <1>c DEF ClientType, CallType
  <2> QED
    BY <2>1, <2>2, <2>3, <1>a, <1>b, <1>e DEF CallType, ClientType
<1>3. NothingLost'
  <2>1. CASE UNCHANGED <<pending, integrity>>
    BY <2>1 DEF NothingLost
  <2>2. CASE /\ integrity.listed /\ pc' = "members" /\ pending' = integrity.failed
             /\ integrity' = [integrity EXCEPT !.failed = {}, !.unreadable = FALSE]
    <3>1. pending = {}
      BY DEF ControlInv, Call
    <3> QED
      BY <2>2, <3>1 DEF NothingLost, ClientType
  <2> QED
    BY <2>1, <2>2, <1>c
<1>4. ControlInv'
  <2>1. result'.kind = "none"
    BY <1>b DEF Result, ResultAt
  <2>2. pc' = "members" => integrity'.listed
    BY <1>c DEF ClientType
  <2>3. pc' # "members" => pending' = {}
    BY <1>c DEF ControlInv, Call
  <2>4. pc = "idle"
    BY DEF Call
  <2> QED
    BY <2>1, <2>2, <2>3, <2>4, <1>a, <1>b, <1>d, <1>e DEF ControlInv, Searching, Trying, resolving, reading
<1>5. EntryType'
    BY <1>a, EntryKept
<1>6. result'.kind \notin {"found", "miss"}
    BY <1>b DEF Result, ResultAt
<1> QED
    BY <1>1, <1>2, <1>3, <1>4, <1>5, <1>6, <1>a, <1>b, QuietStep DEF Searching, Trying

\* managerPath: the path it keeps is a path, and one with an OEM certificate
\* path below it.
LEMMA TrimSlashTyped == ASSUME NEW m \in Managers PROVE TrimSlash(m) \in STRING /\ TrimSlash(m) \in DOMAIN OEMCert
BY WorldTypes DEF TrimSlash

\* managerPath, its request.
LEMMA ManagerPathIInv == ASSUME IInv, ManagerPath PROVE IInv'
<1> USE DEF IInv, TypeOK
<1>a. UNCHANGED <<targets, portMACs, queue, unreadable, resolving, reading, flaky, call>> /\ pc = "managers"
    BY DEF ManagerPath, Return
<1>b. \/ /\ UNCHANGED <<manager, pending, integrity, path>>
         /\ result' = Result("error") /\ pc' = "idle"
      \/ /\ UNCHANGED result /\ \E m \in Managers : manager' = TrimSlash(m)
         /\ pc' \in {"resource", "certificates", "list", "members"}
         /\ path' \in {path, manager'}
    BY DEF ManagerPath, WithManager, Snapshot, Return
<1>c. \/ UNCHANGED <<pending, integrity>> /\ pc' # "members"
      \/ /\ integrity.listed /\ pc' = "members" /\ pending' = integrity.failed
         /\ integrity' = [integrity EXCEPT !.failed = {}, !.unreadable = FALSE]
    BY DEF ManagerPath, WithManager, Snapshot, Return
<1>d. manager' \in STRING \cup {None} /\ (pc' # "idle" => manager' # None)
    BY <1>b, TrimSlashTyped, WorldTypes DEF ClientType
<1>f. pc' = "certificates" => call.certs \in Identities
    BY DEF ManagerPath, WithManager, Snapshot, Return, CallType
<1>e. result'.kind \in {"none", "error"} /\ (pc' # "idle" => result'.kind = "none")
    BY <1>a, <1>b DEF ControlInv, Result, ResultAt
<1>1. ClientType'
    BY <1>a, <1>c, <1>d DEF ClientType
<1>2. CallType'
  <2>1. pending' \subseteq Listed
    BY <1>c DEF ClientType, CallType
  <2>2. path' \in STRING \cup {None}
    BY <1>b, <1>d DEF CallType
  <2>3. pc' \in PCs /\ result'.kind \in Kinds
    BY <1>b, <1>e DEF PCs, Kinds
  <2> QED
    BY <2>1, <2>2, <2>3, <1>a DEF CallType
<1>3. NothingLost'
  <2>1. CASE UNCHANGED <<pending, integrity>>
    BY <2>1 DEF NothingLost
  <2>2. CASE /\ integrity.listed /\ pc' = "members" /\ pending' = integrity.failed
             /\ integrity' = [integrity EXCEPT !.failed = {}, !.unreadable = FALSE]
    <3>1. pending = {}
      BY <1>a DEF ControlInv
    <3> QED
      BY <2>2, <3>1 DEF NothingLost, ClientType
  <2> QED
    BY <2>1, <2>2, <1>c
<1>4. ControlInv'
  <2>1. manager' = None \/ \E m \in Managers : manager' = TrimSlash(m)
    BY <1>b DEF ControlInv
  <2>2. pc' = "members" => integrity'.listed
    BY <1>c DEF ClientType
  <2>3. pc' # "members" => pending' = {}
    BY <1>a, <1>c DEF ControlInv
  <2> QED
    BY <2>1, <2>2, <2>3, <1>a, <1>b, <1>d, <1>e, <1>f DEF ControlInv, Searching, Trying, resolving, reading
<1>5. EntryType'
    BY <1>a, EntryKept
<1> QED
    BY <1>1, <1>2, <1>3, <1>4, <1>5, <1>a, <1>b, <1>e, QuietStep DEF Searching, Trying

\* The requests of System, Manager, IDevIDChain and TPMSignedMeasurements that
\* only read a resource or post the action.
LEMMA PlainIInv ==
    ASSUME IInv, SystemPath \/ Resource \/ idevidPath \/ IDevIDChain \/ quoteTarget \/ Post
    PROVE  IInv'
<1> USE DEF IInv, TypeOK
<1>a. UNCHANGED <<client, pending, queue, unreadable, resolving, reading, flaky, call>>
    BY DEF SystemPath, Resource, idevidPath, IDevIDChain, quoteTarget, Post, Return
<1>b. /\ pc' \in {"idle", "resource", "certificate", "oem certificate", "post"}
      /\ pc # "idle" /\ pending = {} /\ pc \notin Searching
    BY DEF SystemPath, Resource, idevidPath, IDevIDChain, quoteTarget, Post, Return, ControlInv,
         Searching, Trying
<1>c. /\ pc' # "idle" => UNCHANGED result
      /\ pc' = "idle" =>
            \E kind \in {"error", "no IDevID", "no quote support", "resource", "chain", "signed"} :
            \E at \in {None, path} : result' = ResultAt(kind, at)
    BY DEF SystemPath, Resource, idevidPath, IDevIDChain, quoteTarget, Post, Return, Result
<1>d. result'.kind \in {"none", "error", "no IDevID", "no quote support", "resource", "chain", "signed"}
      /\ (pc' # "idle" => result'.kind = "none")
  <2>1. CASE pc' # "idle"
    BY <2>1, <1>b, <1>c DEF ControlInv
  <2>2. CASE pc' = "idle"
    <3> PICK kind \in {"error", "no IDevID", "no quote support", "resource", "chain", "signed"},
             at \in {None, path} : result' = ResultAt(kind, at)
      BY <2>2, <1>c
    <3>1. result'.kind = kind
      BY DEF ResultAt
    <3> QED
      BY <3>1, <2>2
  <2> QED
    BY <2>1, <2>2
<1>1. path' \in STRING \cup {None}
  <2>1. CASE SystemPath
    BY <2>1, WorldTypes DEF SystemPath, CallType, Return
  <2>2. CASE idevidPath
    <3>1. manager \in DOMAIN OEMCert
      BY <2>2, TrimSlashTyped DEF idevidPath, ControlInv
    <3>2. OEMCert[manager] \in STRING
      BY <3>1, WorldTypes
    <3>3. call.certs.members \subseteq STRING
      BY <2>2, WorldTypes DEF idevidPath, ControlInv, IdentityType
    <3> QED
      BY <2>2, <3>2, <3>3 DEF idevidPath, CallType, Return
  <2>3. CASE quoteTarget
    <3>1. integrity.members \subseteq DOMAIN Component
      BY DEF ClientType
    <3>2. \/ UNCHANGED path
          \/ \E i \in QuoteMembers(integrity.members, manager) : path' = Component[i].action
      BY <2>3 DEF quoteTarget, Return
    <3> QED
      BY <3>1, <3>2, ComponentTyped DEF CallType, QuoteMembers
  <2>4. CASE Resource \/ IDevIDChain \/ Post
    BY <2>4 DEF Resource, IDevIDChain, Post, CallType, Return
  <2> QED
    BY <2>1, <2>2, <2>3, <2>4
<1>2. CallType'
  <2>1. pc' \in PCs /\ result'.kind \in Kinds
    BY <1>b, <1>d DEF PCs, Kinds
  <2> QED
    BY <2>1, <1>a, <1>1 DEF CallType
<1>3. NothingLost'
    BY <1>a DEF NothingLost, client
<1>4. ControlInv'
    BY <1>a, <1>b, <1>d DEF ControlInv, client, resolving, reading, Searching, Trying
<1>5. ClientType' /\ EntryType'
    BY <1>a, ClientKept, EntryKept
<1> QED
    BY <1>2, <1>3, <1>4, <1>5, <1>a, <1>b, <1>d, QuietStep DEF client, Searching, Trying

\* A snapshot that has just been listed.
LEMMA FreshSnapshotTyped ==
    [listed |-> TRUE, members |-> {}, failed |-> {}, unreadable |-> FALSE] \in
        [listed : BOOLEAN, members : SUBSET DOMAIN Component,
         failed : SUBSET Listed, unreadable : BOOLEAN]
OBVIOUS

\* componentIntegrities lists the collection.
LEMMA ListMembersIInv == ASSUME IInv, ListMembers PROVE IInv'
<1> USE DEF IInv, TypeOK
<1>a. /\ UNCHANGED <<manager, targets, portMACs, queue, unreadable, resolving, reading, flaky, call, path>>
      /\ pc = "list"
    BY DEF ListMembers, Return
<1>b. \/ UNCHANGED <<pending, integrity>> /\ pc' = "idle" /\ result' = Result("error")
      \/ /\ integrity' = [NoSnapshot EXCEPT !.listed = TRUE]
         /\ pending' = Listed /\ pc' = "members" /\ UNCHANGED result
    BY DEF ListMembers, Return
<1>c. pc' = "members" =>
        integrity' = [listed |-> TRUE, members |-> {}, failed |-> {}, unreadable |-> FALSE]
    BY <1>b DEF NoSnapshot
<1>d. result'.kind \in {"none", "error"} /\ (pc' # "idle" => result'.kind = "none")
    BY <1>a, <1>b DEF ControlInv, Result, ResultAt
<1>i. (integrity \in [listed : BOOLEAN, members : SUBSET DOMAIN Component,
                       failed : SUBSET Listed, unreadable : BOOLEAN])'
  <2>1. CASE pc' = "members"
    BY <2>1, <1>c, FreshSnapshotTyped
  <2>2. CASE UNCHANGED integrity
    BY <2>2 DEF ClientType
  <2> QED
    BY <2>1, <2>2, <1>b
<1>1. ClientType'
    BY <1>a, <1>i DEF ClientType
<1>2. CallType'
  <2>1. pc' \in PCs /\ result'.kind \in Kinds /\ pending' \subseteq Listed
    BY <1>b, <1>d DEF PCs, Kinds, CallType
  <2> QED
    BY <2>1, <1>a DEF CallType
<1>3. NothingLost'
    BY <1>b, <1>c DEF NothingLost
<1>4. ControlInv'
    BY <1>a, <1>b, <1>c, <1>d DEF ControlInv, resolving, reading, Searching, Trying
<1>5. EntryType'
    BY <1>a, EntryKept
<1> QED
    BY <1>1, <1>2, <1>3, <1>4, <1>5, <1>a, <1>b, <1>d, QuietStep DEF Searching, Trying

\* componentIntegrities reads a member.
LEMMA ReadMemberIInv == ASSUME IInv, ReadMember PROVE IInv'
<1> USE DEF IInv, TypeOK
<1>a. /\ UNCHANGED <<manager, targets, portMACs, pc, call, result, queue, unreadable,
                     resolving, reading, path, flaky>>
      /\ pc = "members"
    BY DEF ReadMember
<1> PICK id \in pending :
        /\ pending' = pending \ {id}
        /\ \/ /\ id \in DOMAIN Component
              /\ integrity' = [integrity EXCEPT !.members = @ \cup {id}]
           \/ integrity' = [integrity EXCEPT !.failed = @ \cup {id}, !.unreadable = TRUE]
    BY DEF ReadMember, do
<1>b. id \in Listed
    BY DEF CallType
<1>c. \/ /\ id \in DOMAIN Component
         /\ integrity' = [listed |-> integrity.listed, members |-> integrity.members \cup {id},
                          failed |-> integrity.failed, unreadable |-> integrity.unreadable]
      \/ integrity' = [listed |-> integrity.listed, members |-> integrity.members,
                       failed |-> integrity.failed \cup {id}, unreadable |-> TRUE]
    BY DEF ClientType
<1>i. (integrity \in [listed : BOOLEAN, members : SUBSET DOMAIN Component,
                       failed : SUBSET Listed, unreadable : BOOLEAN])'
  <2>1. integrity.listed \in BOOLEAN /\ integrity.unreadable \in BOOLEAN
    BY DEF ClientType
  <2>2. integrity.members \subseteq DOMAIN Component /\ integrity.failed \subseteq Listed
    BY DEF ClientType
  <2> QED
    BY <2>1, <2>2, <1>b, <1>c
<1>1. ClientType'
    BY <1>a, <1>i DEF ClientType
<1>2. CallType'
    BY <1>a DEF CallType
<1>3. NothingLost'
    BY <1>b, <1>c DEF NothingLost
<1>4. ControlInv'
    BY <1>a, <1>c DEF ControlInv, resolving, reading, Searching, Trying
<1>5. EntryType'
    BY <1>a, EntryKept
<1>6. result'.kind = "none"
    BY <1>a DEF ControlInv
<1> QED
    BY <1>1, <1>2, <1>3, <1>4, <1>5, <1>6, <1>a, QuietStep DEF Searching, Trying

\* Recover changes nothing that the invariant speaks of.
LEMMA RecoverIInv == ASSUME IInv, Recover PROVE IInv'
<1> USE DEF IInv, TypeOK
<1>a. /\ flaky' = FALSE
      /\ UNCHANGED <<client, pc, call, result, pending, queue, unreadable, resolving, reading, path>>
    BY DEF Recover
<1>1. CallType' /\ ClientType' /\ EntryType'
    BY <1>a, ClientKept, EntryKept DEF CallType
<1>2. NothingLost' /\ CachesTruthful'
    BY <1>a DEF NothingLost, CachesTruthful, client
<1>3. ControlInv' /\ SearchInv'
    BY <1>a DEF ControlInv, SearchInv, client, resolving, reading
<1>4. ResolveInv' /\ PortsInv'
    BY <1>a DEF ResolveInv, PortsInv, resolving, reading
<1>5. Answers'
    BY <1>a DEF Answers, NoFalseMiss, FoundIsRight, MeasuredPreferred
<1> QED
    BY <1>1, <1>2, <1>3, <1>4, <1>5

-----------------------------------------------------------------------------
(* The steps of a search.                                                  *)

\* A search leaves alone what it does not own.
SearchFrame == UNCHANGED <<manager, integrity, call, pending, flaky>>

\* The entry being tried is one of those still to try.
LEMMA EntryOfSearch ==
    ASSUME IInv, pc \in Trying
    PROVE  /\ entry \in queue /\ entry \in DOMAIN Component
           /\ entry \in Searchable(integrity.members)
BY DEF IInv, TypeOK, CallType, ControlInv, MeasuredFirst, Searching

\* If nothing was unreadable, every listed member is in the snapshot.
LEMMA AllRead ==
    ASSUME IInv, pc \in Searching, ~unreadable
    PROVE  integrity.members = Listed /\ Listed = DOMAIN Component
<1>1. integrity.failed = {} /\ pending = {} /\ integrity.listed
    BY DEF IInv, SearchInv, NothingLost, ControlInv, Searching, Trying
<1>2. integrity.members = Listed
    BY <1>1 DEF IInv, NothingLost
<1>3. integrity.members \subseteq DOMAIN Component
    BY DEF IInv, TypeOK, ClientType
<1> QED
    BY <1>2, <1>3, WorldTypes

\* nil is not an adapter.
LEMMA NoneIsNoAdapter == None \notin AdapterWithPorts
BY WorldTypes DEF AdapterWithPorts

\* What targetAdapter keeps is true of every component with that Id.
LEMMA KeepTargetTruthful ==
    ASSUME IInv, entry \in DOMAIN Component, NEW a, KeepTarget(a), UNCHANGED portMACs,
           a = None => TrueAdapters(Component[entry]) = {},
           a # None => a \in TrueAdapters(Component[entry])
    PROVE  /\ CachesTruthful'
           /\ targets' \in [DOMAIN targets' -> AdapterWithPorts \cup {None}]
           /\ DOMAIN targets' \subseteq STRING
<1> DEFINE id == Component[entry].id
<1>a. a \in AdapterWithPorts \cup {None}
    BY AdapterTyped
<1>b. /\ targets \in [DOMAIN targets -> AdapterWithPorts \cup {None}]
      /\ DOMAIN targets \subseteq STRING
    BY DEF IInv, TypeOK, ClientType
<1>c. id \in STRING \cup {None}
    BY ComponentTyped
<1>d. CachesTruthful
    BY DEF IInv
<1>1. CASE id = None
    BY <1>1, <1>b, <1>d DEF KeepTarget, CachesTruthful
<1>2. CASE id # None
  <2>1. targets' = [k \in DOMAIN targets \cup {id} |-> IF k = id THEN a ELSE targets[k]]
    BY <1>2 DEF KeepTarget
  <2>2. DOMAIN targets' = DOMAIN targets \cup {id}
    BY <2>1
  <2>3. \A k \in DOMAIN targets' : targets'[k] = IF k = id THEN a ELSE targets[k]
    BY <2>1
  <2>4. targets' \in [DOMAIN targets' -> AdapterWithPorts \cup {None}] /\ DOMAIN targets' \subseteq STRING
    BY <2>1, <2>2, <1>a, <1>b, <1>c, <1>2
  <2>5. ASSUME NEW i \in DOMAIN Component, Component[i].id \in DOMAIN targets'
        PROVE  IF targets'[Component[i].id] = None THEN TrueAdapters(Component[i]) = {}
               ELSE targets'[Component[i].id] \in TrueAdapters(Component[i])
    <3>1. CASE Component[i].id = id
      BY <3>1, <2>3, <2>5, <1>2, SameAdapters
    <3>2. CASE Component[i].id # id
      BY <3>2, <2>2, <2>3, <2>5, <1>d DEF CachesTruthful
    <3> QED
      BY <3>1, <3>2
  <2>6. \A p \in DOMAIN portMACs' : portMACs'[p] = TrueMACs(p)
    BY <1>d DEF CachesTruthful
  <2> QED
    BY <2>4, <2>5, <2>6 DEF CachesTruthful
<1> QED
    BY <1>1, <1>2

\* The search goes on: the entry does not carry the MAC, or that is not known
\* and the search remembers it.
LEMMA ContinueIInv ==
    ASSUME IInv, pc \in Trying, NEW bad \in BOOLEAN, Continue(bad),
           bad \/ ~Carries(Component[entry], call.mac),
           SearchFrame, UNCHANGED <<result, path>>, ClientType', CachesTruthful'
    PROVE  IInv'
<1> USE DEF IInv, TypeOK
<1>a. /\ pc' = "search" /\ queue' = queue \ {entry} /\ unreadable' = (unreadable \/ bad)
      /\ UNCHANGED <<manager, integrity, call, pending, flaky, result, path>>
    BY DEF Continue, SearchFrame
<1>b. /\ entry' = None /\ direct' = "ok" /\ candidates' = {} /\ candidateErr' = FALSE
      /\ adapter' = None /\ ports' = {} /\ macs' = {} /\ portErr' = FALSE
    BY DEF Continue, LeaveEntry
<1>c. pc # "idle" /\ pc \in Searching
    BY DEF Trying, Searching
<1>1. CallType'
    BY <1>a DEF CallType, PCs
<1>2. EntryType'
    BY <1>b DEF EntryType, Outcome
<1>3. NothingLost'
    BY <1>a DEF NothingLost
<1>4. ControlInv'
    BY <1>a, <1>b, <1>c DEF ControlInv, Searching, Trying
<1>5. SearchInv'
    BY <1>a, <1>c DEF SearchInv, CallType
<1>6. ResolveInv' /\ PortsInv'
    BY <1>a DEF ResolveInv, PortsInv
<1>7. Answers'
    BY <1>a, <1>c DEF Answers, NoFalseMiss, FoundIsRight, MeasuredPreferred, ControlInv
<1> QED
    BY <1>1, <1>2, <1>3, <1>4, <1>5, <1>6, <1>7

\* A step that changes only the adapter cache.
LEMMA ClientTypeTargets ==
    ASSUME ClientType, UNCHANGED <<manager, integrity, portMACs>>,
           targets' \in [DOMAIN targets' -> AdapterWithPorts \cup {None}],
           DOMAIN targets' \subseteq STRING
    PROVE  ClientType'
BY DEF ClientType

\* resolveTarget returns an error.
LEMMA UnresolvedIInv ==
    ASSUME IInv, pc \in Trying, Unresolved, SearchFrame, UNCHANGED <<portMACs, result, path>>
    PROVE  IInv'
<1>1. ClientType'
    BY ClientKept DEF IInv, TypeOK, Unresolved, SearchFrame, client
<1>2. CachesTruthful'
    BY DEF IInv, CachesTruthful, Unresolved
<1> QED
    BY <1>1, <1>2, ContinueIInv DEF Unresolved

\* resolveTarget returns an adapter that is the component's, or none.
LEMMA ResolvedIInv ==
    ASSUME IInv, pc \in {"target", "candidates"}, NEW a, Resolved(a),
           SearchFrame, UNCHANGED <<portMACs, result, path>>,
           a = None => TrueAdapters(Component[entry]) = {},
           a # None => a \in TrueAdapters(Component[entry])
    PROVE  IInv'
<1>t. pc \in Trying
    BY DEF Trying
<1>e. entry \in DOMAIN Component
    BY <1>t, EntryOfSearch
<1>k. /\ CachesTruthful'
      /\ targets' \in [DOMAIN targets' -> AdapterWithPorts \cup {None}]
      /\ DOMAIN targets' \subseteq STRING
    BY <1>e, KeepTargetTruthful DEF Resolved
<1>c. ClientType'
    BY <1>k, ClientTypeTargets DEF IInv, TypeOK, SearchFrame
<1>1. CASE a = None
  <2>1. ~Carries(Component[entry], call.mac)
    BY <1>1 DEF Carries
  <2>2. Continue(FALSE)
    BY <1>1 DEF Resolved
  <2> QED
    BY <2>1, <2>2, <1>t, <1>c, <1>k, ContinueIInv
<1>2. CASE a # None
  <2> USE DEF IInv, TypeOK
  <2>a. /\ pc' = "adapter" /\ adapter' = a
        /\ UNCHANGED <<queue, unreadable, entry, direct, candidates, candidateErr, ports, macs, portErr,
                       manager, integrity, call, pending, flaky, result, path>>
    BY <1>2 DEF Resolved, SearchFrame, resolving
  <2>b. a \in AdapterWithPorts
    BY <1>2, <1>e, AdapterTyped
  <2>1. CallType'
    BY <2>a DEF CallType, PCs
  <2>2. EntryType'
    BY <2>a, <2>b DEF EntryType
  <2>3. NothingLost'
    BY <2>a DEF NothingLost
  <2>4. ControlInv'
    BY <2>a DEF ControlInv, Searching, Trying
  <2>5. SearchInv'
    BY <2>a DEF SearchInv, Searching, Trying
  <2>6. ResolveInv' /\ PortsInv'
    BY <2>a, <1>2 DEF ResolveInv, PortsInv
  <2>7. Answers'
    BY <2>a DEF Answers, NoFalseMiss, FoundIsRight, MeasuredPreferred, ControlInv
  <2> QED
    BY <2>1, <2>2, <2>3, <2>4, <2>5, <2>6, <2>7, <1>c, <1>k
<1> QED
    BY <1>1, <1>2

\* ComponentIntegrityFor has its snapshot.
LEMMA BeginSearchIInv == ASSUME IInv, BeginSearch PROVE IInv'
<1> USE DEF IInv, TypeOK
<1>a. /\ pc = "members" /\ pending = {} /\ pc' = "search"
      /\ queue' = Searchable(integrity.members) /\ unreadable' = integrity.unreadable
      /\ UNCHANGED <<client, call, result, pending, resolving, reading, path, flaky>>
    BY DEF BeginSearch
<1>1. ClientType' /\ EntryType'
    BY <1>a, ClientKept, EntryKept
<1>2. CallType'
  <2>1. queue' \subseteq DOMAIN Component /\ unreadable' \in BOOLEAN
    BY <1>a DEF ClientType, Searchable
  <2> QED
    BY <2>1, <1>a DEF CallType, PCs
<1>3. NothingLost' /\ CachesTruthful'
    BY <1>a DEF NothingLost, CachesTruthful, client
<1>4. ControlInv'
    BY <1>a DEF ControlInv, client, resolving, reading, Searching, Trying
<1>5. SearchInv'
    BY <1>a DEF SearchInv, client
<1>6. ResolveInv' /\ PortsInv'
    BY <1>a DEF ResolveInv, PortsInv
<1>7. Answers'
    BY <1>a DEF Answers, NoFalseMiss, FoundIsRight, MeasuredPreferred, ControlInv
<1> QED
    BY <1>1, <1>2, <1>3, <1>4, <1>5, <1>6, <1>7

\* ComponentIntegrityFor goes to the next entry.
LEMMA TryEntryIInv == ASSUME IInv, TryEntry PROVE IInv'
<1> USE DEF IInv, TypeOK
<1>a. /\ pc = "search"
      /\ UNCHANGED <<client, call, result, pending, unreadable, direct, candidates,
                     candidateErr, ports, macs, portErr, path, flaky>>
    BY DEF TryEntry
<1> PICK i \in MeasuredFirst(queue) :
        \/ /\ Component[i].id \in DOMAIN targets /\ targets[Component[i].id] = None
           /\ queue' = queue \ {i}
           /\ UNCHANGED <<pc, entry, adapter>>
        \/ /\ Component[i].id \in DOMAIN targets /\ targets[Component[i].id] # None
           /\ pc' = "adapter" /\ entry' = i /\ adapter' = targets[Component[i].id]
           /\ UNCHANGED queue
        \/ /\ Component[i].id \notin DOMAIN targets
           /\ pc' = "target" /\ entry' = i
           /\ UNCHANGED <<queue, adapter>>
    BY DEF TryEntry
<1>b. i \in queue /\ i \in DOMAIN Component
    BY DEF MeasuredFirst, CallType
<1>c. /\ Component[i].id \in DOMAIN targets /\ targets[Component[i].id] = None
         => ~Carries(Component[i], call.mac)
      /\ Component[i].id \in DOMAIN targets /\ targets[Component[i].id] # None
         => targets[Component[i].id] \in TrueAdapters(Component[i])
    BY <1>b DEF CachesTruthful, Carries
<1>d. pc' \in {"search", "adapter", "target"} /\ queue' \subseteq queue
    BY <1>a
<1>1. ClientType'
    BY <1>a, ClientKept
<1>2. EntryType'
  <2>1. entry' \in DOMAIN Component \cup {None}
    BY <1>b DEF EntryType
  <2>2. adapter' \in AdapterWithPorts \cup {None}
    BY <1>b, <1>c, AdapterTyped DEF EntryType
  <2> QED
    BY <2>1, <2>2, <1>a DEF EntryType
<1>3. CallType'
    BY <1>a, <1>d DEF CallType, PCs
<1>4. NothingLost' /\ CachesTruthful'
    BY <1>a DEF NothingLost, CachesTruthful, client
<1>5. ControlInv'
  <2>1. pc' \in Trying => entry' \in MeasuredFirst(queue')
    BY <1>a DEF Trying
  <2> QED
    BY <2>1, <1>a, <1>d DEF ControlInv, client, Searching, Trying
<1>6. SearchInv'
  <2>1. \A j \in queue \ queue' : ~Carries(Component[j], call.mac)
    BY <1>c
  <2> QED
    BY <2>1, <1>a, <1>d DEF SearchInv, client, Searching, Trying
<1>7. ResolveInv' /\ PortsInv'
    BY <1>a, <1>c, <1>d DEF ResolveInv, PortsInv
<1>8. Answers'
    BY <1>a DEF Answers, NoFalseMiss, FoundIsRight, MeasuredPreferred, ControlInv
<1> QED
    BY <1>1, <1>2, <1>3, <1>4, <1>5, <1>6, <1>7, <1>8

\* ComponentIntegrityFor has tried every entry.
LEMMA MissIInv == ASSUME IInv, Miss PROVE IInv'
<1> USE DEF IInv, TypeOK
<1>a. /\ pc = "search" /\ queue = {} /\ pc' = "idle"
      /\ result' = Result(IF unreadable THEN "miss, some unreadable" ELSE "miss")
      /\ UNCHANGED <<client, call, path, pending, queue, unreadable, resolving, reading, flaky>>
    BY DEF Miss, Return
<1>b. /\ result'.kind \in {"miss, some unreadable", "miss"}
      /\ result'.kind = "miss" => ~unreadable
    BY <1>a DEF Result, ResultAt
<1>1. ClientType' /\ EntryType'
    BY <1>a, ClientKept, EntryKept
<1>2. CallType'
    BY <1>a, <1>b DEF CallType, PCs, Kinds
<1>3. NothingLost' /\ CachesTruthful'
    BY <1>a DEF NothingLost, CachesTruthful, client
<1>4. ControlInv'
    BY <1>a DEF ControlInv, client, resolving, reading, Searching, Trying
<1>5. SearchInv' /\ ResolveInv' /\ PortsInv'
    BY <1>a DEF SearchInv, ResolveInv, PortsInv, Searching, Trying
<1>6. NoFalseMiss'
  <2> SUFFICES ASSUME ~unreadable
               PROVE  \A i \in Listed : i \in DOMAIN Component /\ ~Carries(Component[i], call.mac)
    BY <1>a, <1>b DEF NoFalseMiss
  <2>1. integrity.members = Listed /\ Listed = DOMAIN Component
    BY <1>a, AllRead DEF Searching
  <2>2. \A i \in Searchable(integrity.members) : ~Carries(Component[i], call.mac)
    BY <1>a DEF SearchInv, Searching
  <2> QED
    BY <2>1, <2>2 DEF Searchable, Carries
<1>7. FoundIsRight' /\ MeasuredPreferred'
    BY <1>b DEF FoundIsRight, MeasuredPreferred
<1> QED
    BY <1>1, <1>2, <1>3, <1>4, <1>5, <1>6, <1>7 DEF Answers

\* A step that only resolves: the locals of resolveTarget change, and pc.
LEMMA ResolvingIInv ==
    ASSUME IInv, pc \in {"target", "collection", "candidates"}, pc' \in {"collection", "candidates"},
           UNCHANGED <<client, call, result, pending, path, flaky, queue, unreadable, entry, reading>>,
           direct' \in Outcome, candidates' \subseteq STRING, candidateErr' \in BOOLEAN,
           pc' # "candidates" => ~candidateErr', ResolveInv'
    PROVE  IInv'
<1> USE DEF IInv, TypeOK
<1>1. ClientType'
    BY ClientKept
<1>2. EntryType'
    BY DEF EntryType, reading
<1>3. CallType'
    BY DEF CallType, PCs
<1>4. NothingLost' /\ CachesTruthful'
    BY DEF NothingLost, CachesTruthful, client
<1>5. ControlInv'
    BY DEF ControlInv, client, reading, Searching, Trying
<1>6. SearchInv'
    BY DEF SearchInv, client, Searching, Trying
<1>7. PortsInv'
    BY DEF PortsInv
<1>8. Answers'
    BY DEF Answers, NoFalseMiss, FoundIsRight, MeasuredPreferred, ControlInv
<1> QED
    BY <1>1, <1>2, <1>3, <1>4, <1>5, <1>6, <1>7, <1>8

\* resolveTarget reads the target.
LEMMA ReadTargetIInv == ASSUME IInv, ReadTarget PROVE IInv'
<1> DEFINE c == Component[entry]
<1>a. /\ pc = "target" /\ UNCHANGED <<manager, integrity, portMACs, call, result, pending, path, flaky>>
      /\ SearchFrame
    BY DEF ReadTarget, SearchFrame
<1>e. entry \in DOMAIN Component /\ c.target # None
    BY <1>a, EntryOfSearch DEF Trying, Searchable
<1> PICK o \in do(c.target, c.target \in DOMAIN Adapter) :
        \/ IsAdapter(o, c.target) /\ Resolved(c.target)
        \/ o = "ok" /\ ~IsAdapter(o, c.target) /\ c.slot = NoSlot /\ Resolved(None)
        \/ o # "ok" /\ c.slot = NoSlot /\ Unresolved
        \/ ~IsAdapter(o, c.target) /\ c.slot = BadSlot /\ Unresolved
        \/ /\ ~IsAdapter(o, c.target) /\ c.slot \in Slot
           /\ pc' = "collection" /\ direct' = o
           /\ UNCHANGED <<targets, queue, unreadable, entry, candidates, candidateErr, reading>>
    BY DEF ReadTarget
<1>o. /\ o \in Outcome
      /\ o \notin {"ok", "failed"} => ~HasPorts(c.target)
      /\ ~IsAdapter(o, c.target) /\ o = "ok" => ~HasPorts(c.target)
    BY DEF do, Outcome, HasPorts, IsAdapter
<1>1. CASE IsAdapter(o, c.target) /\ Resolved(c.target)
  <2>1. c.target \in TrueAdapters(c)
    BY <1>1 DEF IsAdapter, TrueAdapters
  <2> QED
    BY <2>1, <1>1, <1>a, <1>e, ResolvedIInv
<1>2. CASE o = "ok" /\ ~IsAdapter(o, c.target) /\ c.slot = NoSlot /\ Resolved(None)
  <2>1. TrueAdapters(c) = {}
    BY <1>2, <1>o, WorldTypes DEF TrueAdapters
  <2> QED
    BY <2>1, <1>2, <1>a, ResolvedIInv
<1>3. CASE Unresolved
    BY <1>3, <1>a, UnresolvedIInv DEF Trying
<1>4. CASE /\ ~IsAdapter(o, c.target) /\ c.slot \in Slot
           /\ pc' = "collection" /\ direct' = o
           /\ UNCHANGED <<targets, queue, unreadable, entry, candidates, candidateErr, reading>>
  <2>1. ResolveInv'
    BY <1>4, <1>o DEF ResolveInv
  <2>2. candidates' \subseteq STRING /\ candidateErr' = FALSE
    BY <1>4, <1>a DEF IInv, TypeOK, EntryType, ControlInv
  <2> QED
    BY <2>1, <2>2, <1>4, <1>a, <1>o, ResolvingIInv DEF client
<1> QED
    BY <1>1, <1>2, <1>3, <1>4

\* resolveTarget lists the target's collection.
LEMMA ListAdaptersIInv == ASSUME IInv, ListAdapters PROVE IInv'
<1> DEFINE c == Component[entry]
<1>a. /\ pc = "collection" /\ UNCHANGED <<manager, integrity, portMACs, call, result, pending, path, flaky>>
      /\ SearchFrame
    BY DEF ListAdapters, SearchFrame
<1> PICK o \in do(c.target, c.target \in DOMAIN AdaptersIn) :
        \/ o # "ok" /\ Unresolved
        \/ /\ o = "ok"
           /\ pc' = "candidates" /\ candidates' = AdaptersIn[c.target]
           /\ UNCHANGED <<targets, queue, unreadable, entry, direct, candidateErr, reading>>
    BY DEF ListAdapters
<1>1. CASE Unresolved
    BY <1>1, <1>a, UnresolvedIInv DEF Trying
<1>2. CASE /\ o = "ok"
           /\ pc' = "candidates" /\ candidates' = AdaptersIn[c.target]
           /\ UNCHANGED <<targets, queue, unreadable, entry, direct, candidateErr, reading>>
  <2>1. c.target \in DOMAIN AdaptersIn
    BY <1>2 DEF do
  <2>2. ResolveInv'
    BY <2>1, <1>2, <1>a DEF IInv, ResolveInv, SlotAdapters
  <2>3. candidates' \subseteq STRING
    BY <2>1, <1>2, WorldTypes
  <2>4. direct' \in Outcome /\ candidateErr' \in BOOLEAN
    BY <1>2 DEF IInv, TypeOK, EntryType
  <2> QED
    BY <2>2, <2>3, <2>4, <1>2, <1>a, ResolvingIInv DEF client
<1> QED
    BY <1>1, <1>2

\* resolveTarget reads an adapter of the collection.
LEMMA ReadCandidateIInv == ASSUME IInv, ReadCandidate PROVE IInv'
<1> DEFINE c == Component[entry]
<1>a. /\ pc = "candidates" /\ UNCHANGED <<manager, integrity, portMACs, call, result, pending, path, flaky>>
      /\ SearchFrame
    BY DEF ReadCandidate, SearchFrame
<1>e. entry \in DOMAIN Component
    BY <1>a, EntryOfSearch DEF Trying
<1>r. /\ c.slot \in Slot /\ c.target \in DOMAIN AdaptersIn /\ candidates \subseteq AdaptersIn[c.target]
      /\ ~candidateErr => SlotAdapters(c) \subseteq candidates
    BY <1>a DEF IInv, ResolveInv
<1> PICK a \in candidates : \E o \in do(a, a \in DOMAIN Adapter) :
        \/ o = "ok" /\ InSlot(a, c.slot) /\ Resolved(a)
        \/ /\ ~(o = "ok" /\ InSlot(a, c.slot))
           /\ candidates' = candidates \ {a}
           /\ candidateErr' = (candidateErr \/ o # "ok")
           /\ UNCHANGED <<targets, pc, queue, unreadable, entry, direct, reading>>
    BY DEF ReadCandidate
<1> PICK o \in do(a, a \in DOMAIN Adapter) :
        \/ o = "ok" /\ InSlot(a, c.slot) /\ Resolved(a)
        \/ /\ ~(o = "ok" /\ InSlot(a, c.slot))
           /\ candidates' = candidates \ {a}
           /\ candidateErr' = (candidateErr \/ o # "ok")
           /\ UNCHANGED <<targets, pc, queue, unreadable, entry, direct, reading>>
    OBVIOUS
<1>1. CASE o = "ok" /\ InSlot(a, c.slot) /\ Resolved(a)
  <2>1. a \in SlotAdapters(c)
    BY <1>1, <1>r DEF SlotAdapters, InSlot
  <2>2. a \in TrueAdapters(c)
    BY <2>1, <1>e, <1>r, SlotAdapter
  <2>3. a # None
    BY <2>2, <1>e, AdapterTyped, NoneIsNoAdapter
  <2> QED
    BY <2>2, <2>3, <1>1, <1>a, ResolvedIInv
<1>2. CASE /\ ~(o = "ok" /\ InSlot(a, c.slot))
           /\ candidates' = candidates \ {a}
           /\ candidateErr' = (candidateErr \/ o # "ok")
           /\ UNCHANGED <<targets, pc, queue, unreadable, entry, direct, reading>>
  <2>1. ~candidateErr' => a \notin SlotAdapters(c)
    BY <1>2 DEF SlotAdapters, InSlot
  <2>2. ResolveInv'
    BY <2>1, <1>2, <1>a, <1>r DEF IInv, ResolveInv
  <2>3. candidates' \subseteq STRING /\ direct' \in Outcome /\ candidateErr' \in BOOLEAN
    BY <1>2 DEF IInv, TypeOK, EntryType
  <2> QED
    BY <2>2, <2>3, <1>2, <1>a, ResolvingIInv DEF client
<1> QED
    BY <1>1, <1>2

\* resolveTarget has read the whole collection.
LEMMA NoCandidateIInv == ASSUME IInv, NoCandidate PROVE IInv'
<1> DEFINE c == Component[entry]
<1>a. /\ pc = "candidates" /\ candidates = {}
      /\ UNCHANGED <<manager, integrity, portMACs, call, result, pending, path, flaky>>
      /\ SearchFrame
    BY DEF NoCandidate, SearchFrame
<1>1. CASE NoCandidateDefinitive /\ Resolved(None)
  <2>1. TrueAdapters(c) = {}
    BY <1>1, <1>a DEF IInv, ResolveInv, TrueAdapters, NoCandidateDefinitive
  <2> QED
    BY <2>1, <1>1, <1>a, ResolvedIInv
<1>2. CASE Unresolved
    BY <1>2, <1>a, UnresolvedIInv DEF Trying
<1> QED
    BY <1>1, <1>2 DEF NoCandidate

-----------------------------------------------------------------------------
(* adapterMAC.                                                             *)

\* The entry found is the right one and, if nothing was unreadable, the first.
LEMMA FoundIInv ==
    ASSUME IInv, pc \in {"adapter", "ports"}, NEW s, Found(s),
           Adapter[adapter].ports \in DOMAIN PortsIn,
           s \in TrueMACs(Adapter[adapter].ports), EqualFold(s, call.mac),
           UNCHANGED <<client, pending, flaky>>
    PROVE  IInv'
<1> USE DEF IInv, TypeOK
<1>a. /\ pc' = "idle" /\ queue' = {}
      /\ result' = [kind |-> "found", at |-> entry, adapter |-> adapter, mac |-> s]
      /\ UNCHANGED <<client, call, path, pending, unreadable, flaky>>
    BY DEF Found, Return
<1>b. /\ entry' = None /\ direct' = "ok" /\ candidates' = {} /\ candidateErr' = FALSE
      /\ adapter' = None /\ ports' = {} /\ macs' = {} /\ portErr' = FALSE
    BY DEF Found, LeaveEntry
<1>c. /\ result'.kind = "found" /\ result'.at = entry
      /\ result'.adapter = adapter /\ result'.mac = s
    BY <1>a
<1>e. /\ entry \in DOMAIN Component /\ entry \in Searchable(integrity.members)
      /\ entry \in MeasuredFirst(queue) /\ pc \in Searching
    BY EntryOfSearch DEF ControlInv, Trying, Searching
<1>f. adapter \in TrueAdapters(Component[entry])
    BY DEF ResolveInv
<1>1. ClientType'
    BY ClientKept
<1>2. EntryType'
    BY <1>b DEF EntryType, Outcome
<1>3. CallType'
    BY <1>a, <1>c DEF CallType, PCs, Kinds
<1>4. NothingLost' /\ CachesTruthful'
    BY <1>a DEF NothingLost, CachesTruthful, client
<1>5. ControlInv'
    BY <1>a, <1>b DEF ControlInv, client, Searching, Trying
<1>6. SearchInv' /\ ResolveInv' /\ PortsInv'
    BY <1>a DEF SearchInv, ResolveInv, PortsInv, Searching, Trying
<1>7. FoundIsRight'
  <2>1. Carries(Component[entry], call.mac)
    BY <1>e, <1>f DEF Carries, Searchable
  <2> QED
    BY <2>1, <1>a, <1>c, <1>f DEF FoundIsRight
<1>8. MeasuredPreferred'
  <2> SUFFICES ASSUME ~Component[entry].measured, ~unreadable,
                      NEW i \in DOMAIN Component, Component[i].measured,
                      Carries(Component[i], call.mac)
               PROVE  FALSE
    BY <1>a, <1>c DEF MeasuredPreferred
  <2>1. i \in Searchable(integrity.members)
    BY <1>e, AllRead DEF Searchable, Carries
  <2>2. i \notin queue
    BY <1>e DEF MeasuredFirst
  <2> QED
    BY <2>1, <2>2, <1>e DEF SearchInv
<1>9. NoFalseMiss'
    BY <1>c DEF NoFalseMiss
<1> QED
    BY <1>1, <1>2, <1>3, <1>4, <1>5, <1>6, <1>7, <1>8, <1>9 DEF Answers

\* A step that only reads ports.
LEMMA ReadingIInv ==
    ASSUME IInv, pc \in {"adapter", "ports"}, pc' = "ports",
           UNCHANGED <<client, call, result, pending, path, flaky, queue, unreadable,
                       resolving, adapter>>,
           ports' \subseteq STRING, macs' \subseteq Spelling, portErr' \in BOOLEAN, PortsInv'
    PROVE  IInv'
<1> USE DEF IInv, TypeOK
<1>1. ClientType'
    BY ClientKept
<1>2. EntryType'
    BY DEF EntryType, resolving
<1>3. CallType'
    BY DEF CallType, PCs
<1>4. NothingLost' /\ CachesTruthful'
    BY DEF NothingLost, CachesTruthful, client
<1>5. ControlInv'
    BY DEF ControlInv, client, resolving, Searching, Trying
<1>6. SearchInv'
    BY DEF SearchInv, client, Searching, Trying
<1>7. ResolveInv'
    BY DEF ResolveInv, resolving
<1>8. Answers'
    BY DEF Answers, NoFalseMiss, FoundIsRight, MeasuredPreferred, ControlInv
<1> QED
    BY <1>1, <1>2, <1>3, <1>4, <1>5, <1>6, <1>7, <1>8

\* adapterMAC looks into its cache or lists the ports.
LEMMA ListPortsIInv == ASSUME IInv, ListPorts PROVE IInv'
<1> DEFINE p == Adapter[adapter].ports
<1>a. pc = "adapter" /\ UNCHANGED <<client, pending, flaky>>
    BY DEF ListPorts
<1>e. entry \in DOMAIN Component /\ adapter \in TrueAdapters(Component[entry])
    BY <1>a, EntryOfSearch DEF IInv, ResolveInv, Trying
<1>k. p \in DOMAIN portMACs => p \in DOMAIN PortsIn /\ portMACs[p] = TrueMACs(p)
    BY DEF IInv, TypeOK, ClientType, CachesTruthful
<1>1. ASSUME p \in DOMAIN portMACs, NEW s \in matchMAC(portMACs[p], call.mac), Found(s)
      PROVE  IInv'
    BY <1>1, <1>a, <1>k, FoundIInv DEF matchMAC
<1>g. ASSUME NEW bad \in BOOLEAN, Continue(bad), bad \/ ~Carries(Component[entry], call.mac),
             UNCHANGED <<call, result, path>>
      PROVE  IInv'
  <2>1. ClientType' /\ CachesTruthful'
    BY <1>a, ClientKept DEF IInv, TypeOK, CachesTruthful, client
  <2> QED
    BY <2>1, <1>g, <1>a, ContinueIInv DEF SearchFrame, Trying, client
<1>2. CASE /\ p \in DOMAIN portMACs /\ matchMAC(portMACs[p], call.mac) = {}
           /\ Continue(FALSE) /\ UNCHANGED <<call, result, path>>
  <2>1. ~Carries(Component[entry], call.mac)
    BY <1>2, <1>e, <1>k, NotCarried DEF matchMAC
  <2> QED
    BY <2>1, <1>2, <1>g
<1>3. CASE Continue(TRUE) /\ UNCHANGED <<call, result, path>>
    BY <1>3, <1>g
<1>4. CASE /\ p \in DOMAIN PortsIn
           /\ pc' = "ports" /\ ports' = PortsIn[p]
           /\ UNCHANGED <<queue, unreadable, resolving, adapter, macs, portErr>>
           /\ UNCHANGED <<call, result, path>>
  <2>1. macs = {} /\ portErr = FALSE
    BY <1>a DEF IInv, ControlInv, TypeOK, EntryType
  <2>2. PortsInv'
    BY <2>1, <1>4 DEF PortsInv, TrueMACs, matchMAC
  <2>3. ports' \subseteq STRING
    BY <1>4, WorldTypes
  <2> QED
    BY <2>1, <2>2, <2>3, <1>4, <1>a, ReadingIInv
<1>5. ASSUME NEW o \in do(p, p \in DOMAIN PortsIn), o = "ok" PROVE p \in DOMAIN PortsIn
    BY <1>5 DEF do
<1> QED
    BY <1>1, <1>2, <1>3, <1>4, <1>5 DEF ListPorts

\* adapterMAC reads a port.
LEMMA ReadPortIInv == ASSUME IInv, ReadPort PROVE IInv'
<1> DEFINE A == Adapter[adapter].ports
<1> DEFINE now(p, o) == IF o = "ok" THEN macs \cup {TrimSpace(s) : s \in PortMACs[p]} ELSE macs
<1>a. pc = "ports" /\ UNCHANGED <<client, pending, flaky>>
    BY DEF ReadPort
<1>p. PortsInv /\ A \in DOMAIN PortsIn /\ ports \subseteq PortsIn[A] /\ macs \subseteq TrueMACs(A)
      /\ (~portErr => TrueMACs(A) \subseteq macs \cup MACsOf(ports)) /\ matchMAC(macs, call.mac) = {}
    BY <1>a DEF IInv, PortsInv
<1> PICK p \in ports : \E o \in do(p, p \in DOMAIN PortMACs) :
        \/ o = "ok" /\ \E s \in matchMAC(now(p, o), call.mac) : Found(s)
        \/ /\ o # "ok" \/ matchMAC(now(p, o), call.mac) = {}
           /\ ports' = ports \ {p} /\ macs' = now(p, o) /\ portErr' = (portErr \/ o # "ok")
           /\ UNCHANGED <<pc, call, result, path, queue, unreadable, resolving, adapter>>
    BY DEF ReadPort
<1> PICK o \in do(p, p \in DOMAIN PortMACs) :
        \/ o = "ok" /\ \E s \in matchMAC(now(p, o), call.mac) : Found(s)
        \/ /\ o # "ok" \/ matchMAC(now(p, o), call.mac) = {}
           /\ ports' = ports \ {p} /\ macs' = now(p, o) /\ portErr' = (portErr \/ o # "ok")
           /\ UNCHANGED <<pc, call, result, path, queue, unreadable, resolving, adapter>>
    OBVIOUS
<1>o. o = "ok" => p \in DOMAIN PortMACs
    BY DEF do
<1>n. now(p, o) \subseteq TrueMACs(A)
  <2>1. o = "ok" => {TrimSpace(s) : s \in PortMACs[p]} \subseteq MACsOf(PortsIn[A])
    BY <1>o, <1>p, MACsSplit
  <2> QED
    BY <2>1, <1>p DEF TrueMACs
<1>1. ASSUME NEW s \in matchMAC(now(p, o), call.mac), Found(s) PROVE IInv'
  <2>1. s \in TrueMACs(A) /\ EqualFold(s, call.mac)
    BY <1>n DEF matchMAC
  <2> QED
    BY <2>1, <1>1, <1>a, <1>p, FoundIInv
<1>2. CASE /\ o # "ok" \/ matchMAC(now(p, o), call.mac) = {}
           /\ ports' = ports \ {p} /\ macs' = now(p, o) /\ portErr' = (portErr \/ o # "ok")
           /\ UNCHANGED <<pc, call, result, path, queue, unreadable, resolving, adapter>>
  <2>1. matchMAC(macs', call.mac) = {}
    BY <1>2, <1>p
  <2>2. ~portErr' => TrueMACs(A) \subseteq macs' \cup MACsOf(ports')
    BY <1>2, <1>o, <1>p, MACsSplit
  <2>3. PortsInv'
    BY <2>1, <2>2, <1>2, <1>n, <1>p DEF PortsInv
  <2>4. macs' \subseteq Spelling
    BY <1>2, <1>n, MACsTyped DEF TrueMACs
  <2>5. ports' \subseteq STRING /\ portErr' \in BOOLEAN
    BY <1>2 DEF IInv, TypeOK, EntryType
  <2> QED
    BY <2>3, <2>4, <2>5, <1>2, <1>a, ReadingIInv
<1> QED
    BY <1>1, <1>2

\* adapterMAC has read every port without a match.
LEMMA KeepPortMACsIInv == ASSUME IInv, KeepPortMACs PROVE IInv'
<1> DEFINE A == Adapter[adapter].ports
<1>a. /\ pc = "ports" /\ ports = {} /\ Continue(portErr) /\ SearchFrame
      /\ UNCHANGED <<manager, integrity, targets, result, path>>
      /\ portMACs' = IF portErr THEN portMACs
                     ELSE [k \in DOMAIN portMACs \cup {A} |-> IF k = A THEN macs ELSE portMACs[k]]
    BY DEF KeepPortMACs, SearchFrame
<1>e. entry \in DOMAIN Component /\ adapter \in TrueAdapters(Component[entry])
    BY <1>a, EntryOfSearch DEF IInv, ResolveInv, Trying
<1>p. A \in DOMAIN PortsIn /\ matchMAC(macs, call.mac) = {} /\ (~portErr => macs = TrueMACs(A))
    BY <1>a, MACsEmpty DEF IInv, PortsInv
<1>b. portErr \in BOOLEAN /\ macs \subseteq Spelling
    BY DEF IInv, TypeOK, EntryType
<1>c. portErr \/ ~Carries(Component[entry], call.mac)
    BY <1>e, <1>p, NotCarried DEF matchMAC
<1>d. /\ ClientType
      /\ portMACs \in [DOMAIN portMACs -> SUBSET Spelling] /\ DOMAIN portMACs \subseteq DOMAIN PortsIn
      /\ CachesTruthful
    BY DEF IInv, TypeOK, ClientType
<1>1. /\ portMACs' \in [DOMAIN portMACs' -> SUBSET Spelling]
      /\ DOMAIN portMACs' \subseteq DOMAIN PortsIn
      /\ \A k \in DOMAIN portMACs' : portMACs'[k] = TrueMACs(k)
  <2>1. CASE portErr
    BY <2>1, <1>a, <1>d DEF CachesTruthful
  <2>2. CASE ~portErr
    <3>1. portMACs' = [k \in DOMAIN portMACs \cup {A} |-> IF k = A THEN macs ELSE portMACs[k]]
      BY <2>2, <1>a
    <3>2. \A k \in DOMAIN portMACs' : portMACs'[k] = TrueMACs(k)
      BY <3>1, <2>2, <1>p, <1>d DEF CachesTruthful
    <3>3. DOMAIN portMACs' \subseteq DOMAIN PortsIn
      BY <3>1, <1>p, <1>d
    <3>4. portMACs' \in [DOMAIN portMACs' -> SUBSET Spelling]
      BY <3>1, <1>b, <1>d
    <3> QED
      BY <3>2, <3>3, <3>4
  <2> QED
    BY <2>1, <2>2
<1>2. ClientType' /\ CachesTruthful'
    BY <1>1, <1>a, <1>d DEF ClientType, CachesTruthful
<1> QED
    BY <1>2, <1>a, <1>b, <1>c, ContinueIInv DEF Trying

-----------------------------------------------------------------------------
(* The invariant holds of every behaviour.                                 *)

\* Every step of the client and of the BMC keeps the invariant.
LEMMA NextIInv == IInv /\ [Next]_vars => IInv'
<1> SUFFICES ASSUME IInv, [Next]_vars PROVE IInv'
    OBVIOUS
<1>1. ASSUME NEW op \in Op \ {"ComponentIntegrityFor"}, Call(op, None) PROVE IInv'
    BY <1>1, CallIInv
<1>2. ASSUME NEW m \in MAC, Call("ComponentIntegrityFor", HostMAC(m)) PROVE IInv'
  <2>1. HostMAC(m) \in Spelling
    BY DEF HostMAC, Spelling
  <2>2. "ComponentIntegrityFor" \in Op
    BY DEF Op
  <2> QED
    BY <2>1, <2>2, <1>2, CallIInv
<1>3. CASE Step
    BY <1>3, ManagerPathIInv, PlainIInv, ListMembersIInv, ReadMemberIInv, BeginSearchIInv,
       TryEntryIInv, MissIInv, ReadTargetIInv, ListAdaptersIInv, ReadCandidateIInv,
       NoCandidateIInv, ListPortsIInv, ReadPortIInv, KeepPortMACsIInv DEF Step
<1>4. CASE Recover
    BY <1>4, RecoverIInv
<1>5. CASE UNCHANGED vars
  <2> USE DEF IInv, TypeOK
  <2>a. UNCHANGED <<client, pc, call, result, pending, queue, unreadable, resolving, reading, path, flaky>>
    BY <1>5 DEF vars
  <2>1. CallType' /\ ClientType' /\ EntryType'
    BY <2>a, ClientKept, EntryKept DEF CallType
  <2>2. NothingLost' /\ CachesTruthful'
    BY <2>a DEF NothingLost, CachesTruthful, client
  <2>3. ControlInv' /\ SearchInv'
    BY <2>a DEF ControlInv, SearchInv, client, resolving, reading
  <2>4. ResolveInv' /\ PortsInv'
    BY <2>a DEF ResolveInv, PortsInv, resolving, reading
  <2>5. Answers'
    BY <2>a DEF Answers, NoFalseMiss, FoundIsRight, MeasuredPreferred
  <2> QED
    BY <2>1, <2>2, <2>3, <2>4, <2>5
<1> QED
    BY <1>1, <1>2, <1>3, <1>4, <1>5 DEF Next

\* The invariant holds in every state of every behaviour.
LEMMA Inductive == Spec => []IInv
BY InitIInv, NextIInv, PTL DEF Spec

-----------------------------------------------------------------------------
(* The manager, its certificates and its TPM.  The answers of IDevIDChain  *)
(* and TPMSignedMeasurements rest on a second invariant, which takes the   *)
(* first for granted.                                                      *)

\* The actions that quote the TPM of a manager.
OwnTPMs ==
    {i \in DOMAIN Component :
        /\ Component[i].type = "TPM" /\ Component[i].action # None
        /\ \E m \in Managers : TrimSlash(Component[i].target) = TrimSlash(m)}

\* A manager that has been resolved is the BMC's only one, and no method goes
\* on without it.
ManagerInv ==
    /\ manager # None => \E m \in Managers : Managers = {m} /\ manager = TrimSlash(m)
    /\ pc \in {"list", "members"} /\ call.op = "TPMSignedMeasurements" => manager # None

\* IDevIDChain: where it reads the certificate says what the manager lists.
CertificateInv ==
    /\ pc = "certificate" => path \in TrueIDevIDs(call.certs)
    /\ pc = "oem certificate" => path = OEMCert[manager] /\ TrueIDevIDs(call.certs) = {}

ManagedInv == ManagerInv /\ CertificateInv /\ OwnTPMOnly /\ NoFalseIDevIDMiss

\* What the two answers say, with the sets they are about.
LEMMA AnswersAbout ==
    /\ OwnTPMOnly <=>
        /\ pc = "post" \/ result.kind = "signed" => path \in {Component[i].action : i \in OwnTPMs}
        /\ result.kind = "no quote support" => OwnTPMs = {} /\ Listed \subseteq DOMAIN Component
    /\ NoFalseIDevIDMiss <=>
        /\ result.kind = "no IDevID" =>
            /\ TrueIDevIDs(call.certs) = {}
            /\ OEMCert[manager] \notin call.certs.pem \cup call.certs.notPEM
        /\ result.kind = "chain" =>
            /\ result.at \in IF TrueIDevIDs(call.certs) # {} THEN TrueIDevIDs(call.certs)
                             ELSE {OEMCert[manager]}
            /\ result.at \in call.certs.pem
BY DEF OwnTPMOnly, NoFalseIDevIDMiss, OwnTPMs

\* The same in the state after a step.
LEMMA AnswersAboutNext ==
    /\ OwnTPMOnly' <=>
        /\ pc' = "post" \/ result'.kind = "signed" => path' \in {Component[i].action : i \in OwnTPMs}
        /\ result'.kind = "no quote support" => OwnTPMs = {} /\ Listed \subseteq DOMAIN Component
    /\ NoFalseIDevIDMiss' <=>
        /\ result'.kind = "no IDevID" =>
            /\ TrueIDevIDs(call'.certs) = {}
            /\ OEMCert[manager'] \notin call'.certs.pem \cup call'.certs.notPEM
        /\ result'.kind = "chain" =>
            /\ result'.at \in IF TrueIDevIDs(call'.certs) # {} THEN TrueIDevIDs(call'.certs)
                             ELSE {OEMCert[manager']}
            /\ result'.at \in call'.certs.pem
BY DEF OwnTPMOnly, NoFalseIDevIDMiss, OwnTPMs

\* The fields of what a call returns.
LEMMA ResultFields ==
    ASSUME NEW kind, NEW at
    PROVE  ResultAt(kind, at).kind = kind /\ ResultAt(kind, at).at = at
BY DEF ResultAt

\* A new client has resolved nothing and answered nothing.
LEMMA InitManaged == Init => ManagedInv
<1> SUFFICES ASSUME Init PROVE ManagedInv
    OBVIOUS
<1>1. manager = None /\ pc = "idle" /\ result.kind = "none"
    BY DEF Init, Result, ResultAt
<1> QED
    BY <1>1, AnswersAbout DEF ManagedInv, ManagerInv, CertificateInv

Answered == {"signed", "no quote support", "no IDevID", "chain"}

\* A step of another method, which leaves the manager alone and gives another
\* answer, keeps the invariant.
LEMMA ElsewhereManaged ==
    ASSUME ManagedInv, UNCHANGED <<manager, call>>,
           pc' \notin {"post", "certificate", "oem certificate"},
           pc' \in {"list", "members"} => pc \in {"list", "members"},
           result'.kind \notin Answered
    PROVE  ManagedInv'
<1>1. ManagerInv' /\ CertificateInv'
    BY DEF ManagedInv, ManagerInv, CertificateInv
<1> QED
    BY <1>1, AnswersAboutNext DEF ManagedInv, Answered

\* A call begins: it has given no answer yet, and goes on without the manager
\* only to resolve it.
LEMMA CallManaged ==
    ASSUME IInv, ManagedInv, NEW op \in Op, NEW mac, Call(op, mac)
    PROVE  ManagedInv'
<1>1. /\ UNCHANGED manager /\ call'.op = op /\ result' = Result("none")
      /\ pc' \in {"systems", "managers", "resource", "certificates", "list", "members"}
    BY DEF Call, WithManager, Snapshot
<1>2. pc' \in {"list", "members"} /\ op = "TPMSignedMeasurements" => manager # None
    BY DEF Call, WithManager, Snapshot
<1>3. result'.kind = "none"
    BY <1>1 DEF Result, ResultAt
<1>4. ManagerInv' /\ CertificateInv'
    BY <1>1, <1>2, <1>3 DEF ManagedInv, ManagerInv, CertificateInv
<1> QED
    BY <1>1, <1>3, <1>4, AnswersAboutNext DEF ManagedInv

\* managerPath resolves the manager only if the BMC has one.
LEMMA ManagerPathManaged == ASSUME IInv, ManagedInv, ManagerPath PROVE ManagedInv'
<1>1. pc = "managers" /\ result.kind = "none"
    BY DEF ManagerPath, IInv, ControlInv
<1>2. CASE Return(Result("error")) /\ UNCHANGED manager
  <2>1. pc' = "idle" /\ result'.kind = "error" /\ UNCHANGED call
    BY <1>2 DEF Return, Result, ResultAt
  <2> QED
    BY <2>1, <1>2, ElsewhereManaged DEF Answered
<1>3. ASSUME NEW m \in Managers, firstMember(Managers, m), manager' = TrimSlash(m),
             WithManager(call.op, TrimSlash(m)), UNCHANGED <<call, result>>
      PROVE  ManagedInv'
  <2>1. manager' # None
    BY <1>3, TrimSlashTyped, WorldTypes
  <2>2. pc' \in {"resource", "certificates", "list", "members"}
    BY <1>3 DEF WithManager, Snapshot
  <2>3. ManagerInv' /\ CertificateInv'
    BY <2>1, <2>2, <1>3 DEF ManagerInv, CertificateInv, firstMember
  <2> QED
    BY <2>2, <2>3, <1>1, <1>3, AnswersAboutNext DEF ManagedInv
<1> QED
    BY <1>2, <1>3 DEF ManagerPath

\* idevidPath goes to the OEM path only if the manager lists no IDevID.
LEMMA idevidPathManaged == ASSUME IInv, ManagedInv, idevidPath PROVE ManagedInv'
<1>1. pc = "certificates" /\ result.kind = "none" /\ UNCHANGED <<manager, call>>
    BY DEF idevidPath, IInv, ControlInv, client, Return
<1> PICK o \in do(manager, call.certs.collection) :
        LET named == IF o = "ok" THEN call.certs.members \cap IDevIDNamed ELSE {} IN
        \/ ListingFailed(o) /\ Return(Result("error"))
        \/ /\ ~ListingFailed(o)
           /\ path' \in IF named # {} THEN named ELSE {OEMCert[manager]}
           /\ pc' = IF named # {} THEN "certificate" ELSE "oem certificate"
           /\ UNCHANGED <<call, result>>
    BY DEF idevidPath
<1>2. CASE Return(Result("error"))
  <2>1. pc' = "idle" /\ result'.kind = "error"
    BY <1>2 DEF Return, Result, ResultAt
  <2> QED
    BY <2>1, <1>1, ElsewhereManaged DEF Answered
<1>3. CASE ~Return(Result("error"))
  <2> DEFINE idevids == TrueIDevIDs(call.certs)
  <2>1. (o = "ok" <=> call.certs.collection) /\ UNCHANGED result
    BY <1>3 DEF do, ListingFailed
  <2>2. /\ path' \in IF idevids # {} THEN idevids ELSE {OEMCert[manager]}
        /\ pc' = IF idevids # {} THEN "certificate" ELSE "oem certificate"
    BY <2>1, <1>3 DEF TrueIDevIDs
  <2>3. ManagerInv' /\ CertificateInv'
    BY <2>2, <1>1 DEF ManagedInv, ManagerInv, CertificateInv
  <2> QED
    BY <2>1, <2>2, <2>3, <1>1, AnswersAboutNext DEF ManagedInv
<1> QED
    BY <1>2, <1>3

\* IDevIDChain, its last request: a 404 at the OEM path means that nothing is
\* there, and only a failed request hides what is.
LEMMA IDevIDChainManaged == ASSUME IInv, ManagedInv, IDevIDChain PROVE ManagedInv'
<1>1. /\ pc \in {"certificate", "oem certificate"} /\ pc' = "idle"
      /\ UNCHANGED <<manager, call, path>>
    BY DEF IDevIDChain, client, Return
<1>2. \/ result' = ResultAt("chain", path) /\ path \in call.certs.pem
      \/ result' = ResultAt("error", None)
      \/ /\ result' = ResultAt("no IDevID", None)
         /\ pc = "oem certificate" /\ path \notin call.certs.pem \cup call.certs.notPEM
    BY DEF IDevIDChain, Return, Result, do
<1>3. \/ result'.kind = "chain" /\ result'.at = path /\ path \in call.certs.pem
      \/ result'.kind = "error"
      \/ /\ result'.kind = "no IDevID" /\ pc = "oem certificate"
         /\ path \notin call.certs.pem \cup call.certs.notPEM
  <2>1. ASSUME result' = ResultAt("chain", path)
        PROVE  result'.kind = "chain" /\ result'.at = path
    BY <2>1, ResultFields
  <2>2. ASSUME result' = ResultAt("error", None) PROVE result'.kind = "error"
    BY <2>2, ResultFields
  <2>3. ASSUME result' = ResultAt("no IDevID", None) PROVE result'.kind = "no IDevID"
    BY <2>3, ResultFields
  <2> QED
    BY <1>2, <2>1, <2>2, <2>3
<1>4. ManagerInv' /\ CertificateInv'
    BY <1>1 DEF ManagedInv, ManagerInv, CertificateInv
<1>5. NoFalseIDevIDMiss' /\ OwnTPMOnly'
    BY <1>1, <1>3, AnswersAboutNext DEF ManagedInv, CertificateInv
<1> QED
    BY <1>4, <1>5 DEF ManagedInv

\* The members quoteTarget chooses from are the TPMs of the manager: all of
\* them when every listed member has been read.
LEMMA QuotedAreOwn ==
    ASSUME IInv, ManagerInv, manager # None
    PROVE  QuoteMembers(integrity.members, manager) = OwnTPMs \cap integrity.members
<1> PICK m \in Managers : Managers = {m} /\ manager = TrimSlash(m)
    BY DEF ManagerInv
<1>1. integrity.members \subseteq DOMAIN Component
    BY DEF IInv, TypeOK, ClientType
<1>2. TrimSlash(m) \in STRING /\ TrimSlash(None) = None /\ None \notin STRING
    BY TrimSlashTyped, WorldTypes DEF TrimSlash
<1>3. ASSUME NEW i \in integrity.members
      PROVE  i \in QuoteMembers(integrity.members, manager) <=> i \in OwnTPMs
  <2>1. (\E n \in Managers : TrimSlash(Component[i].target) = TrimSlash(n))
            <=> TrimSlash(Component[i].target) = TrimSlash(m)
    OBVIOUS
  <2> QED
    BY <2>1, <1>1, <1>2 DEF QuoteMembers, OwnTPMs
<1>4. QuoteMembers(integrity.members, manager) \subseteq integrity.members
    BY DEF QuoteMembers
<1> QED
    BY <1>3, <1>4

\* quoteTarget: the action is the one of the BMC's own TPM, and there is none
\* only if every member was read and none offers it.
LEMMA quoteTargetManaged == ASSUME IInv, ManagedInv, quoteTarget PROVE ManagedInv'
<1> DEFINE own == QuoteMembers(integrity.members, manager)
<1>1. /\ pc = "members" /\ pending = {} /\ call.op = "TPMSignedMeasurements"
      /\ result.kind = "none" /\ UNCHANGED <<manager, call>>
    BY DEF quoteTarget, IInv, ControlInv, client, Return
<1>2. own = OwnTPMs \cap integrity.members
    BY <1>1, QuotedAreOwn DEF ManagedInv, ManagerInv
<1>3. CASE /\ own # {} /\ pc' = "post"
           /\ path' \in {Component[i].action : i \in own} /\ UNCHANGED result
  <2>1. ManagerInv' /\ CertificateInv'
    BY <1>1, <1>3 DEF ManagedInv, ManagerInv, CertificateInv
  <2>2. path' \in {Component[i].action : i \in OwnTPMs}
    BY <1>2, <1>3
  <2> QED
    BY <2>1, <2>2, <1>1, <1>3, AnswersAboutNext DEF ManagedInv
<1>4. CASE Return(Result("error"))
  <2>1. pc' = "idle" /\ result'.kind = "error"
    BY <1>4 DEF Return, Result, ResultAt
  <2> QED
    BY <2>1, <1>1, ElsewhereManaged DEF Answered
<1>5. CASE own = {} /\ ~integrity.unreadable /\ Return(Result("no quote support"))
  <2>1. pc' = "idle" /\ result'.kind = "no quote support"
    BY <1>5 DEF Return, Result, ResultAt
  <2>2. integrity.members = Listed /\ Listed \subseteq DOMAIN Component
    BY <1>1, <1>5 DEF IInv, NothingLost, ControlInv, TypeOK, ClientType, Searching
  <2>3. OwnTPMs = {}
    BY <2>2, <1>2, <1>5, WorldTypes DEF OwnTPMs
  <2>4. ManagerInv' /\ CertificateInv'
    BY <2>1, <1>1 DEF ManagedInv, ManagerInv, CertificateInv
  <2> QED
    BY <2>1, <2>2, <2>3, <2>4, <1>1, AnswersAboutNext DEF ManagedInv
<1> QED
    BY <1>3, <1>4, <1>5 DEF quoteTarget

\* The action is posted.
LEMMA PostManaged == ASSUME IInv, ManagedInv, Post PROVE ManagedInv'
<1>1. pc = "post" /\ pc' = "idle" /\ UNCHANGED <<manager, call, path>>
    BY DEF Post, client, Return
<1>2. result'.kind \in {"signed", "error"}
    BY DEF Post, Return, Result, ResultAt
<1>3. ManagerInv' /\ CertificateInv'
    BY <1>1 DEF ManagedInv, ManagerInv, CertificateInv
<1>4. path' \in {Component[i].action : i \in OwnTPMs}
    BY <1>1, AnswersAbout DEF ManagedInv
<1> QED
    BY <1>1, <1>2, <1>3, <1>4, AnswersAboutNext DEF ManagedInv

\* The steps of a lookup, of System and of the reading of the members.
LEMMA OtherManaged ==
    ASSUME IInv, ManagedInv,
           \/ SystemPath \/ Resource \/ ListMembers \/ ReadMember \/ BeginSearch \/ TryEntry
           \/ Miss \/ ReadTarget \/ ListAdapters \/ ReadCandidate \/ NoCandidate
           \/ ListPorts \/ ReadPort \/ KeepPortMACs
    PROVE  ManagedInv'
<1>1. /\ UNCHANGED <<manager, call>> /\ pc # "idle" /\ result.kind = "none"
      /\ pc \notin {"post", "certificate", "oem certificate"}
    BY DEF SystemPath, Resource, ListMembers, ReadMember, BeginSearch, TryEntry, Miss,
           ReadTarget, ListAdapters, ReadCandidate, NoCandidate, ListPorts, ReadPort,
           KeepPortMACs, Return, Found, client, IInv, ControlInv
<1>2. /\ pc' \in {pc, "idle", "resource", "members", "search", "adapter", "target",
                  "collection", "candidates", "ports"}
      /\ pc' = "members" => pc \in {"list", "members"}
    BY DEF SystemPath, Resource, ListMembers, ReadMember, BeginSearch, TryEntry, Miss,
           ReadTarget, ListAdapters, ReadCandidate, NoCandidate, ListPorts, ReadPort,
           KeepPortMACs, Return, Found, Resolved, Unresolved, Continue
<1>3. \/ UNCHANGED result
      \/ \E kind \in {"error", "resource", "miss", "miss, some unreadable"}, at \in {None, path} :
            result' = ResultAt(kind, at)
      \/ \E s : result' = [kind |-> "found", at |-> entry, adapter |-> adapter, mac |-> s]
    BY DEF SystemPath, Resource, ListMembers, ReadMember, BeginSearch, TryEntry, Miss,
           ReadTarget, ListAdapters, ReadCandidate, NoCandidate, ListPorts, ReadPort,
           KeepPortMACs, Return, Found, Result
<1>4. result'.kind \in {"none", "error", "resource", "miss", "miss, some unreadable", "found"}
  <2>1. ASSUME NEW kind \in {"error", "resource", "miss", "miss, some unreadable"},
               NEW at, result' = ResultAt(kind, at)
        PROVE  result'.kind = kind
    BY <2>1, ResultFields
  <2>2. ASSUME NEW s, result' = [kind |-> "found", at |-> entry, adapter |-> adapter, mac |-> s]
        PROVE  result'.kind = "found"
    BY <2>2
  <2> QED
    BY <1>1, <1>3, <2>1, <2>2
<1> QED
    BY <1>1, <1>2, <1>4, ElsewhereManaged DEF Answered

\* Every step keeps the invariant.
LEMMA NextManaged == IInv /\ ManagedInv /\ [Next]_vars => ManagedInv'
<1> SUFFICES ASSUME IInv, ManagedInv, [Next]_vars PROVE ManagedInv'
    OBVIOUS
<1>1. ASSUME NEW op \in Op, NEW mac, Call(op, mac) PROVE ManagedInv'
    BY <1>1, CallManaged
<1>2. CASE Step
    BY <1>2, ManagerPathManaged, idevidPathManaged, IDevIDChainManaged, quoteTargetManaged,
       PostManaged, OtherManaged DEF Step
<1>3. CASE Recover \/ UNCHANGED vars
  <2>1. UNCHANGED <<manager, pc, call, result, path>>
    BY <1>3 DEF Recover, vars, client
  <2>2. ManagerInv' /\ CertificateInv'
    BY <2>1 DEF ManagedInv, ManagerInv, CertificateInv
  <2> QED
    BY <2>1, <2>2, AnswersAbout, AnswersAboutNext DEF ManagedInv
<1>4. "ComponentIntegrityFor" \in Op
    BY DEF Op
<1> QED
    BY <1>1, <1>2, <1>3, <1>4 DEF Next

\* It holds in every state of every behaviour.
LEMMA ManagedInductive == Spec => []ManagedInv
BY InitManaged, NextManaged, Inductive, PTL DEF Spec

-----------------------------------------------------------------------------
(* What the client never forgets.                                          *)

\* componentIntegrities lists the collection only while there is no snapshot.
UnlistedInv ==
    /\ ~integrity.listed => integrity.members = {}
    /\ pc = "list" => ~integrity.listed

\* How a step changes the snapshot.
LEMMA SnapshotSteps ==
    ASSUME IInv, [Next]_vars
    PROVE  \/ /\ UNCHANGED integrity
              /\ pc' = "list" => pc = "list" \/ ~integrity.listed
           \/ /\ integrity'.listed = integrity.listed /\ pc' = "members" /\ integrity.listed
              /\ integrity.members \subseteq integrity'.members
           \/ /\ integrity'.listed /\ pc = "list" /\ pc' = "members"
<1>t. integrity \in [listed : BOOLEAN, members : SUBSET DOMAIN Component,
                     failed : SUBSET Listed, unreadable : BOOLEAN]
    BY DEF IInv, TypeOK, ClientType
<1>s. ASSUME Snapshot
      PROVE  \/ /\ UNCHANGED integrity /\ ~integrity.listed
             \/ /\ integrity'.listed = integrity.listed /\ pc' = "members" /\ integrity.listed
                /\ integrity.members \subseteq integrity'.members
    BY <1>s, <1>t DEF Snapshot
<1>1. ASSUME NEW op, NEW m, WithManager(op, m)
      PROVE  \/ UNCHANGED integrity /\ (pc' = "list" => ~integrity.listed)
             \/ /\ integrity'.listed = integrity.listed /\ pc' = "members" /\ integrity.listed
                /\ integrity.members \subseteq integrity'.members
    BY <1>1, <1>s DEF WithManager
<1>2. ASSUME NEW op, NEW mac, Call(op, mac)
      PROVE  \/ UNCHANGED integrity /\ (pc' = "list" => ~integrity.listed)
             \/ /\ integrity'.listed = integrity.listed /\ pc' = "members" /\ integrity.listed
                /\ integrity.members \subseteq integrity'.members
    BY <1>2, <1>1, <1>s DEF Call
<1>3. CASE ManagerPath
    BY <1>3, <1>1 DEF ManagerPath, Return
<1>4. CASE ListMembers
    BY <1>4 DEF ListMembers, Return, NoSnapshot
<1>5. CASE ReadMember
  <2>1. pc = "members" /\ pc' = "members" /\ integrity.listed
    BY <1>5 DEF ReadMember, IInv, ControlInv, Searching
  <2> PICK id \in pending :
        \/ integrity' = [integrity EXCEPT !.members = @ \cup {id}]
        \/ integrity' = [integrity EXCEPT !.failed = @ \cup {id}, !.unreadable = TRUE]
    BY <1>5 DEF ReadMember
  <2>2. integrity'.listed = integrity.listed /\ integrity.members \subseteq integrity'.members
    BY <1>t
  <2> QED
    BY <2>1, <2>2
<1>6. CASE SystemPath \/ Resource \/ idevidPath \/ IDevIDChain \/ quoteTarget \/ Post
    BY <1>6 DEF SystemPath, Resource, idevidPath, IDevIDChain, quoteTarget, Post, Return, client
<1>7. CASE \/ BeginSearch \/ TryEntry \/ Miss \/ ReadTarget \/ ListAdapters \/ ReadCandidate
           \/ NoCandidate \/ ListPorts \/ ReadPort \/ KeepPortMACs
    BY <1>7 DEF BeginSearch, TryEntry, Miss, ReadTarget, ListAdapters, ReadCandidate, NoCandidate,
           ListPorts, ReadPort, KeepPortMACs, Return, Found, Resolved, Unresolved, Continue, client
<1>8. CASE Recover \/ UNCHANGED vars
    BY <1>8 DEF Recover, vars, client
<1> QED
    BY <1>2, <1>3, <1>4, <1>5, <1>6, <1>7, <1>8 DEF Next, Step

\* The snapshot is listed once.
LEMMA UnlistedInductive == Spec => []UnlistedInv
<1>1. Init => UnlistedInv
    BY DEF Init, UnlistedInv, NoSnapshot
<1>2. IInv /\ UnlistedInv /\ [Next]_vars => UnlistedInv'
    BY SnapshotSteps DEF UnlistedInv
<1> QED
    BY <1>1, <1>2, Inductive, PTL DEF Spec

\* Only managerPath assigns the manager, and never nothing.
LEMMA ManagerSteps ==
    ASSUME [Next]_vars PROVE manager' = manager \/ manager' # None
<1>1. CASE ManagerPath
    BY <1>1, TrimSlashTyped, WorldTypes DEF ManagerPath
<1>2. CASE UNCHANGED manager
    BY <1>2
<1>3. CASE Step /\ ~ManagerPath
    BY <1>3, <1>2 DEF Step, SystemPath, Resource, idevidPath, IDevIDChain, ListMembers,
       ReadMember, BeginSearch, TryEntry, Miss, ReadTarget, ListAdapters, ReadCandidate,
       NoCandidate, ListPorts, ReadPort, KeepPortMACs, quoteTarget, Post, client
<1> QED
    BY <1>1, <1>2, <1>3 DEF Next, Call, Recover, vars, client

\* How a step changes the cache of adapters: an entry under the Id of a component.
LEMMA TargetSteps ==
    ASSUME IInv, [Next]_vars
    PROVE  \/ UNCHANGED targets
           \/ \E i \in DOMAIN Component : \E a :
                /\ Component[i].id # None
                /\ targets' = [k \in DOMAIN targets \cup {Component[i].id} |->
                                  IF k = Component[i].id THEN a ELSE targets[k]]
<1>1. ASSUME NEW a, Resolved(a), pc \in Trying
      PROVE  \/ UNCHANGED targets
             \/ \E i \in DOMAIN Component :
                /\ Component[i].id # None
                /\ targets' = [k \in DOMAIN targets \cup {Component[i].id} |->
                                  IF k = Component[i].id THEN a ELSE targets[k]]
  <2>1. entry \in DOMAIN Component
    BY <1>1, EntryOfSearch
  <2> QED
    BY <1>1, <2>1 DEF Resolved, KeepTarget
<1>2. CASE ReadTarget \/ ReadCandidate \/ NoCandidate \/ ListAdapters
  <2>1. pc \in Trying
    BY <1>2 DEF ReadTarget, ReadCandidate, NoCandidate, ListAdapters, Trying
  <2>2. UNCHANGED targets \/ \E a : Resolved(a)
    BY <1>2 DEF ReadTarget, ReadCandidate, NoCandidate, ListAdapters, Unresolved
  <2> QED
    BY <2>1, <2>2, <1>1
<1>3. CASE UNCHANGED targets
    BY <1>3
<1>4. CASE Step /\ ~(ReadTarget \/ ReadCandidate \/ NoCandidate \/ ListAdapters)
    BY <1>4, <1>3 DEF Step, ManagerPath, SystemPath, Resource, idevidPath, IDevIDChain,
       ListMembers, ReadMember, BeginSearch, TryEntry, Miss, ListPorts, ReadPort, KeepPortMACs,
       quoteTarget, Post, client
<1> QED
    BY <1>2, <1>3, <1>4 DEF Next, Call, Recover, vars, client

\* How a step changes the cache of MACs: it only grows.
LEMMA PortMACSteps ==
    ASSUME [Next]_vars PROVE DOMAIN portMACs \subseteq DOMAIN portMACs'
<1>1. CASE KeepPortMACs
    BY <1>1 DEF KeepPortMACs
<1>2. CASE UNCHANGED portMACs
    BY <1>2
<1>3. CASE Step /\ ~KeepPortMACs
    BY <1>3, <1>2 DEF Step, ManagerPath, SystemPath, Resource, idevidPath, IDevIDChain,
       ListMembers, ReadMember, BeginSearch, TryEntry, Miss, ReadTarget, ListAdapters,
       ReadCandidate, NoCandidate, ListPorts, ReadPort, quoteTarget, Post, client
<1> QED
    BY <1>1, <1>2, <1>3 DEF Next, Call, Recover, vars, client

\* What is true of the BMC in both states cannot have changed between them.
LEMMA NothingForgotten ==
    ASSUME IInv, IInv', ManagedInv, ManagedInv', UnlistedInv, [Next]_vars
    PROVE  /\ manager # None => manager' = manager
           /\ integrity.members \subseteq integrity'.members
           /\ \A k \in DOMAIN targets : k \in DOMAIN targets' /\ targets'[k] = targets[k]
           /\ \A k \in DOMAIN portMACs : k \in DOMAIN portMACs' /\ portMACs'[k] = portMACs[k]
<1>1. manager # None => manager' = manager
    BY ManagerSteps DEF ManagedInv, ManagerInv
<1>2. integrity.members \subseteq integrity'.members
    BY SnapshotSteps DEF UnlistedInv
<1>3. ASSUME NEW k \in DOMAIN targets
      PROVE  k \in DOMAIN targets' /\ targets'[k] = targets[k]
  <2>1. CASE UNCHANGED targets
    BY <2>1
  <2>2. ASSUME NEW i \in DOMAIN Component, NEW a, Component[i].id # None,
               targets' = [j \in DOMAIN targets \cup {Component[i].id} |->
                              IF j = Component[i].id THEN a ELSE targets[j]]
        PROVE  k \in DOMAIN targets' /\ targets'[k] = targets[k]
    <3>1. k \in DOMAIN targets' /\ (k # Component[i].id => targets'[k] = targets[k])
      BY <2>2
    <3>2. CASE k = Component[i].id
      <4>1. IF targets[k] = None THEN TrueAdapters(Component[i]) = {}
            ELSE targets[k] \in TrueAdapters(Component[i])
        BY <3>2 DEF IInv, CachesTruthful
      <4>2. IF targets'[k] = None THEN TrueAdapters(Component[i]) = {}
            ELSE targets'[k] \in TrueAdapters(Component[i])
        BY <3>1, <3>2 DEF IInv, CachesTruthful
      <4> QED
        BY <3>1, <4>1, <4>2, OneAdapter
    <3> QED
      BY <3>1, <3>2
  <2> QED
    BY <2>1, <2>2, TargetSteps
<1>4. ASSUME NEW k \in DOMAIN portMACs
      PROVE  k \in DOMAIN portMACs' /\ portMACs'[k] = portMACs[k]
  <2>1. k \in DOMAIN portMACs'
    BY PortMACSteps
  <2> QED
    BY <2>1 DEF IInv, CachesTruthful
<1> QED
    BY <1>1, <1>2, <1>3, <1>4

-----------------------------------------------------------------------------
(* The theorems.                                                           *)

\* The client's fields and the locals of its calls keep their types.
THEOREM TypeCorrect == Spec => []TypeOK
<1>1. IInv => TypeOK
    BY DEF IInv
<1> QED
    BY <1>1, Inductive, PTL

\* componentIntegrities loses no listed member, whichever reads fail.
THEOREM MembersKept == Spec => []NothingLost
<1>1. IInv => NothingLost
    BY DEF IInv
<1> QED
    BY <1>1, Inductive, PTL

\* targetAdapter and adapterMAC cache only what is true of the BMC.
THEOREM CachesAreTruthful == Spec => []CachesTruthful
<1>1. IInv => CachesTruthful
    BY DEF IInv
<1> QED
    BY <1>1, Inductive, PTL

\* A definitive miss of ComponentIntegrityFor is the truth about the BMC.
THEOREM MissIsDefinitive == Spec => []NoFalseMiss
<1>1. IInv => NoFalseMiss
    BY DEF IInv, Answers
<1> QED
    BY <1>1, Inductive, PTL

\* The component ComponentIntegrityFor returns carries the MAC it was asked for.
THEOREM FoundIsTheDevice == Spec => []FoundIsRight
<1>1. IInv => FoundIsRight
    BY DEF IInv, Answers
<1> QED
    BY <1>1, Inductive, PTL

\* ComponentIntegrityFor prefers the entry with measurements.
THEOREM MeasuredIsPreferred == Spec => []MeasuredPreferred
<1>1. IInv => MeasuredPreferred
    BY DEF IInv, Answers
<1> QED
    BY <1>1, Inductive, PTL

\* TPMSignedMeasurements posts only the action of the BMC's own TPM, and says
\* that there is none only if no listed member offers one.
THEOREM OwnTPMQuoted == Spec => []OwnTPMOnly
<1>1. ManagedInv => OwnTPMOnly
    BY DEF ManagedInv
<1> QED
    BY <1>1, ManagedInductive, PTL

\* IDevIDChain says that there is no IDevID only if the BMC holds none, and
\* returns the one the manager lists if it lists one.
THEOREM NoIDevIDIsDefinitive == Spec => []NoFalseIDevIDMiss
<1>1. ManagedInv => NoFalseIDevIDMiss
    BY DEF ManagedInv
<1> QED
    BY <1>1, ManagedInductive, PTL

\* What the client has resolved it never forgets nor changes.  The caches are
\* truthful before and after the step, and the BMC has one truth.
THEOREM ResolvedForGood == Spec => NeverForgets
<1> DEFINE A == /\ manager # None => manager' = manager
                /\ integrity.members \subseteq integrity'.members
                /\ \A k \in DOMAIN targets : k \in DOMAIN targets' /\ targets'[k] = targets[k]
                /\ \A k \in DOMAIN portMACs : k \in DOMAIN portMACs' /\ portMACs'[k] = portMACs[k]
<1>1. IInv /\ ManagedInv /\ UnlistedInv /\ [Next]_vars => [A]_<<client>>
    BY NextIInv, NextManaged, NothingForgotten
<1>2. Spec => [][A]_<<client>>
    BY <1>1, Inductive, ManagedInductive, UnlistedInductive, PTL DEF Spec
<1> QED
    BY <1>2 DEF NeverForgets

=============================================================================
