----------------------------- MODULE IommuProofs -----------------------------
(***************************************************************************)
(* The safety of FindPassthroughNICs, for any number of netdevs and PCI    *)
(* functions, on a host that changes meanwhile.                            *)
(***************************************************************************)
EXTENDS IommuNics, WellFoundedInduction, TLAPS

Trying == {"stat", "perm", "second"}
Listing == {"link", "name"}

NIC == [iface : Netdevs, bdf : Functions, mac : [of : Netdevs \cup {None}], forced : BOOLEAN]
Doubt == [iface : Netdevs, bdf : Functions \cup {None}]

Types ==
    /\ netdev \in [Netdevs -> Profile] /\ domain \in [Functions -> Domain]
    /\ gone \subseteq Netdevs /\ joined \subseteq Netdevs
    /\ forced \in Netdevs \cup {None}
    /\ pc \in {"link", "name", "report", "stat", "perm", "second", "done"}
    /\ unread \subseteq Netdevs
    /\ ports \in [Functions -> SUBSET Netdevs] /\ representors \in [Functions -> SUBSET Netdevs]
    /\ functions \subseteq Functions
    /\ exposed \in BOOLEAN /\ enslaved \in BOOLEAN
    /\ candidates \subseteq Netdevs
    /\ NICs \in Seq(NIC) /\ Undetermined \in Seq(Doubt)

\* The netdevs collected under a function sit on it; a representor among its
\* ports is one whose name could not be read, since it went away or for another
\* reason.
CollectedInv ==
    /\ \A f \in Functions : \A n \in netdevs(f) : netdev[n].link = f
    /\ \A f \in Functions : \A n \in ports[f] : n \in gone \/ (netdev[n].representor => ~netdev[n].named)
    /\ \A f \in functions : netdevs(f) # {}

Named(n) == \E k \in DOMAIN Undetermined : Undetermined[k] = [iface |-> n, bdf |-> None]

\* An entry that has been looked at is collected, reported, gone or no PCI
\* device.
ListedInv ==
    /\ \A n \in Netdevs \ (unread \cup gone) :
        /\ netdev[n].link \in Functions => n \in netdevs(netdev[n].link)
        /\ netdev[n].link = "unreadable" => Named(n)
    /\ pc = "name" => current \in unread /\ netdev[current].link \in Functions
    /\ pc \in Listing =>
        /\ \A f \in Functions : netdevs(f) # {} => f \in functions
        /\ NICs = << >>
        /\ \A k \in DOMAIN Undetermined : Undetermined[k].bdf = None
    /\ pc \notin Listing => unread = {}
    /\ pc = "done" => functions = {}

\* The keys in use are those of the entries, and no two entries have the same.
KeyOf(k) == key(Undetermined[k].iface, Undetermined[k].bdf)

KeysInv ==
    /\ \A k \in DOMAIN Undetermined : KeyOf(k) \in reported
    /\ \A x \in reported : \E k \in DOMAIN Undetermined : KeyOf(k) = x
    /\ \A j, k \in DOMAIN Undetermined : KeyOf(j) = KeyOf(k) => j = k

\* What a function whose state is known, or not, has been reported as.
Settled(f) ==
    /\ domain[f] = "identity" => InNICs(f) \/ InUndetermined(f)
    /\ domain[f] \notin {"identity", "translated"} => InUndetermined(f)

\* A function still to be reported has no verdict, one that has been has its.
VerdictInv ==
    /\ \A f \in functions : ~InNICs(f) /\ ~InUndetermined(f)
    /\ \A f \in Functions :
        netdevs(f) # {} /\ f \notin functions /\ ~(pc \in Trying /\ f = fn) => Settled(f)

\* While a MAC is looked for.
TryingInv ==
    pc \in Trying =>
        /\ fn \in Functions \ functions
        /\ current \in candidates /\ candidates \subseteq ports[fn]
        /\ ~InNICs(fn)
        /\ exposed => domain[fn] = "identity" /\ ~InUndetermined(fn)
        /\ ~exposed => forced \in netdevs(fn) /\ (InUndetermined(fn) \/ domain[fn] # "identity")
        /\ domain[fn] \notin {"identity", "translated"} => InUndetermined(fn)
        /\ pc # "stat" /\ ~enslaved =>
            current \in gone \/ current \in joined \/ netdev[current].bond = "no"

\* A NIC that has been reported.
NICInv ==
    /\ \A j, k \in DOMAIN NICs : NICs[j].bdf = NICs[k].bdf => j = k
    /\ \A k \in DOMAIN NICs :
        /\ IF domain[NICs[k].bdf] = "identity" /\ ~InUndetermined(NICs[k].bdf) THEN ~NICs[k].forced
           ELSE NICs[k].forced /\ forced \in netdevs(NICs[k].bdf)
        /\ NICs[k].mac = Own(NICs[k].iface) \/ (NICs[k].mac = BondMAC /\ NICs[k].iface \in joined)
        /\ NICs[k].iface \in ports[NICs[k].bdf]
        /\ netdev[NICs[k].iface].representor => ~netdev[NICs[k].iface].named

IInv ==
    /\ Types
    /\ CollectedInv
    /\ ListedInv
    /\ KeysInv
    /\ VerdictInv
    /\ TryingInv
    /\ NICInv

-----------------------------------------------------------------------------
(* The operators of the model                                              *)

\* A set of numbers that has a member has a least one.
LEMMA MinOf ==
    ASSUME NEW S, S \subseteq Nat, S # {}
    PROVE  Min(S) \in S /\ \A y \in S : Min(S) <= y
<1> DEFINE R == OpToRel(<, Nat)
<1>1. ASSUME NEW x \in Nat, NEW y \in Nat, y < x PROVE <<y, x>> \in R
  BY <1>1, Zenon DEF OpToRel
<1>2. IsWellFoundedOn(R, Nat)
  BY NatLessThanWellFounded, Zenon
<1> HIDE DEF R
<1>3. PICK x \in S : \A y \in S : ~(<<y, x>> \in R)
  BY <1>2, WFMin
<1>4. \A y \in S : ~(y < x)
  BY <1>1, <1>3
<1>5. \A y \in S : x <= y
  BY <1>4
<1> QED  BY <1>5 DEF Min

\* The first netdev of a set is one of it.
LEMMA FirstOf == ASSUME NEW S, S \subseteq Netdevs, S # {} PROVE Min(S) \in S
BY MinOf, HostTypes

\* The forced port, or the first one.
LEMMA CandidateOf == ASSUME NEW C, C \subseteq Netdevs, C # {} PROVE FirstCandidate(C) \in C
BY FirstOf DEF FirstCandidate

\* The netdev that stands for a function.
LEMMA FirstNetdevOf ==
    ASSUME Types, NEW f \in Functions, netdevs(f) # {}
    PROVE  FirstNetdev(f) \in netdevs(f) /\ FirstNetdev(f) \in Netdevs
<1> DEFINE S == IF ports[f] # {} THEN ports[f] ELSE representors[f]
<1>1. S \subseteq Netdevs /\ S # {} /\ S \subseteq netdevs(f)
  BY DEF Types, netdevs
<1>2. FirstNetdev(f) = Min(S)
  BY DEF FirstNetdev
<1> HIDE DEF S
<1> QED  BY <1>1, <1>2, FirstOf

\* There is a next function as long as there are functions.
LEMMA NextFunctionOf ==
    ASSUME Types, CollectedInv, functions # {}
    PROVE  NextFunction(functions) \in functions
<1> DEFINE First(f) == Min(netdevs(f))
           Firsts == {First(f) : f \in functions}
<1>1. ASSUME NEW f \in functions PROVE First(f) \in Nat
  <2>1. netdevs(f) # {} /\ netdevs(f) \subseteq Netdevs
    BY DEF Types, CollectedInv, netdevs
  <2> QED  BY <2>1, FirstOf, HostTypes
<1>2. Firsts \subseteq Nat /\ Firsts # {}
  BY <1>1
<1>3. Min(Firsts) \in Firsts /\ \A y \in Firsts : Min(Firsts) <= y
  <2> HIDE DEF Firsts
  <2> QED  BY <1>2, MinOf
<1>4. PICK f \in functions : First(f) = Min(Firsts)
  BY <1>3
<1>5. \A g \in functions : Min(netdevs(f)) <= Min(netdevs(g))
  <2>1. \A g \in functions : First(g) \in Firsts
    OBVIOUS
  <2> HIDE DEF Firsts
  <2> QED  BY <1>3, <1>4, <2>1
<1> HIDE DEF First, Firsts
<1> QED  BY <1>5 DEF NextFunction

\* What a NIC is.
LEMMA NICTyped ==
    ASSUME Types, NEW k \in DOMAIN NICs
    PROVE  NICs[k].bdf \in Functions /\ NICs[k].iface \in Netdevs
<1>1. NICs[k] \in NIC
  BY DEF Types
<1> QED  BY <1>1 DEF NIC

\* What undetermined(n, b) adds to the list, if it adds something, and that
\* the others' entries stay as they were.
Added(n, b) ==
    /\ Undetermined' \in Seq(Doubt) /\ NICs' = NICs
    /\ \A k \in DOMAIN Undetermined : k \in DOMAIN Undetermined' /\ Undetermined'[k] = Undetermined[k]
    /\ \A k \in DOMAIN Undetermined' :
           k \in DOMAIN Undetermined \/ Undetermined'[k] = [iface |-> n, bdf |-> b]

\* The same key is the same function, or the same interface of no function.
LEMMA KeySays ==
    ASSUME NEW n \in Netdevs, NEW m \in Netdevs, NEW b \in Functions \cup {None}, NEW c \in Functions \cup {None}
    PROVE  key(n, b) = key(m, c) <=> b = c /\ (b # None \/ n = m)
BY NamesDiffer DEF key

\* undetermined reports its key, now or before.
LEMMA UndeterminedAdds ==
    ASSUME Types, KeysInv, NEW n \in Netdevs, NEW b \in Functions \cup {None}, undetermined(n, b)
    PROVE  /\ Added(n, b)
           /\ KeysInv'
           /\ \E k \in DOMAIN Undetermined' : Undetermined'[k].bdf = b /\ (b = None => Undetermined'[k].iface = n)
<1> DEFINE e == [iface |-> n, bdf |-> b]
<1>0. e \in Doubt /\ e.iface = n /\ e.bdf = b /\ Undetermined \in Seq(Doubt)
  BY DEF Types, Doubt
<1>1. CASE key(n, b) \in reported /\ UNCHANGED out
  <2>1. Added(n, b) /\ KeysInv'
    BY <1>0, <1>1 DEF Added, KeysInv, KeyOf, out
  <2>2. PICK k \in DOMAIN Undetermined : KeyOf(k) = key(n, b)
    BY <1>1 DEF KeysInv
  <2>3. Undetermined[k] \in Doubt
    BY <1>0
  <2>4. Undetermined[k].bdf = b /\ (b = None => Undetermined[k].iface = n)
    BY <2>2, <2>3, KeySays DEF KeyOf, Doubt
  <2> QED  BY <1>1, <2>1, <2>4 DEF out
<1>2. CASE /\ key(n, b) \notin reported
           /\ reported' = reported \cup {key(n, b)}
           /\ Undetermined' = Append(Undetermined, e)
           /\ UNCHANGED NICs
  <2>0. PICK l \in Nat : l = Len(Undetermined) + 1
    BY <1>0
  <2> HIDE DEF e
  <2>1. /\ Undetermined' \in Seq(Doubt)
        /\ DOMAIN Undetermined = 1 .. Len(Undetermined)
        /\ DOMAIN Undetermined' = 1 .. l
        /\ Undetermined'[l] = e
        /\ \A k \in 1 .. Len(Undetermined) : Undetermined'[k] = Undetermined[k]
    BY <1>0, <1>2, <2>0
  <2>2. Len(Undetermined) \in Nat
    BY <1>0
  <2>3. /\ \A k \in DOMAIN Undetermined : k \in DOMAIN Undetermined' /\ k # l
        /\ \A k \in DOMAIN Undetermined' : k \in DOMAIN Undetermined \/ k = l
        /\ l \in DOMAIN Undetermined'
    BY <2>0, <2>1, <2>2
  <2>4. Added(n, b)
    BY <1>2, <2>1, <2>3 DEF Added, e
  <2>5. KeyOf(l)' = key(n, b)
    BY <1>0, <2>1 DEF KeyOf
  <2>6. ASSUME NEW k \in DOMAIN Undetermined PROVE KeyOf(k)' = KeyOf(k) /\ KeyOf(k) \in reported
    BY <2>1 DEF KeyOf, KeysInv
  <2>7. KeysInv'
    <3>1. \A k \in DOMAIN Undetermined' : KeyOf(k)' \in reported'
      BY <1>2, <2>3, <2>5, <2>6
    <3>2. \A x \in reported' : \E k \in DOMAIN Undetermined' : KeyOf(k)' = x
      BY <1>2, <2>3, <2>5, <2>6 DEF KeysInv
    <3>3. ASSUME NEW j \in DOMAIN Undetermined', NEW k \in DOMAIN Undetermined', KeyOf(j)' = KeyOf(k)'
          PROVE  j = k
      BY <1>2, <2>3, <2>5, <2>6, <3>3 DEF KeysInv
    <3> QED  BY <3>1, <3>2, <3>3 DEF KeysInv
  <2> QED  BY <1>0, <2>1, <2>3, <2>4, <2>7
<1> QED  BY <1>1, <1>2 DEF undetermined

\* For the other functions nothing has changed.
LEMMA AddedOthers ==
    ASSUME Types, NEW n \in Netdevs, NEW b \in Functions \cup {None}, Added(n, b)
    PROVE  /\ \A f \in Functions \ {b} : InUndetermined(f)' <=> InUndetermined(f)
           /\ \A f \in Functions : InUndetermined(f) => InUndetermined(f)'
           /\ \A f \in Functions : InNICs(f)' <=> InNICs(f)
           /\ \A m \in Netdevs : Named(m) => Named(m)'
<1>1. \A f \in Functions : InUndetermined(f) => InUndetermined(f)'
  BY DEF Added, InUndetermined
<1>2. ASSUME NEW f \in Functions \ {b}, InUndetermined(f)' PROVE InUndetermined(f)
  <2>1. PICK k \in DOMAIN Undetermined' : Undetermined'[k].bdf = f
    BY <1>2 DEF InUndetermined
  <2>2. k \in DOMAIN Undetermined
    BY <2>1 DEF Added
  <2> QED  BY <2>1, <2>2 DEF Added, InUndetermined
<1>3. \A f \in Functions : InNICs(f)' <=> InNICs(f)
  BY DEF Added, InNICs
<1>4. \A m \in Netdevs : Named(m) => Named(m)'
  BY DEF Added, Named
<1> QED  BY <1>1, <1>2, <1>3, <1>4

-----------------------------------------------------------------------------
(* The steps                                                               *)

\* Initially nothing has been looked at.
LEMMA InitInv == Init => IInv
<1> SUFFICES ASSUME Init PROVE IInv
  OBVIOUS
<1>1. netdev \in [Netdevs -> Profile]
  BY HostTypes DEF Init
<1>2. << >> \in Seq(NIC) /\ << >> \in Seq(Doubt) /\ DOMAIN << >> = {}
  OBVIOUS
<1>3. Types
  BY <1>1, <1>2, HostTypes DEF Init, Types
<1>4. CollectedInv /\ KeysInv /\ NICInv
  BY <1>2 DEF Init, CollectedInv, KeysInv, NICInv, netdevs
<1>5. ListedInv
  BY <1>2 DEF Init, ListedInv, Listing, netdevs
<1>6. VerdictInv /\ TryingInv
  BY DEF Init, VerdictInv, TryingInv, Trying, netdevs
<1> QED  BY <1>3, <1>4, <1>5, <1>6 DEF IInv

\* A host may change so: entries go away and join bonds, no more.
LEMMA HostChanges ==
    ASSUME IInv, UNCHANGED <<domain, forced, pc, unread, current, found, verdict, out>>,
           netdev' \in [Netdevs -> Profile],
           \A n \in Netdevs : /\ netdev'[n].link = netdev[n].link /\ netdev'[n].named = netdev[n].named
                              /\ netdev'[n].representor = netdev[n].representor,
           pc \in {"perm", "second"} =>
               \A n \in Netdevs \cap {current} : netdev'[n].bond = netdev[n].bond \/ n \in joined',
           gone \subseteq gone', gone' \subseteq Netdevs, joined \subseteq joined', joined' \subseteq Netdevs
    PROVE  IInv'
<1> USE DEF found, verdict, out
<1>1. Types'
  BY DEF IInv, Types
<1>2. \A f \in Functions : netdevs(f)' = netdevs(f) /\ netdevs(f) \subseteq Netdevs /\ ports[f] \subseteq Netdevs
  BY DEF netdevs, IInv, Types
<1>3. CollectedInv'
  BY <1>2 DEF IInv, Types, CollectedInv
<1>4. ListedInv'
  <2>1. ASSUME NEW n \in Netdevs \ (unread' \cup gone')
        PROVE  /\ (netdev[n].link \in Functions => n \in netdevs(netdev[n].link))'
               /\ (netdev[n].link = "unreadable" => Named(n))'
    <3>1. n \in Netdevs \ (unread \cup gone) /\ netdev'[n].link = netdev[n].link
      OBVIOUS
    <3>2. Named(n)' <=> Named(n)
      BY DEF Named
    <3>3. netdev[n].link \in Functions => n \in netdevs(netdev[n].link)
      BY <3>1 DEF IInv, ListedInv
    <3>4. netdev[n].link = "unreadable" => Named(n)
      BY <3>1 DEF IInv, ListedInv
    <3> QED  BY <3>1, <3>2, <3>3, <3>4 DEF netdevs
  <2>2. pc' = "name" => current' \in unread' /\ netdev'[current'].link \in Functions
    BY DEF IInv, Types, ListedInv
  <2> QED  BY <1>2, <2>1, <2>2 DEF IInv, ListedInv, Listing
<1>5. KeysInv'
  BY DEF IInv, KeysInv, KeyOf
<1>6. \A f \in Functions : (InNICs(f)' <=> InNICs(f)) /\ (InUndetermined(f)' <=> InUndetermined(f))
  BY DEF InNICs, InUndetermined
<1>7. VerdictInv'
  BY <1>2, <1>6 DEF IInv, Types, VerdictInv, Settled
<1>8. TryingInv'
  <2> SUFFICES ASSUME pc' \in Trying PROVE TryingInv'
    BY DEF TryingInv
  <2>1. fn \in Functions /\ current \in Netdevs
    BY <1>2 DEF IInv, TryingInv
  <2>2. pc # "stat" => pc \in {"perm", "second"}
    BY DEF Trying
  <2>3. pc' # "stat" /\ ~enslaved' =>
            current' \in gone' \/ current' \in joined' \/ netdev'[current'].bond = "no"
    BY <2>1, <2>2 DEF IInv, TryingInv
  <2> QED  BY <1>2, <1>6, <2>1, <2>3 DEF IInv, TryingInv
<1>9. NICInv'
  <2>1. ASSUME NEW k \in DOMAIN NICs PROVE NICs[k].bdf \in Functions /\ NICs[k].iface \in Netdevs
    BY NICTyped DEF IInv
  <2> QED  BY <1>2, <1>6, <2>1 DEF IInv, NICInv
<1> QED  BY <1>1, <1>3, <1>4, <1>5, <1>7, <1>8, <1>9 DEF IInv

\* An entry goes away.
LEMMA UnregisterKeeps == ASSUME IInv, NEW n \in Netdevs, Unregister(n) PROVE IInv'
BY HostChanges DEF Unregister, IInv, Types

\* An entry joins a bond.
LEMMA EnslaveKeeps == ASSUME IInv, NEW n \in Netdevs, Enslave(n) PROVE IInv'
<1> DEFINE p == [netdev[n] EXCEPT !.bond = "slave", !.hwaddr = TRUE]
<1>1. netdev[n] \in Profile /\ netdev \in [Netdevs -> Profile]
  BY DEF IInv, Types
<1>2. p \in Profile /\ p.link = netdev[n].link /\ p.representor = netdev[n].representor /\ p.named = netdev[n].named
  BY <1>1 DEF Profile
<1>3. netdev' = [netdev EXCEPT ![n] = p]
  BY DEF Enslave
<1> HIDE DEF p
<1>4. netdev' \in [Netdevs -> Profile] /\ netdev'[n] = p /\ \A m \in Netdevs \ {n} : netdev'[m] = netdev[m]
  BY <1>1, <1>2, <1>3
<1> QED  BY <1>2, <1>4, HostChanges DEF Enslave, IInv, Types

\* A step of report, for the function f, that reports no NIC: what must be
\* shown of f, everything else being as it was.
LEMMA ReportMoves ==
    ASSUME IInv, NEW f \in Functions, NEW n \in Netdevs, Added(n, f), KeysInv',
           UNCHANGED <<host, forced, unread, ports, representors>>,
           ~InNICs(f), functions' = functions \ {f},
           pc \notin Listing, pc' \notin Listing, pc' # "done",
           pc \in Trying => fn = f, pc' \in Trying => fn' = f, pc' \notin Trying => Settled(f)',
           Types', TryingInv'
    PROVE  IInv'
<1>1. /\ \A g \in Functions \ {f} : InUndetermined(g)' <=> InUndetermined(g)
      /\ \A g \in Functions : InNICs(g)' <=> InNICs(g)
      /\ \A m \in Netdevs : Named(m) => Named(m)'
  BY AddedOthers DEF IInv
<1>2. \A g \in Functions : netdevs(g)' = netdevs(g)
  BY DEF netdevs
<1>3. CollectedInv'
  BY <1>2 DEF host, IInv, Types, CollectedInv
<1>4. ListedInv'
  BY <1>1, <1>2 DEF host, IInv, ListedInv, Listing
<1>5. VerdictInv'
  <2>1. \A g \in functions' : ~InNICs(g)' /\ ~InUndetermined(g)'
    BY <1>1 DEF IInv, Types, VerdictInv
  <2>2. ASSUME NEW g \in Functions, netdevs(g)' # {}, g \notin functions', ~(pc' \in Trying /\ g = fn')
        PROVE  Settled(g)'
    <3>1. CASE g = f
      BY <2>2, <3>1
    <3>2. CASE g # f
      <4>1. Settled(g)
        BY <1>2, <2>2, <3>2 DEF IInv, VerdictInv
      <4> QED  BY <1>1, <3>2, <4>1 DEF host, Settled
    <3> QED  BY <3>1, <3>2
  <2> QED  BY <2>1, <2>2 DEF VerdictInv
<1>6. NICInv'
  <2>1. ASSUME NEW k \in DOMAIN NICs PROVE NICs[k].bdf \in Functions \ {f}
    BY NICTyped DEF IInv, InNICs
  <2>2. NICs' = NICs
    BY DEF Added
  <2> QED  BY <1>1, <1>2, <2>1, <2>2 DEF host, IInv, NICInv
<1> QED  BY <1>3, <1>4, <1>5, <1>6 DEF IInv

\* Nothing is added.
LEMMA NothingAdded ==
    ASSUME IInv, UNCHANGED out, NEW n, NEW b
    PROVE  Added(n, b) /\ KeysInv'
BY DEF IInv, Types, Added, KeysInv, KeyOf, out

\* Where a candidate is examined.
LEMMA TryingMoves ==
    ASSUME IInv, pc \in Trying, pc' \in Trying, fn' = fn, exposed' = exposed, UNCHANGED out,
           UNCHANGED <<host, forced, unread, found>>, enslaved' \in BOOLEAN,
           candidates' \subseteq candidates, current' \in candidates',
           pc' # "stat" /\ ~enslaved' => current' \in gone \/ current' \in joined \/ netdev[current'].bond = "no"
    PROVE  IInv'
<1> USE DEF found
<1>1. /\ fn \in Functions /\ fn \notin functions /\ ~InNICs(fn) /\ current \in Netdevs
      /\ functions' = functions \ {fn}
  BY DEF IInv, TryingInv, Types
<1>2. Types'
  BY DEF host, out, IInv, Types, Trying
<1>3. TryingInv'
  <2>1. InNICs(fn)' <=> InNICs(fn)
    BY DEF out, InNICs
  <2>2. InUndetermined(fn)' <=> InUndetermined(fn)
    BY DEF out, InUndetermined
  <2>3. netdevs(fn)' = netdevs(fn)
    BY DEF netdevs
  <2> QED  BY <2>1, <2>2, <2>3 DEF host, IInv, TryingInv
<1>4. pc \notin Listing /\ pc' \notin Listing /\ pc' # "done"
  BY DEF Trying, Listing
<1>5. Added(current, fn) /\ KeysInv'
  BY NothingAdded
<1>6. UNCHANGED <<ports, representors>>
  OBVIOUS
<1> QED  BY <1>1, <1>2, <1>3, <1>4, <1>5, <1>6, ReportMoves

\* bonding_slave is examined.
LEMMA StatKeeps == ASSUME IInv, StatBond PROVE IInv'
<1>1. current \in candidates /\ Enslaved(current) \in BOOLEAN
  BY DEF StatBond, Trying, IInv, TryingInv, Enslaved
<1>2. ~Enslaved(current) => current \in gone \/ netdev[current].bond = "no"
  BY DEF Enslaved
<1> QED  BY <1>1, <1>2, TryingMoves DEF StatBond, Trying

\* A NIC is reported: it is the only one of its function, and its MAC is its
\* port's.
LEMMA UseKeeps ==
    ASSUME IInv, pc \in {"perm", "second"}, NEW mac, Use(mac),
           UNCHANGED <<host, forced, unread, found>>,
           current \notin gone,
           mac = Own(current) \/ (mac = BondMAC /\ current \in joined)
    PROVE  IInv'
<1> DEFINE nic == [iface |-> current, bdf |-> fn, mac |-> mac, forced |-> ~exposed]
<1> USE DEF Use, Reported, found
<1>1. /\ fn \in Functions /\ fn \notin functions /\ ~InNICs(fn)
      /\ current \in ports[fn] /\ current \in Netdevs /\ ports[fn] \subseteq Netdevs
  BY DEF IInv, TryingInv, Trying, Types
<1>2. nic \in NIC /\ nic.iface = current /\ nic.bdf = fn /\ nic.mac = mac /\ nic.forced = ~exposed
  BY <1>1 DEF NIC, Own, BondMAC, IInv, Types
<1>3. NICs' = Append(NICs, nic) /\ NICs \in Seq(NIC)
  BY DEF IInv, Types
<1> HIDE DEF nic
<1>4. PICK l \in Nat : l = Len(NICs) + 1
  BY <1>3
<1>5. /\ NICs' \in Seq(NIC) /\ NICs'[l] = nic
      /\ DOMAIN NICs = 1 .. Len(NICs) /\ DOMAIN NICs' = 1 .. l
      /\ \A k \in 1 .. Len(NICs) : NICs'[k] = NICs[k]
  BY <1>2, <1>3, <1>4
<1>6. /\ \A k \in DOMAIN NICs : k \in DOMAIN NICs' /\ k # l /\ NICs'[k] = NICs[k]
      /\ \A k \in DOMAIN NICs' : k \in DOMAIN NICs \/ k = l
      /\ l \in DOMAIN NICs'
  BY <1>3, <1>4, <1>5
<1>7. /\ \A f \in Functions : InNICs(f)' <=> InNICs(f) \/ f = fn
      /\ \A f \in Functions : InUndetermined(f)' <=> InUndetermined(f)
      /\ \A f \in Functions : netdevs(f)' = netdevs(f)
      /\ \A m \in Netdevs : Named(m)' <=> Named(m)
  <2>1. ASSUME NEW f \in Functions PROVE InNICs(f)' <=> InNICs(f) \/ f = fn
    BY <1>2, <1>5, <1>6 DEF InNICs
  <2>2. ASSUME NEW f \in Functions PROVE InUndetermined(f)' <=> InUndetermined(f)
    BY DEF InUndetermined
  <2>3. ASSUME NEW m \in Netdevs PROVE Named(m)' <=> Named(m)
    BY DEF Named
  <2> QED  BY <2>1, <2>2, <2>3 DEF netdevs
<1>8. Types'
  BY <1>5 DEF host, IInv, Types
<1>9. CollectedInv'
  BY <1>7 DEF host, IInv, Types, CollectedInv
<1>10. ListedInv'
  BY <1>7 DEF host, IInv, ListedInv, Listing
<1>11. KeysInv'
  BY DEF IInv, KeysInv, KeyOf
<1>12. VerdictInv'
  <2>1. \A f \in functions' : ~InNICs(f)' /\ ~InUndetermined(f)'
    BY <1>1, <1>7 DEF IInv, Types, VerdictInv
  <2>2. ASSUME NEW f \in Functions, netdevs(f)' # {}, f \notin functions' PROVE Settled(f)'
    <3>1. CASE f = fn
      BY <1>7, <3>1 DEF host, IInv, TryingInv, Trying, Settled
    <3>2. CASE f # fn
      <4>1. Settled(f)
        BY <1>7, <2>2, <3>2 DEF IInv, VerdictInv
      <4> QED  BY <1>7, <3>2, <4>1 DEF host, Settled
    <3> QED  BY <3>1, <3>2
  <2> QED  BY <2>1, <2>2 DEF VerdictInv
<1>13. TryingInv'
  BY DEF TryingInv, Trying
<1>14. NICInv'
  <2>1. ASSUME NEW k \in DOMAIN NICs PROVE NICs[k].bdf \in Functions /\ NICs[k].bdf # fn
    BY <1>1, NICTyped DEF IInv, InNICs
  <2>2. \A j, k \in DOMAIN NICs' : NICs'[j].bdf = NICs'[k].bdf => j = k
    BY <1>2, <1>5, <1>6, <2>1 DEF IInv, NICInv
  <2>3. ASSUME NEW k \in DOMAIN NICs'
        PROVE  /\ IF domain[NICs'[k].bdf] = "identity" /\ ~InUndetermined(NICs[k].bdf)' THEN ~NICs'[k].forced
                  ELSE NICs'[k].forced /\ forced \in netdevs(NICs[k].bdf)'
               /\ NICs'[k].mac = Own(NICs'[k].iface) \/ (NICs'[k].mac = BondMAC /\ NICs'[k].iface \in joined)
               /\ NICs'[k].iface \in ports[NICs'[k].bdf]
               /\ netdev[NICs'[k].iface].representor => ~netdev[NICs'[k].iface].named
    <3>1. CASE k = l
      <4>1. /\ exposed => domain[fn] = "identity" /\ ~InUndetermined(fn)
            /\ ~exposed => forced \in netdevs(fn) /\ (InUndetermined(fn) \/ domain[fn] # "identity")
        BY DEF IInv, TryingInv, Trying
      <4>2. netdev[current].representor => ~netdev[current].named
        BY <1>1 DEF IInv, CollectedInv
      <4>3. NICs'[k] = nic
        BY <1>5, <3>1
      <4>4. (InUndetermined(NICs[k].bdf)' <=> InUndetermined(fn)) /\ netdevs(NICs[k].bdf)' = netdevs(fn)
        BY <1>1, <1>2, <4>3 DEF InUndetermined, netdevs
      <4> QED  BY <1>1, <1>2, <4>1, <4>2, <4>3, <4>4
    <3>2. CASE k # l
      <4>1. k \in DOMAIN NICs /\ NICs'[k] = NICs[k]
        BY <1>6, <3>2
      <4>2. (InUndetermined(NICs[k].bdf)' <=> InUndetermined(NICs[k].bdf)) /\ netdevs(NICs[k].bdf)' = netdevs(NICs[k].bdf)
        BY <4>1 DEF InUndetermined, netdevs
      <4> QED  BY <4>1, <4>2 DEF IInv, NICInv
    <3> QED  BY <3>1, <3>2
  <2> QED  BY <2>2, <2>3 DEF host, NICInv
<1> QED  BY <1>8, <1>9, <1>10, <1>11, <1>12, <1>13, <1>14 DEF IInv

\* perm_address.
LEMMA PermKeeps == ASSUME IInv, ReadPermAddress PROVE IInv'
<1> USE DEF ReadPermAddress
<1>1. CASE current \notin gone /\ Use(Own(current))
  BY <1>1, UseKeeps
<1>2. CASE pc' = "second" /\ UNCHANGED <<current, verdict, out>>
  <2>1. /\ current \in candidates /\ enslaved \in BOOLEAN
        /\ ~enslaved => current \in gone \/ current \in joined \/ netdev[current].bond = "no"
    BY DEF IInv, Types, TryingInv, Trying
  <2> QED  BY <1>2, <2>1, TryingMoves DEF Trying, verdict
<1> QED  BY <1>1, <1>2

\* perm_hwaddr or address, and the end of the search if they are of no use.
LEMMA SecondKeeps == ASSUME IInv, ReadSecondAddress PROVE IInv'
<1> USE DEF ReadSecondAddress
<1>1. /\ current \in candidates /\ candidates \subseteq ports[fn] /\ fn \in Functions /\ fn \notin functions
      /\ ports[fn] \subseteq Netdevs /\ ~InNICs(fn)
      /\ ~enslaved => current \in gone \/ current \in joined \/ netdev[current].bond = "no"
  BY DEF IInv, Types, TryingInv, Trying
<1>2. CASE SecondFile(current) # None /\ Use(SecondFile(current))
  <2>1. current \notin gone
    BY <1>2 DEF SecondFile
  <2>2. SecondFile(current) = Own(current) \/ (SecondFile(current) = BondMAC /\ current \in joined)
    BY <1>1, <1>2, <2>1 DEF SecondFile
  <2> QED  BY <1>2, <2>1, <2>2, UseKeeps
<1>3. CASE /\ candidates # {current}
           /\ candidates' = candidates \ {current}
           /\ current' = FirstCandidate(candidates \ {current})
           /\ pc' = "stat"
           /\ UNCHANGED <<fn, exposed, enslaved, out>>
  <2>1. current' \in candidates'
    BY <1>1, <1>3, CandidateOf
  <2> QED  BY <1>3, <2>1, TryingMoves DEF Trying, IInv, Types
<1>4. CASE undetermined(FirstCandidate(ports[fn]), fn) /\ Reported
  <2>1. PICK f \in Functions : f = fn
    BY <1>1
  <2>2. PICK n \in Netdevs : n = FirstCandidate(ports[fn])
    BY <1>1, CandidateOf
  <2>3. /\ Added(n, f) /\ KeysInv'
        /\ \E k \in DOMAIN Undetermined' : Undetermined'[k].bdf = f
    BY <1>4, <2>1, <2>2, UndeterminedAdds DEF IInv
  <2>4. Settled(f)'
    BY <2>3 DEF Settled, InUndetermined
  <2>5. Types'
    BY <1>4, <2>3 DEF Reported, Added, host, found, IInv, Types
  <2>6. TryingInv' /\ pc \notin Listing /\ pc' \notin Listing /\ pc' # "done" /\ pc' \notin Trying
    BY <1>4 DEF Reported, TryingInv, Trying, Listing
  <2>7. UNCHANGED <<host, forced, unread, ports, representors>> /\ functions' = functions \ {f}
    BY <1>1, <2>1 DEF found
  <2> QED  BY <1>1, <2>1, <2>3, <2>4, <2>5, <2>6, <2>7, ReportMoves
<1> QED  BY <1>2, <1>3, <1>4

\* report, up to the first candidate: a function gets its verdict at once or
\* has a port to be tried.
LEMMA ClassifyKeeps == ASSUME IInv, Classify PROVE IInv'
<1>1. PICK f \in functions : f = NextFunction(functions)
  BY NextFunctionOf DEF Classify, IInv
<1>2. f \in Functions /\ netdevs(f) # {} /\ ~InNICs(f) /\ ~InUndetermined(f)
  BY DEF IInv, Types, CollectedInv, VerdictInv
<1>3. PICK n \in Netdevs : n = FirstNetdev(f)
  BY <1>2, FirstNetdevOf DEF IInv
<1> DEFINE err == ClassifyFails(n, f)
           isExposed == ~err /\ domain[f] = "identity"
           isForced == forced # None /\ forced \in netdevs(f)
           only == ports[f] = {}
<1>4. /\ pc = "report" /\ functions' = functions \ {f}
      /\ \/ (err \/ ((isForced \/ isExposed) /\ only)) /\ undetermined(n, f)
         \/ ~(err \/ ((isForced \/ isExposed) /\ only)) /\ UNCHANGED out
      /\ \/ /\ (~isForced /\ ~isExposed) \/ only
            /\ Reported
         \/ /\ isForced \/ isExposed
            /\ ~only
            /\ pc' = "stat" /\ fn' = f /\ exposed' = isExposed
            /\ candidates' = ports[f] /\ current' = FirstCandidate(ports[f])
            /\ UNCHANGED enslaved
      /\ UNCHANGED <<host, forced, unread, ports, representors>>
  BY <1>1, <1>3 DEF Classify
<1>5. Added(n, f) /\ KeysInv'
  BY <1>2, <1>4, UndeterminedAdds, NothingAdded DEF IInv
<1>6. undetermined(n, f) => InUndetermined(f)'
  BY <1>2, UndeterminedAdds DEF IInv, InUndetermined
<1>7. UNCHANGED out => ~InUndetermined(f)'
  BY <1>2 DEF out, InUndetermined
<1>8. domain[f] \in Domain
  BY <1>2 DEF IInv, Types
<1>9. ~err => domain[f] \in {"identity", "translated"}
  BY <1>8 DEF ClassifyFails, Domain
<1>10. ~InNICs(f)'
  BY <1>2, <1>5 DEF Added, InNICs
<1>11. pc \notin Listing /\ pc \notin Trying
  BY <1>4 DEF Listing, Trying
<1>12. CASE ((~isForced /\ ~isExposed) \/ only) /\ Reported
  <2>1. Settled(f)'
    BY <1>4, <1>6, <1>9, <1>12 DEF host, Settled
  <2>2. Types'
    BY <1>4, <1>5, <1>12 DEF Reported, Added, host, IInv, Types
  <2>3. TryingInv' /\ pc' \notin Listing /\ pc' # "done" /\ pc' \notin Trying
    BY <1>12 DEF Reported, TryingInv, Trying, Listing
  <2> QED  BY <1>2, <1>4, <1>5, <1>11, <2>1, <2>2, <2>3, ReportMoves
<1>13. CASE /\ isForced \/ isExposed
            /\ ~only
            /\ pc' = "stat" /\ fn' = f /\ exposed' = isExposed
            /\ candidates' = ports[f] /\ current' = FirstCandidate(ports[f])
            /\ UNCHANGED enslaved
  <2>1. ports[f] \subseteq Netdevs /\ ports[f] # {}
    BY <1>2, <1>13 DEF IInv, Types
  <2>2. current' \in candidates' /\ candidates' \subseteq ports'[f] /\ candidates' \subseteq Netdevs
    BY <1>4, <1>13, <2>1, CandidateOf
  <2>3. Types'
    BY <1>4, <1>5, <1>13, <2>2 DEF Added, host, IInv, Types
  <2>4. exposed' => domain[f] = "identity" /\ ~InUndetermined(f)'
    BY <1>4, <1>7, <1>13
  <2>5. ~exposed' => forced \in netdevs(f) /\ (InUndetermined(f)' \/ domain[f] # "identity")
    BY <1>4, <1>6, <1>13
  <2>6. domain[f] \notin {"identity", "translated"} => InUndetermined(f)'
    BY <1>4, <1>6, <1>9
  <2>7. TryingInv'
    <3>1. (InNICs(fn)' <=> InNICs(f)') /\ (InUndetermined(fn)' <=> InUndetermined(f)')
          /\ netdevs(fn)' = netdevs(f)
      BY <1>4, <1>13 DEF InNICs, InUndetermined, netdevs
    <3>2. f \in Functions \ functions' /\ fn' = f /\ pc' = "stat" /\ domain' = domain /\ forced' = forced
      BY <1>2, <1>4, <1>13 DEF host
    <3> QED  BY <1>10, <2>2, <2>4, <2>5, <2>6, <3>1, <3>2 DEF TryingInv
  <2>8. pc' \notin Listing /\ pc' # "done" /\ pc' \in Trying
    BY <1>13 DEF Listing, Trying
  <2> QED  BY <1>2, <1>4, <1>5, <1>11, <1>13, <2>3, <2>7, <2>8, ReportMoves
<1> QED  BY <1>4, <1>12, <1>13

\* The directory has been read, or every function reported.
LEMMA PhaseKeeps == ASSUME IInv, Listed \/ Done PROVE IInv'
<1>1. /\ UNCHANGED <<host, forced, unread, current, found, verdict, out>>
      /\ pc \in {"link", "report"} /\ pc' \in {"report", "done"} /\ unread = {}
      /\ pc' = "done" => functions = {}
  BY DEF Listed, Done, IInv, ListedInv, Listing
<1> USE DEF host, found, verdict, out
<1>2. Types' /\ KeysInv'
  BY <1>1 DEF IInv, Types, KeysInv, KeyOf
<1>3. \A f \in Functions : /\ netdevs(f)' = netdevs(f) /\ (Settled(f)' <=> Settled(f))
                           /\ (InNICs(f)' <=> InNICs(f)) /\ (InUndetermined(f)' <=> InUndetermined(f))
  BY <1>1 DEF netdevs, Settled, InNICs, InUndetermined
<1>4. CollectedInv'
  BY <1>1, <1>3 DEF IInv, Types, CollectedInv
<1>5. ListedInv'
  BY <1>1, <1>3 DEF IInv, ListedInv, Listing, Named
<1>6. VerdictInv' /\ TryingInv'
  BY <1>1, <1>3 DEF IInv, Types, VerdictInv, TryingInv, Trying
<1>7. NICInv'
  BY <1>1, <1>3, NICTyped DEF IInv, NICInv
<1> QED  BY <1>2, <1>4, <1>5, <1>6, <1>7 DEF IInv

\* The directory is read: what must be shown of the entry that is done with.
LEMMA ListingMoves ==
    ASSUME IInv, pc \in Listing, pc' \in Listing, NEW n \in Netdevs,
           UNCHANGED <<host, forced, found, verdict>>,
           NEW m \in Netdevs, Added(m, None), KeysInv',
           unread' = unread \/ unread' = unread \ {n},
           unread' = unread \/ n \in gone
               \/ (/\ netdev[n].link \notin Functions
                   /\ netdev[n].link = "unreadable" => Named(n)'),
           pc' = "name" => current' \in unread' /\ netdev[current'].link \in Functions
    PROVE  IInv'
<1> USE DEF host, found, verdict
<1>1. /\ \A f \in Functions : (InUndetermined(f)' <=> InUndetermined(f)) /\ (InNICs(f)' <=> InNICs(f))
      /\ \A k \in Netdevs : Named(k) => Named(k)'
  BY AddedOthers, NamesDiffer DEF IInv
<1>2. Types'
  BY DEF Added, IInv, Types, Listing
<1>3. \A f \in Functions : netdevs(f)' = netdevs(f) /\ (Settled(f)' <=> Settled(f))
  BY <1>1 DEF netdevs, Settled
<1>4. CollectedInv'
  BY <1>3 DEF IInv, Types, CollectedInv
<1>5. ListedInv'
  <2>1. ASSUME NEW k \in Netdevs \ (unread' \cup gone')
        PROVE  /\ (netdev[k].link \in Functions => k \in netdevs(netdev[k].link))'
               /\ (netdev[k].link = "unreadable" => Named(k))'
    <3>1. CASE k \in unread
      BY <2>1, <3>1
    <3>2. CASE k \notin unread
      <4>1. /\ netdev[k].link \in Functions => k \in netdevs(netdev[k].link)
            /\ netdev[k].link = "unreadable" => Named(k)
        BY <3>2 DEF IInv, ListedInv
      <4> QED  BY <1>1, <4>1 DEF netdevs
    <3> QED  BY <3>1, <3>2
  <2>2. /\ \A f \in Functions : netdevs(f)' # {} => f \in functions'
        /\ NICs' = << >>
    BY <1>3 DEF Added, IInv, ListedInv
  <2>3. ASSUME NEW k \in DOMAIN Undetermined' PROVE Undetermined'[k].bdf = None
    <3>1. k \in DOMAIN Undetermined => Undetermined[k].bdf = None
      BY DEF IInv, ListedInv
    <3> QED  BY <3>1 DEF Added
  <2> QED  BY <2>1, <2>2, <2>3 DEF ListedInv, Listing
<1>6. VerdictInv' /\ TryingInv'
  BY <1>1, <1>3 DEF IInv, Types, VerdictInv, TryingInv, Trying, Listing
<1>7. NICInv'
  <2>1. NICs' = << >>
    BY DEF Added, IInv, ListedInv
  <2> QED  BY <2>1 DEF NICInv
<1> QED  BY <1>2, <1>4, <1>5, <1>6, <1>7 DEF IInv

\* The device link of an entry.
LEMMA LinkKeeps == ASSUME IInv, ReadLink PROVE IInv'
<1>1. PICK n \in unread : n = Min(unread)
  BY FirstOf DEF ReadLink, IInv, Types
<1>2. n \in Netdevs /\ netdev[n] \in Profile
  BY DEF IInv, Types
<1>3. /\ pc = "link" /\ UNCHANGED <<host, forced, found, verdict>>
      /\ \/ /\ resolveBDF(n) = None
            /\ unread' = unread \ {n}
            /\ UNCHANGED <<pc, current, out>>
         \/ /\ resolveBDF(n) = "unreadable"
            /\ undetermined(n, None)
            /\ unread' = unread \ {n}
            /\ UNCHANGED <<pc, current>>
         \/ /\ resolveBDF(n) \in Functions
            /\ pc' = "name" /\ current' = n
            /\ UNCHANGED <<unread, out>>
  BY <1>1 DEF ReadLink
<1>4. CASE resolveBDF(n) = None /\ unread' = unread \ {n} /\ UNCHANGED <<pc, current, out>>
  <2>1. n \in gone \/ (netdev[n].link \notin Functions /\ netdev[n].link # "unreadable")
    BY <1>4, NamesDiffer DEF resolveBDF
  <2>2. Added(n, None) /\ KeysInv'
    BY <1>4, NothingAdded
  <2> QED  BY <1>2, <1>3, <1>4, <2>1, <2>2, ListingMoves DEF Listing
<1>5. CASE /\ resolveBDF(n) = "unreadable" /\ undetermined(n, None)
           /\ unread' = unread \ {n} /\ UNCHANGED <<pc, current>>
  <2>1. netdev[n].link = "unreadable"
    BY <1>5, NamesDiffer DEF resolveBDF
  <2>2. PICK k \in DOMAIN Undetermined' : /\ Added(n, None) /\ KeysInv'
                                          /\ Undetermined'[k].bdf = None /\ Undetermined'[k].iface = n
    BY <1>2, <1>5, UndeterminedAdds DEF IInv
  <2>3. Undetermined'[k] \in Doubt
    BY <2>2 DEF Added
  <2>4. Undetermined'[k] = [iface |-> n, bdf |-> None]
    BY <2>2, <2>3 DEF Doubt
  <2>5. Named(n)'
    BY <2>4 DEF Named
  <2>6. netdev[n].link \notin Functions
    BY <2>1, NamesDiffer
  <2> QED  BY <1>2, <1>3, <1>5, <2>2, <2>5, <2>6, ListingMoves DEF Listing
<1>6. CASE resolveBDF(n) \in Functions /\ pc' = "name" /\ current' = n /\ UNCHANGED <<unread, out>>
  <2>1. netdev[n].link \in Functions
    BY <1>6, NamesDiffer DEF resolveBDF
  <2>2. Added(n, None) /\ KeysInv'
    BY <1>6, NothingAdded
  <2> QED  BY <1>1, <1>2, <1>3, <1>6, <2>1, <2>2, ListingMoves DEF Listing
<1> QED  BY <1>3, <1>4, <1>5, <1>6

\* Its name, and the function it is collected under.
LEMMA NameKeeps == ASSUME IInv, ReadName PROVE IInv'
<1>1. PICK n \in unread : n = current
  BY DEF ReadName, IInv, ListedInv
<1>2. PICK f \in Functions : f = netdev[n].link
  BY <1>1 DEF ReadName, IInv, ListedInv
<1>3. n \in Netdevs
  BY DEF IInv, Types
<1> USE DEF ReadName, host, verdict, out
<1>4. /\ functions' = functions \cup {f} /\ unread' = unread \ {n} /\ pc' = "link" /\ pc = "name"
      /\ ports' = [ports EXCEPT ![f] = IF isRepresentor(n) THEN @ ELSE @ \cup {n}]
      /\ representors' = [representors EXCEPT ![f] = IF isRepresentor(n) THEN @ \cup {n} ELSE @]
  BY <1>1, <1>2
<1>5. /\ \A g \in Functions \ {f} : ports'[g] = ports[g] /\ representors'[g] = representors[g]
      /\ ports'[f] = ports[f] \/ (ports'[f] = ports[f] \cup {n} /\ ~isRepresentor(n))
      /\ ports'[f] \cup representors'[f] = netdevs(f) \cup {n}
  BY <1>4 DEF IInv, Types, netdevs
<1>6. netdevs(f)' = netdevs(f) \cup {n} /\ \A g \in Functions \ {f} : netdevs(g)' = netdevs(g)
  BY <1>5 DEF netdevs
<1>7. Types'
  <2>1. ports' \in [Functions -> SUBSET Netdevs] /\ representors' \in [Functions -> SUBSET Netdevs]
    BY <1>3, <1>4 DEF IInv, Types
  <2> QED  BY <1>4, <2>1 DEF IInv, Types
<1>8. CollectedInv'
  <2>1. \A g \in Functions : \A k \in netdevs(g)' : netdev'[k].link = g
    BY <1>2, <1>6 DEF IInv, CollectedInv
  <2>2. \A g \in Functions : \A k \in ports'[g] : k \in gone' \/ (netdev'[k].representor => ~netdev'[k].named)
    BY <1>5 DEF IInv, CollectedInv, isRepresentor
  <2>3. \A g \in functions' : netdevs(g)' # {}
    BY <1>4, <1>6 DEF IInv, Types, CollectedInv
  <2> QED  BY <2>1, <2>2, <2>3 DEF CollectedInv
<1>9. ListedInv'
  <2>1. ASSUME NEW k \in Netdevs \ (unread' \cup gone')
        PROVE  /\ (netdev[k].link \in Functions => k \in netdevs(netdev[k].link))'
               /\ (netdev[k].link = "unreadable" => Named(k))'
    <3>1. CASE k = n
      <4>1. k \in netdevs(netdev[k].link)'
        BY <1>2, <1>5, <3>1 DEF netdevs
      <4>2. netdev[k].link # "unreadable"
        BY <1>2, <3>1, NamesDiffer
      <4> QED  BY <4>1, <4>2
    <3>2. CASE k # n
      <4>1. /\ netdev[k].link \in Functions => k \in netdevs(netdev[k].link)
            /\ netdev[k].link = "unreadable" => Named(k)
        BY <1>4, <3>2 DEF IInv, ListedInv
      <4>2. netdev[k].link \in Functions => netdevs(netdev[k].link) \subseteq netdevs(netdev[k].link)'
        BY <1>5 DEF netdevs
      <4> QED  BY <4>1, <4>2 DEF Named
    <3> QED  BY <3>1, <3>2
  <2>2. \A g \in Functions : netdevs(g)' # {} => g \in functions'
    BY <1>4, <1>6 DEF IInv, ListedInv, Listing
  <2> QED  BY <1>4, <2>1, <2>2 DEF IInv, ListedInv, Listing
<1>10. KeysInv'
  BY DEF IInv, KeysInv, KeyOf
<1>11. VerdictInv' /\ TryingInv'
  <2>1. \A g \in Functions : netdevs(g)' # {} => g \in functions'
    BY <1>4, <1>6 DEF IInv, ListedInv, Listing
  <2>2. ASSUME NEW g \in functions' PROVE ~InNICs(g)' /\ ~InUndetermined(g)'
    <3>1. NICs' = << >> /\ \A k \in DOMAIN Undetermined' : Undetermined'[k].bdf = None
      BY <1>4 DEF IInv, ListedInv, Listing
    <3>2. g # None
      <4>1. g \in Functions
        BY <1>4 DEF IInv, Types
      <4> QED  BY <4>1, NamesDiffer
    <3> QED  BY <3>1, <3>2 DEF InNICs, InUndetermined
  <2> QED  BY <1>4, <2>1, <2>2 DEF VerdictInv, TryingInv, Trying
<1>12. NICInv'
  <2>1. NICs' = << >>
    BY <1>4 DEF IInv, ListedInv, Listing
  <2> QED  BY <2>1 DEF NICInv
<1> QED  BY <1>7, <1>8, <1>9, <1>10, <1>11, <1>12 DEF IInv

-----------------------------------------------------------------------------
(* The theorems                                                            *)

\* The inductive invariant holds in every reachable state.
LEMMA Inductive == Spec => []IInv
<1>1. IInv /\ [Next]_vars => IInv'
  <2> SUFFICES ASSUME IInv, [Next]_vars PROVE IInv'
    OBVIOUS
  <2>1. CASE UNCHANGED vars
    BY <2>1, HostChanges DEF vars, host, IInv, Types
  <2>2. ASSUME NEW n \in Netdevs, Unregister(n) \/ Enslave(n) PROVE IInv'
    BY <2>2, UnregisterKeeps, EnslaveKeeps
  <2> QED  BY <2>1, <2>2, LinkKeeps, NameKeeps, PhaseKeeps, ClassifyKeeps, StatKeeps,
              PermKeeps, SecondKeeps DEF Next
<1> QED  BY <1>1, InitInv, PTL DEF Spec

\* A function that the enumeration reports nowhere is one whose DMA is
\* translated, and an entry that could not be read is named, whatever went
\* away or joined a bond meanwhile.
THEOREM NeverDropped == Spec => []NothingDropped
<1>1. IInv => NothingDropped
  <2> SUFFICES ASSUME IInv, pc = "done" PROVE NothingDropped
    BY DEF NothingDropped
  <2>1. unread = {} /\ pc \notin Trying
    BY DEF IInv, ListedInv, Listing, Trying
  <2>2. functions = {}
    BY DEF IInv, ListedInv
  <2>3. ASSUME NEW f \in Present PROVE Settled(f)
    <3>1. PICK n \in Netdevs \ gone : netdev[n].link = f /\ f \in Functions
      BY DEF Present
    <3>2. n \in netdevs(f)
      BY <2>1, <3>1 DEF IInv, ListedInv
    <3> QED  BY <2>1, <2>2, <3>1, <3>2 DEF IInv, VerdictInv
  <2>4. ASSUME NEW n \in Netdevs \ gone, netdev[n].link = "unreadable" PROVE Named(n)
    BY <2>1, <2>4 DEF IInv, ListedInv
  <2> QED  BY <2>3, <2>4 DEF NothingDropped, Settled, Named
<1> QED  BY <1>1, Inductive, PTL

\* Every function gets one verdict, and is in both lists only if it was forced.
THEOREM SingleVerdict == Spec => []OneVerdict
<1>1. IInv => OneVerdict
  <2> SUFFICES ASSUME IInv PROVE OneVerdict
    OBVIOUS
  <2>1. \A j, k \in DOMAIN NICs : NICs[j].bdf = NICs[k].bdf => j = k
    BY DEF IInv, NICInv
  <2>2. ASSUME NEW j \in DOMAIN Undetermined, NEW k \in DOMAIN Undetermined,
               Undetermined[j].bdf = Undetermined[k].bdf,
               Undetermined[j].bdf # None \/ Undetermined[j].iface = Undetermined[k].iface
        PROVE  j = k
    <3>1. KeyOf(j) = KeyOf(k)
      BY <2>2 DEF KeyOf, key
    <3> QED  BY <3>1 DEF IInv, KeysInv
  <2>3. ASSUME NEW f \in Functions, InNICs(f), InUndetermined(f) PROVE forced \in netdevs(f)
    BY <2>3 DEF IInv, NICInv, InNICs
  <2> QED  BY <2>1, <2>2, <2>3 DEF OneVerdict
<1> QED  BY <1>1, Inductive, PTL

\* A forced interface widens what is collected and never what is trusted.
THEOREM ForcedWidens == Spec => []ForcedOnlyWidens
<1>1. IInv => ForcedOnlyWidens
  BY DEF IInv, NICInv, ForcedOnlyWidens
<1> QED  BY <1>1, Inductive, PTL

\* The MAC of a NIC is that of the port it is reported under; a representor is
\* taken for a port only if its phys_port_name could not be read, and the bond's
\* MAC for the port's only if the port was enslaved between readMAC's look at
\* bonding_slave and its read of address.
THEOREM MACBelongs == Spec => []MACIsThePorts
<1>1. IInv => MACIsThePorts
  <2> SUFFICES ASSUME IInv PROVE MACIsThePorts
    OBVIOUS
  <2>1. TypeOK
    BY DEF IInv, Types, TryingInv, Trying, TypeOK
  <2> QED  BY <2>1 DEF IInv, NICInv, MACIsThePorts
<1> QED  BY <1>1, Inductive, PTL

=============================================================================
