---------------------------- MODULE ObjectsProofs ----------------------------
(***************************************************************************)
(* The safety of the calls on TPM objects, for every TPM, any number of    *)
(* transient slots, any sequence of calls, and any failure of a command or *)
(* interference of another program between two of them.                    *)
(***************************************************************************)
EXTENDS TpmObjects, NaturalsInduction, WellFoundedInduction, TLAPS

\* The control points, and those at which the call has an object to flush.
PCs == {"idle", "refused", "cert p256", "cert p384", "model", "primary", "evict", "flush", "load",
        "unseal", "public", "import", "load hmac", "certify", "names", "activate"}
Holding == {"evict", "unseal", "certify", "flush"}

\* Where EvictControl puts the key.
Place(type) == IF type = "srk" THEN SRKHandle ELSE EKHandle

\* What the control point says about the call and its locals.
CallInv ==
    /\ pc \in PCs
    /\ promise \in BOOLEAN \cup {None}
    /\ pc = "idle" => promise = None
    /\ pc \in {"refused", "cert p256", "cert p384", "model", "primary", "evict"} => call \in PrimaryCalls
    /\ pc \in {"load", "unseal"} => call \in UnsealCalls
    /\ pc \in {"public", "import", "load hmac", "certify"} => call \in ChallengeCalls
    /\ pc \in {"names", "activate"} => call \in ActivateCalls
    /\ pc \in Holding <=> handle # None
    /\ pc # "flush" => ~outcome /\ tries = 0
    /\ pc = "flush" => tries < Attempts(call.op)

\* The key a call is about to create.
PrimaryInv ==
    /\ pc = "refused" => call.op = "LoadECCEK" /\ call.type \notin {"p256", "p384"}
    /\ pc \in {"cert p256", "cert p384", "model"} => call.op = "CreateECCEK"
    /\ pc \in {"primary", "evict"} =>
        /\ call.type \in EKType \cup {"srk"}
        /\ call.type = "srk" <=> call.op = "CreateECCOwnerPK"
        /\ call.op = "LoadECCEK" => call.type \in {"p256", "p384"}
    /\ pc = "evict" => call.op # "LoadECCEK"

\* An object of a call: the one it still holds has been flushed in vain as
\* often as the call has tried, one that it left behind as often as it tries.
SlotInv(h) ==
    loaded[h] # None =>
        /\ h = handle => loaded[h].of = "call"
        /\ loaded[h].of = "call" =>
            IF h = handle
            THEN loaded[h].flushes = tries /\ (loaded[h].type = "data" <=> call.op = "Unseal")
            ELSE loaded[h].flushes = IF loaded[h].type = "data" THEN 3 ELSE 1

\* CreateECCEK: what it has learnt about the certificates, if it could read them.
ProfileInv ==
    promise # None /\ pc \in {"cert p384", "model", "primary", "evict"} /\ call.op = "CreateECCEK" =>
        /\ pc = "cert p384" => ~Usable(machine.p256)
        /\ pc = "model" => ~Usable(machine.p256) /\ ~Usable(machine.p384)
        /\ pc \in {"primary", "evict"} => call.type = CertifiedType(machine)

\* What is left of the promise of a call at each of its commands.
PromiseInv ==
    promise # None =>
        /\ pc \notin Holding => (promise <=> Works(call))
        /\ pc \in {"import", "load hmac"} =>
            IsEK(call.ek) /\ call.session = SessionFor(KeyAt(call.ek))
        /\ pc \in Holding \ {"flush"} => loaded[handle] # None
        /\ pc = "evict" => (promise <=> call.pw = auth.owner /\ persistent[Place(call.type)] = None)
        /\ pc = "unseal" =>
            (promise <=> call.session = IF call.blob.policy = None THEN None ELSE "fulfilled")
        /\ pc = "certify" => (promise <=> IsAK(call.ak))
        /\ pc = "flush" => (promise <=> outcome)

IInv ==
    /\ TypeOK /\ CallInv /\ PrimaryInv /\ (\A h \in Handles : SlotInv(h))
    /\ ProfileInv /\ PromiseInv
    /\ KeepsPromise /\ EKMatchesCert /\ PolicyEnforced

-----------------------------------------------------------------------------
(* The operators of the model.                                             *)

\* A set of numbers that has a member has a least one.
LEMMA LeastOf ==
    ASSUME NEW S, S \subseteq Nat, S # {}
    PROVE  \E x \in S : \A y \in S : x <= y
<1> DEFINE Less == OpToRel(<, Nat)
<1>1. ASSUME NEW x \in Nat, NEW y \in Nat, y < x PROVE <<y, x>> \in Less
    BY <1>1, Zenon DEF OpToRel
<1>2. IsWellFoundedOn(Less, Nat)
    BY NatLessThanWellFounded, Zenon
<1> HIDE DEF Less
<1>3. PICK x \in S : \A y \in S : ~(<<y, x>> \in Less)
    BY <1>2, WFMin
<1>4. \A y \in S : ~(y < x)
    BY <1>1, <1>3
<1> QED
    BY <1>4

\* A set of numbers with a bound that has a member has a greatest one.
LEMMA GreatestOf ==
    ASSUME NEW n \in Nat, NEW S, S \subseteq 0 .. n, S # {}
    PROVE  Max(S) \in S /\ \A y \in S : y <= Max(S)
<1> DEFINE T == {n - y : y \in S}
<1>1. T \subseteq Nat /\ T # {}
  <2>1. ASSUME NEW y \in S PROVE n - y \in Nat
    <3>1. y \in 0 .. n
      OBVIOUS
    <3> QED
      BY <3>1
  <2> QED
    BY <2>1
<1>2. PICK x \in T : \A y \in T : x <= y
    BY <1>1, LeastOf
<1>3. PICK m \in S : x = n - m
    BY <1>2
<1>4. \A y \in S : m >= y
  <2> TAKE y \in S
  <2>1. x <= n - y
    BY <1>2
  <2> QED
    BY <2>1, <1>3
<1>5. Max(S) \in S /\ \A y \in S : Max(S) >= y
    BY <1>4, Zenon DEF Max
<1> QED
    BY <1>5

\* A serial number has padding exactly if it is not canonical.
LEMMA PaddingIsNotCanonical ==
    ASSUME NEW s \in Seq(Nat) \ {<< >>}
    PROVE  Padding(s) > 0 <=> ~Canonical(s)
<1> DEFINE P == {k \in 0 .. Len(s) - 1 : \A i \in 1 .. k : s[i] = 0 /\ s[i + 1] < 128}
<1>1. Len(s) \in Nat \ {0} /\ \A i \in 1 .. Len(s) : s[i] \in Nat
    OBVIOUS
<1>2. P \subseteq 0 .. (Len(s) - 1) /\ 0 \in P
    BY <1>1
<1>3. Max(P) \in P /\ \A k \in P : k <= Max(P)
  <2> HIDE DEF P
  <2>1. Len(s) - 1 \in Nat
    BY <1>1
  <2> QED
    BY <2>1, <1>2, GreatestOf
<1>4. Padding(s) = Max(P)
    BY DEF Padding
<1>5. ASSUME Max(P) > 0 PROVE ~Canonical(s)
  <2>1. Max(P) \in 1 .. (Len(s) - 1) /\ s[1] = 0 /\ s[1 + 1] < 128
    BY <1>1, <1>3, <1>5
  <2> QED
    BY <2>1, <1>1 DEF Canonical
<1>6. ASSUME ~Canonical(s) PROVE 1 \in P
  <2>1. Len(s) # 1 /\ s[1] = 0 /\ ~(s[2] >= 128)
    BY <1>6 DEF Canonical
  <2>2. 1 \in 0 .. Len(s) - 1 /\ s[1 + 1] < 128
    <3>1. 1 \in 0 .. Len(s) - 1 /\ 2 \in 1 .. Len(s) /\ 1 + 1 = 2
      <4> PICK n \in Nat : n = Len(s) /\ n # 0
        BY <1>1
      <4>1. n # 1
        BY <2>1
      <4>2. 1 \in 0 .. n - 1 /\ 2 \in 1 .. n /\ 1 + 1 = 2
        BY <4>1
      <4> QED
        BY <4>2
    <3>2. s[2] \in Nat
      BY <3>1, <1>1
    <3> QED
      BY <2>1, <3>1, <3>2
  <2>3. \A i \in 1 .. 1 : i = 1
    OBVIOUS
  <2> QED
    BY <2>1, <2>2, <2>3
<1> QED
    BY <1>2, <1>3, <1>4, <1>5, <1>6, SMTT(20)

\* A sequence without its first elements.
LEMMA SuffixOf ==
    ASSUME NEW s \in Seq(Nat), NEW p \in 0 .. Len(s)
    PROVE  /\ Len(SubSeq(s, p + 1, Len(s))) = Len(s) - p
           /\ \A i \in 1 .. Len(s) - p : SubSeq(s, p + 1, Len(s))[i] = s[p + i]
<1> DEFINE t == SubSeq(s, p + 1, Len(s))
<1>1. PICK n \in Nat : n = Len(s)
    OBVIOUS
<1>2. p \in Nat /\ p <= n /\ (n - (p + 1)) + 1 = n - p /\ n - p \in Nat
    BY <1>1
<1>3. Len(t) = n - p
    BY <1>1, <1>2
<1>4. ASSUME NEW i \in 1 .. n - p PROVE t[i] = s[p + i]
  <2>1. (p + 1) + i - 1 = p + i /\ i \in 1 .. (n - (p + 1)) + 1
    BY <1>2
  <2> QED
    BY <2>1, <1>1, <1>2
<1> QED
    BY <1>1, <1>3, <1>4

\* What is left of a padded serial number is positive and has no padding.
LEMMA StrippedIsStrict ==
    ASSUME NEW s \in Seq(Nat) \ {<< >>}, Padding(s) > 0
    PROVE  StrictSerial(Stripped(s))
<1> DEFINE P == {k \in 0 .. Len(s) - 1 : \A i \in 1 .. k : s[i] = 0 /\ s[i + 1] < 128}
<1> DEFINE p == Padding(s)
<1> DEFINE n == Len(s)
<1> DEFINE t == Stripped(s)
<1>1. n \in Nat \ {0} /\ \A i \in 1 .. n : s[i] \in Nat
    OBVIOUS
<1>2. p \in P /\ \A k \in P : k <= p
  <2>1. P \subseteq 0 .. (n - 1) /\ 0 \in P /\ n - 1 \in Nat
    BY <1>1
  <2>2. p = Max(P)
    BY DEF Padding
  <2> HIDE DEF P, p, n
  <2> QED
    BY <2>1, <2>2, GreatestOf
<1>3. p \in 1 .. n - 1 /\ \A i \in 1 .. p : s[i] = 0 /\ s[i + 1] < 128
    BY <1>1, <1>2
<1> HIDE DEF p
<1>4. Len(t) = n - p /\ \A i \in 1 .. n - p : t[i] = s[p + i]
  <2>1. p \in 0 .. Len(s) /\ t = SubSeq(s, p + 1, Len(s))
    BY <1>1, <1>3 DEF Stripped, p
  <2> QED
    BY <2>1, SuffixOf
<1>5. t[1] < 128
  <2>1. 1 \in 1 .. n - p /\ p \in 1 .. p
    BY <1>1, <1>3
  <2> QED
    BY <2>1, <1>3, <1>4
<1>6. ASSUME ~Canonical(t) PROVE p + 1 \in P
  <2>1. Len(t) # 1 /\ t[1] = 0 /\ ~(t[2] >= 128)
    BY <1>6 DEF Canonical
  <2>2. 1 \in 1 .. n - p /\ 2 \in 1 .. n - p /\ p + 2 \in 1 .. n /\ p + 1 \in 0 .. n - 1
    BY <2>1, <1>1, <1>3, <1>4
  <2>3. s[p + 1] = 0 /\ s[p + 2] < 128
    BY <2>1, <2>2, <1>1, <1>4
  <2>4. \A i \in 1 .. p + 1 : i \in 1 .. p \/ i = p + 1
    BY <1>3
  <2>5. (p + 1) + 1 = p + 2
    BY <1>3
  <2> QED
    BY <2>2, <2>3, <2>4, <2>5, <1>3
<1>7. ~(p + 1 <= p)
    BY <1>3
<1> QED
    BY <1>2, <1>5, <1>6, <1>7 DEF StrictSerial

\* ParseEKCertificate accepts exactly the certificates that are of use.
LEMMA ParsedIsUsable ==
    ASSUME NEW c \in Certificate \cup {None}
    PROVE  ParseEKCertificate(c) # None <=> Usable(c)
<1>1. CASE c = None
    BY <1>1 DEF ParseEKCertificate, Usable
<1>2. CASE c # None
  <2>1. c.serial \in Seq(Nat) \ {<< >>}
    BY <1>2 DEF Certificate
  <2>2. Padding(c.serial) > 0 => StrictSerial(Stripped(c.serial))
    BY <2>1, StrippedIsStrict
  <2>3. Padding(c.serial) > 0 <=> ~Canonical(c.serial)
    BY <2>1, PaddingIsNotCanonical
  <2>4. ~Canonical(c.serial) => c.serial[1] < 128
    BY DEF Canonical
  <2> QED
    BY <1>2, <2>2, <2>3, <2>4 DEF ParseEKCertificate, Usable, StrictSerial
<1> QED
    BY <1>1, <1>2

\* The slot the TPM gives the next object is free.
LEMMA SlotIsFree ==
    ASSUME Free # {} PROVE Slot \in Handles /\ loaded[Slot] = None
<1>1. Free \subseteq Nat
  <2>1. Handles \subseteq 1 .. 100
    BY ObjectsAssumption
  <2>2. \A n \in 1 .. 100 : n \in Nat
    OBVIOUS
  <2> QED
    BY <2>1, <2>2 DEF Free
<1>2. Slot \in Free
    BY <1>1, LeastOf, Zenon DEF Slot, Min
<1> QED
    BY <1>2 DEF Free

-----------------------------------------------------------------------------
(* The slots.                                                              *)

ObjectTypes == EKType \cup {"srk", "data", "hmac", "ak", "lost"}

\* Put fills a free slot and touches no other.
LEMMA PutFills ==
    ASSUME TypeOK, Free # {}, NEW type \in ObjectTypes, NEW pw \in Password,
           NEW of \in {"call", "caller", "nobody"}, Put(type, pw, of)
    PROVE  /\ loaded' \in [Handles -> Objects \cup {None}]
           /\ Slot \in Handles /\ loaded[Slot] = None
           /\ \A h \in Handles : h # Slot => loaded'[h] = loaded[h]
           /\ loaded'[Slot] # None
           /\ loaded'[Slot].type = type /\ loaded'[Slot].of = of /\ loaded'[Slot].flushes = 0
<1> PICK o : o = Object(type, pw, of)
    OBVIOUS
<1>1. o \in Objects /\ o.type = type /\ o.of = of /\ o.flushes = 0
  <2>1. Own(type, pw) \in Password
    BY ObjectsAssumption DEF Own
  <2> QED
    BY <2>1 DEF Object, Objects, ObjectTypes
<1>2. loaded \in [Handles -> Objects \cup {None}]
    BY DEF TypeOK
<1>3. Slot \in Handles /\ loaded[Slot] = None
    BY SlotIsFree
<1> PICK n \in Handles : n = Slot
    BY <1>3
<1>4. loaded' = [loaded EXCEPT ![n] = o]
    BY DEF Put
<1>5. loaded'[n] = o /\ \A h \in Handles : h # n => loaded'[h] = loaded[h]
    BY <1>2, <1>4
<1>6. loaded' \in [Handles -> Objects \cup {None}]
    BY <1>1, <1>2, <1>4
<1> QED
    BY <1>1, <1>3, <1>5, <1>6, NilIsNothing

\* The objects of earlier calls, once no call holds one.
LeftBehind ==
    \A h \in Handles :
        loaded[h] # None /\ loaded[h].of = "call" =>
            loaded[h].flushes = IF loaded[h].type = "data" THEN 3 ELSE 1

\* Without an object of its own a call sees only those of earlier calls.
LEMMA NoneHeld ==
    ASSUME handle = None
    PROVE  (\A h \in Handles : SlotInv(h)) <=> LeftBehind
BY ObjectsAssumption DEF SlotInv, LeftBehind

\* The same in the state after a step.
LEMMA NoneHeldNext ==
    ASSUME handle' = None
    PROVE  (\A h \in Handles : SlotInv(h)') <=> LeftBehind'
BY ObjectsAssumption DEF SlotInv, LeftBehind

\* An object for the caller, or for nobody, is none of a call's.
LEMMA PutLeaves ==
    ASSUME TypeOK, LeftBehind, Free # {}, NEW type \in ObjectTypes, NEW pw \in Password,
           NEW of \in {"caller", "nobody"}, Put(type, pw, of)
    PROVE  loaded' \in [Handles -> Objects \cup {None}] /\ LeftBehind'
<1>1. /\ loaded' \in [Handles -> Objects \cup {None}]
      /\ \A h \in Handles : h # Slot => loaded'[h] = loaded[h]
      /\ loaded'[Slot].of = of
    BY PutFills
<1> QED
    BY <1>1 DEF LeftBehind

-----------------------------------------------------------------------------
(* Returning, going on and turning to the flush.                           *)

\* What the steps of a call may do to the TPM.
DeviceType ==
    /\ machine \in Machines
    /\ auth \in [{"owner", "endorsement"} -> Password]
    /\ seed \in 0 .. MaxClears
    /\ persistent \in [{EKHandle, SRKHandle} -> Keys \cup {None}]
    /\ loaded \in [Handles -> Objects \cup {None}]

\* The types of the TPM's state.
LEMMA DeviceTyped == IInv => DeviceType
BY DEF IInv, TypeOK, DeviceType

\* And where a step leaves it alone.
LEMMA DeviceKept ==
    ASSUME IInv, UNCHANGED device PROVE DeviceType' /\ EKMatchesCert'
BY DEF IInv, TypeOK, DeviceType, EKMatchesCert, device

\* A call returns: with what it promised, or free of its promise.
LEMMA ReturnIInv ==
    ASSUME IInv, NEW ok \in BOOLEAN, NEW kept, Return(ok, kept), kept = None \/ kept = ok,
           DeviceType', LeftBehind', EKMatchesCert'
    PROVE  IInv'
<1>1. pc' = "idle" /\ promise' = None /\ call' = None /\ handle' = None
    BY DEF Return
<1>a. outcome' = FALSE
    BY DEF Return
<1>b. tries' = 0
    BY DEF Return
<1>2. TypeOK'
  <2>1. tries' \in 0 .. 2
    BY <1>b
  <2>2. outcome' \in BOOLEAN
    BY <1>a
  <2> QED
    BY <2>1, <2>2, <1>1 DEF TypeOK, DeviceType
<1>3. CallInv' /\ PrimaryInv'
    BY <1>1, <1>a, <1>b DEF CallInv, PrimaryInv, PCs, Holding
<1>4. \A h \in Handles : SlotInv(h)'
    BY <1>1, NoneHeldNext
<1>5. ProfileInv' /\ PromiseInv' /\ PolicyEnforced'
    BY <1>1 DEF ProfileInv, PromiseInv, PolicyEnforced
<1>6. KeepsPromise'
    BY DEF Return, KeepsPromise
<1> QED
    BY <1>2, <1>3, <1>4, <1>5, <1>6 DEF IInv

\* A call without an object of its own returns and has changed nothing.
LEMMA ReturnQuiet ==
    ASSUME IInv, pc \notin Holding, UNCHANGED device,
           NEW ok \in BOOLEAN, NEW kept, Return(ok, kept), kept = None \/ kept = ok
    PROVE  IInv'
<1>1. LeftBehind
    BY NoneHeld DEF IInv, CallInv
<1>2. LeftBehind'
    BY <1>1 DEF LeftBehind, device
<1> QED
    BY <1>2, DeviceKept, ReturnIInv

\* A call goes on to a command that needs no object of its own.
LEMMA GoOn ==
    ASSUME IInv, pc \notin Holding, pc' \in PCs \ (Holding \cup {"idle"}),
           UNCHANGED <<device, handle, outcome, tries>>, result' \in {result, None},
           call' \in CallRecords, CallInv', PrimaryInv', ProfileInv', PromiseInv'
    PROVE  IInv'
<1>1. handle = None /\ outcome = FALSE /\ tries = 0
    BY DEF IInv, CallInv, Holding, TypeOK
<1>2. TypeOK'
    BY <1>1, DeviceKept, NilIsNothing DEF IInv, TypeOK, DeviceType
<1>3. \A h \in Handles : SlotInv(h)'
  <2>1. LeftBehind
    BY <1>1, NoneHeld DEF IInv
  <2>2. LeftBehind'
    BY <2>1 DEF LeftBehind, device
  <2> QED
    BY <2>2, <1>1, NoneHeldNext
<1>4. PolicyEnforced'
    BY <1>1 DEF PolicyEnforced
<1>5. KeepsPromise'
    BY DEF IInv, KeepsPromise
<1> QED
    BY <1>2, <1>3, <1>4, <1>5, DeviceKept DEF IInv

\* A call that never had, or has just lost, its promise's ground returns an
\* error.
LEMMA Denied ==
    ASSUME IInv, pc \notin Holding, pc # "idle", ~Works(call),
           Return(FALSE, promise), UNCHANGED device
    PROVE  IInv'
<1>1. promise = None \/ promise = FALSE
    BY DEF IInv, CallInv, PromiseInv
<1> QED
    BY <1>1, ReturnQuiet

\* A command failed for no reason and changed nothing.
LEMMA Failed ==
    ASSUME IInv, pc \notin Holding, ReturnFailed, UNCHANGED device
    PROVE  IInv'
BY ReturnQuiet DEF ReturnFailed

\* The answer to a command that loads an object is lost.
LEMMA AnswerLost ==
    ASSUME IInv, pc \notin Holding, Free # {}, Lost, ReturnFailed,
           UNCHANGED <<machine, auth, seed, persistent>>
    PROVE  IInv'
<1>1. LeftBehind
    BY NoneHeld DEF IInv, CallInv
<1>2. loaded' \in [Handles -> Objects \cup {None}] /\ LeftBehind'
  <2>1. "lost" \in ObjectTypes
    BY DEF ObjectTypes
  <2> QED
    BY <2>1, <1>1, PutLeaves, ObjectsAssumption DEF Lost, IInv
<1>3. DeviceType' /\ EKMatchesCert'
    BY <1>2, DeviceTyped DEF DeviceType, EKMatchesCert, IInv
<1> QED
    BY <1>2, <1>3, ReturnIInv DEF ReturnFailed

\* A call loads an object that it has to flush.
LEMMA Hold ==
    ASSUME IInv, pc \notin Holding, Free # {}, NEW type \in ObjectTypes, NEW pw \in Password,
           Put(type, pw, "call"), handle' = Slot, pc' \in Holding \ {"flush"},
           UNCHANGED <<machine, auth, seed, persistent, call, outcome, tries, result>>,
           call \in CallRecords, type = "data" <=> call.op = "Unseal",
           CallInv', PrimaryInv', ProfileInv', PromiseInv'
    PROVE  IInv'
<1>1. LeftBehind
    BY NoneHeld DEF IInv, CallInv
<1>2. tries = 0
    BY DEF IInv, CallInv, Holding
<1>3. ~outcome
    BY DEF IInv, CallInv, Holding
<1>4. /\ loaded' \in [Handles -> Objects \cup {None}] /\ Slot \in Handles
      /\ \A h \in Handles : h # Slot => loaded'[h] = loaded[h]
      /\ loaded'[Slot].type = type /\ loaded'[Slot].of = "call" /\ loaded'[Slot].flushes = 0
    BY PutFills DEF IInv
<1>5. TypeOK'
    BY <1>4, NilIsNothing DEF IInv, TypeOK, Holding
<1>6. ASSUME NEW h \in Handles PROVE SlotInv(h)'
  <2>1. CASE h = Slot
    BY <2>1, <1>2, <1>4 DEF SlotInv
  <2>2. CASE h # Slot
    BY <2>2, <1>1, <1>4 DEF SlotInv, LeftBehind
  <2> QED
    BY <2>1, <2>2
<1>7. PolicyEnforced' /\ KeepsPromise' /\ EKMatchesCert'
    BY <1>3 DEF PolicyEnforced, KeepsPromise, EKMatchesCert, IInv
<1> QED
    BY <1>5, <1>6, <1>7 DEF IInv

\* A call turns to the flush of its object.
LEMMA TurnToFlush ==
    ASSUME IInv, pc \in Holding \ {"flush"}, NEW ok \in BOOLEAN, Flush(ok),
           UNCHANGED loaded, DeviceType', EKMatchesCert',
           promise' = None \/ (promise' = promise /\ (promise # None => (promise <=> ok))),
           call.op = "Unseal" /\ ok /\ call.blob.policy # None => call.session = "fulfilled"
    PROVE  IInv'
<1>1. pc' = "flush" /\ UNCHANGED <<call, handle, tries, result>>
    BY DEF Flush
<1>2. outcome' = ok
    BY DEF Flush
<1>3. call \in CallRecords /\ handle \in Handles /\ tries = 0
    BY DEF IInv, TypeOK, CallInv, Holding
<1>4. TypeOK'
  <2>1. outcome' \in BOOLEAN
    BY <1>2
  <2>2. handle' \in Handles \cup {None} /\ tries' \in 0 .. 2 /\ call' \in CallRecords
    BY <1>1, <1>3
  <2> QED
    BY <2>1, <2>2, <1>1, NilIsNothing DEF TypeOK, DeviceType
<1>5. CallInv'
  <2>1. tries' < Attempts(call'.op)
    BY <1>1, <1>3 DEF Attempts
  <2>2. promise' \in BOOLEAN \cup {None}
    BY DEF IInv, CallInv
  <2>3. pc' \in Holding /\ handle' # None
    BY <1>1, <1>3, ObjectsAssumption DEF Holding
  <2> QED
    BY <2>1, <2>2, <2>3, <1>1 DEF CallInv, PCs
<1>6. PrimaryInv' /\ ProfileInv'
    BY <1>1 DEF PrimaryInv, ProfileInv
<1>7. \A h \in Handles : SlotInv(h)'
    BY <1>1 DEF IInv, SlotInv
<1>8. PromiseInv'
    BY <1>1, <1>2 DEF PromiseInv, Holding
<1>9. PolicyEnforced' /\ KeepsPromise'
    BY <1>1, <1>2 DEF PolicyEnforced, KeepsPromise, IInv
<1> QED
    BY <1>4, <1>5, <1>6, <1>7, <1>8, <1>9 DEF IInv

-----------------------------------------------------------------------------
(* The initial states and the beginning of a call.                         *)

\* A TPM nobody has used yet satisfies the invariant.
LEMMA InitIInv == Init => IInv
<1> SUFFICES ASSUME Init PROVE IInv
    OBVIOUS
<1>1. /\ machine \in Machines /\ auth = [h \in {"owner", "endorsement"} |-> NoPassword] /\ seed = 0
      /\ persistent = [h \in {EKHandle, SRKHandle} |-> None] /\ loaded = [h \in Handles |-> None]
    BY DEF Init
<1>2. pc = "idle" /\ call = None /\ handle = None /\ promise = None /\ result = None
    BY DEF Init
<1>3. tries = 0
    BY DEF Init
<1>4. outcome = FALSE
    BY DEF Init
<1>5. TypeOK
  <2>1. DeviceType
    BY <1>1, ObjectsAssumption DEF DeviceType
  <2>2. tries \in 0 .. 2
    BY <1>3
  <2>3. outcome \in BOOLEAN
    BY <1>4
  <2> QED
    BY <2>1, <2>2, <2>3, <1>2 DEF DeviceType, TypeOK
<1>6. CallInv /\ PrimaryInv
    BY <1>2, <1>3, <1>4 DEF CallInv, PrimaryInv, PCs, Holding
<1>7. \A h \in Handles : SlotInv(h)
    BY <1>1 DEF SlotInv
<1>8. ProfileInv /\ PromiseInv /\ KeepsPromise /\ PolicyEnforced
    BY <1>2 DEF ProfileInv, PromiseInv, KeepsPromise, PolicyEnforced
<1>9. EKMatchesCert
    BY <1>1 DEF EKMatchesCert
<1> QED
    BY <1>5, <1>6, <1>7, <1>8, <1>9 DEF IInv

\* What a call should do does not change while the TPM does not.
LEMMA WorksKept ==
    ASSUME UNCHANGED <<device, call>> PROVE Works(call)' <=> Works(call)
BY DEF Works, Free, IsEK, IsAK, KeyAt, EKPassword, device

\* A call begins.
LEMMA BeginIInv ==
    ASSUME IInv, NEW c \in CallRecords, NEW label, Begin(c, label),
           label \in {"refused", "cert p256", "primary", "load", "public", "names"},
           label \in {"refused", "cert p256", "primary"} => c \in PrimaryCalls,
           label = "load" => c \in UnsealCalls,
           label = "public" => c \in ChallengeCalls,
           label = "names" => c \in ActivateCalls,
           PrimaryInv', label = "primary" => c.op # "CreateECCEK"
    PROVE  IInv'
<1>1. /\ pc = "idle" /\ pc' = label /\ call' = c /\ result' = None
      /\ UNCHANGED <<device, handle, outcome, tries>>
    BY DEF Begin
<1>2. promise' <=> Works(c)
    BY DEF Begin
<1>3. promise' \in BOOLEAN
    BY DEF Begin, Works
<1>4. Works(call)' <=> Works(c)
    BY <1>1, ZenonT(30) DEF Works, Free, IsEK, IsAK, KeyAt, EKPassword, device
<1>5. PromiseInv'
    BY <1>1, <1>2, <1>4 DEF PromiseInv, Holding
<1>6. ProfileInv'
    BY <1>1 DEF ProfileInv
<1>7. CallInv'
    BY <1>1, <1>3, NilIsNothing DEF IInv, CallInv, PCs, Holding
<1> QED
    BY <1>1, <1>5, <1>6, <1>7, GoOn DEF PCs, Holding

\* The calls of several commands.
LEMMA CallsIInv == ASSUME IInv, Calls PROVE IInv'
<1>1. ASSUME NEW op \in Creates, NEW pw \in Password, CallCreate(op, pw) PROVE IInv'
  <2> PICK c : c = [op |-> op, pw |-> pw, type |-> CASE op = "CreateRSAEK" -> "rsa"
                                                     [] op = "CreateECCOwnerPK" -> "srk"
                                                     [] OTHER -> None]
    OBVIOUS
  <2> PICK label : label = IF op = "CreateECCEK" THEN "cert p256" ELSE "primary"
    OBVIOUS
  <2>1. Begin(c, label)
    BY <1>1 DEF CallCreate
  <2>2. /\ c.op = op /\ c.pw = pw
        /\ op = "CreateECCEK" => c.type = None
        /\ op = "CreateRSAEK" => c.type = "rsa"
        /\ op = "CreateECCOwnerPK" => c.type = "srk"
        /\ op \in {"CreateECCEK", "CreateRSAEK", "CreateECCOwnerPK"}
    BY DEF Creates
  <2>3. c \in PrimaryCalls
    BY <2>2 DEF PrimaryCalls, EKType, Creates
  <2>4. PrimaryInv'
    BY <2>1, <2>2 DEF PrimaryInv, Begin, EKType
  <2> QED
    BY <2>1, <2>2, <2>3, <2>4, BeginIInv DEF CallRecords
<1>2. ASSUME NEW pw \in Password, NEW curve \in {"p256", "p384", "p521"}, CallLoadECCEK(pw, curve)
      PROVE  IInv'
  <2> PICK c : c = [op |-> "LoadECCEK", pw |-> pw, type |-> curve]
    OBVIOUS
  <2> PICK label : label = IF curve \in {"p256", "p384"} THEN "primary" ELSE "refused"
    OBVIOUS
  <2>1. Begin(c, label)
    BY <1>2 DEF CallLoadECCEK
  <2>2. c \in PrimaryCalls /\ c.op = "LoadECCEK" /\ c.type = curve
    BY DEF PrimaryCalls, EKType
  <2>3. PrimaryInv'
    BY <2>1, <2>2 DEF PrimaryInv, Begin, EKType
  <2> QED
    BY <2>1, <2>2, <2>3, BeginIInv DEF CallRecords
<1>3. ASSUME NEW blob \in Sealings, NEW session \in {None, "fulfilled", "unfulfilled"},
             CallUnseal(blob, session)
      PROVE  IInv'
  <2> PICK c : c = [op |-> "Unseal", blob |-> blob, session |-> session]
    OBVIOUS
  <2>1. Begin(c, "load")
    BY <1>3 DEF CallUnseal
  <2>2. c \in UnsealCalls
    BY DEF UnsealCalls
  <2>3. PrimaryInv'
    BY <2>1 DEF PrimaryInv, Begin
  <2> QED
    BY <2>1, <2>2, <2>3, BeginIInv DEF CallRecords
<1>4. ASSUME NEW pw \in Password, NEW ek \in EKPlaces, NEW ak \in AKPlaces, NEW type \in WrappedFor(ek),
             CallSolveChallenge(pw, ek, ak, type) \/ CallActivateCredential(pw, ek, ak, type)
      PROVE  IInv'
  <2>1. ek \in Handles \cup {EKHandle} /\ ak \in Handles /\ type \in EKType
    BY DEF EKPlaces, AKPlaces, WrappedFor, IsEK, EKType
  <2>2. CASE CallSolveChallenge(pw, ek, ak, type)
    <3> PICK c : c = [op |-> "SolveChallenge", pw |-> pw, ek |-> ek, ak |-> ak, type |-> type,
                      session |-> None]
      OBVIOUS
    <3>1. Begin(c, "public")
      BY <2>2 DEF CallSolveChallenge
    <3>2. c \in ChallengeCalls
      BY <2>1 DEF ChallengeCalls
    <3>3. PrimaryInv'
      BY <3>1 DEF PrimaryInv, Begin
    <3> QED
      BY <3>1, <3>2, <3>3, BeginIInv DEF CallRecords
  <2>3. CASE CallActivateCredential(pw, ek, ak, type)
    <3> PICK c : c = [op |-> "ActivateCredential", pw |-> pw, ek |-> ek, ak |-> ak, type |-> type]
      OBVIOUS
    <3>1. Begin(c, "names")
      BY <2>3 DEF CallActivateCredential
    <3>2. c \in ActivateCalls
      BY <2>1 DEF ActivateCalls
    <3>3. PrimaryInv'
      BY <3>1 DEF PrimaryInv, Begin
    <3> QED
      BY <3>1, <3>2, <3>3, BeginIInv DEF CallRecords
  <2> QED
    BY <1>4, <2>2, <2>3
<1> QED
    BY <1>1, <1>2, <1>3, <1>4 DEF Calls

\* LoadECCEK refuses a curve.
LEMMA RefusedIInv == ASSUME IInv, Refused PROVE IInv'
<1>1. pc = "refused" /\ Return(FALSE, promise) /\ UNCHANGED device
    BY DEF Refused
<1>2. ~Works(call)
    BY <1>1 DEF IInv, PrimaryInv, Works
<1> QED
    BY <1>1, <1>2, Denied DEF Holding

-----------------------------------------------------------------------------
(* CreateECCEK, CreateRSAEK, CreateECCOwnerPK and LoadECCEK.               *)

\* ResolveECCEKProfile notes the curve; the promise does not depend on it.
LEMMA ChosenIInv ==
    ASSUME IInv, pc \in {"cert p256", "cert p384", "model"}, NEW curve \in {"p256", "p384"},
           Chosen(curve), promise # None => curve = CertifiedType(machine),
           UNCHANGED <<device, handle, outcome, tries, promise, result>>
    PROVE  IInv'
<1>1. call \in PrimaryCalls /\ call.op = "CreateECCEK"
    BY DEF IInv, CallInv, PrimaryInv
<1>2. pc' = "primary" /\ call' = [call EXCEPT !.type = curve]
    BY DEF Chosen
<1>3. /\ call' \in PrimaryCalls /\ call'.op = "CreateECCEK" /\ call'.pw = call.pw
      /\ call'.type = curve
  <2>1. ASSUME NEW k \in PrimaryCalls, NEW k2, k2 = [k EXCEPT !.type = curve]
        PROVE  k2 \in PrimaryCalls /\ k2.op = k.op /\ k2.pw = k.pw /\ k2.type = curve
    BY <2>1 DEF PrimaryCalls, EKType
  <2> QED
    BY <2>1, <1>1, <1>2
<1>4. Works(call)' <=> Works(call)
    BY <1>1, <1>2, <1>3 DEF Works, Free, device
<1>5. PromiseInv'
    BY <1>2, <1>4 DEF IInv, PromiseInv, Holding
<1>6. ProfileInv'
    BY <1>2, <1>3 DEF ProfileInv, device
<1>7. PrimaryInv'
    BY <1>2, <1>3 DEF PrimaryInv, EKType
<1>8. CallInv'
    BY <1>2, <1>3, NilIsNothing DEF IInv, CallInv, PCs, Holding, CallRecords
<1> QED
    BY <1>2, <1>3, <1>5, <1>6, <1>7, <1>8, GoOn DEF PCs, Holding, CallRecords

\* ResolveECCEKProfile goes on to its next source.
LEMMA SkipIInv ==
    ASSUME IInv, NEW curve \in {"p256", "p384"},
           pc = IF curve = "p256" THEN "cert p256" ELSE "cert p384",
           pc' = (IF curve = "p256" THEN "cert p384" ELSE "model"),
           promise' \in {promise, None},
           promise' # None => ~Usable(machine[curve]),
           UNCHANGED <<device, call, handle, outcome, tries, result>>
    PROVE  IInv'
<1>1. call \in PrimaryCalls /\ call.op = "CreateECCEK" /\ pc' \in {"cert p384", "model"}
    BY DEF IInv, CallInv, PrimaryInv
<1>2. PromiseInv'
    BY <1>1, WorksKept DEF IInv, PromiseInv, Holding
<1>3. ProfileInv'
    BY <1>1 DEF IInv, ProfileInv, device
<1>4. PrimaryInv'
    BY <1>1 DEF PrimaryInv
<1>5. CallInv'
    BY <1>1, NilIsNothing DEF IInv, CallInv, PCs, Holding, CallRecords
<1> QED
    BY <1>1, <1>2, <1>3, <1>4, <1>5, GoOn DEF PCs, Holding, CallRecords

\* ResolveECCEKProfile reads a certificate.
LEMMA ReadEKCertIInv == ASSUME IInv, ReadEKCert PROVE IInv'
<1> PICK curve \in {"p256", "p384"} :
        /\ pc = IF curve = "p256" THEN "cert p256" ELSE "cert p384"
        /\ LET skip == pc' = (IF curve = "p256" THEN "cert p384" ELSE "model") /\ UNCHANGED call
           IN  \/ /\ IF ParseEKCertificate(machine[curve]) # None THEN Chosen(curve) ELSE skip
                  /\ UNCHANGED promise
               \/ skip /\ promise' = None
    BY DEF ReadEKCert
<1>1. UNCHANGED <<device, handle, outcome, tries, result>>
    BY DEF ReadEKCert
<1>2. ParseEKCertificate(machine[curve]) # None <=> Usable(machine[curve])
  <2>1. machine \in Machines
    BY DEF IInv, TypeOK
  <2>2. machine[curve] \in Certificate \cup {None}
    BY <2>1, MachinesAssumption
  <2> QED
    BY <2>2, ParsedIsUsable
<1>3. CASE Usable(machine[curve]) /\ Chosen(curve) /\ UNCHANGED promise
  <2>1. promise # None => curve = CertifiedType(machine)
    BY <1>3 DEF IInv, ProfileInv, PrimaryInv, CertifiedType
  <2> QED
    BY <2>1, <1>1, <1>3, ChosenIInv
<1>4. CASE /\ pc' = (IF curve = "p256" THEN "cert p384" ELSE "model") /\ UNCHANGED call
           /\ ~Usable(machine[curve]) /\ UNCHANGED promise
    BY <1>1, <1>4, SkipIInv
<1>5. CASE /\ pc' = (IF curve = "p256" THEN "cert p384" ELSE "model") /\ UNCHANGED call
           /\ promise' = None
    BY <1>1, <1>5, SkipIInv
<1> QED
    BY <1>2, <1>3, <1>4, <1>5

\* ResolveECCEKProfile falls back to the vendor.
LEMMA ReadModelIInv == ASSUME IInv, ReadModel PROVE IInv'
<1>1. pc = "model" /\ UNCHANGED device
    BY DEF ReadModel
<1>2. CASE ReturnFailed
    BY <1>1, <1>2, Failed DEF Holding
<1>3. CASE /\ Chosen(IF Vendor(machine.maker) = "Amazon" THEN "p384" ELSE "p256")
           /\ UNCHANGED <<promise, result, handle, outcome, tries, others>>
  <2>1. Vendor(machine.maker) = "Amazon" <=> machine.maker = "AMZN"
    <3>1. machine.maker # "Amazon"
      BY MachinesAssumption DEF IInv, TypeOK
    <3> QED
      BY <3>1 DEF Vendor
  <2> PICK curve \in {"p256", "p384"} : curve = IF Vendor(machine.maker) = "Amazon" THEN "p384" ELSE "p256"
    OBVIOUS
  <2>2. promise # None => curve = CertifiedType(machine)
    BY <2>1, <1>1 DEF IInv, ProfileInv, PrimaryInv, CertifiedType
  <2> QED
    BY <2>2, <1>1, <1>3, ChosenIInv
<1> QED
    BY <1>2, <1>3 DEF ReadModel

\* CreatePrimary.
LEMMA CreatePrimaryIInv == ASSUME IInv, CreatePrimary PROVE IInv'
<1> DEFINE allowed == /\ Free # {}
                      /\ call.pw = IF call.type = "srk" THEN auth.owner ELSE auth.endorsement
<1> DEFINE pw == IF call.type = "srk" THEN NoPassword ELSE call.pw
<1>1. /\ pc = "primary" /\ pc \notin Holding /\ UNCHANGED <<machine, auth, seed, persistent>>
      /\ call \in PrimaryCalls /\ call.type \in EKType \cup {"srk"}
      /\ call.type = "srk" <=> call.op = "CreateECCOwnerPK"
      /\ call.op = "LoadECCEK" => call.type \in {"p256", "p384"}
    BY DEF CreatePrimary, IInv, CallInv, PrimaryInv, Holding
<1>2. call.type \in ObjectTypes /\ pw \in Password /\ call.type # "data" /\ call.op # "Unseal"
    BY <1>1, ObjectsAssumption DEF ObjectTypes, EKType, PrimaryCalls, Creates
<1>3. call.op \in {"CreateECCEK", "CreateRSAEK", "CreateECCOwnerPK", "LoadECCEK"}
    BY <1>1 DEF PrimaryCalls, Creates
<1>p. promise \in BOOLEAN \cup {None} /\ (promise # None => (promise <=> Works(call)))
    BY <1>1 DEF IInv, CallInv, PromiseInv
<1>a. CASE allowed /\ call.op = "LoadECCEK" /\ Put(call.type, pw, "caller") /\ Return(TRUE, promise)
  <2>1. LeftBehind
    BY <1>1, NoneHeld DEF IInv, CallInv
  <2> PICK type \in ObjectTypes : type = call.type
    BY <1>2
  <2>2. loaded' \in [Handles -> Objects \cup {None}] /\ LeftBehind'
    BY <2>1, <1>2, <1>a, PutLeaves DEF IInv
  <2>3. DeviceType' /\ EKMatchesCert'
    BY <2>2, <1>1, DeviceTyped DEF DeviceType, EKMatchesCert, IInv
  <2>4. Works(call)
    BY <1>1, <1>a DEF Works
  <2>5. promise = None \/ promise = TRUE
    BY <2>4, <1>p
  <2> QED
    BY <2>2, <2>3, <2>5, <1>a, ReturnIInv
<1>b. CASE /\ allowed /\ call.op # "LoadECCEK" /\ Put(call.type, pw, "call")
           /\ handle' = Slot /\ pc' = "evict"
           /\ UNCHANGED <<call, outcome, tries, promise, result, others>>
  <2> PICK type \in ObjectTypes : type = call.type
    BY <1>2
  <2>1. Slot \in Handles /\ loaded'[Slot] # None
    BY <1>2, <1>b, PutFills DEF IInv
  <2>2. Works(call) <=> call.pw = auth.owner /\ persistent[Place(call.type)] = None
    BY <1>1, <1>3, <1>b DEF Works, Place
  <2>3. PromiseInv'
    BY <2>1, <2>2, <1>1, <1>b, <1>p DEF PromiseInv, Holding
  <2>4. ProfileInv'
    BY <1>1, <1>b DEF IInv, ProfileInv
  <2>5. PrimaryInv'
    BY <1>1, <1>b DEF PrimaryInv
  <2>6. handle' # None
    BY <2>1, <1>b, ObjectsAssumption
  <2>7. CallInv'
    BY <2>6, <1>1, <1>b DEF IInv, CallInv, PCs, Holding
  <2> QED
    BY <2>3, <2>4, <2>5, <2>7, <1>1, <1>2, <1>b, Hold DEF Holding, CallRecords
<1>c. CASE ~allowed /\ Return(FALSE, promise) /\ UNCHANGED loaded
  <2>1. ~Works(call)
    BY <1>1, <1>3, <1>c DEF Works
  <2> QED
    BY <2>1, <1>1, <1>c, Denied DEF device
<1>d. CASE ReturnFailed /\ UNCHANGED loaded
    BY <1>1, <1>d, Failed DEF device
<1>e. CASE allowed /\ Lost /\ ReturnFailed
    BY <1>1, <1>e, AnswerLost
<1> QED
    BY <1>a, <1>b, <1>c, <1>d, <1>e DEF CreatePrimary

\* The key that EvictControl makes persistent.
LEMMA KeepTyped ==
    ASSUME NEW type \in EKType \cup {"srk"}, NEW pw \in Password, NEW resolved \in BOOLEAN
    PROVE  /\ Key(type, pw, resolved) \in Keys
           /\ Key(type, pw, resolved).type = type
           /\ Key(type, pw, resolved).resolved = resolved
<1>1. Own(type, pw) \in Password
    BY ObjectsAssumption DEF Own
<1> QED
    BY <1>1 DEF Key, Keys

\* EvictControl.
LEMMA EvictControlIInv == ASSUME IInv, EvictControl PROVE IInv'
<1> DEFINE at == Place(call.type)
<1> DEFINE allowed == call.pw = auth.owner /\ loaded[handle] # None /\ persistent[at] = None
<1> DEFINE key == Key(call.type, loaded[handle].auth, call.op = "CreateECCEK" /\ promise # None)
<1> DEFINE keep == persistent' = [persistent EXCEPT ![at] = key]
<1>1. /\ pc = "evict" /\ pc \in Holding \ {"flush"} /\ UNCHANGED <<machine, auth, seed, loaded>>
      /\ call \in PrimaryCalls /\ call.type \in EKType \cup {"srk"}
      /\ call.type = "srk" <=> call.op = "CreateECCOwnerPK"
      /\ handle \in Handles
    BY DEF EvictControl, IInv, CallInv, PrimaryInv, Holding, TypeOK
<1>2. call.op # "Unseal"
    BY <1>1 DEF PrimaryCalls, Creates
<1>p. promise # None => (promise <=> allowed)
    BY <1>1 DEF IInv, PromiseInv, Holding
<1>k. ASSUME allowed, keep PROVE DeviceType' /\ EKMatchesCert'
  <2>1. persistent \in [{EKHandle, SRKHandle} -> Keys \cup {None}] /\ at \in {EKHandle, SRKHandle}
    BY DEF IInv, TypeOK, Place
  <2>2. loaded[handle].auth \in Password
    BY <1>1, <1>k DEF IInv, TypeOK, Objects
  <2> PICK k : k = key
    OBVIOUS
  <2>3. (call.op = "CreateECCEK" /\ promise # None) \in BOOLEAN
    OBVIOUS
  <2>4. k \in Keys /\ k.type = call.type /\ (k.resolved => call.op = "CreateECCEK" /\ promise # None)
    BY <2>2, <2>3, <1>1, KeepTyped
  <2> PICK p \in {EKHandle, SRKHandle} : p = at
    BY <2>1
  <2>5. persistent' = [persistent EXCEPT ![p] = k]
    BY <1>k
  <2>6. persistent' \in [{EKHandle, SRKHandle} -> Keys \cup {None}]
    BY <2>1, <2>4, <2>5
  <2>7. DeviceType'
    BY <2>6, <1>1, DeviceTyped DEF DeviceType
  <2>8. CASE p = EKHandle
    <3>1. persistent'[EKHandle] = k
      BY <2>1, <2>5, <2>8
    <3>2. k.resolved => k.type = CertifiedType(machine)
      BY <2>4, <1>1 DEF IInv, ProfileInv
    <3> QED
      BY <3>1, <3>2, <2>7, <1>1 DEF EKMatchesCert
  <2>9. CASE p = SRKHandle
    <3>1. persistent'[EKHandle] = persistent[EKHandle]
      BY <2>1, <2>5, <2>9 DEF EKHandle, SRKHandle
    <3> QED
      BY <3>1, <2>7, <1>1 DEF IInv, EKMatchesCert
  <2> QED
    BY <2>8, <2>9
<1>u. ASSUME UNCHANGED persistent PROVE DeviceType' /\ EKMatchesCert'
    BY <1>1, <1>u, DeviceKept DEF device
<1>a. CASE allowed /\ keep /\ Flush(TRUE) /\ UNCHANGED promise
    BY <1>1, <1>2, <1>a, <1>k, <1>p, TurnToFlush
<1>b. CASE ~allowed /\ AfterRefusal /\ UNCHANGED persistent
    BY <1>1, <1>2, <1>b, <1>u, <1>p, TurnToFlush DEF AfterRefusal
<1>c. CASE Flush(FALSE) /\ promise' = None /\ UNCHANGED persistent
    BY <1>1, <1>2, <1>c, <1>u, TurnToFlush
<1>d. CASE allowed /\ keep /\ Flush(FALSE) /\ promise' = None
    BY <1>1, <1>2, <1>d, <1>k, TurnToFlush
<1> QED
    BY <1>a, <1>b, <1>c, <1>d DEF EvictControl, Place

\* One more flush of an object in vain.
LEMMA FlushedInVain ==
    ASSUME NEW o \in Objects, NEW n \in 0 .. 3, NEW o2, o.flushes + 1 = n,
           o2 = [o EXCEPT !.flushes = @ + 1]
    PROVE  o2 \in Objects /\ o2.flushes = n /\ o2.type = o.type /\ o2.of = o.of
BY DEF Objects

\* FlushContext: an object that stays behind was tried as often as the call tries.
LEMMA FlushContextIInv == ASSUME IInv, FlushContext PROVE IInv'
<1>1. /\ pc = "flush" /\ UNCHANGED <<machine, auth, seed, persistent>>
      /\ handle \in Handles /\ call \in CallRecords
    BY DEF FlushContext, IInv, CallInv, Holding, TypeOK
<1>2. tries \in 0 .. 2 /\ tries < Attempts(call.op)
    BY <1>1 DEF IInv, TypeOK, CallInv
<1>3. loaded \in [Handles -> Objects \cup {None}] /\ \A h \in Handles : SlotInv(h)
    BY DEF IInv, TypeOK
<1>4. outcome \in BOOLEAN
    BY DEF IInv, TypeOK
<1>p. promise = None \/ promise = outcome
    BY <1>1, <1>4 DEF IInv, PromiseInv, CallInv
<1>n. handle # None
    BY <1>1, ObjectsAssumption
<1>5. ASSUME Return(outcome, promise), loaded' \in [Handles -> Objects \cup {None}], LeftBehind'
      PROVE  IInv'
  <2>1. DeviceType' /\ EKMatchesCert'
    BY <1>1, <1>5, DeviceTyped DEF DeviceType, EKMatchesCert, IInv
  <2> QED
    BY <2>1, <1>4, <1>5, <1>p, ReturnIInv
<1>a. CASE /\ loaded[handle] # None /\ loaded' = [loaded EXCEPT ![handle] = None]
           /\ Return(outcome, promise)
  <2>1. /\ loaded' \in [Handles -> Objects \cup {None}] /\ loaded'[handle] = None
        /\ \A h \in Handles : h # handle => loaded'[h] = loaded[h]
    BY <1>1, <1>3, <1>a
  <2>2. LeftBehind'
    BY <2>1, <1>3 DEF LeftBehind, SlotInv
  <2> QED
    BY <2>1, <2>2, <1>5, <1>a
<1>b. CASE /\ loaded' = IF loaded[handle] = None THEN loaded
                        ELSE [loaded EXCEPT ![handle].flushes = @ + 1]
           /\ IF tries + 1 < Attempts(call.op)
              THEN tries' = tries + 1 /\ UNCHANGED <<pc, call, handle, outcome, promise, result, others>>
              ELSE Return(outcome, promise)
  <2>1. /\ loaded' \in [Handles -> Objects \cup {None}]
        /\ \A h \in Handles : h # handle => loaded'[h] = loaded[h]
        /\ loaded[handle] = None => loaded'[handle] = None
        /\ loaded[handle] # None =>
            /\ loaded'[handle].of = "call" /\ loaded'[handle].flushes = tries + 1
            /\ loaded'[handle].type = "data" <=> call.op = "Unseal"
    <3>1. CASE loaded[handle] = None
      BY <3>1, <1>b, <1>3
    <3>2. CASE loaded[handle] # None
      <4> PICK o \in Objects : o = loaded[handle]
        BY <3>2, <1>1, <1>3
      <4> PICK o2 : o2 = [o EXCEPT !.flushes = @ + 1]
        OBVIOUS
      <4>1. o.flushes = tries /\ o.of = "call" /\ (o.type = "data" <=> call.op = "Unseal")
        BY <3>2, <1>1, <1>3 DEF SlotInv
      <4>2. o.flushes + 1 = tries + 1 /\ tries + 1 \in 0 .. 3
        BY <4>1, <1>2
      <4>3. o2 \in Objects /\ o2.flushes = tries + 1 /\ o2.type = o.type /\ o2.of = o.of
        BY <4>2, FlushedInVain
      <4>4. loaded' = [loaded EXCEPT ![handle] = o2]
        BY <3>2, <1>b
      <4>5. /\ loaded' \in [Handles -> Objects \cup {None}] /\ loaded'[handle] = o2
            /\ \A h \in Handles : h # handle => loaded'[h] = loaded[h]
        BY <4>3, <4>4, <1>1, <1>3
      <4> QED
        BY <4>1, <4>3, <4>5, <3>2
    <3> QED
      BY <3>1, <3>2
  <2>2. CASE ~(tries + 1 < Attempts(call.op)) /\ Return(outcome, promise)
    <3>1. tries + 1 = IF call.op = "Unseal" THEN 3 ELSE 1
      BY <2>2, <1>2 DEF Attempts
    <3>2. ASSUME NEW h \in Handles, loaded'[h] # None, loaded'[h].of = "call"
          PROVE  loaded'[h].flushes = IF loaded'[h].type = "data" THEN 3 ELSE 1
      <4>1. CASE h = handle
        BY <4>1, <3>1, <3>2, <2>1
      <4>2. CASE h # handle
        BY <4>2, <3>2, <2>1, <1>3 DEF SlotInv
      <4> QED
        BY <4>1, <4>2
    <3>3. LeftBehind'
      BY <3>2 DEF LeftBehind
    <3> QED
      BY <3>3, <2>1, <2>2, <1>5
  <2>3. CASE /\ tries + 1 < Attempts(call.op) /\ tries' = tries + 1
             /\ UNCHANGED <<pc, call, handle, outcome, promise, result, others>>
    <3>1. tries' \in 0 .. 2
      BY <2>3, <1>2 DEF Attempts
    <3>2. TypeOK'
      BY <3>1, <2>1, <2>3, <1>1 DEF IInv, TypeOK
    <3>3. CallInv'
      BY <2>3, <1>1 DEF IInv, CallInv
    <3>4. PrimaryInv' /\ ProfileInv'
      BY <2>3, <1>1 DEF PrimaryInv, ProfileInv
    <3>5. \A h \in Handles : SlotInv(h)'
      BY <2>1, <2>3, <1>3 DEF SlotInv
    <3>6. PromiseInv'
      BY <2>3, <1>1 DEF IInv, PromiseInv, Holding
    <3>7. PolicyEnforced' /\ KeepsPromise' /\ EKMatchesCert'
      BY <2>3, <1>1 DEF IInv, PolicyEnforced, KeepsPromise, EKMatchesCert
    <3> QED
      BY <3>2, <3>3, <3>4, <3>5, <3>6, <3>7 DEF IInv
  <2> QED
    BY <2>2, <2>3, <1>b
<1> QED
    BY <1>a, <1>b DEF FlushContext

-----------------------------------------------------------------------------
(* Unseal.                                                                 *)

\* The sealed object is loaded.
LEMMA LoadSealedIInv == ASSUME IInv, LoadSealed PROVE IInv'
<1> DEFINE allowed == Free # {} /\ persistent[SRKHandle] # None /\ call.blob.seed = seed
<1>1. /\ pc = "load" /\ pc \notin Holding /\ UNCHANGED <<machine, auth, seed, persistent>>
      /\ call \in UnsealCalls
    BY DEF LoadSealed, IInv, CallInv, Holding
<1>2. call.op = "Unseal"
    BY <1>1 DEF UnsealCalls
<1>a. CASE /\ allowed /\ Put("data", NoPassword, "call") /\ handle' = Slot /\ pc' = "unseal"
           /\ UNCHANGED <<call, outcome, tries, promise, result, others>>
  <2>t. "data" \in ObjectTypes /\ NoPassword \in Password
    BY ObjectsAssumption DEF ObjectTypes
  <2>1. Slot \in Handles /\ loaded'[Slot] # None
    BY <2>t, <1>a, PutFills DEF IInv
  <2>2. Works(call) <=> call.session = IF call.blob.policy = None THEN None ELSE "fulfilled"
    BY <1>2, <1>a DEF Works
  <2>3. PromiseInv'
    BY <2>1, <2>2, <1>1, <1>a DEF IInv, PromiseInv, Holding
  <2>4. ProfileInv' /\ PrimaryInv'
    BY <1>a DEF ProfileInv, PrimaryInv
  <2>5. handle' # None
    BY <2>1, <1>a, ObjectsAssumption
  <2>6. CallInv'
    BY <2>5, <1>1, <1>a DEF IInv, CallInv, PCs, Holding
  <2> QED
    BY <2>t, <2>3, <2>4, <2>6, <1>1, <1>2, <1>a, Hold DEF Holding, CallRecords
<1>b. CASE ~allowed /\ Return(FALSE, promise) /\ UNCHANGED loaded
  <2>1. ~Works(call)
    BY <1>2, <1>b DEF Works
  <2> QED
    BY <2>1, <1>1, <1>b, Denied DEF device
<1>c. CASE ReturnFailed /\ UNCHANGED loaded
    BY <1>1, <1>c, Failed DEF device
<1>d. CASE allowed /\ Lost /\ ReturnFailed
    BY <1>1, <1>d, AnswerLost
<1> QED
    BY <1>a, <1>b, <1>c, <1>d DEF LoadSealed

\* The data is unsealed, by the policy if there is one.
LEMMA UnsealDataIInv == ASSUME IInv, UnsealData PROVE IInv'
<1> DEFINE allowed == /\ loaded[handle] # None
                      /\ IF call.session = None THEN Sealed(call.blob.policy).userWithAuth
                         ELSE Sealed(call.blob.policy).policy # None /\ call.session = "fulfilled"
<1>1. /\ pc = "unseal" /\ pc \in Holding \ {"flush"} /\ UNCHANGED device
      /\ call \in UnsealCalls
    BY DEF UnsealData, IInv, CallInv, Holding
<1>2. /\ Sealed(call.blob.policy).userWithAuth <=> call.blob.policy = None
      /\ Sealed(call.blob.policy).policy = call.blob.policy
    BY DEF Sealed
<1>3. allowed /\ call.blob.policy # None => call.session = "fulfilled"
    BY <1>2
<1>4. promise # None => (promise <=> allowed)
  <2> SUFFICES ASSUME promise # None PROVE promise <=> allowed
    OBVIOUS
  <2>1. loaded[handle] # None
    BY <1>1 DEF IInv, PromiseInv, Holding
  <2>2. promise <=> call.session = IF call.blob.policy = None THEN None ELSE "fulfilled"
    BY <1>1 DEF IInv, PromiseInv
  <2>3. None # "fulfilled"
    BY NilIsNothing
  <2>4. (call.session = IF call.blob.policy = None THEN None ELSE "fulfilled") <=> allowed
    BY <2>1, <2>3, <1>2
  <2> QED
    BY <2>2, <2>4
<1>5. UNCHANGED loaded
    BY <1>1 DEF device
<1>a. CASE Flush(allowed) /\ UNCHANGED promise
  <2> PICK ok \in BOOLEAN : ok <=> allowed
    OBVIOUS
  <2>1. Flush(ok)
    BY <1>a
  <2> HIDE DEF allowed
  <2> QED
    BY <2>1, <1>1, <1>3, <1>4, <1>5, <1>a, DeviceKept, TurnToFlush
<1>b. CASE Flush(FALSE) /\ promise' = None
    BY <1>1, <1>5, <1>b, DeviceKept, TurnToFlush
<1> QED
    BY <1>a, <1>b DEF UnsealData

-----------------------------------------------------------------------------
(* SolveChallenge and ActivateCredential.                                  *)

\* A command that only leads to the next one.
LEMMA GotoIInv ==
    ASSUME IInv, NEW label, UNCHANGED device, Goto(label),
           \/ pc = "import" /\ label = "load hmac"
           \/ pc = "names" /\ label = "activate"
    PROVE  IInv'
<1>1. pc' = label /\ UNCHANGED <<call, handle, outcome, tries, promise, result>>
    BY DEF Goto
<1>2. CallInv'
    BY <1>1 DEF IInv, CallInv, PCs, Holding
<1>3. PrimaryInv' /\ ProfileInv'
    BY <1>1 DEF PrimaryInv, ProfileInv
<1>4. PromiseInv'
  <2>1. Works(call)' <=> Works(call)
    BY <1>1, WorksKept
  <2>2. IsEK(call.ek)' <=> IsEK(call.ek)
    BY <1>1 DEF IsEK, KeyAt, device
  <2>3. SessionFor(KeyAt(call.ek))' = SessionFor(KeyAt(call.ek))
    BY <1>1 DEF KeyAt, device, SessionFor
  <2> QED
    BY <2>1, <2>2, <2>3, <1>1 DEF IInv, PromiseInv, Holding
<1>5. call' \in CallRecords
    BY <1>1 DEF IInv, CallInv, CallRecords
<1> QED
    BY <1>1, <1>2, <1>3, <1>4, <1>5, GoOn DEF PCs, Holding

\* The public area of the EK says how to use it.
LEMMA ReadEKPublicIInv == ASSUME IInv, ReadEKPublic PROVE IInv'
<1>1. /\ pc = "public" /\ pc \notin Holding /\ UNCHANGED device
      /\ call \in ChallengeCalls
    BY DEF ReadEKPublic, IInv, CallInv, Holding
<1>2. call.op = "SolveChallenge"
    BY <1>1 DEF ChallengeCalls
<1>a. CASE /\ IsEK(call.ek) /\ pc' = "import"
           /\ call' = [call EXCEPT !.session = SessionFor(KeyAt(call.ek))]
           /\ UNCHANGED <<handle, outcome, tries, promise, result, others>>
  <2> PICK ses \in {"password", "policy"} : ses = SessionFor(KeyAt(call.ek))
    BY DEF SessionFor
  <2>1. /\ call' \in ChallengeCalls /\ call'.op = "SolveChallenge" /\ call'.session = ses
        /\ call'.pw = call.pw /\ call'.ek = call.ek /\ call'.ak = call.ak /\ call'.type = call.type
    <3>1. ASSUME NEW k \in ChallengeCalls, NEW k2, k2 = [k EXCEPT !.session = ses]
          PROVE  /\ k2 \in ChallengeCalls /\ k2.op = k.op /\ k2.session = ses
                 /\ k2.pw = k.pw /\ k2.ek = k.ek /\ k2.ak = k.ak /\ k2.type = k.type
      BY <3>1 DEF ChallengeCalls
    <3> QED
      BY <3>1, <1>1, <1>2, <1>a
  <2>2. Works(call)' <=> Works(call)
    BY <2>1, <1>1, <1>2 DEF Works, Free, IsEK, IsAK, KeyAt, EKPassword, device
  <2>3. IsEK(call.ek)' /\ SessionFor(KeyAt(call.ek))' = ses
    BY <2>1, <1>1, <1>a DEF IsEK, KeyAt, device, SessionFor
  <2>4. PromiseInv'
    BY <2>1, <2>2, <2>3, <1>1, <1>a DEF IInv, PromiseInv, Holding
  <2>5. PrimaryInv' /\ ProfileInv'
    BY <1>a DEF PrimaryInv, ProfileInv
  <2>6. CallInv'
    BY <2>1, <1>1, <1>a DEF IInv, CallInv, PCs, Holding
  <2> QED
    BY <2>1, <2>4, <2>5, <2>6, <1>1, <1>a, GoOn DEF PCs, Holding, CallRecords
<1>b. CASE ~IsEK(call.ek) /\ Return(FALSE, promise)
    BY <1>1, <1>2, <1>b, Denied DEF Works
<1>c. CASE ReturnFailed
    BY <1>1, <1>c, Failed
<1> QED
    BY <1>a, <1>b, <1>c DEF ReadEKPublic

\* Used in the way its public area says, an EK accepts the password that the
\* caller needs and no other.
LEMMA ParentIsPromised ==
    ASSUME call \in ChallengeCalls, IsEK(call.ek), call.session = SessionFor(KeyAt(call.ek))
    PROVE  Parent <=> KeyAt(call.ek).type = call.type /\ call.pw = EKPassword(KeyAt(call.ek))
<1> PICK k : k = KeyAt(call.ek)
    OBVIOUS
<1>1. k.type \in {"rsa", "p256", "p384"}
    BY DEF IsEK, EKType
<1>2. Template(k.type).userWithAuth <=> k.type = "p384"
    BY <1>1 DEF Template
<1>3. Template(k.type).policy = "SHA256" <=> k.type # "p384"
    BY <1>1 DEF Template
<1>4. call.session = IF k.type = "p384" THEN "password" ELSE "policy"
    BY <1>2 DEF SessionFor
<1>5. Accepts(k, call.session, call.pw) <=> call.pw = EKPassword(k)
    BY <1>2, <1>3, <1>4 DEF Accepts, EKPassword
<1> QED
    BY <1>5 DEF Parent

\* What the promise of SolveChallenge says while the EK is used.
LEMMA ChallengePromised ==
    ASSUME IInv, pc \in {"import", "load hmac"}, promise # None
    PROVE  (promise <=> Works(call)) /\ (Works(call) <=> Parent /\ Free # {} /\ IsAK(call.ak))
<1>1. call \in ChallengeCalls /\ (promise <=> Works(call))
    BY DEF IInv, CallInv, PromiseInv, Holding
<1>2. call.op = "SolveChallenge"
    BY <1>1 DEF ChallengeCalls
<1>3. IsEK(call.ek) /\ call.session = SessionFor(KeyAt(call.ek))
    BY DEF IInv, PromiseInv
<1>4. Works(call) <=> /\ Free # {} /\ IsEK(call.ek) /\ IsAK(call.ak)
                      /\ KeyAt(call.ek).type = call.type /\ call.pw = EKPassword(KeyAt(call.ek))
    BY <1>2 DEF Works
<1> QED
    BY <1>1, <1>3, <1>4, ParentIsPromised

\* A call that returns an error which it did not promise to avoid.
LEMMA DeniedPromise ==
    ASSUME IInv, pc \notin Holding, promise # None => ~promise,
           Return(FALSE, promise), UNCHANGED device
    PROVE  IInv'
<1>1. promise = None \/ promise = FALSE
    BY DEF IInv, CallInv
<1> QED
    BY <1>1, ReturnQuiet

\* The HMAC key is imported.
LEMMA ImportHMACIInv == ASSUME IInv, ImportHMAC PROVE IInv'
<1>1. pc = "import" /\ pc \notin Holding /\ UNCHANGED device
    BY DEF ImportHMAC, Holding
<1>a. CASE Parent /\ Goto("load hmac")
    BY <1>1, <1>a, GotoIInv
<1>b. CASE ~Parent /\ Return(FALSE, promise)
    BY <1>1, <1>b, ChallengePromised, DeniedPromise
<1>c. CASE ReturnFailed
    BY <1>1, <1>c, Failed
<1> QED
    BY <1>a, <1>b, <1>c DEF ImportHMAC

\* The HMAC key is loaded.
LEMMA LoadHMACIInv == ASSUME IInv, LoadHMAC PROVE IInv'
<1>1. /\ pc = "load hmac" /\ pc \notin Holding /\ UNCHANGED <<machine, auth, seed, persistent>>
      /\ call \in ChallengeCalls
    BY DEF LoadHMAC, IInv, CallInv, Holding
<1>2. call.op = "SolveChallenge" /\ call.ak \in Handles
    BY <1>1 DEF ChallengeCalls
<1>a. CASE /\ Parent /\ Free # {} /\ Put("hmac", NoPassword, "call")
           /\ handle' = Slot /\ pc' = "certify"
           /\ UNCHANGED <<call, outcome, tries, promise, result, others>>
  <2>t. "hmac" \in ObjectTypes /\ NoPassword \in Password
    BY ObjectsAssumption DEF ObjectTypes
  <2>1. /\ Slot \in Handles /\ loaded[Slot] = None
        /\ loaded'[Slot] # None /\ loaded'[Slot].type = "hmac"
        /\ \A h \in Handles : h # Slot => loaded'[h] = loaded[h]
    BY <2>t, <1>a, PutFills DEF IInv
  <2>2. IsAK(call.ak)' <=> IsAK(call.ak)
    BY <2>1, <1>2, <1>a DEF IsAK, KeyAt
  <2>3. promise # None => (promise <=> IsAK(call.ak))
    BY <1>1, <1>a, ChallengePromised
  <2>4. PromiseInv'
    BY <2>1, <2>2, <2>3, <1>a DEF PromiseInv, Holding
  <2>5. ProfileInv' /\ PrimaryInv'
    BY <1>a DEF ProfileInv, PrimaryInv
  <2>6. handle' # None
    BY <2>1, <1>a, ObjectsAssumption
  <2>7. CallInv'
    BY <2>6, <1>1, <1>a DEF IInv, CallInv, PCs, Holding
  <2> QED
    BY <2>t, <2>4, <2>5, <2>7, <1>1, <1>2, <1>a, Hold DEF Holding, CallRecords
<1>b. CASE ~(Parent /\ Free # {}) /\ Return(FALSE, promise) /\ UNCHANGED loaded
    BY <1>1, <1>b, ChallengePromised, DeniedPromise DEF device
<1>c. CASE ReturnFailed /\ UNCHANGED loaded
    BY <1>1, <1>c, Failed DEF device
<1>d. CASE Parent /\ Free # {} /\ Lost /\ ReturnFailed
    BY <1>1, <1>d, AnswerLost
<1> QED
    BY <1>a, <1>b, <1>c, <1>d DEF LoadHMAC

\* The attestation key is certified.
LEMMA CertifyAKIInv == ASSUME IInv, CertifyAK PROVE IInv'
<1> DEFINE allowed == loaded[handle] # None /\ IsAK(call.ak)
<1>1. pc = "certify" /\ pc \in Holding \ {"flush"} /\ UNCHANGED device /\ call \in ChallengeCalls
    BY DEF CertifyAK, IInv, CallInv, Holding
<1>2. call.op # "Unseal" /\ UNCHANGED loaded
    BY <1>1 DEF ChallengeCalls, device
<1>3. promise # None => (promise <=> allowed)
    BY <1>1 DEF IInv, PromiseInv, Holding
<1>a. CASE Flush(allowed) /\ UNCHANGED promise
  <2> PICK ok \in BOOLEAN : ok <=> allowed
    OBVIOUS
  <2>1. Flush(ok)
    BY <1>a
  <2> HIDE DEF allowed
  <2> QED
    BY <2>1, <1>1, <1>2, <1>3, <1>a, DeviceKept, TurnToFlush
<1>b. CASE Flush(FALSE) /\ promise' = None
    BY <1>1, <1>2, <1>b, DeviceKept, TurnToFlush
<1> QED
    BY <1>a, <1>b DEF CertifyAK

\* ActivateCredential reads the names.
LEMMA ReadNamesIInv == ASSUME IInv, ReadNames PROVE IInv'
<1>1. pc = "names" /\ pc \notin Holding /\ UNCHANGED device /\ call \in ActivateCalls
    BY DEF ReadNames, IInv, CallInv, Holding
<1>2. call.op = "ActivateCredential"
    BY <1>1 DEF ActivateCalls
<1>a. CASE Goto("activate")
    BY <1>1, <1>a, GotoIInv
<1>b. CASE ~(IsEK(call.ek) /\ IsAK(call.ak)) /\ Return(FALSE, promise)
  <2>1. ~Works(call)
    BY <1>2, <1>b DEF Works
  <2> QED
    BY <2>1, <1>1, <1>b, Denied
<1>c. CASE ReturnFailed
    BY <1>1, <1>c, Failed
<1> QED
    BY <1>a, <1>b, <1>c DEF ReadNames

\* ActivateCredential, its last command.
LEMMA ActivateCredentialIInv == ASSUME IInv, ActivateCredential PROVE IInv'
<1> DEFINE done == /\ IsEK(call.ek) /\ IsAK(call.ak) /\ KeyAt(call.ek).type = call.type
                   /\ Accepts(KeyAt(call.ek), "policy", call.pw)
<1>1. pc = "activate" /\ pc \notin Holding /\ UNCHANGED device /\ call \in ActivateCalls
    BY DEF ActivateCredential, IInv, CallInv, Holding
<1>2. call.op = "ActivateCredential" /\ call.type \in {"rsa", "p256", "p384"}
    BY <1>1 DEF ActivateCalls, EKType
<1>3. Template(call.type).policy = "SHA256" <=> call.type # "p384"
    BY <1>2 DEF Template
<1>4. done <=> Works(call)
  <2>1. Works(call) <=> /\ IsEK(call.ek) /\ IsAK(call.ak) /\ KeyAt(call.ek).type = call.type
                        /\ call.type # "p384" /\ call.pw = auth.endorsement
    BY <1>2 DEF Works
  <2>2. KeyAt(call.ek).type = call.type =>
            (Accepts(KeyAt(call.ek), "policy", call.pw) <=>
                call.type # "p384" /\ call.pw = auth.endorsement)
    BY <1>3 DEF Accepts
  <2> QED
    BY <2>1, <2>2
<1>a. CASE Return(done, promise)
  <2> PICK ok \in BOOLEAN : ok <=> done
    OBVIOUS
  <2>1. Return(ok, promise)
    BY <1>a
  <2> HIDE DEF done
  <2>2. promise = None \/ promise = ok
    BY <1>1, <1>4 DEF IInv, CallInv, PromiseInv, Holding
  <2> QED
    BY <2>1, <2>2, <1>1, ReturnQuiet
<1>b. CASE ReturnFailed
    BY <1>1, <1>b, Failed
<1> QED
    BY <1>a, <1>b DEF ActivateCredential

-----------------------------------------------------------------------------
(* Calls of a single command, and other programs.                          *)

\* A call of a single command.
LEMMA SingleIInv ==
    ASSUME IInv, Single, DeviceType', LeftBehind', EKMatchesCert'
    PROVE  IInv'
<1>1. pc = "idle" /\ UNCHANGED <<pc, call, handle, outcome, tries, promise>> /\ result' = None
    BY DEF Single, locals
<1>2. handle = None /\ call = None /\ promise = None
    BY <1>1 DEF IInv, CallInv, TypeOK, Holding
<1>3. TypeOK'
    BY <1>1 DEF IInv, TypeOK, DeviceType
<1>4. CallInv'
    BY <1>1 DEF IInv, CallInv, Holding
<1>5. PrimaryInv' /\ ProfileInv' /\ PromiseInv'
    BY <1>1, <1>2 DEF PrimaryInv, ProfileInv, PromiseInv
<1>6. \A h \in Handles : SlotInv(h)'
    BY <1>1, <1>2, NoneHeldNext
<1>7. PolicyEnforced' /\ KeepsPromise'
    BY <1>1, <1>2 DEF PolicyEnforced, KeepsPromise
<1> QED
    BY <1>3, <1>4, <1>5, <1>6, <1>7 DEF IInv

\* TPM2_Clear.
LEMMA ClearedLeaves ==
    ASSUME IInv, Cleared
    PROVE  DeviceType' /\ EKMatchesCert' /\ \A h \in Handles : loaded'[h] = None
<1>1. /\ UNCHANGED machine /\ seed < MaxClears /\ seed' = seed + 1
      /\ auth' = [h \in DOMAIN auth |-> NoPassword]
      /\ persistent' = [h \in DOMAIN persistent |-> None]
      /\ loaded' = [h \in Handles |-> None]
    BY DEF Cleared
<1>2. /\ machine \in Machines /\ seed \in 0 .. MaxClears
      /\ DOMAIN auth = {"owner", "endorsement"} /\ DOMAIN persistent = {EKHandle, SRKHandle}
    BY DEF IInv, TypeOK
<1>3. seed' \in 0 .. MaxClears
    BY <1>1, <1>2, ObjectsAssumption
<1>4. auth' \in [{"owner", "endorsement"} -> Password]
    BY <1>1, <1>2, ObjectsAssumption
<1>5. /\ persistent' \in [{EKHandle, SRKHandle} -> Keys \cup {None}] /\ persistent'[EKHandle] = None
      /\ loaded' \in [Handles -> Objects \cup {None}]
    BY <1>1, <1>2
<1> QED
    BY <1>1, <1>2, <1>3, <1>4, <1>5 DEF DeviceType, EKMatchesCert

\* A password is changed.
LEMMA PasswordChanged ==
    ASSUME IInv, NEW h \in {"owner", "endorsement"}, NEW pw \in Password,
           auth' = [auth EXCEPT ![h] = pw], UNCHANGED <<machine, seed, persistent, loaded>>
    PROVE  DeviceType' /\ EKMatchesCert'
<1>1. auth' \in [{"owner", "endorsement"} -> Password]
    BY DEF IInv, TypeOK
<1> QED
    BY <1>1, DeviceTyped DEF DeviceType, IInv, EKMatchesCert

\* LoadKey, UnloadKey, ChangeHierarchyPassword and Clear.
LEMMA SinglesIInv == ASSUME IInv, Singles PROVE IInv'
<1>0. ASSUME pc = "idle" PROVE LeftBehind
    BY <1>0, NoneHeld DEF IInv, CallInv, Holding
<1>1. ASSUME NEW s \in 0 .. MaxClears, LoadKey(s) PROVE IInv'
  <2>1. /\ Single /\ pc = "idle" /\ Free # {} /\ UNCHANGED <<machine, auth, seed, persistent>>
        /\ Put("ak", NoPassword, "caller") \/ Put("lost", NoPassword, "nobody")
    BY <1>1 DEF LoadKey, Single, Lost
  <2>2. "ak" \in ObjectTypes /\ "lost" \in ObjectTypes /\ NoPassword \in Password
    BY ObjectsAssumption DEF ObjectTypes
  <2>3. loaded' \in [Handles -> Objects \cup {None}] /\ LeftBehind'
    BY <2>1, <2>2, <1>0, PutLeaves DEF IInv
  <2>4. DeviceType' /\ EKMatchesCert'
    BY <2>1, <2>3, DeviceTyped DEF DeviceType, EKMatchesCert, IInv
  <2> QED
    BY <2>1, <2>3, <2>4, SingleIInv
<1>2. ASSUME NEW h \in Handles, UnloadKey(h) PROVE IInv'
  <2>1. /\ Single /\ pc = "idle" /\ UNCHANGED <<machine, auth, seed, persistent>>
        /\ loaded' = [loaded EXCEPT ![h] = None]
    BY <1>2 DEF UnloadKey, Single
  <2>2. loaded \in [Handles -> Objects \cup {None}] /\ LeftBehind
    BY <2>1, <1>0 DEF IInv, TypeOK
  <2>3. /\ loaded' \in [Handles -> Objects \cup {None}] /\ loaded'[h] = None
        /\ \A k \in Handles : k # h => loaded'[k] = loaded[k]
    BY <2>1, <2>2
  <2>4. LeftBehind'
    BY <2>2, <2>3 DEF LeftBehind
  <2>5. DeviceType' /\ EKMatchesCert'
    BY <2>1, <2>3, DeviceTyped DEF DeviceType, EKMatchesCert, IInv
  <2> QED
    BY <2>1, <2>4, <2>5, SingleIInv
<1>3. ASSUME NEW h \in DOMAIN auth, NEW old \in Password, NEW new \in Password,
             ChangeHierarchyPassword(h, old, new)
      PROVE  IInv'
  <2>1. /\ Single /\ pc = "idle" /\ auth' = [auth EXCEPT ![h] = new]
        /\ UNCHANGED <<machine, seed, persistent, loaded>>
    BY <1>3 DEF ChangeHierarchyPassword, Single
  <2>2. h \in {"owner", "endorsement"}
    BY DEF IInv, TypeOK
  <2>3. LeftBehind'
    BY <2>1, <1>0 DEF LeftBehind
  <2> QED
    BY <2>1, <2>2, <2>3, PasswordChanged, SingleIInv
<1>4. CASE Clear
  <2>1. LeftBehind'
    BY <1>4, ClearedLeaves DEF Clear, LeftBehind
  <2> QED
    BY <2>1, <1>4, ClearedLeaves, SingleIInv DEF Clear
<1> QED
    BY <1>1, <1>2, <1>3, <1>4 DEF Singles

\* Another program changes the TPM under a call.
LEMMA OtherProgramIInv == ASSUME IInv, OtherProgram PROVE IInv'
<1>1. pc # "idle" /\ promise' = None /\ UNCHANGED <<pc, call, handle, outcome, tries, result>>
    BY DEF OtherProgram, locals
<1>2. DeviceType' /\ EKMatchesCert' /\ \A h \in Handles : loaded'[h] \in {loaded[h], None}
  <2>1. ASSUME NEW h \in {"owner", "endorsement"}, NEW pw \in Password,
               auth' = [auth EXCEPT ![h] = pw], UNCHANGED <<machine, seed, persistent, loaded>>
        PROVE  DeviceType' /\ EKMatchesCert'
    BY <2>1, PasswordChanged
  <2>2. CASE Cleared
    BY <2>2, ClearedLeaves
  <2>3. ASSUME NEW h \in DOMAIN persistent, UNCHANGED <<machine, auth, seed, loaded>>,
               persistent' = [persistent EXCEPT ![h] =
                      Key(IF h = SRKHandle THEN "srk" ELSE "rsa", NoPassword, FALSE)]
        PROVE  DeviceType' /\ EKMatchesCert'
    <3> PICK type \in EKType \cup {"srk"} : type = IF h = SRKHandle THEN "srk" ELSE "rsa"
      BY DEF EKType
    <3> PICK k : k = Key(type, NoPassword, FALSE)
      OBVIOUS
    <3>1. k \in Keys /\ ~k.resolved
      BY KeepTyped, ObjectsAssumption
    <3>2. persistent \in [{EKHandle, SRKHandle} -> Keys \cup {None}] /\ h \in {EKHandle, SRKHandle}
      BY DEF IInv, TypeOK
    <3>3. persistent' = [persistent EXCEPT ![h] = k]
      BY <2>3
    <3>4. /\ persistent' \in [{EKHandle, SRKHandle} -> Keys \cup {None}]
          /\ persistent'[EKHandle] = k \/ persistent'[EKHandle] = persistent[EKHandle]
      BY <3>1, <3>2, <3>3
    <3> QED
      BY <3>1, <3>4, <2>3, DeviceTyped DEF DeviceType, EKMatchesCert, IInv
  <2> QED
    BY <2>1, <2>2, <2>3 DEF OtherProgram
<1>3. TypeOK'
    BY <1>1, <1>2 DEF IInv, TypeOK, DeviceType
<1>4. CallInv'
    BY <1>1 DEF IInv, CallInv
<1>5. PrimaryInv' /\ ProfileInv' /\ PromiseInv'
    BY <1>1 DEF IInv, PrimaryInv, ProfileInv, PromiseInv
<1>6. ASSUME NEW h \in Handles PROVE SlotInv(h)'
  <2>1. loaded'[h] = loaded[h] \/ loaded'[h] = None
    BY <1>2
  <2> QED
    BY <2>1, <1>1 DEF IInv, SlotInv
<1>7. PolicyEnforced' /\ KeepsPromise'
    BY <1>1 DEF IInv, PolicyEnforced, KeepsPromise
<1> QED
    BY <1>2, <1>3, <1>4, <1>5, <1>6, <1>7 DEF IInv

-----------------------------------------------------------------------------
(* The invariant holds of every behaviour.                                 *)

\* Every step keeps the invariant.
LEMMA NextIInv == IInv /\ [Next]_vars => IInv'
<1> SUFFICES ASSUME IInv, [Next]_vars PROVE IInv'
    OBVIOUS
<1>1. CASE Steps
    BY <1>1, RefusedIInv, ReadEKCertIInv, ReadModelIInv, CreatePrimaryIInv, EvictControlIInv,
       FlushContextIInv, LoadSealedIInv, UnsealDataIInv, ReadEKPublicIInv, ImportHMACIInv,
       LoadHMACIInv, CertifyAKIInv, ReadNamesIInv, ActivateCredentialIInv DEF Steps
<1>2. CASE UNCHANGED vars
  <2>1. UNCHANGED <<device, pc, call, handle, outcome, tries, promise, result>>
    BY <1>2 DEF vars, locals
  <2>2. TypeOK' /\ EKMatchesCert'
    BY <2>1, DeviceKept DEF IInv, TypeOK, DeviceType
  <2>3. CallInv' /\ PrimaryInv'
    BY <2>1, ZenonT(30) DEF IInv, CallInv, PrimaryInv
  <2>4. \A h \in Handles : SlotInv(h)'
    BY <2>1 DEF IInv, SlotInv, device
  <2>5. ProfileInv'
    BY <2>1 DEF IInv, ProfileInv, device
  <2>6. PromiseInv'
    <3>1. Works(call)' <=> Works(call)
      BY <2>1, WorksKept
    <3>2. (IsEK(call.ek)' <=> IsEK(call.ek)) /\ (IsAK(call.ak)' <=> IsAK(call.ak))
      BY <2>1 DEF IsEK, IsAK, KeyAt, device
    <3>3. SessionFor(KeyAt(call.ek))' = SessionFor(KeyAt(call.ek))
      BY <2>1 DEF KeyAt, device, SessionFor
    <3> QED
      BY <3>1, <3>2, <3>3, <2>1 DEF IInv, PromiseInv, device
  <2>7. PolicyEnforced' /\ KeepsPromise'
    BY <2>1 DEF IInv, PolicyEnforced, KeepsPromise
  <2> QED
    BY <2>2, <2>3, <2>4, <2>5, <2>6, <2>7 DEF IInv
<1> QED
    BY <1>1, <1>2, CallsIInv, SinglesIInv, OtherProgramIInv DEF Next

\* The invariant holds in every state of every behaviour.
LEMMA Inductive == Spec => []IInv
BY InitIInv, NextIInv, PTL DEF Spec

\* A call returns what its arguments and the state at its beginning decide,
\* unless a command fails for no reason or another program interferes.
THEOREM PromiseKept == Spec => []KeepsPromise
<1>1. IInv => KeepsPromise
    BY DEF IInv
<1> QED
    BY <1>1, Inductive, PTL

\* A call that has returned leaves an object of its own in the TPM only if every
\* attempt to flush it has failed.
THEOREM NothingLeaks == Spec => []NoLeak
<1>1. IInv => NoLeak
  <2> SUFFICES ASSUME IInv PROVE NoLeak
    OBVIOUS
  <2>1. pc = "idle" => LeftBehind
    BY NoneHeld DEF IInv, CallInv, Holding
  <2> QED
    BY <2>1 DEF IInv, NoLeak, LeftBehind
<1> QED
    BY <1>1, Inductive, PTL

\* CreateECCEK makes the EK persistent that the TPM has a usable certificate for,
\* one whose serial number is not negative and, unless STMicroelectronics issued
\* it, not padded.
THEOREM EKIsCertified == Spec => []EKMatchesCert
<1>1. IInv => EKMatchesCert
    BY DEF IInv
<1> QED
    BY <1>1, Inductive, PTL

\* Data sealed with a policy is unsealed only in a session that fulfils it.
THEOREM PolicyIsEnforced == Spec => []PolicyEnforced
<1>1. IInv => PolicyEnforced
    BY DEF IInv
<1> QED
    BY <1>1, Inductive, PTL

=============================================================================
