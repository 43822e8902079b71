----------------------------- MODULE TpmObjects -----------------------------
(***************************************************************************)
(* Hierarchies, primary keys, sealed data and attestation of               *)
(* pkg/tpm/tpm.go, attest.go and cert.go: one program makes calls on one   *)
(* open TPM, while other programs change the same TPM.                     *)
(*                                                                         *)
(* Every TPM command is one step.  A command is carried out or refused,    *)
(* it may fail for no reason, and some are carried out while their answer  *)
(* is lost.  Between any two commands another program may change a         *)
(* password, clear the TPM, or take a persistent handle.                   *)
(***************************************************************************)
EXTENDS Naturals, Sequences, FiniteSetsExt

CONSTANTS
    None,           \* nil, an empty slot
    Password,       \* hierarchy passwords
    NoPassword,     \* the empty one
    Handles,        \* transient handles of the connection
    Machines,       \* TPMs: maker and EK certificates in NV storage
    MaxClears,      \* bound on the TPM2_Clear commands
    MaxOthers       \* bound on the steps of other programs during one call

\* EKRSAHandle and SRKECCHandle, the persistent handles, as numbers apart
\* from the transient ones.
EKHandle == 101
SRKHandle == 102

ASSUME ObjectsAssumption ==
    /\ NoPassword \in Password
    /\ None \notin Password /\ None \notin Handles
    /\ Handles \subseteq 1 .. 100 /\ Handles # {}
    /\ MaxClears \in Nat /\ MaxOthers \in Nat

\* A certificate in NV storage: whether it is DER, whether all but its serial
\* number is as strict parsing wants it, the bytes of that number, the issuer.
Certificate == [der : BOOLEAN, rest : BOOLEAN, serial : Seq(Nat) \ {<< >>}, issuer : STRING]

\* The maker is a code of at most four characters, never a vendor's name.
ASSUME MachinesAssumption ==
    \A m \in Machines :
        /\ m.maker \in STRING \ {"Amazon"}
        /\ m.p256 \in Certificate \cup {None}
        /\ m.p384 \in Certificate \cup {None}

VARIABLES
    machine,    \* the TPM of this host
    auth,       \* hierarchy -> its password
    seed,       \* generation of the storage primary seed
    persistent, \* persistent handle -> key
    loaded,     \* transient handle -> object
    pc,         \* the next command of the call in progress
    call,       \* its arguments and locals
    handle,     \* its local: the handle to be flushed at the end
    outcome,    \* its local: what it returns once that is done
    tries,      \* failed attempts to flush
    promise,    \* whether the call should succeed; None once something went wrong
    result,     \* how the last call ended that was held to its promise
    others      \* steps other programs have made during the call

device == <<machine, auth, seed, persistent, loaded>>
locals == <<call, handle, outcome, tries>>
vars == <<device, pc, locals, promise, result, others>>

-----------------------------------------------------------------------------
(* EK certificates.  A serial number is a sequence of bytes, in two's      *)
(* complement.                                                             *)

\* No zero in front that could be left out.
Canonical(serial) == Len(serial) = 1 \/ serial[1] # 0 \/ serial[2] >= 128

\* crypto/x509, which refuses negative serial numbers too.
StrictSerial(serial) == serial[1] < 128 /\ Canonical(serial)

\* The leading bytes stripSerialNumberLeadingNullBytes removes: zeros that
\* are not needed to keep the number positive.
Padding(serial) ==
    Max({k \in 0 .. Len(serial) - 1 :
            \A i \in 1 .. k : serial[i] = 0 /\ serial[i + 1] < 128})

Stripped(serial) == SubSeq(serial, Padding(serial) + 1, Len(serial))

ParseEKCertificate_AnyIssuer(c) ==
    IF /\ c # None /\ c.der /\ c.rest
       /\ StrictSerial(c.serial) \/ (Padding(c.serial) > 0 /\ StrictSerial(Stripped(c.serial)))
    THEN c ELSE None

\* The certificate ParseEKCertificate makes of the content of an NV index:
\* strictly parsed, or else, if there is padding to remove, strictly parsed
\* without it, for STMicroelectronics only.
ParseEKCertificate(c) ==
    IF /\ c # None /\ c.der /\ c.rest
       /\ \/ StrictSerial(c.serial)
          \/ /\ Padding(c.serial) > 0
             /\ StrictSerial(Stripped(c.serial))
             /\ c.issuer = "STMicroelectronics NV"
    THEN c ELSE None

\* The vendor name of GetModel.
Vendor(maker) ==
    CASE maker = "AMZN" -> "Amazon"
      [] maker = "GOOG" -> "Google"
      [] maker = "IFX" -> "Infineon"
      [] maker = "NTC" -> "Nuvoton"
      [] maker = "STM" -> "STMicroelectronics"
      [] OTHER -> maker

-----------------------------------------------------------------------------
(* Objects.                                                                *)

EKType == {"rsa", "p256", "p384"}

\* How the template of an EK lets it be used: the low range (L-2) by a
\* SHA-256 policy, PolicySecret of the endorsement hierarchy; the high range
\* (H-3) by its own password, or a SHA-384 policy.
Template(type) ==
    IF type = "p384" THEN [userWithAuth |-> TRUE, policy |-> "SHA384"]
                     ELSE [userWithAuth |-> FALSE, policy |-> "SHA256"]

\* The public area Seal creates the data with.
Sealed_UserWithAuth(policy) == [userWithAuth |-> TRUE, policy |-> policy]
Sealed(policy) == [userWithAuth |-> policy = None, policy |-> policy]

\* The password an object is used by: that of its creation, if it can be used
\* by a password.
Own(type, pw) == IF type = "p384" THEN pw ELSE NoPassword

\* An object in a transient slot.  It is the call's to flush, the caller's
\* to unload, or nobody's since the answer with its handle was lost.
Objects ==
    [type : EKType \cup {"srk", "data", "hmac", "ak", "lost"}, auth : Password,
     of : {"call", "caller", "nobody"}, flushes : 0 .. 3]
Object(type, pw, of) == [type |-> type, auth |-> Own(type, pw), of |-> of, flushes |-> 0]

\* A key in a persistent handle.  It is resolved if CreateECCEK chose it by a
\* profile that no failed read and no other program has disturbed.
Keys == [type : EKType \cup {"srk"}, auth : Password, resolved : BOOLEAN]
Key(type, pw, resolved) == [type |-> type, auth |-> Own(type, pw), resolved |-> resolved]

Free == {h \in Handles : loaded[h] = None}
\* The handle the TPM gives the next object.
Slot == Min(Free)
Put(type, pw, of) == loaded' = [loaded EXCEPT ![Slot] = Object(type, pw, of)]

\* An object is loaded and the answer that tells its handle is lost.
Lost == Put("lost", NoPassword, "nobody")

\* The EK or the attestation key behind a handle.
KeyAt(h) == IF h \in Handles THEN loaded[h] ELSE persistent[h]
IsEK(h) == KeyAt(h) # None /\ KeyAt(h).type \in EKType
IsAK(h) == KeyAt(h) # None /\ KeyAt(h).type = "ak"

\* The TPM accepts this kind of session for that EK.
Accepts(ek, session, pw) ==
    IF session = "password"
    THEN Template(ek.type).userWithAuth /\ ek.auth = pw
    ELSE Template(ek.type).policy = "SHA256" /\ pw = auth.endorsement

-----------------------------------------------------------------------------
(* What a call promises its caller when it begins: what it returns if no   *)
(* command fails for no reason and nobody interferes.                      *)

Creates == {"CreateECCEK", "CreateRSAEK", "CreateECCOwnerPK"}
Sealings == [policy : {None, "pcr"}, seed : 0 .. MaxClears]

\* The calls of several commands, with their arguments and what they note.
PrimaryCalls ==
    [op : Creates \cup {"LoadECCEK"}, pw : Password, type : EKType \cup {"srk", "p521", None}]
UnsealCalls == [op : {"Unseal"}, blob : Sealings, session : {None, "fulfilled", "unfulfilled"}]
ChallengeCalls ==
    [op : {"SolveChallenge"}, pw : Password, ek : Handles \cup {EKHandle}, ak : Handles,
     type : EKType, session : {None, "password", "policy"}]
ActivateCalls ==
    [op : {"ActivateCredential"}, pw : Password, ek : Handles \cup {EKHandle}, ak : Handles,
     type : EKType]
CallRecords == PrimaryCalls \cup UnsealCalls \cup ChallengeCalls \cup ActivateCalls

\* nil is no value of any other kind.
ASSUME NilIsNothing ==
    /\ None \notin BOOLEAN /\ None \notin {"fulfilled", "unfulfilled"}
    /\ None \notin Objects /\ None \notin Keys /\ None \notin CallRecords

\* The password a caller of SolveChallenge needs: an H-3 EK keeps the one it
\* was created with.
EKPassword(ek) == IF ek.type = "p384" THEN ek.auth ELSE auth.endorsement

\* EvictControl is authorised by the owner hierarchy, with the one password
\* there is.
Works(c) ==
    \/ /\ c.op \in {"CreateECCEK", "CreateRSAEK"}
       /\ Free # {} /\ c.pw = auth.endorsement /\ c.pw = auth.owner /\ persistent[EKHandle] = None
    \/ /\ c.op = "CreateECCOwnerPK"
       /\ Free # {} /\ c.pw = auth.owner /\ persistent[SRKHandle] = None
    \/ /\ c.op = "LoadECCEK"
       /\ Free # {} /\ c.pw = auth.endorsement /\ c.type \in {"p256", "p384"}
    \/ /\ c.op = "Unseal"
       /\ Free # {} /\ persistent[SRKHandle] # None /\ c.blob.seed = seed
       /\ c.session = IF c.blob.policy = None THEN None ELSE "fulfilled"
    \/ /\ c.op = "SolveChallenge"
       /\ Free # {} /\ IsEK(c.ek) /\ IsAK(c.ak)
       /\ KeyAt(c.ek).type = c.type /\ c.pw = EKPassword(KeyAt(c.ek))
    \/ /\ c.op = "ActivateCredential"
       /\ IsEK(c.ek) /\ IsAK(c.ak) /\ KeyAt(c.ek).type = c.type
       /\ c.type # "p384" /\ c.pw = auth.endorsement

-----------------------------------------------------------------------------
(* Calls.                                                                  *)

Init ==
    /\ machine \in Machines
    /\ auth = [h \in {"owner", "endorsement"} |-> NoPassword]
    /\ seed = 0
    /\ persistent = [h \in {EKHandle, SRKHandle} |-> None]
    /\ loaded = [h \in Handles |-> None]
    /\ pc = "idle" /\ call = None /\ handle = None /\ outcome = FALSE /\ tries = 0
    /\ promise = None
    /\ result = None
    /\ others = 0

Begin(c, label) ==
    /\ pc = "idle"
    /\ pc' = label
    /\ call' = c
    /\ promise' = Works(c)
    /\ result' = None
    /\ UNCHANGED <<device, handle, outcome, tries, others>>

\* The call returns, with an error unless ok.
Return(ok, kept) ==
    /\ pc' = "idle"
    /\ result' = IF kept = None THEN None ELSE [ok |-> ok, works |-> kept]
    /\ promise' = None
    /\ call' = None /\ handle' = None /\ outcome' = FALSE /\ tries' = 0
    /\ others' = 0

\* A command failed for no reason: the call returns an error, or goes on,
\* and is free of its promise.
ReturnFailed == Return(FALSE, None)

CallCreate(op, pw) ==
    Begin([op |-> op, pw |-> pw, type |-> CASE op = "CreateRSAEK" -> "rsa"
                                            [] op = "CreateECCOwnerPK" -> "srk"
                                            [] OTHER -> None],
          IF op = "CreateECCEK" THEN "cert p256" ELSE "primary")

\* getECCEKTemplate refuses other curves.
CallLoadECCEK(pw, curve) ==
    Begin([op |-> "LoadECCEK", pw |-> pw, type |-> curve],
          IF curve \in {"p256", "p384"} THEN "primary" ELSE "refused")
CallUnseal(blob, session) ==
    Begin([op |-> "Unseal", blob |-> blob, session |-> session], "load")
CallSolveChallenge(pw, ek, ak, type) ==
    Begin([op |-> "SolveChallenge", pw |-> pw, ek |-> ek, ak |-> ak, type |-> type,
           session |-> None], "public")
CallActivateCredential(pw, ek, ak, type) ==
    Begin([op |-> "ActivateCredential", pw |-> pw, ek |-> ek, ak |-> ak, type |-> type], "names")

\* An argument was refused before any command.
Refused ==
    /\ pc = "refused"
    /\ Return(FALSE, promise)
    /\ UNCHANGED device

-----------------------------------------------------------------------------
(* ResolveECCEKProfile: the P256 certificate, the P384 certificate, the    *)
(* vendor.  An index that cannot be read counts as one without a           *)
(* certificate.                                                            *)

Chosen(curve) == call' = [call EXCEPT !.type = curve] /\ pc' = "primary"

ReadEKCert ==
    /\ \E curve \in {"p256", "p384"} :
        /\ pc = IF curve = "p256" THEN "cert p256" ELSE "cert p384"
        /\ LET skip == pc' = (IF curve = "p256" THEN "cert p384" ELSE "model") /\ UNCHANGED call
           IN  \/ /\ IF ParseEKCertificate(machine[curve]) # None THEN Chosen(curve) ELSE skip
                  /\ UNCHANGED promise
               \/ skip /\ promise' = None
    /\ UNCHANGED <<device, handle, outcome, tries, result, others>>

ReadModel ==
    /\ pc = "model"
    /\ \/ /\ Chosen(IF Vendor(machine.maker) = "Amazon" THEN "p384" ELSE "p256")
          /\ UNCHANGED <<promise, result, handle, outcome, tries, others>>
       \/ ReturnFailed
    /\ UNCHANGED device

-----------------------------------------------------------------------------
(* CreatePrimary, EvictControl and the deferred FlushContext.              *)

\* The EKs carry the password they are created with, the SRK none.
CreatePrimary ==
    /\ pc = "primary"
    /\ LET allowed == /\ Free # {}
                      /\ call.pw = IF call.type = "srk" THEN auth.owner ELSE auth.endorsement
           create(of) == Put(call.type, IF call.type = "srk" THEN NoPassword ELSE call.pw, of)
       IN  \/ /\ allowed /\ call.op = "LoadECCEK"
              /\ create("caller")
              /\ Return(TRUE, promise)
           \/ /\ allowed /\ call.op # "LoadECCEK"
              /\ create("call")
              /\ handle' = Slot
              /\ pc' = "evict"
              /\ UNCHANGED <<call, outcome, tries, promise, result, others>>
           \/ ~allowed /\ Return(FALSE, promise) /\ UNCHANGED loaded
           \/ ReturnFailed /\ UNCHANGED loaded
           \/ allowed /\ Lost /\ ReturnFailed
    /\ UNCHANGED <<machine, auth, seed, persistent>>

\* The rest of the call is the deferred flush.
Flush(ok) == outcome' = ok /\ pc' = "flush" /\ UNCHANGED <<call, handle, tries, result, others>>

\* What is left to do when EvictControl is refused.
AfterRefusal_NoFlush == Return(FALSE, promise)
AfterRefusal == Flush(FALSE) /\ UNCHANGED promise

\* EvictControl, authorised by the owner hierarchy with the password of the call.
EvictControl ==
    /\ pc = "evict"
    /\ LET at == IF call.type = "srk" THEN SRKHandle ELSE EKHandle
           allowed == call.pw = auth.owner /\ loaded[handle] # None /\ persistent[at] = None
           keep == persistent' = [persistent EXCEPT ![at] =
                       Key(call.type, loaded[handle].auth,
                           call.op = "CreateECCEK" /\ promise # None)]
       IN  \/ allowed /\ keep /\ Flush(TRUE) /\ UNCHANGED promise
           \/ ~allowed /\ AfterRefusal /\ UNCHANGED persistent
           \/ Flush(FALSE) /\ promise' = None /\ UNCHANGED persistent
           \/ allowed /\ keep /\ Flush(FALSE) /\ promise' = None
    /\ UNCHANGED <<machine, auth, seed, loaded>>

\* Attempts to flush: Unseal makes three, the others one.
Attempts(op) == IF op = "Unseal" THEN 3 ELSE 1

\* FlushContext fails for no reason, or since the object is gone; the error of
\* the last attempt is dropped.
FlushContext ==
    /\ pc = "flush"
    /\ \/ /\ loaded[handle] # None
          /\ loaded' = [loaded EXCEPT ![handle] = None]
          /\ Return(outcome, promise)
       \/ /\ loaded' = IF loaded[handle] = None THEN loaded
                       ELSE [loaded EXCEPT ![handle].flushes = @ + 1]
          /\ IF tries + 1 < Attempts(call.op)
             THEN tries' = tries + 1 /\ UNCHANGED <<pc, call, handle, outcome, promise, result, others>>
             ELSE Return(outcome, promise)
    /\ UNCHANGED <<machine, auth, seed, persistent>>

-----------------------------------------------------------------------------
(* Unseal.                                                                 *)

\* Load the sealed object below the SRK.
LoadSealed ==
    /\ pc = "load"
    /\ LET allowed == Free # {} /\ persistent[SRKHandle] # None /\ call.blob.seed = seed
       IN  \/ /\ allowed
              /\ Put("data", NoPassword, "call")
              /\ handle' = Slot
              /\ pc' = "unseal"
              /\ UNCHANGED <<call, outcome, tries, promise, result, others>>
           \/ ~allowed /\ Return(FALSE, promise) /\ UNCHANGED loaded
           \/ ReturnFailed /\ UNCHANGED loaded
           \/ allowed /\ Lost /\ ReturnFailed
    /\ UNCHANGED <<machine, auth, seed, persistent>>

\* TPM2_Unseal with the caller's policy session, or with the empty password.
UnsealData ==
    /\ pc = "unseal"
    /\ LET public == Sealed(call.blob.policy)
           allowed == /\ loaded[handle] # None
                      /\ IF call.session = None THEN public.userWithAuth
                         ELSE public.policy # None /\ call.session = "fulfilled"
       IN  \/ Flush(allowed) /\ UNCHANGED promise
           \/ Flush(FALSE) /\ promise' = None
    /\ UNCHANGED device

-----------------------------------------------------------------------------
(* SolveChallenge and ActivateCredential.                                  *)

\* The session SolveChallenge uses the EK with.
SessionFor_Policy(ek) == "policy"
SessionFor(ek) == IF Template(ek.type).userWithAuth THEN "password" ELSE "policy"

Goto(label) == pc' = label /\ UNCHANGED <<call, handle, outcome, tries, promise, result, others>>

ReadEKPublic ==
    /\ pc = "public"
    /\ \/ /\ IsEK(call.ek)
          /\ call' = [call EXCEPT !.session = SessionFor(KeyAt(call.ek))]
          /\ pc' = "import"
          /\ UNCHANGED <<handle, outcome, tries, promise, result, others>>
       \/ ~IsEK(call.ek) /\ Return(FALSE, promise)
       \/ ReturnFailed
    /\ UNCHANGED device

\* The EK can be used as the parent of the HMAC key, which the server
\* wrapped for an EK of one type.
Parent == /\ IsEK(call.ek) /\ KeyAt(call.ek).type = call.type
          /\ Accepts(KeyAt(call.ek), call.session, call.pw)

ImportHMAC ==
    /\ pc = "import"
    /\ \/ Parent /\ Goto("load hmac")
       \/ ~Parent /\ Return(FALSE, promise)
       \/ ReturnFailed
    /\ UNCHANGED device

LoadHMAC ==
    /\ pc = "load hmac"
    /\ LET allowed == Parent /\ Free # {}
       IN  \/ /\ allowed
              /\ Put("hmac", NoPassword, "call")
              /\ handle' = Slot
              /\ pc' = "certify"
              /\ UNCHANGED <<call, outcome, tries, promise, result, others>>
           \/ ~allowed /\ Return(FALSE, promise) /\ UNCHANGED loaded
           \/ ReturnFailed /\ UNCHANGED loaded
           \/ allowed /\ Lost /\ ReturnFailed
    /\ UNCHANGED <<machine, auth, seed, persistent>>

CertifyAK ==
    /\ pc = "certify"
    /\ \/ Flush(loaded[handle] # None /\ IsAK(call.ak)) /\ UNCHANGED promise
       \/ Flush(FALSE) /\ promise' = None
    /\ UNCHANGED device

\* ActivateCredential reads the names of both keys first, by two commands.
ReadNames ==
    /\ pc = "names"
    /\ \/ IsEK(call.ek) /\ IsAK(call.ak) /\ Goto("activate")
       \/ ~(IsEK(call.ek) /\ IsAK(call.ak)) /\ Return(FALSE, promise)
       \/ ReturnFailed
    /\ UNCHANGED device

ActivateCredential ==
    /\ pc = "activate"
    /\ \/ Return(/\ IsEK(call.ek) /\ IsAK(call.ak) /\ KeyAt(call.ek).type = call.type
                 /\ Accepts(KeyAt(call.ek), "policy", call.pw), promise)
       \/ ReturnFailed
    /\ UNCHANGED device

-----------------------------------------------------------------------------
(* Calls of a single command, where it is carried out; otherwise nothing   *)
(* changes.                                                                *)

Single == pc = "idle" /\ result' = None /\ UNCHANGED <<pc, locals, promise, others>>

\* LoadKey loads an attestation key and hands its handle to the caller.
LoadKey(keySeed) ==
    /\ Free # {} /\ persistent[SRKHandle] # None /\ keySeed = seed
    /\ Single
    /\ Put("ak", NoPassword, "caller") \/ Lost
    /\ UNCHANGED <<machine, auth, seed, persistent>>

\* UnloadKey, of a handle the caller was given.
UnloadKey(h) ==
    /\ Single
    /\ loaded[h] # None /\ loaded[h].of = "caller"
    /\ loaded' = [loaded EXCEPT ![h] = None]
    /\ UNCHANGED <<machine, auth, seed, persistent>>

ChangeHierarchyPassword(h, old, new) ==
    /\ Single
    /\ auth[h] = old
    /\ auth' = [auth EXCEPT ![h] = new]
    /\ UNCHANGED <<machine, seed, persistent, loaded>>

\* TPM2_Clear: the passwords and all objects of the owner and endorsement
\* hierarchies are gone, the storage seed is new.
Cleared ==
    /\ seed < MaxClears
    /\ seed' = seed + 1
    /\ auth' = [h \in DOMAIN auth |-> NoPassword]
    /\ persistent' = [h \in DOMAIN persistent |-> None]
    /\ loaded' = [h \in Handles |-> None]
    /\ UNCHANGED machine

Clear == Single /\ Cleared

-----------------------------------------------------------------------------
(* The surroundings.                                                       *)

\* Another program changes a password, clears the TPM, or takes a persistent
\* handle; a call in progress is then free of its promise.
OtherProgram ==
    /\ pc # "idle" /\ others < MaxOthers
    /\ others' = others + 1
    /\ promise' = None
    /\ \/ /\ \E h \in {"owner", "endorsement"}, pw \in Password : auth' = [auth EXCEPT ![h] = pw]
          /\ UNCHANGED <<machine, seed, persistent, loaded>>
       \/ Cleared
       \/ /\ \E h \in DOMAIN persistent :
                /\ persistent[h] = None
                /\ persistent' = [persistent EXCEPT ![h] =
                      Key(IF h = SRKHandle THEN "srk" ELSE "rsa", NoPassword, FALSE)]
          /\ UNCHANGED <<machine, auth, seed, loaded>>
    /\ UNCHANGED <<pc, locals, result>>

-----------------------------------------------------------------------------

EKPlaces == {EKHandle} \cup {h \in Handles : IsEK(h)}
\* The type of key a challenge was made for: that of the EK, or another.
WrappedFor(ek) == IF IsEK(ek) THEN {KeyAt(ek).type, "rsa"} ELSE {"rsa"}
AKPlaces == {h \in Handles : IsAK(h)}

Calls ==
    \/ \E op \in Creates, pw \in Password : CallCreate(op, pw)
    \/ \E pw \in Password, curve \in {"p256", "p384", "p521"} : CallLoadECCEK(pw, curve)
    \/ \E blob \in Sealings, session \in {None, "fulfilled", "unfulfilled"} : CallUnseal(blob, session)
    \/ \E pw \in Password, ek \in EKPlaces, ak \in AKPlaces : \E type \in WrappedFor(ek) :
          CallSolveChallenge(pw, ek, ak, type) \/ CallActivateCredential(pw, ek, ak, type)

Steps ==
    \/ Refused \/ ReadEKCert \/ ReadModel \/ CreatePrimary \/ EvictControl \/ FlushContext
    \/ LoadSealed \/ UnsealData
    \/ ReadEKPublic \/ ImportHMAC \/ LoadHMAC \/ CertifyAK \/ ReadNames \/ ActivateCredential

Singles ==
    \/ \E s \in 0 .. MaxClears : LoadKey(s)
    \/ \E h \in Handles : UnloadKey(h)
    \/ \E h \in DOMAIN auth, old, new \in Password : ChangeHierarchyPassword(h, old, new)
    \/ Clear

Next == Calls \/ Steps \/ Singles \/ OtherProgram

Spec == Init /\ [][Next]_vars

-----------------------------------------------------------------------------
(* Properties                                                              *)

\* Types of the TPM's state and of the call's; the flushes of an object are at
\* most three, and a call in progress has its record.  A part of NoLeak.
TypeOK ==
    /\ machine \in Machines
    /\ auth \in [{"owner", "endorsement"} -> Password]
    /\ seed \in 0 .. MaxClears
    /\ persistent \in [{EKHandle, SRKHandle} -> Keys \cup {None}]
    /\ loaded \in [Handles -> Objects \cup {None}]
    /\ call \in CallRecords \cup {None}
    /\ handle \in Handles \cup {None}
    /\ outcome \in BOOLEAN
    /\ tries \in 0 .. 2
    /\ pc = "idle" <=> call = None

\* A call of several commands returns what it would return if it were one:
\* unless a command other than the final flush fails for no reason or another
\* program interferes, its arguments and the state at its beginning decide.
\* In particular a call whose work is done does not fail because the flush
\* does, and SolveChallenge uses every kind of EK in the way it can be used.
KeepsPromise == result # None => result.ok = result.works

\* A call that has returned leaves no object of its own in a transient slot
\* unless every attempt to flush it has failed, three of Unseal and one of
\* the others, on whichever path it returned.
NoLeak ==
    /\ TypeOK
    /\ pc = "idle" =>
        \A h \in Handles :
            loaded[h] # None /\ loaded[h].of = "call" =>
                loaded[h].flushes = IF loaded[h].type = "data" THEN 3 ELSE 1

\* The certificates that are of use: the serial number is not negative, and
\* only STMicroelectronics pads it.  The EK they speak for is that of the first,
\* P256 before P384; without one it is P384 on Amazon's TPMs and P256 on others.
Usable(c) ==
    /\ c # None /\ c.der /\ c.rest
    /\ c.serial[1] < 128
    /\ Canonical(c.serial) \/ c.issuer = "STMicroelectronics NV"
CertifiedType(m) ==
    IF Usable(m.p256) THEN "p256"
    ELSE IF Usable(m.p384) \/ m.maker = "AMZN" THEN "p384" ELSE "p256"

\* The ECC EK that CreateECCEK makes persistent is the one the TPM has a usable
\* certificate for, P256 before P384, however long its serial number and the
\* padding of it are, and without one P384 on Amazon's TPMs and P256 on all others;
\* unless a certificate could not be read.
EKMatchesCert ==
    persistent[EKHandle] # None /\ persistent[EKHandle].resolved =>
        persistent[EKHandle].type = CertifiedType(machine)

\* Data sealed with a policy is unsealed in a session that fulfils the policy
\* and in no other way.
PolicyEnforced ==
    call # None /\ call.op = "Unseal" /\ outcome /\ call.blob.policy # None =>
        call.session = "fulfilled"

=============================================================================
