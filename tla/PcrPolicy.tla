------------------------------ MODULE PcrPolicy ------------------------------
(***************************************************************************)
(* PCRs and the policies made of them (pkg/tpm: tpm.go, sign.go,           *)
(* policy_digest.go): a program reads PCRs, makes a signing key that is    *)
(* bound to PCR values, signs with it, has PCRs quoted, and a verifier     *)
(* without a TPM recomputes the policy of the key from the PCRs that the   *)
(* program has read.                                                       *)
(* Each of these takes several TPM commands, and other programs extend and *)
(* reset PCRs between any two.                                             *)
(*                                                                         *)
(* A digest is modelled by what was hashed: a PCR value by the number of   *)
(* measurements since its reset, a policy digest by the bank, the          *)
(* selection and the sequence of PCR values.                               *)
(***************************************************************************)
EXTENDS Naturals, Sequences, FiniteSets, SequencesExt

CONSTANTS
    BankLists,      \* the banks a TPM may list, in its order: [hash, full]
    PCRs,           \* the indexes of the TPM's PCRs
    Resettable,     \* those that ResetPCR may reset
    Requests,       \* the PCR lists callers pass, in their order
    ReadLimit,      \* PCRs that one PCR_Read answers
    MaxChanges,     \* bound: extends and resets
    Faults,         \* whether a TPM command may fail
    None

\* The banks of PCRs a TPM may have, and the ones getPCRHashAlg knows.
Hash == {"SHA1", "SHA256", "SHA384", "SHA512"}

ASSUME PcrWorld ==
    /\ \A l \in BankLists : l \in Seq([hash : Hash, full : BOOLEAN])
    /\ PCRs \subseteq Nat /\ IsFiniteSet(PCRs) /\ Resettable \subseteq PCRs
    /\ \A r \in Requests : r \in Seq(Nat)
    /\ ReadLimit \in Nat \ {0} /\ MaxChanges \in Nat /\ Faults \in BOOLEAN
    /\ None \notin Hash      \* 0, with which getPCRHashAlg begins, names no hash

-----------------------------------------------------------------------------
\* The members of S, a finite set of numbers, in ascending order.
Ascending(S) ==
    CHOOSE s \in [1 .. Cardinality(S) -> S] :
        \A j, k \in 1 .. Cardinality(S) : j < k => s[j] < s[k]

\* getPCRHashAlg, one round of its loop; SHA256 ends it.
Prefer(alg, b) ==
    IF ~b.full \/ alg = "SHA256" THEN alg
    ELSE IF b.hash = "SHA512" /\ alg # "SHA384" THEN "SHA512"
    ELSE IF b.hash \in {"SHA256", "SHA384"} THEN b.hash ELSE alg

\* getPCRHashAlg: the preferred bank that has all the PCRs, or None; after[k] is
\* alg after k rounds.
getPCRHashAlg(l) ==
    LET after[k \in 0 .. Len(l)] == IF k = 0 THEN None ELSE Prefer(after[k - 1], l[k])
    IN  after[Len(l)]

\* The alg == 0 check at its end.
BankFound(alg) == alg # None

SelectPCRs_Pinned(l) == "SHA256"

\* SelectPCRs: the bank of the selection.
SelectPCRs(l) == getPCRHashAlg(l)

VARIABLES
    banks,      \* the TPM's banks
    pcr,        \* hash -> PCR -> value
    changes,    \* pcrUpdateCounter
    pc,         \* the next TPM command of the call in progress
    req,        \* the PCR list it was given
    alg,        \* the bank it works on
    remaining,  \* ReadPCRs: pcrMask, the PCRs not read yet
    values,     \* ReadPCRs: what it has read
    session,    \* the policy session: its digest and its pcrUpdateCounter
    key,        \* the key: its policy
    attested,   \* what the last ReadPCRs returned, if it succeeded
    result,     \* what the last call returned
    since       \* history: per PCR, the values it has had since that ReadPCRs began

tpm == <<banks, pcr, changes>>
call == <<pc, req, alg, remaining, values, session>>
vars == <<tpm, call, key, attested, result, since>>

Allocated == {banks[k].hash : k \in DOMAIN banks}
Full(h) == \E k \in DOMAIN banks : banks[k].hash = h /\ banks[k].full

NoSession == [digest |-> None, counter |-> 0]
NoResult == [kind |-> "none"]
NoHistory == [i \in PCRs |-> {}]

Init ==
    /\ banks \in BankLists
    /\ pcr = [h \in Hash |-> [i \in PCRs |-> 0]]
    /\ changes = 0
    /\ pc = "idle" /\ req = << >> /\ alg = None /\ remaining = {} /\ values = << >>
    /\ session = NoSession
    /\ key = None /\ attested = None
    /\ result = NoResult
    /\ since = NoHistory

\* The values of the selected PCRs, as the TPM hashes them.
Current(h, S) == [k \in 1 .. Cardinality(S) |-> pcr[h][Ascending(S)[k]]]

\* The policy digest the TPM computes for PolicyPCR.
PolicyOf(h, S) == [bank |-> h, sel |-> S, seq |-> Current(h, S)]

Return(r) ==
    /\ pc' = "idle"
    /\ result' = r
    /\ req' = << >> /\ alg' = None
    /\ remaining' = {} /\ values' = << >> /\ session' = NoSession

\* The TPM has the PCRs the call selects; it refuses a selection of others.
Present == ToSet(req) \subseteq PCRs

\* A command of the call fails.
Fail == (Faults \/ ~Present) /\ Return([kind |-> "error"])

\* A call begins; whatever it does first is to ask the TPM for its banks.
Begin(r, label) ==
    /\ pc = "idle"
    /\ LET h == SelectPCRs(banks) IN
       \/ /\ ~BankFound(h)
          /\ Return([kind |-> "error"])
       \/ /\ BankFound(h)
          /\ pc' = label /\ result' = NoResult
          /\ req' = r /\ alg' = h /\ remaining' = ToSet(r)
          /\ UNCHANGED <<values, session>>
    /\ UNCHANGED <<tpm, key>>

-----------------------------------------------------------------------------
(* ReadPCRs                                                                *)

ReadPCRs(r) ==
    /\ Begin(r, "read")
    /\ attested' = None
    /\ since' = [i \in PCRs |-> IF BankFound(alg') THEN {pcr[alg'][i]} ELSE {}]

\* The PCRs of the bank that one PCR_Read answers: the first of the selected.
Answered ==
    LET s == Ascending({i \in remaining : Full(alg)})
    IN  ToSet(SubSeq(s, 1, IF Len(s) < ReadLimit THEN Len(s) ELSE ReadLimit))

Pair_AsRequested(R, digests) ==
    LET order == SelectSeq(req, LAMBDA i : i \in R)
    IN  [k \in 1 .. Cardinality(R) |-> [index |-> order[k], bank |-> alg, value |-> digests[k]]]

\* The k-th set bit of the answered selection goes with the k-th digest.
Pair(R, digests) ==
    [k \in 1 .. Cardinality(R) |-> [index |-> Ascending(R)[k], bank |-> alg, value |-> digests[k]]]

\* The mask of the next PCR_Read.
Unread(R) == remaining \ R

\* One PCR_Read: the loop ends when every PCR has been read, otherwise the
\* remaining ones are asked for again.
PCRRead ==
    /\ pc = "read"
    /\ LET R == Answered
           now == values \o Pair(R, Current(alg, R))
       IN  \/ Fail /\ UNCHANGED attested
           \/ /\ Present /\ remaining \subseteq R
              /\ attested' = now
              /\ Return([kind |-> "read", list |-> req, values |-> now])
           \/ /\ Present /\ ~(remaining \subseteq R)
              /\ remaining' = Unread(R) /\ values' = now
              /\ UNCHANGED <<pc, req, alg, session, attested, result>>
    /\ UNCHANGED <<tpm, key, since>>

-----------------------------------------------------------------------------
(* GenerateSigningKeyWithPolicy and SignWithPolicy                         *)

GenerateSigningKeyWithPolicy(r) == Begin(r, "policy") /\ UNCHANGED <<attested, since>>

\* PolicyPCR binds the session to the PCR values of this moment.
PolicyPCR(label, next, digest) ==
    /\ pc = label
    /\ \/ Fail
       \/ /\ Present
          /\ session' = [digest |-> digest, counter |-> changes]
          /\ pc' = next
          /\ UNCHANGED <<req, alg, remaining, values, result>>
    /\ UNCHANGED <<tpm, key, attested, since>>

PCRPolicy == PolicyPCR("policy", "create", PolicyOf(alg, ToSet(req)))

\* PolicyGetDigest and Create: the key carries the digest of the session.
CreateKey ==
    /\ pc = "create"
    /\ \/ Fail /\ UNCHANGED key
       \/ /\ key' = [policy |-> session.digest]
          /\ Return([kind |-> "created"])
    /\ UNCHANGED <<tpm, attested, since>>

SignWithPolicy(r) == key # None /\ Begin(r, "callback") /\ UNCHANGED <<attested, since>>

pcrPolicyCallback_Pinned == PolicyPCR("callback", "sign", PolicyOf("SHA256", ToSet(req)))

pcrPolicyCallback == PolicyPCR("callback", "sign", PolicyOf(alg, ToSet(req)))

\* The TPM accepts the session if its digest is the key's policy and no PCR has
\* changed since PolicyPCR.
Accepts == session.digest = key.policy /\ session.counter = changes

Sign ==
    /\ pc = "sign"
    /\ LET now == PolicyOf(alg, ToSet(req)) IN
       \/ Fail
       \/ Accepts /\ Return([kind |-> "signed", now |-> now, raced |-> FALSE])
       \/ ~Accepts /\ Return([kind |-> "refused", now |-> now, raced |-> session.counter # changes])
    /\ UNCHANGED <<tpm, key, attested, since>>

-----------------------------------------------------------------------------
(* Quote, with a key that needs no session.                                *)

Quote(r) == Begin(r, "quote") /\ UNCHANGED <<attested, since>>

QuotedBank_Pinned == "SHA256"

\* The bank of PCRSelect.
QuotedBank == alg

\* The TPM signs the digest of the selected PCRs.
ExecuteQuote ==
    /\ pc = "quote"
    /\ \/ Fail
       \/ /\ Present
          /\ Return([kind |-> "quoted", quote |-> PolicyOf(QuotedBank, ToSet(req))])
    /\ UNCHANGED <<tpm, key, attested, since>>

-----------------------------------------------------------------------------
(* VerifyPolicyDigest, by a verifier that has the public part of the key   *)
(* and the attested PCRs.                                                  *)

\* pcrDigestByIndex, of a list without duplicates.
DigestOf(state, i) == state[CHOOSE k \in DOMAIN state : state[k].index = i]
Has(state, i) == \E k \in DOMAIN state : state[k].index = i

pcrBankAlg_Pinned(r, state) ==
    IF r = << >> \/ \E k \in DOMAIN r : ~Has(state, r[k]) THEN None ELSE "SHA256"

\* pcrBankAlg: the width of the digests names the bank, all of one; None stands
\* for its errors.
pcrBankAlg(r, state) ==
    IF r = << >> \/ \E k \in DOMAIN r : ~Has(state, r[k]) THEN None
    ELSE IF \A k \in DOMAIN r : DigestOf(state, r[k]).bank = DigestOf(state, r[1]).bank
    THEN DigestOf(state, r[1]).bank
    ELSE None

\* computePolicyDigestFromPCRs: the digests in the order of the caller's list.
computePolicyDigestFromPCRs(r, state) ==
    [bank |-> pcrBankAlg(r, state), sel |-> ToSet(r),
     seq |-> [k \in DOMAIN r |-> DigestOf(state, r[k]).value]]

VerifyPolicyDigest(r) ==
    /\ pc = "idle" /\ key # None /\ attested # None
    /\ \/ /\ pcrBankAlg(r, attested) = None
          /\ result' = [kind |-> "unverifiable", list |-> r]
       \/ /\ pcrBankAlg(r, attested) # None
          /\ result' = [kind |-> IF computePolicyDigestFromPCRs(r, attested) = key.policy
                                 THEN "verified" ELSE "mismatch",
                        list |-> r]
    /\ UNCHANGED <<tpm, call, key, attested, since>>

-----------------------------------------------------------------------------
(* Other programs.                                                         *)

Change(p, i) ==
    /\ changes < MaxChanges
    /\ changes' = changes + 1
    /\ pcr' = p
    /\ since' = [since EXCEPT ![i] = IF @ = {} THEN @ ELSE @ \cup {p[SelectPCRs(banks)][i]}]
    /\ UNCHANGED <<banks, call, key, attested, result>>

\* ExtendPCR gives a digest for the SHA256 bank only; a TPM without that bank
\* takes the command and has nothing to extend.
ExtendBank(h) == h = "SHA256"

ExtendPCR(i) ==
    Change([h \in Hash |->
              [pcr[h] EXCEPT ![i] = IF h \in Allocated /\ ExtendBank(h) THEN @ + 1 ELSE @]], i)

\* The firmware and the kernel measure into every bank.
Measure(i) == Change([h \in Hash |-> [pcr[h] EXCEPT ![i] = IF h \in Allocated THEN @ + 1 ELSE @]], i)

ResetPCR(i) ==
    /\ i \in Resettable
    /\ Change([h \in Hash |-> [pcr[h] EXCEPT ![i] = 0]], i)

-----------------------------------------------------------------------------
Step == PCRRead \/ PCRPolicy \/ CreateKey \/ pcrPolicyCallback \/ Sign \/ ExecuteQuote

Next ==
    \/ \E r \in Requests : ReadPCRs(r) \/ GenerateSigningKeyWithPolicy(r) \/ SignWithPolicy(r)
                           \/ Quote(r) \/ VerifyPolicyDigest(r)
    \/ Step
    \/ \E i \in PCRs : ExtendPCR(i) \/ Measure(i) \/ ResetPCR(i)

Spec == Init /\ [][Next]_vars

\* A ReadPCRs that has begun issues its next command, and the driver answers:
\* with what the TPM does, or with an error if the TPM refuses the selection.  A
\* fault may happen and need not.
Served == PCRRead /\ (Present => result'.kind # "error")
FairSpec == Spec /\ WF_vars(Served)

-----------------------------------------------------------------------------
\* Types of the call's locals; a PCR is read or still to be read, not both.
\* A part of ReadIsComplete.
TypeOK ==
    /\ pc \in {"idle", "read", "policy", "create", "callback", "sign", "quote"}
    /\ pc # "idle" => alg \in Hash
    /\ pc = "read" => Len(values) + Cardinality(remaining) = Cardinality(ToSet(req))
    /\ remaining \subseteq ToSet(req)
    /\ changes \in 0 .. MaxChanges

\* getPCRHashAlg prefers SHA2-256 over SHA2-384 over SHA2-512 among the banks
\* that have all the PCRs, in whichever order the TPM lists its banks.  A part of
\* ReadIsComplete.
BankPreferred ==
    LET full == {h \in Hash : Full(h)} IN
    getPCRHashAlg(banks) =
        IF "SHA256" \in full THEN "SHA256" ELSE IF "SHA384" \in full THEN "SHA384"
        ELSE IF "SHA512" \in full THEN "SHA512" ELSE None

\* A ReadPCRs that succeeds reports every requested PCR once, each with a value
\* that this PCR had during the call, however many commands it took and
\* whatever was measured between them; and the values are those of the bank
\* that is preferred.
ReadIsComplete ==
    /\ TypeOK
    /\ BankPreferred
    /\ result.kind = "read" =>
        /\ ToSet(result.list) = {result.values[k].index : k \in DOMAIN result.values}
        /\ Len(result.values) = Cardinality(ToSet(result.list))
        /\ \A k \in DOMAIN result.values : result.values[k].value \in since[result.values[k].index]

\* A quote vouches for the PCRs that were read before it: it is of the bank they
\* were read from, and of the values read unless one of the PCRs has changed
\* since the read began.
QuoteMatchesRead ==
    result.kind = "quoted" /\ attested # None
      /\ result.quote.sel = {attested[k].index : k \in DOMAIN attested}
      /\ (\A i \in result.quote.sel : Cardinality(since[i]) = 1)
    =>
    \A k \in DOMAIN result.quote.seq :
        [index |-> Ascending(result.quote.sel)[k], bank |-> result.quote.bank, value |-> result.quote.seq[k]]
            \in ToSet(attested)

\* SignWithPolicy signs if the PCRs have the values they had when the key was
\* made, and only then; it is refused only if they do not, or if a PCR changed
\* between the policy command and the signature.
SignIffPolicy ==
    /\ result.kind = "signed" => result.now = key.policy
    /\ result.kind = "refused" => result.now # key.policy \/ result.raced

\* "The expected auth policy digest from PCR values": VerifyPolicyDigest accepts
\* the policy of a key if the attested PCRs have the values that they had when
\* the key was made, and only then, whichever way the caller lists the PCRs.
VerifyAnyOrder ==
    result.kind \in {"verified", "mismatch"} =>
        (result.kind = "verified" <=>
            /\ ToSet(result.list) = key.policy.sel
            /\ \A k \in DOMAIN key.policy.seq :
                DigestOf(attested, Ascending(key.policy.sel)[k]).value = key.policy.seq[k])

\* The same for a caller that lists the PCRs in ascending order, as TPMs do; the
\* key may have been made and the PCRs read with lists in any order.
VerifyIffUnchanged ==
    result.kind \in {"verified", "mismatch"} /\ result.list = Ascending(ToSet(result.list)) =>
        VerifyAnyOrder

\* ReadPCRs ends: every PCR_Read answers at least one PCR, because the bank has
\* them all.
ReadEnds == pc = "read" ~> pc # "read"

=============================================================================
