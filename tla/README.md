# A TLA+ development for iks

iks is a Go library of host and platform identity: TPM 2.0 operations
(`pkg/tpm`), a Redfish client that asks a BMC about the devices of its host
(`pkg/redfish`), the DMA exposure of NICs (`pkg/iommu`), chip identifiers
(`pkg/chipid`), a blob codec (`pkg/blob`) and logging (`pkg/logging`). This
directory holds TLA+ modules of its stateful parts, TLC configurations that
check them on small instances, an abstract specification that one of them implements,
and machine-checked proofs: every safety property that TLC checks on an instance is a
theorem, and so is the refinement.

## Inventory

| Part | State it keeps | Operations | What makes it hard | What makes it correct |
|---|---|---|---|---|
| Redfish client, `redfish.go` | manager path, ComponentIntegrity snapshot (members, failed), adapter cache, port MAC cache | Manager, System, IDevIDChain, ComponentIntegrityFor, TPMSignedMeasurements | any request may fail; what a call learnt before the failure is cached and trusted by later calls | no member lost, caches true, misses definitive, the right device and TPM |
| Signer, `sign.go` | handle, public key | Load, Unload, Public, Sign | shared by goroutines without a lock; handles outlive their connection | signatures and public keys are the Signer's own; no silent leaks |
| NV storage, `tpm.go` | the NV index, in the TPM | InitNVStorage, NVStorageStatus, ReadFromNVStorage, WriteToNVStorage, Clear | several commands per operation, other programs between them; sizes of 16 bits | answers that were true at some moment of the call |
| PCRs and policies, `tpm.go`, `sign.go`, `policy_digest.go` | PCR banks, policy sessions, keys | ReadPCRs, ExtendPCR, ResetPCR, GenerateSigningKeyWithPolicy, SignWithPolicy, VerifyPolicyDigest, Quote | PCRs change between commands, one answer holds some of the PCRs, TPMs differ in their banks | complete reads, signatures only under the policy, verifier agrees with the TPM, quotes vouch for what was read |
| Chip identifier, `chipid*.go` | none; the ASP's mailbox and DMA memory are shared | Get | register by register access with no lock, late DMA, timeouts | a ChipID of this host or an error |
| IOMMU enumeration, `iommu.go` | the enumeration in progress | FindPassthroughNICs | sysfs changes while it is read; many reads can fail | one verdict per function, nothing exposed or unreadable dropped, the port's own MAC |
| TPM objects, `tpm.go`, `attest.go`, `cert.go` | hierarchy passwords, storage seed, persistent keys, transient slots | Create and load EKs and the owner key, Seal, Unseal, SolveChallenge, ActivateCredential, LoadKey, UnloadKey, ChangeHierarchyPassword, Clear | several commands per call, any of which may be refused, fail or lose its answer; two kinds of EK; other programs | nothing left in a slot, results decided by arguments and state, the certified EK, policies enforced |
| Opening the TPM, `open_other.go` | file, goroutine, channel | OpenTPM, Close | timeout against a late answer, on a device with one opener | a handed-out TPM has been probed; calls and goroutines end |
| Errors, `errors.go`, `tpm2_errors.go` | none | CategorizedError, ToErrorType | bits of the response code | the error the TPM reported |
| Wrapping and blobs, `wrap.go`, `offhost_wrap.go`, `key.go`, `blob.go` | the stored blob | Wrap, Unwrap, OffHostWrap, UnwrapImportable, Pack, Unpack, ReadKeyParts | lengths at their limits, truncated input, indices against slices | the secret or an error |
| Logging, `syslog.go` | handlers: group, attributes, mutex | WithAttrs, WithGroup, Handle | handlers derived from one another by goroutines; failing writes | each line is its handler's, and one line |
| Signatures, constants, stubs | none | encodings, templates | - | not modelled |

The parts meet in the TPM: Signer, NV storage, PCRs and TPM objects each issue commands to
one device that executes one command at a time, so in all four modules a step is
one command and everything else happens between two of them. `OpenTpm` is what happens
before the first of them, and its errors are classified by `TpmErrors`. `KeyBlobs` uses
Seal and Unseal as `TpmObjects` details them: carried out, refused or failed. The Redfish client
and the IOMMU enumeration meet in the MAC address: the host looks a NIC up at the
BMC by the MAC that `readMAC` found (`MACIsThePorts`), and the client compares
it with what the ports report (`FoundIsRight`). `PROJECT.json` lists every part
with its status, every hazard with the properties that cover it, and, under
`map`, the source lines each definition stands for.

## Modules

Definitions keep the names of the source where they can. A definition named
`X_Y` is `X` with a plausible mistake `Y`; no specification uses it. It is there
to show that a property would notice the mistake.

**RedfishClient** (with **MCRedfish**, **RedfishProofs**). Variables are the four
fields of `Client` and the locals of the method in progress; `pc` is the request
made next. A step is one HTTP request with the code up to the next one. The
resources of the BMC are constants: they say what an answered request answers. A
request is answered truthfully (200, 404, or a schema stub that does not decode) or
fails, as long as `flaky` holds; `Recover` ends that. The certificates are chosen anew
for each call of IDevIDChain (`call.certs`), from BMCs that list their IDevID, hold it at
the OEM path only, hold something there that is no PEM, have both, or have neither. Collections are sets, since
BMCs choose the order of their members. `TrueAdapters`, `TrueMACs` and `Carries`
say what is true of the BMC and are what the caches and results are compared
with.
The parts of a lookup are steps of their own: `ListMembers` and `ReadMember`
(componentIntegrities), `TryEntry` (targetAdapter's cache), `ReadTarget`,
`ListAdapters`, `ReadCandidate`, `NoCandidate` (resolveTarget), `ListPorts`,
`ReadPort`, `KeepPortMACs` (adapterMAC), `Miss`. A MAC is a record of the address,
its case and its white space, so that `TrimSpace` and `EqualFold` mean something.
The client is documented as not safe for concurrent use, so calls follow one
another.

**TpmSigner** (with **GoroutineProofs**). Goroutines share the two fields of a `Signer`. Every TPM command and
every access to a field is a step. The device is one of `Devices`: on `/dev/tpmrm0`
each open has handles of its own, emptied on close; on `/dev/tpm0` there is one space,
one opener at a time, and another program that loads and unloads keys.

**NvStorage** (with **MCNv**, **NvProofs**). One NV index, several programs, one step per
command. `seen` is a history variable: the values the index has had since a call
began. Sizes are compared modulo 2^16 where the code converts them.

**PcrPolicy** (with **MCPcr**, **PcrProofs**). PCR values are numbers of measurements, a policy
digest is what was hashed: the bank, the selection and the values in order. The
TPM hashes selected PCRs in ascending order, answers `ReadLimit` PCRs per command,
refuses a selection with PCRs that it does not have, and invalidates a policy session
when any PCR changes. `since` is a history variable for the values a PCR has had since
the last read began: a read has to report one of them, and a quote has to agree with
the read if there is only one.

**ChipId** (with **MCChipId**, **ChipIdProofs**). Callers of `Get`, PCI functions, the mailbox
registers of each Secure Processor, and DMA memory whose addresses are handed out
again once freed. The processor takes a command, executes it later, and answers into
whatever the register holds by then. The final check and the copy of the buffer are
one step. An answered length is the full one, zero, or too large.

**IommuNics** (with **MCIommu**, **IommuProofs**). One step per read of sysfs, while a netdev may
go away or be enslaved. A netdev is described by what its files hold: its link, its
port name, its bonding state, which address files hold a usable MAC, and which of these
cannot be read although the netdev is there.

**TpmObjects** (with **MCObjects**, **ObjectsProofs**). One program calls, others interfere. The state of
the TPM is its passwords, the generation of its storage seed, two persistent handles
(`EKRSAHandle`, which holds an EK of any kind, and `SRKECCHandle`) and the transient
slots. The commands of a call are steps with up to four outcomes: carried out, refused
since the TPM's state is against it, failed for no reason, carried out with the answer
lost. `promise` says at the beginning of a call whether it should succeed, by arguments
and state alone, and is dropped as soon as something fails for no reason or another
program interferes; `KeepsPromise` compares it with the result. The deferred
`FlushContext` is a step like any other (three attempts in `Unseal`, one elsewhere). A
certificate is described by what decides whether it parses: its DER, its serial number
byte by byte (`StrictSerial`: `crypto/x509` refuses one that is negative or padded), its
issuer, and the rest. Seal is modelled by the attributes and policy
of what it creates (`Sealed`).

**OpenTpm** and **TpmErrors** (with **GoroutineProofs**). Callers, the goroutine of each call, its channel, its
file and the driver. A goroutine whose call has given up stays with that call; the
retry is another call. On the raw device a file is held until it is closed and the
driver has let go of it. `TpmErrors` has the tables as sets of codes, with the
arithmetic of `isFmt1Error`.

**KeyBlobs** and **Vault** (with **MCBlobs**, **BlobProofs**). Bytes have `Base` values, so that the
second byte of a length is reached with short data. A stored blob is a Go slice: its
bytes up to its capacity, and its length. An index checks the length, a slice
expression the capacity, and only `Truncate` makes the two differ. `Vault` is the
abstract specification: one secret is put away, may be damaged, and getting it gives
the secret or an error, or a crash if it was damaged. The refinement mapping forgets
the bytes and keeps what they were made of.

**Syslog** (with **MCSyslog**, **GoroutineProofs**). Attributes of a handler are a slice of an array in
`heap`, since what matters is whether two handlers share one. `path` is a history
variable, the calls by which a handler was derived, from which `LineIsTheHandlers`
computes what its lines have to name: the i-th step that adds an attribute is found at the
place that its rank among these steps gives it. Text is reduced to keys and to whether it
contains a line break or a blank; `WithAttrs` adds one attribute per call.

## Runs

| Run | Checks | Distinct states |
|---|---|---|
| `redfish_lookup` | types, `NothingLost`, `CachesTruthful`, `NoFalseMiss`, `FoundIsRight`, `MeasuredPreferred`, `OwnTPMOnly`, `NoFalseIDevIDMiss`, `NeverForgets` (action property), `LookupRecovers` (liveness) | 1,366,522 |
| `signer` | `SignedByMine` (with the key staying loaded), `NoSilentLeak`, on both devices | 172,897 |
| `nv_storage` | `StatusWasTrue` (with the expected size), `ReadIsRegular`, `InitEstablishes`, `ReadEnds` (liveness) | 127,652 |
| `chip_id` | `IdIsReal`, `GetEnds` (liveness) | 340,206 |
| `iommu_verdicts` | `NothingDropped`, `OneVerdict`, `ForcedOnlyWidens`, `MACIsThePorts` | 7,380,984 |
| `pcr_policy` | `ReadIsComplete` (with the choice of the bank), `SignIffPolicy`, `VerifyIffUnchanged`, `QuoteMatchesRead`, `ReadEnds` (liveness) | 281,738 |
| `tpm_objects` | `KeepsPromise`, `NoLeak`, `EKMatchesCert`, `PolicyEnforced` | 3,753,732 |
| `open_tpm` | `ReturnedIsProbed`, `ErrorsNamed`, `BusyExplained` (action property), `CallEnds`, `ProbeEnds` (liveness) | 14,372 |
| `wrapped_blobs` | `RoundTrip`, `ImplementsVault` (refinement) | 81,108 |
| `syslog` | `LineIsTheHandlers` (with the line being a single one), `HandleEnds` (liveness) | 105,801 |

Except in the Redfish modules, where it is checked and proved on its own, the
types (`TypeOK`, `SignerTypeOK`, `LogTypeOK`) are a conjunct of one of the invariants: `SignedByMine`,
`ReadIsRegular`, `IdIsReal`, `MACIsThePorts`, `ReadIsComplete`, `NoLeak`,
`ReturnedIsProbed`, `RoundTrip` and `LineIsTheHandlers`.

Two more runs are expected to find a violation: each states what a comment of
the source says and shows a behaviour of the code that does otherwise. They are
the findings of `PROJECT.json`:

- `signer_wrong_key`: `Unload` keeps the handle it has flushed, so on the raw device
  a later `Public` may read and cache another program's key.
- `pcr_verify_order`: the verifier hashes PCRs in the order of its caller's list.

The passing runs of the same modules say how far the code goes: `VerifyIffUnchanged`
excepts only lists that are not ascending.

### Observations

Behaviours that showed up while modelling; the models have them, and the properties
are stated so as to hold with them.

- `GetHandles` ignores that the TPM has more handles than one answer holds
  (`MoreData`), although its comment says "all the handles": with `MaxCapHandles`
  below the number of indices `StatusWasTrue` fails.
- An unreadable event log ends the chip identifier's `Get` before the fallback that is
  said to work when the log is unavailable (`EarlyError`).
- A port that is enslaved between `readMAC`'s look at `bonding_slave` and its read of
  `address` is reported with the bond's MAC; `MACIsThePorts` excepts just those.
- A representor whose `phys_port_name` cannot be read, although it is there, is filed as a
  port, and its MAC may be the one reported: the comment of `FindPassthroughNICs` says
  "never from a switchdev representor", `isRepresentor` takes an error for "no".
  `MACIsThePorts` excepts just those.
- `CreateECCEK` and `CreateRSAEK` take "the provided endorsement hierarchy password" and
  use it for the owner hierarchy too: they succeed only if both have it (`Works`).
- An H-3 EK is used by the password it was created with, also after
  `ChangeHierarchyPassword`, and not at all by `ActivateCredential`, whose session is of
  SHA-256.
- A read error of an EK certificate's index counts as an index without a certificate. So
  does a certificate with a negative serial number: `crypto/x509` refuses it, and the
  fallback finds no padding to strip. The EK is then that of the other curve or the default
  (`Usable`).
- After one failed read the handle that `Signer` keeps makes each later `Public`
  return nil.
- `CheckNVHandle` compares the expected size modulo 2^16.
- After a timeout the Secure Processor may still write to memory that
  `getChipIDFromDevice` has given back (`IdIsReal` holds nevertheless).
- `Wrap` of no data gives a blob that `Unwrap` refuses; `Unpack` and `Unwrap` panic on
  empty input, and truncated input may panic or be read beyond its length
  (`ImplementsVault`: never to a wrong secret).
- `CategorizedError` gives errnos other than four the empty type, and the ten seconds of
  OpenTPM's probe the type `OTHER_ERROR`.
- A Secure Processor's BAR2 of 0x0 to 0x0 has size 1, so the device is kept and the first
  register write panics (`WriteRegister`).
- `ExtendPCR` extends the SHA2-256 bank only, also where `getPCRHashAlg` picks another.
- Handlers derived from one syslog handler have mutexes of their own; keeping their lines
  apart is left to the writer.
- `Pack` cuts lengths to 16 bits and the number of PCRs to 8 without an error; what the
  TPM and `CreateImportBlob` produce stays below.

### Bounds

- Redfish: a BMC with a device listed twice, a device behind its slot only, a
  storage component, a target that is a stub or missing, two ports, MACs spelled in
  upper case or padded, its own and a foreign TPM; five kinds of certificates, so that "no
  IDevID" is the right answer of some calls, the wrong one of others, and the OEM path is
  used. Calls are not bounded: the caches
  only grow, so the state space is finite.
- Signer: two goroutines, two handles, a bounded number of faults
  (`MaxFaults`), which is enough for every pair of calls to meet and for one of them
  to be disturbed.
- NV: two programs; sizes 2 and 3 with two bytes per command, so a read takes one or
  two commands; calls are not bounded.
- PCRs: three PCRs, up to two changes (`MaxChanges`), so that a value can change
  before, between and after the commands of a call; two PCRs per answer, so that a
  read takes one or two commands; PCR lists that are ascending, unordered with a PCR
  named twice, empty, or name a PCR that is not there; three TPMs that differ in their
  banks.
- ChipId: two callers that each call `Get` once, two processors, two
  addresses: enough for a late answer to meet the next attempt at the next
  processor or of the other caller; a third function whose BAR2 is unassigned.
- TPM objects: four machines, by maker and certificates (none, good, padded by the
  maker that may, padded by another, negative, not DER); two passwords, two transient slots so
  that one leak is felt and two exhaust the TPM; one clearing, one interference per
  call; calls and failures are not bounded.
- OpenTpm: two calls that are retried without bound, one lingering while the other is
  made; codes of each format, with a parameter, handle and session number, a warning, an
  unknown one and one without a format.
- Blobs: bytes of eight values, segments of two bytes, at most three of them: data of
  none, part of, one, one and a half, just the maximum and one byte too much; every
  truncation, with four kinds of spare capacity.
- Syslog: four handlers, so that two are derived from one that was derived itself, two
  goroutines, records with and without attributes.
- IOMMU: three directory entries over two functions, all combinations of the listed
  kinds, among them representors with and without a readable name; any number of netdevs
  go away or are enslaved.

`CHECK_DEADLOCK FALSE` is set where calls are bounded or the enumeration ends.

### Fairness

Weak fairness on the steps of a call that has begun, and nothing else. The code
between two requests runs by itself, and a request comes to an end: the HTTP
client is bound by the context of the call, the TPM driver answers each command, `pollCmd` has a
deadline. Nothing is assumed of the Secure Processor, of the BMC while it is flaky, or
of other programs. `LookupRecovers` is about calls made after the BMC has
recovered. In `PcrPolicy` fairness is on the commands of `ReadPCRs` as the TPM
serves them: a fault may end a read and need not, so that `ReadEnds` does not
rest on one. In `OpenTpm` fairness is on the goroutine's steps and on the select,
which a timer ends; nothing is assumed of the driver. In `Syslog` a goroutine that
holds the mutex goes on (a write ends, if only by an error), and the mutex is granted
with strong fairness, since `sync.Mutex` hands itself to a waiter that starves.

## Proofs

The module `XProofs` of a component extends its module and TLAPS. Each has the same
layout: an invariant `IInv` of named parts, lemmas about the operators, a lemma per
action that it keeps `IInv`, `InitInv`, `NextInv` (by cases over the disjuncts of
`Next`), `Spec => []IInv`, and the theorems. `GoroutineProofs` does so for three
components, the ones whose state goroutines share; their specifications have different
names for that (`Spec`, `SignerSpec`, `LogSpec`, with `IInv`, `SignerInv`, `LogInv`).
Each invariant was checked by TLC with the constants of the component's run before it was
proved. A theorem holds for every value of the
constants that satisfies the assumptions, in particular for any number of goroutines,
calls, programs, devices and slots, and for any number of failures.

| Module | Theorems | State |
|---|---|---|
| `RedfishProofs` | `TypeCorrect`, `MembersKept`, `CachesAreTruthful`, `MissIsDefinitive`, `FoundIsTheDevice`, `MeasuredIsPreferred` | `TypeOK`, `NothingLost`, `CachesTruthful`, `NoFalseMiss`, `FoundIsRight`, `MeasuredPreferred` |
| | `OwnTPMQuoted`, `NoIDevIDIsDefinitive`, `ResolvedForGood` | `OwnTPMOnly`, `NoFalseIDevIDMiss`, `NeverForgets` (action property) |
| `GoroutineProofs` | `SignatureIsOwn`, `NoLeakUnreported` | `SignedByMine`, `NoSilentLeak` |
| | `PublicIsOwnBehindManager` | `PublicIsMine`, on `/dev/tpmrm0` only: the run `signer_wrong_key` refutes it on the raw device |
| | `OpenIsProbed`, `BusyIsExplained`, `ErrorIsNamed` | `ReturnedIsProbed`, `BusyExplained` (action property), `ErrorsNamed` |
| | `LineBelongs` | `LineIsTheHandlers` |
| `NvProofs` | `StatusIsTrue`, `ReadRegular`, `InitEstablished` | `StatusWasTrue`, `ReadIsRegular`, `InitEstablishes` |
| `ChipIdProofs` | `IdBelongsToHost` | `IdIsReal` |
| `IommuProofs` | `NeverDropped`, `SingleVerdict`, `ForcedWidens`, `MACBelongs` | `NothingDropped`, `OneVerdict`, `ForcedOnlyWidens`, `MACIsThePorts` |
| `PcrProofs` | `EveryPCRIsRead`, `SignatureMeansPolicy`, `VerificationIsExact`, `QuoteVouchesForRead` | `ReadIsComplete`, `SignIffPolicy`, `VerifyIffUnchanged`, `QuoteMatchesRead` |
| `ObjectsProofs` | `PromiseKept`, `NothingLeaks`, `EKIsCertified`, `PolicyIsEnforced` | `KeepsPromise`, `NoLeak`, `EKMatchesCert`, `PolicyEnforced` |
| `BlobProofs` | `RoundTripHolds`, `BlobsImplementVault` | `RoundTrip`, `ImplementsVault` (refinement) |

### Redfish client

Assumptions, all about the BMC: `WorldTypes` (what the constants are), `IdsAgree`
(members that share an Id describe one component; the adapter cache is keyed by
it), `SlotsAgree` (at most one adapter sits in a slot, and a component whose target
resolves names the slot that its target sits in; without it the slot fallback may find
another adapter than the target).

None of the properties is inductive. `NoFalseMiss` speaks of the end of a search,
so the invariant says what a search knows in the middle: `SearchInv`, the entries
that are done with do not carry the MAC, or `unreadable` is set; `ResolveInv`, as
long as no candidate failed, every adapter of the slot is still to be read, and a
target that did not fail is no adapter; `PortsInv`, as long as no port failed,
every MAC of the adapter has been read or belongs to a port that is still to be
read; `ControlInv`, which locals mean something at which request. A search step
rests on lemmas about `Continue`, `Resolved` and `Found`, which several actions
share. From `NothingLost` and an unset `unreadable` follows that the snapshot is
complete (`AllRead`), which turns "no member of the snapshot" into "no listed
member".

`ManagedInv` is a second invariant, proved from the first, for what depends on the
manager: a manager that is resolved is the only one the BMC has, no method that needs
one goes on without it, and where IDevIDChain reads a certificate says what the
manager lists. `NeverForgets` follows from `CachesTruthful` before and after a step
rather than from the assignments: there is one truth about the BMC, so an entry that
is replaced is replaced by itself.

### Signer

`OpenInv`: those who hold the device open are those between OpenTPM and Close, and on
the raw device that is one goroutine at most. This is what keeps a key loaded from
`Load` to the command that uses it although goroutines share the Signer's fields.
`StoreInv` (only Public keeps a handle) and `SignatureInv` (what a Sign without an error
has got) complete it. Behind the resource manager a handle means something only on
the connection that loaded it, so the handle Public keeps names nothing of another
program.

### Opening the TPM

`FileInv` and `ProbeInv` relate, for each call, its place to its file, the goroutine's
place, the driver's answer and the channel. Nothing relates two calls except the raw
device, and there `BusyExplained` needs only that a held file belongs to a call that is
waiting or open, or to a probe the driver has not let go of. `ErrorIsNamed` is arithmetic
about every response code below 4096, not only the codes of the run: the bits that
`isFmt1Error` takes away are those in which a TPM reports a parameter, handle or session
number. Assumed: response codes are between 1 and 4095, nil is no error
(`NilIsNoError`).

### NV storage

For each program: what its call has seen includes the index as it is (`CallInv`), so an
answer that is right at its command is right at some moment of the call; the bytes read so
far were in the index at their offsets (`ReadInv`). `StatusIsTrue` has two hypotheses,
both limits of the code that the observations list: `OneAnswer` (the handles below
the index fit one answer of GetCapability, since `GetHandles` asks once) and `SizesFit`
(callers expect sizes below 2^16, since `CheckNVHandle` compares 16 bits).

### Chip identifier

`DeviceInv`: a mailbox that has had a command has both halves of an address, though they may
be of two callers or of memory given back, so that an executed command writes into memory
the model knows. `CallerInv`: a caller that polls has memory of its own, filled with the
sentinel before the command. The argument is about content, never about whose command
it was: whatever a processor wrote is an identifier of this host, and everything else is
refused by `checkDMAChipID`. Assumed: measured events of PCR 1 that parse hold an
identifier of this host (`FirmwareLogs`); chips' identifiers are not the sentinel and not
zeros.

### IOMMU

`ListedInv` and `VerdictInv` say that an entry or a function that has been dealt with is
settled, while the rest is still to come; at the end nothing is still to come. `KeysInv`
ties the map of keys in use to the list of undetermined entries, which makes `OneVerdict`
inductive. `TryingInv` says what `readMAC` knows between its reads.
`CollectedInv` says that a representor among a function's ports has gone or has no readable
name; one that has gone has no MAC to report, so `MACBelongs` is left with the second. The
history variable `joined` has the netdevs enslaved just between the two looks of `readMAC`. Assumed: PCI
addresses and interface names differ (`NamesDiffer`; the first have colons).

### PCRs and policies

Between two commands of ReadPCRs a PCR is read, once, or still to be read (`ReadInv`), and
the history has the present values of all PCRs (`SinceInv`); what was read, quoted or bound
is of the bank that getPCRHashAlg prefers. `SessionInv`: a session whose counter is
that of the TPM has the digest of the present values. Two facts need induction and are
proved by a least counterexample (`LeastOf`): every finite set of numbers can be
listed in ascending order (`Enumerable`, with which the `CHOOSE` of `Ascending`
finds what it looks for), and the rounds of getPCRHashAlg's loop keep the best bank so far, for
lists of any length (`RoundsExist`, `LoopComputesBest`). Assumed: 0, with which the
loop begins, is no hash; the TPM's PCRs are finitely many.

### TPM objects

`CallInv` and `PrimaryInv` say what the control point says about the locals; `SlotInv`, for each
transient slot, that an object the call still holds has been flushed in vain as often as
the call has tried, and one that was left behind as often as the call tries; `ProfileInv`,
what CreateECCEK has learnt of the certificates; `PromiseInv`, how much of what `Works` demands is
still open at each command. `EKIsCertified` rests on `PaddingIsNotCanonical`: a serial number
of any length has padding to strip exactly if it is not in the shortest form, and on
`StrippedIsStrict`: without its padding it is never negative. Assumed:
certificates have a serial number, and the maker a TPM reports, a code of at most four
characters, is not the name "Amazon" that GetModel makes of AMZN
(`MachinesAssumption`); nil is none of the model's records (`NilIsNothing`).

### Wrapping and blobs

Assumptions (`BlobsAssumption`, `OutcomesDiffer`): a byte has more than six values; a sealed
chunk fits its one-byte length and the number of segments its byte; what `Pack` is given
stays below the lengths it can write, two bytes for a part and one for the PCRs (the code
cuts longer ones without an error, see the observations); the model's error and crash are no
data.

The stored blob is the beginning of what `Wrap` or `Pack` made of its secret, and all of
it if it is intact (`Sound`, by its kind: `Wrapped`, `PackedImport`, `PackedKey`). In the
middle of `Wrap` the first k segments are written (`Wrapping`), in the middle of `Unwrap`
the first k are read and have given the first k chunks of the secret (`Unwrapping`). Where
segment k begins is known in closed form (`Ofs`, `Start`), so a step of either loop moves
from k to k + 1 and no induction over the data is needed. What a reader does with a
segment is decided in one place: an index within the blob's length reads what was
written, since a truncated blob is a prefix; a slice expression may reach into the spare
capacity, and then the next index check fails or the TPM refuses the pair. The layout of
`Pack` is given part by part, and `Unpack` is shown to find each part at its place, or to stop
where the blob ends. `Reported` says that without a failing command an error has a reason:
too much data, a damaged blob, a blob of another kind, or the empty secret.

The refinement rests on the same invariant: `VaultStep` is shown of every action (a step in
the middle of a loop is a stutter of `Vault`, the last one is its `Get` or `Put`), and
`BlobsImplementVault` puts that together with the initial states. It says of any damage
and any spare capacity what `RoundTripHolds` cannot say of intact blobs: never another secret.

### Logging

`LogInv` says of every handler that its groups are those open at the end of its derivation,
and that its slice of the heap lists the attributes of its derivation (`Lists`): the i-th step
that adds one, with the groups that were open then. A derivation copies, so no step
disturbs what another handler has (`DeriveKeeps`), and the array of a line's handler is the
same from `Handle` to the write. Positions in a derivation, in a list and in a line
are related by ranks, and a rank is the cardinality of a set: `Ranks` and `NthIs` (ranks
of a finite set are the numbers up to its size), `RanksFollow` (what is appended comes
last) and `RanksOfRanks` (leaving out the empty attributes keeps the order) replace the
induction that a filter written as a loop would take. Assumed: `SyslogAssumption`, the types
of attributes, groups and records.

### Only model-checked

- Liveness (`LookupRecovers`, both `ReadEnds`, `GetEnds`, `CallEnds`, `ProbeEnds`,
  `HandleEnds`): fairness and ENABLED are beyond the installed provers.
- The violations: a counterexample is TLC's.

## Not modelled

Encodings (ASN.1, JSON, TPM structures, PEM, base64), formats of names, and error
texts, except where a property depends on them: which serial numbers parse, the bytes
of blobs, line breaks in log lines. Signatures and key templates are conversions
and constants. `Certify`, `CertifyCreation`, `MakeCredential`, `Startup`, `Shutdown`,
`DoSelfTest`, `GetRandomBytes` and the property getters are single commands that leave
nothing behind on this side. `DictionaryAttackLockReset` is one too; the lockout
counters and times that make it delicate are the TPM's. Windows, the handler that
discards records, and the chip identifier's stub have no state. The choice of the chip
identifier's extractor by CPU vendor is left out. A torn read of a Go interface value is
below the granularity of `TpmSigner`. That the parts are one TPM is not composed: each
module has the other parts' programs as its surroundings.

## Plan

Done: Redfish client; signer; NV storage; chip identifier; IOMMU; PCRs, policies and
quotes; TPM objects and challenges; opening the TPM and its errors; wrapping and blobs with
their abstract specification; logging. Proofs of all safety properties, of both action
properties and of the refinement.

Further work:

1. Abstract specifications of more of the proved components: what a lookup of the Redfish
   client and a call on the TPM promise, with the mapping proved step by step from
   the invariants there are.
2. Action properties of the TPM modules: what a call may never do to an index, a slot or a
   persistent handle that is not its own.
