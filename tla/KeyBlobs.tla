------------------------------ MODULE KeyBlobs ------------------------------
(***************************************************************************)
(* Wrapped data and key blobs: Wrap and Unwrap of pkg/tpm/wrap.go, the     *)
(* codec of pkg/blob/blob.go, and its users OffHostWrap, UnwrapImportable  *)
(* and ReadKeyParts.                                                       *)
(*                                                                         *)
(* A byte has Base values.  The reader gets a Go slice: an index must be   *)
(* below its length, while a slice expression may reach up to its          *)
(* capacity, into bytes that were never stored.  The stored copy may have  *)
(* lost its end.                                                           *)
(***************************************************************************)
EXTENDS Naturals, SequencesExt

CONSTANTS
    None, Error, Crash,     \* nothing, an error value, a panic
    Base,                   \* values of a byte (256)
    MaxSealLength,          \* 128
    MaxSealCount,           \* 254
    Data,                   \* data to be wrapped
    PCRSets                 \* sets of PCRs to bind it to

Bytes == 0 .. Base - 1

\* A sealed chunk fits a length of one byte (Wrap checks that), a part of a key
\* one of two (the TPM's own buffers have such sizes), and the PCRs that a blob
\* lists one of one (a TPM has 24).
ASSUME BlobsAssumption ==
    /\ Base \in Nat /\ Base > 6
    /\ MaxSealLength \in Nat \ {0} /\ MaxSealLength + 1 < Base
    /\ MaxSealCount \in 1 .. Base - 2
    /\ Data \subseteq Seq(Bytes) /\ \A d \in Data : Len(d) + 1 < Base * Base
    /\ \A pcrs \in PCRSets : pcrs \subseteq Bytes /\ Cardinality(pcrs) < Base

VARIABLES
    stored,     \* the blob that is kept, or None
    pc,         \* the loop that is running
    call,       \* the operation, with the locals of its loop
    faulty,     \* whether a command of it has failed for no reason
    result      \* how the last operation ended

vars == <<stored, pc, call, faulty, result>>

-----------------------------------------------------------------------------
(* Slices.                                                                 *)

Byte(n) == n % Base
\* data[i], for indices from 0; what is beyond the capacity is not used.
At(s, i) == IF i < Len(s.mem) THEN s.mem[i + 1] ELSE 0
\* data[i : i + n]
Slice(s, i, n) == SubSeq(s.mem, i + 1, i + n)
\* Where an index and a slice expression do not panic.
Index_AsSlice(s, i) == i < Len(s.mem)
Index(s, i) == i < s.len
Reach(s, i) == i <= Len(s.mem)

-----------------------------------------------------------------------------
(* What the TPM makes of data.  Only the pair that it made together is     *)
(* accepted: the private part is sealed with the name of the public one.   *)

Private(d) == <<1>> \o d
Public(d) == <<2>> \o d
Unsealed(private, public) ==
    IF private # <<>> /\ private = Private(Tail(private)) /\ public = Public(Tail(private))
    THEN Tail(private) ELSE Error

\* An import blob; its public area holds the policy over the PCRs.
Area(pcrs) == <<2>> \o [i \in 1 .. Base |-> IF i - 1 \in pcrs THEN 1 ELSE 0]
Seed == <<3, 1>>

-----------------------------------------------------------------------------
(* blob.go                                                                 *)

KeyTypeTPM == 4
ImportTypeTPM == 6

\* Little endian, of the length as an uint16.
packInt16(n) == <<Byte(n), Byte(n \div Base)>>
unpackInt16(s, i) == At(s, i) + Base * At(s, i + 1)

Pack(b) ==
    <<b.Btype, b.Stype>> \o packInt16(Len(b.Public)) \o packInt16(Len(b.Private))
        \o b.Public \o b.Private
        \o <<Byte(Len(b.PCRs))>> \o [i \in DOMAIN b.PCRs |-> Byte(b.PCRs[i])]
        \o packInt16(Len(b.EncryptedSeeds)) \o b.EncryptedSeeds

\* Crash, Error (mismatched types), or the blob.
Unpack(s, expectedType) ==
    LET pubLen == unpackInt16(s, 2)
        privLen == unpackInt16(s, 4)
        pcrs == 6 + pubLen + privLen
        seeds == pcrs + 1 + At(s, pcrs)
        seedLen == unpackInt16(s, seeds)
    IN  CASE ~Index(s, 0) -> Crash
          [] Index(s, 0) /\ At(s, 0) # expectedType -> Error
          [] /\ Index(s, 1) /\ At(s, 0) = expectedType
             /\ Reach(s, 6) /\ Reach(s, pcrs) /\ Index(s, pcrs) /\ Index(s, seeds - 1)
             /\ Reach(s, seeds + 2) /\ Reach(s, seeds + 2 + seedLen) ->
                [Btype |-> At(s, 0), Stype |-> At(s, 1),
                 Public |-> Slice(s, 6, pubLen), Private |-> Slice(s, 6 + pubLen, privLen),
                 PCRs |-> Slice(s, pcrs + 1, At(s, pcrs)),
                 EncryptedSeeds |-> Slice(s, seeds + 2, seedLen)]
          [] OTHER -> Crash

-----------------------------------------------------------------------------

\* What is kept, and what Unpack makes of it.
Blobs == [kind : {"wrap", "import", "key"}, secret : Seq(Seq(Bytes)), intact : BOOLEAN,
          mem : Seq(Bytes), len : Nat]
Contents == [Btype : Bytes, Stype : Bytes, Public : Seq(Bytes), Private : Seq(Bytes),
             PCRs : Seq(Bytes), EncryptedSeeds : Seq(Bytes)]

ASSUME OutcomesDiffer ==
    /\ None # Error /\ None # Crash /\ Error # Crash
    /\ \A x \in {None, Error, Crash} :
          x \notin Blobs /\ x \notin Contents /\ x \notin Seq(Bytes) /\ x \notin Seq(Seq(Bytes))

Init ==
    /\ stored = None
    /\ pc = "idle" /\ call = None
    /\ faulty = FALSE
    /\ result = None

\* A blob of one kind, with the secret it was made of.
Stored(kind, secret, bytes) ==
    [kind |-> kind, secret |-> secret, intact |-> TRUE, mem |-> bytes, len |-> Len(bytes)]

Begin(c) == pc = "idle" /\ call' = c /\ faulty' = FALSE

\* An operation that put a blob away, or ended with a value or an error.
Keep(blob) == stored' = blob /\ pc' = "idle" /\ result' = None
End(r) == pc' = "idle" /\ result' = r /\ UNCHANGED stored

-----------------------------------------------------------------------------
(* Wrap: one Seal for each chunk.                                          *)

\* The first byte of wrapped data.
Segments(d) == (Len(d) + MaxSealLength - 1) \div MaxSealLength

TooMuch_OrEqual(d) == Len(d) >= MaxSealLength * MaxSealCount
TooMuch(d) == Len(d) > MaxSealLength * MaxSealCount

Wrap(d) ==
    /\ Begin([op |-> "Wrap", data |-> d, ofs |-> 0, bytes |-> <<Byte(Segments(d))>>])
    /\ \/ TooMuch(d) /\ End(Error)
       \/ ~TooMuch(d) /\ pc' = "wrap" /\ result' = None /\ UNCHANGED stored

Field(part) == <<Byte(Len(part))>> \o part

\* The length of the chunk at an offset.
Count(d, ofs) == IF Len(d) - ofs < MaxSealLength THEN Len(d) - ofs ELSE MaxSealLength

\* The TPM seals the next chunk, refuses, or answers with more than 255 bytes.
Seal ==
    /\ pc = "wrap" /\ call.ofs < Len(call.data)
    /\ LET count == Count(call.data, call.ofs)
           chunk == SubSeq(call.data, call.ofs + 1, call.ofs + count)
       IN  \/ /\ call' = [call EXCEPT !.ofs = @ + count,
                                      !.bytes = @ \o Field(Private(chunk)) \o Field(Public(chunk))]
              /\ UNCHANGED <<stored, pc, faulty, result>>
           \/ End(Error) /\ faulty' = TRUE /\ UNCHANGED call

WrapDone ==
    /\ pc = "wrap" /\ call.ofs >= Len(call.data)
    /\ Keep(Stored("wrap", <<call.data>>, call.bytes))
    /\ UNCHANGED <<call, faulty>>

-----------------------------------------------------------------------------
(* Unwrap: one Unseal for each segment.                                    *)

Unwrap ==
    /\ stored # None /\ stored.kind = "wrap"
    /\ Begin([op |-> "Unwrap", ofs |-> 1, segments |-> At(stored, 0), data |-> <<>>])
    /\ \/ ~Index(stored, 0) /\ End(Crash)
       \/ /\ Index(stored, 0)
          /\ At(stored, 0) = 0 \/ At(stored, 0) > MaxSealCount
          /\ End(Error)
       \/ /\ Index(stored, 0)
          /\ At(stored, 0) \in 1 .. MaxSealCount
          /\ pc' = "unwrap" /\ result' = None /\ UNCHANGED stored

Unseal ==
    /\ pc = "unwrap"
    /\ LET private == call.ofs + 1
           public == private + At(stored, call.ofs) + 1
           next == public + At(stored, public - 1)
           readable == /\ Index(stored, call.ofs) /\ Reach(stored, public - 1)
                       /\ Index(stored, public - 1) /\ Reach(stored, next)
           segment == Unsealed(Slice(stored, private, At(stored, call.ofs)),
                               Slice(stored, public, At(stored, public - 1)))
       IN  \/ ~readable /\ End(Crash) /\ UNCHANGED <<call, faulty>>
           \/ readable /\ segment = Error /\ End(Error) /\ UNCHANGED <<call, faulty>>
           \/ readable /\ End(Error) /\ faulty' = TRUE /\ UNCHANGED call
           \/ /\ readable /\ segment # Error
              /\ call' = [call EXCEPT !.ofs = next, !.segments = @ - 1, !.data = @ \o segment]
              /\ IF call.segments = 1
                 THEN End(<<call'.data>>)
                 ELSE UNCHANGED <<stored, pc, result>>
              /\ UNCHANGED faulty

-----------------------------------------------------------------------------
(* Import blobs and key blobs.                                             *)

\* The PCRs come out of the map in any order.
ImportBlob(d, pcrs, order) ==
    [Btype |-> ImportTypeTPM, Stype |-> 0, Public |-> Area(pcrs), Private |-> Private(d),
     PCRs |-> order, EncryptedSeeds |-> Seed]

\* CreateImportBlob, which has no TPM, may fail, and nothing is put away then.
OffHostWrap(d, pcrs) ==
    /\ pc = "idle" /\ call' = [op |-> "OffHostWrap"]
    /\ \/ /\ \E order \in SetToSeqs(pcrs) :
                Keep(Stored("import", <<d>>, Pack(ImportBlob(d, pcrs, order))))
          /\ faulty' = FALSE
       \/ End(Error) /\ faulty' = TRUE

\* A caller unpacks the blob and gives its parts to UnwrapImportable;
\* LoadCachedKey and Import may fail.
UnwrapImportable ==
    /\ stored # None /\ stored.kind # "wrap"
    /\ pc = "idle" /\ call' = [op |-> "UnwrapImportable"]
    /\ LET b == Unpack(stored, ImportTypeTPM)
       IN  IF b \in {Crash, Error} THEN End(b) /\ faulty' = FALSE
           ELSE \/ End(IF /\ b.Public = Area(Range(b.PCRs)) /\ b.EncryptedSeeds = Seed
                          /\ b.Private # <<>> /\ b.Private = Private(Tail(b.Private))
                       THEN <<Tail(b.Private)>> ELSE Error) /\ faulty' = FALSE
                \/ End(Error) /\ faulty' = TRUE

\* A caller packs the parts of a key that GenerateSigningKey gave it.
KeyBlob(d) ==
    [Btype |-> KeyTypeTPM, Stype |-> 0, Public |-> Public(d), Private |-> Private(d),
     PCRs |-> <<>>, EncryptedSeeds |-> <<>>]

PackKey(d) ==
    /\ Begin([op |-> "PackKey"])
    /\ Keep(Stored("key", <<Public(d), Private(d)>>, Pack(KeyBlob(d))))

ReadKeyParts ==
    /\ stored # None /\ stored.kind # "wrap"
    /\ Begin([op |-> "ReadKeyParts"])
    /\ LET b == Unpack(stored, KeyTypeTPM)
       IN  End(IF b \in {Crash, Error} THEN b ELSE <<b.Public, b.Private>>)

-----------------------------------------------------------------------------
(* The copy loses its end.  The slice it is read into has no spare         *)
(* capacity, or zeros there, or, if it is cut from a longer one, what was  *)
(* there before.                                                           *)

Truncate(n) ==
    /\ pc = "idle" /\ stored # None /\ stored.intact /\ n < stored.len
    /\ \E spare \in {<<>>, <<0, 0>>, [i \in 1 .. stored.len |-> 0],
                     SubSeq(stored.mem, n + 1, stored.len)} :
          stored' = [stored EXCEPT !.intact = FALSE, !.len = n,
                                   !.mem = SubSeq(stored.mem, 1, n) \o spare]
    /\ UNCHANGED <<pc, call, faulty, result>>

-----------------------------------------------------------------------------

Next ==
    \/ \E d \in Data : Wrap(d) \/ PackKey(d) \/ (\E pcrs \in PCRSets : OffHostWrap(d, pcrs))
    \/ Seal \/ WrapDone \/ Unwrap \/ Unseal
    \/ UnwrapImportable \/ ReadKeyParts
    \/ stored # None /\ \E n \in 0 .. stored.len - 1 : Truncate(n)

Spec == Init /\ [][Next]_vars

-----------------------------------------------------------------------------
(* Properties                                                              *)

\* Types; a blob consists of bytes and its length is within its memory.  A part
\* of RoundTrip.
TypeOK ==
    /\ stored \in Blobs \cup {None}
    /\ stored # None => stored.len <= Len(stored.mem)
    /\ pc \in {"idle", "wrap", "unwrap"}
    /\ faulty \in BOOLEAN

\* What wrapping and packing put away, unwrapping and unpacking give back, or
\* an error, never a part of it, a mix with leftover bytes or another secret,
\* also from a copy that has lost its end; and a copy that is complete never
\* makes them panic.
V == INSTANCE Vault
        WITH Secrets <- {<<d>> : d \in Data} \cup {<<Public(d), Private(d)>> : d \in Data},
             secret <- IF stored = None THEN None ELSE stored.secret,
             intact <- stored = None \/ stored.intact,
             got <- result
ImplementsVault == V!Spec

\* If no command fails, wrapping fails for too much data only, and an undamaged
\* blob gives the secret back to the reader of its kind; except that nothing,
\* wrapped, is refused by Unwrap.
RoundTrip ==
    /\ TypeOK
    /\ pc = "idle" /\ ~faulty /\ result \in {Error, Crash} =>
        CASE call.op = "Wrap" -> Len(call.data) > MaxSealLength * MaxSealCount
          [] call.op = "Unwrap" -> ~stored.intact \/ stored.secret = <<<<>>>>
          [] call.op = "UnwrapImportable" -> ~stored.intact \/ stored.kind # "import"
          [] call.op = "ReadKeyParts" -> ~stored.intact \/ stored.kind # "key"
          [] OTHER -> FALSE

=============================================================================
