------------------------------ MODULE NvProofs ------------------------------
(***************************************************************************)
(* The safety of the NV storage operations, for any number of programs, of *)
(* other indices and of sizes, whatever the programs do between the        *)
(* commands of an operation and whichever commands fail.                   *)
(***************************************************************************)
EXTENDS NvStorage, SequenceTheorems, TLAPS

Byte == Value \cup {Erased}
Nv == [defined : BOOLEAN, auth : Password \cup {NoPassword}, written : BOOLEAN, data : Seq(Byte)]
Operation == {"none", "InitNVStorage", "NVStorageStatus", "ReadFromNVStorage", "WriteToNVStorage", "Clear"}

\* The handles below the index fit into one capability answer, beside it.
OneAnswer == Cardinality({y \in Occupied : y < Index}) < MaxCapHandles

\* Callers of NVStorageStatus expect sizes that an index can have.
SizesFit == \A n \in Expected : n < 65536

Types ==
    /\ nv \in Nv /\ Len(nv.data) < 65536
    /\ pc \in [Program -> {"idle", "exists", "define", "check", "public", "read", "write", "clear"}]
    /\ arg \in [Program -> [op : Operation, password : Password \cup {NoPassword}, size : Int]]
    /\ dataSize \in [Program -> Nat]
    /\ buffer \in [Program -> Seq(Byte)]
    /\ res \in [Program -> {"none", "ok", "error", "data", "Undefined", "NotWritten", "Valid"}]
    /\ seen \in [Program -> SUBSET Nv]

\* Where an operation may be, what it has been asked for, and that it sees the
\* index as it is.
CallInv(p) ==
    /\ pc[p] # "idle" => nv \in seen[p]
    /\ pc[p] = "exists" => arg[p].op \in {"InitNVStorage", "NVStorageStatus"}
    /\ pc[p] = "define" => arg[p].op = "InitNVStorage"
    /\ pc[p] = "check" => arg[p].op = "NVStorageStatus"
    /\ pc[p] \in {"public", "read"} => arg[p].op = "ReadFromNVStorage"
    /\ pc[p] = "write" => arg[p].op = "WriteToNVStorage"
    /\ pc[p] = "clear" => arg[p].op = "Clear"
    /\ arg[p].op \in {"InitNVStorage", "WriteToNVStorage"} => arg[p].size \in Sizes
    /\ arg[p].op = "NVStorageStatus" => arg[p].size \in Expected

\* The bytes read so far were in the index, where they are in the buffer.
ReadInv(p) ==
    /\ dataSize[p] < 65536
    /\ Len(buffer[p]) <= dataSize[p]
    /\ pc[p] = "public" => buffer[p] = <<>>
    /\ pc[p] = "read" \/ (Returned(p, "ReadFromNVStorage") /\ res[p] = "data") =>
        \E n \in seen[p] : n.defined /\ Len(n.data) = dataSize[p]
    /\ Returned(p, "ReadFromNVStorage") /\ res[p] = "data" => Len(buffer[p]) = dataSize[p]
    /\ \A i \in 1 .. Len(buffer[p]) :
        \E n \in seen[p] : n.written /\ i <= Len(n.data) /\ n.data[i] = buffer[p][i]

\* What NVStorageStatus and InitNVStorage have returned.
StatusInv(p) ==
    OneAnswer /\ SizesFit /\ Returned(p, "NVStorageStatus") =>
        LET sized(n) == n.defined /\ (arg[p].size >= 0 => Len(n.data) = arg[p].size)
        IN  /\ res[p] = "Undefined" => \E n \in seen[p] : ~n.defined
            /\ res[p] = "NotWritten" => \E n \in seen[p] : sized(n) /\ ~n.written
            /\ res[p] = "Valid" => \E n \in seen[p] : sized(n) /\ n.written

EstablishedInv(p) ==
    Returned(p, "InitNVStorage") /\ res[p] = "ok" => \E n \in seen[p] : n.defined

Local(p) == CallInv(p) /\ ReadInv(p) /\ StatusInv(p) /\ EstablishedInv(p)

IInv == Types /\ \A p \in Program : Local(p)

\* The k bytes of s behind the first h.
Chunk(s, h, k) == SubSeq(s, h + 1, h + k)

\* The index m with the bytes b written.
Written(m, b) == [m EXCEPT !.written = TRUE, !.data = b]

\* What a step of p does to the calls of the other programs: at most, they see
\* one more value of the index.
Frame(p) ==
    \A d \in Program \ {p} :
        /\ pc'[d] = pc[d] /\ arg'[d] = arg[d] /\ res'[d] = res[d]
        /\ buffer'[d] = buffer[d] /\ dataSize'[d] = dataSize[d]
        /\ seen[d] \subseteq seen'[d]
        /\ pc[d] # "idle" => nv' \in seen'[d]

-----------------------------------------------------------------------------
(* Sizes and handles                                                       *)

\* The assumptions on sizes, as inequalities.
LEMMA Bounds ==
    /\ NVBufferMax \in Nat /\ 0 < NVBufferMax /\ NVBufferMax < 65536
    /\ \A n \in Sizes : n \in Nat /\ n < 65536
BY NvAssumption

\* The conversion to uint16 keeps what fits.
LEMMA FitsUint16 == ASSUME NEW n \in Nat, n < 65536 PROVE uint16(n) = n
BY DEF uint16

\* A read asks for at least one byte, and for no more than are left.
LEMMA ReadSizeFits ==
    ASSUME NEW size \in Nat, NEW have \in Nat, have < size, size < 65536
    PROVE  /\ ReadSize(size, have) \in Nat
           /\ 0 < ReadSize(size, have)
           /\ have + ReadSize(size, have) <= size
<1>1. size - have \in Nat /\ size - have < 65536
  OBVIOUS
<1>2. uint16(size - have) = size - have
  BY <1>1, FitsUint16
<1>3. uint16(NVBufferMax) = NVBufferMax
  BY Bounds, FitsUint16
<1> QED  BY <1>1, <1>2, <1>3, Bounds DEF ReadSize, Smaller

\* A chunk of an index: so many bytes, from where the last one ended.
LEMMA ChunkOf ==
    ASSUME NEW S, NEW s \in Seq(S), NEW h \in Nat, NEW k \in Nat, 0 < k, h + k <= Len(s)
    PROVE  /\ Chunk(s, h, k) \in Seq(S)
           /\ Len(Chunk(s, h, k)) = k
           /\ \A i \in 1 .. k : Chunk(s, h, k)[i] = s[h + i]
<1> DEFINE m == h + 1
           n == h + k
<1>1. m \in Int /\ n \in Int /\ m <= n /\ n - m + 1 = k
  OBVIOUS
<1>2. \A i \in m .. n : s[i] \in S
  OBVIOUS
<1>3. \A i \in 1 .. k : m + i - 1 = h + i
  OBVIOUS
<1> HIDE DEF m, n
<1>4. /\ SubSeq(s, m, n) \in Seq(S)
      /\ Len(SubSeq(s, m, n)) = (IF m <= n THEN n - m + 1 ELSE 0)
      /\ \A i \in 1 .. n - m + 1 : SubSeq(s, m, n)[i] = s[m + i - 1]
  BY <1>1, <1>2, SubSeqProperties
<1>5. SubSeq(s, m, n) \in Seq(S) /\ Len(SubSeq(s, m, n)) = k
      /\ \A i \in 1 .. k : SubSeq(s, m, n)[i] = s[h + i]
  BY <1>1, <1>3, <1>4
<1> QED  BY <1>5 DEF m, n, Chunk

\* What a chunk does to the bytes before it.
LEMMA Concatenated ==
    ASSUME NEW S, NEW s \in Seq(S), NEW t \in Seq(S), NEW k \in Nat, Len(t) = k
    PROVE  /\ s \o t \in Seq(S)
           /\ Len(s \o t) = Len(s) + k
           /\ \A i \in 1 .. Len(s) + k : (s \o t)[i] = IF i <= Len(s) THEN s[i] ELSE t[i - Len(s)]
BY ConcatProperties

\* An index that GetHandles lists is defined.
LEMMA ListedIsDefined == ASSUME NVHandleExists PROVE nv.defined
<1> SUFFICES ASSUME ~nv.defined PROVE FALSE
  OBVIOUS
<1>1. GetHandles \subseteq Occupied
  BY DEF GetHandles
<1> QED  BY <1>1, NvAssumption DEF NVHandleExists

\* An index that is defined is listed, if the answer has room for it.
LEMMA DefinedIsListed == ASSUME OneAnswer, nv.defined PROVE NVHandleExists
<1> DEFINE all == Occupied \cup {Index}
<1>1. {y \in all : y < Index} = {y \in Occupied : y < Index}
  <2>1. ~(Index < Index)
    BY NvAssumption
  <2> QED  BY <2>1
<1>2. GetHandles = {x \in all : Cardinality({y \in all : y < x}) < MaxCapHandles}
  BY DEF GetHandles
<1> HIDE DEF all
<1>3. Cardinality({y \in all : y < Index}) < MaxCapHandles
  BY <1>1 DEF OneAnswer
<1>4. Index \in all
  BY DEF all
<1> QED  BY <1>2, <1>3, <1>4 DEF NVHandleExists

-----------------------------------------------------------------------------
(* The calls of the others                                                 *)

\* A call that sees more than it did loses nothing.
LEMMA OthersKeep ==
    ASSUME Types, Types', NEW d \in Program, Local(d),
           pc'[d] = pc[d], arg'[d] = arg[d], res'[d] = res[d],
           buffer'[d] = buffer[d], dataSize'[d] = dataSize[d],
           seen[d] \subseteq seen'[d], pc[d] # "idle" => nv' \in seen'[d]
    PROVE  Local(d)'
<1> USE DEF Local
<1>1. CallInv(d)'
  BY DEF CallInv
<1>2. ReadInv(d)'
  BY DEF ReadInv, Returned
<1>3. StatusInv(d)'
  BY DEF StatusInv, Returned
<1>4. EstablishedInv(d)'
  BY DEF EstablishedInv, Returned
<1> QED  BY <1>1, <1>2, <1>3, <1>4

\* So a step has to be right for the program that takes it.
LEMMA OneMoves ==
    ASSUME IInv, NEW p \in Program, Types', Local(p)', Frame(p)
    PROVE  IInv'
<1>1. ASSUME NEW d \in Program, d # p PROVE Local(d)'
  BY <1>1, OthersKeep DEF IInv, Frame
<1> QED  BY <1>1 DEF IInv

\* A command that leaves the index alone.
LEMMA SameIndexFrame ==
    ASSUME IInv, NEW p \in Program, SameIndex,
           \A d \in Program \ {p} :
               /\ pc'[d] = pc[d] /\ arg'[d] = arg[d] /\ res'[d] = res[d]
               /\ buffer'[d] = buffer[d] /\ dataSize'[d] = dataSize[d]
    PROVE  Frame(p)
BY DEF SameIndex, Frame, IInv, Local, CallInv

\* A command that changes it.
LEMMA BecomesFrame ==
    ASSUME IInv, NEW p \in Program, NEW n \in Nv, Becomes(n),
           \A d \in Program \ {p} :
               /\ pc'[d] = pc[d] /\ arg'[d] = arg[d] /\ res'[d] = res[d]
               /\ buffer'[d] = buffer[d] /\ dataSize'[d] = dataSize[d]
    PROVE  /\ Frame(p)
           /\ seen' \in [Program -> SUBSET Nv]
           /\ pc[p] # "idle" => seen'[p] = seen[p] \cup {n}
BY DEF Becomes, Frame, IInv, Types

-----------------------------------------------------------------------------
(* The steps                                                               *)

\* Initially nothing is defined and nobody is at work.
LEMMA InitInv == Init => IInv
<1> SUFFICES ASSUME Init PROVE IInv
  OBVIOUS
<1>1. <<>> \in Seq(Byte) /\ Len(<<>>) = 0
  OBVIOUS
<1>2. nv \in Nv /\ Len(nv.data) < 65536
  BY <1>1 DEF Init, Undefined, Nv
<1>3. Types
  BY <1>1, <1>2 DEF Init, Types, NoArg, Operation
<1>4. ASSUME NEW p \in Program PROVE Local(p)
  BY <1>1 DEF Init, NoArg, Local, CallInv, ReadInv, StatusInv, EstablishedInv, Returned
<1> QED  BY <1>3, <1>4 DEF IInv

\* A call that begins forgets what the one before it saw.
LEMMA BeginKeeps ==
    ASSUME IInv, NEW p \in Program, NEW op \in Operation, NEW w \in Password \cup {NoPassword}, NEW n \in Int,
           NEW label, Begin(p, op, w, n, label),
           \/ op = "InitNVStorage" /\ n \in Sizes /\ label = "exists"
           \/ op = "NVStorageStatus" /\ n \in Expected /\ label = "exists"
           \/ op = "ReadFromNVStorage" /\ label = "public"
           \/ op = "WriteToNVStorage" /\ n \in Sizes /\ label = "write"
           \/ op = "Clear" /\ label = "clear"
    PROVE  IInv'
<1> USE DEF Begin, Goto, EmptyBuffer
<1>1. <<>> \in Seq(Byte) /\ Len(<<>>) = 0
  OBVIOUS
<1>2. Types'
  <2>1. nv' \in Nv /\ Len(nv'.data) < 65536
    BY DEF IInv, Types
  <2>2. arg' \in [Program -> [op : Operation, password : Password \cup {NoPassword}, size : Int]]
    BY DEF IInv, Types
  <2>3. buffer' \in [Program -> Seq(Byte)]
    BY <1>1 DEF IInv, Types
  <2>4. seen' \in [Program -> SUBSET Nv]
    BY DEF IInv, Types
  <2>5. pc' \in [Program -> {"idle", "exists", "define", "check", "public", "read", "write", "clear"}]
    BY DEF IInv, Types
  <2>6. res' \in [Program -> {"none", "ok", "error", "data", "Undefined", "NotWritten", "Valid"}]
    BY DEF IInv, Types
  <2>7. dataSize' \in [Program -> Nat]
    BY DEF IInv, Types
  <2> QED  BY <2>1, <2>2, <2>3, <2>4, <2>5, <2>6, <2>7 DEF Types
<1>3. Local(p)'
  <2>1. pc'[p] = label /\ res'[p] = "none" /\ buffer'[p] = <<>> /\ dataSize'[p] = 0 /\ seen'[p] = {nv'}
    BY DEF IInv, Types
  <2>2. arg'[p].op = op /\ arg'[p].size = n
    BY DEF IInv, Types
  <2>3. CallInv(p)'
    BY <2>1, <2>2 DEF CallInv
  <2>4. ReadInv(p)'
    BY <1>1, <2>1 DEF ReadInv, Returned
  <2> QED  BY <2>1, <2>3, <2>4 DEF Local, StatusInv, EstablishedInv, Returned
<1>4. Frame(p)
  BY DEF Frame, IInv, Types, Local, CallInv
<1> QED  BY <1>2, <1>3, <1>4, OneMoves

\* Every call begins so.
LEMMA CallKeeps == ASSUME IInv, NEW p \in Program, Call(p) PROVE IInv'
<1> USE DEF Operation
<1>1. ASSUME NEW w \in Password, NEW n \in Sizes, InitNVStorage(p, w, n) PROVE IInv'
  BY <1>1, BeginKeeps, Bounds DEF InitNVStorage
<1>2. ASSUME NEW w \in Password, NEW n \in Sizes, WriteToNVStorage(p, w, n) PROVE IInv'
  BY <1>2, BeginKeeps, Bounds DEF WriteToNVStorage
<1>3. ASSUME NEW w \in Password, ReadFromNVStorage(p, w) PROVE IInv'
  BY <1>3, BeginKeeps DEF ReadFromNVStorage
<1>4. ASSUME NEW n \in Expected, NVStorageStatus(p, n) PROVE IInv'
  BY <1>4, BeginKeeps, NvAssumption DEF NVStorageStatus
<1>5. CASE CallClear(p)
  BY <1>5, BeginKeeps DEF CallClear
<1> QED  BY <1>1, <1>2, <1>3, <1>4, <1>5 DEF Call

\* A step of p that leaves the index alone, and what it must then show.
LEMMA Answered ==
    ASSUME IInv, NEW p \in Program, SameIndex, UNCHANGED <<arg, dataSize, buffer>>,
           pc' = [pc EXCEPT ![p] = pc'[p]], res' = [res EXCEPT ![p] = res'[p]],
           pc'[p] \in {"idle", "exists", "define", "check", "public", "read", "write", "clear"},
           res'[p] \in {"none", "ok", "error", "data", "Undefined", "NotWritten", "Valid"},
           Local(p)'
    PROVE  IInv'
<1>1. Types'
  <2>1. PICK x \in {"idle", "exists", "define", "check", "public", "read", "write", "clear"} :
            pc' = [pc EXCEPT ![p] = x]
    OBVIOUS
  <2>2. PICK r \in {"none", "ok", "error", "data", "Undefined", "NotWritten", "Valid"} :
            res' = [res EXCEPT ![p] = r]
    OBVIOUS
  <2> QED  BY <2>1, <2>2 DEF SameIndex, IInv, Types
<1>2. Frame(p)
  BY SameIndexFrame DEF IInv, Types
<1> QED  BY <1>1, <1>2, OneMoves

\* A call that fails promises nothing.
LEMMA FailedKeeps ==
    ASSUME IInv, NEW p \in Program, Return(p, "error"), SameIndex, UNCHANGED <<arg, dataSize, buffer>>
    PROVE  IInv'
<1>1. pc'[p] = "idle" /\ res'[p] = "error"
  BY DEF Return, Goto, IInv, Types
<1>2. Local(p)'
  BY <1>1 DEF SameIndex, IInv, Types, Local, CallInv, ReadInv, StatusInv, EstablishedInv, Returned
<1> QED  BY <1>1, <1>2, Answered DEF Return, Goto

\* The first command of InitNVStorage and of NVStorageStatus.
LEMMA ExistsKeeps == ASSUME IInv, NEW p \in Program, Exists(p) PROVE IInv'
<1> USE DEF Exists, Goto
<1>1. CASE Return(p, "error")
  BY <1>1, FailedKeeps
<1>2. CASE arg[p].op = "InitNVStorage" /\ NVHandleExists /\ Return(p, "ok")
  <2>1. pc'[p] = "idle" /\ res'[p] = "ok"
    BY <1>2 DEF Return, IInv, Types
  <2>2. nv.defined /\ nv \in seen[p]
    BY <1>2, ListedIsDefined DEF IInv, Local, CallInv
  <2>3. Local(p)'
    BY <1>2, <2>1, <2>2 DEF SameIndex, IInv, Types, Local, CallInv, ReadInv, StatusInv,
         EstablishedInv, Returned
  <2> QED  BY <1>2, <2>1, <2>3, Answered DEF Return
<1>3. CASE arg[p].op = "InitNVStorage" /\ Goto(p, "define") /\ UNCHANGED res
  <2>1. pc'[p] = "define" /\ res'[p] = res[p]
    BY <1>3 DEF IInv, Types
  <2>2. Local(p)'
    <3>1. CallInv(p)'
      BY <1>3, <2>1 DEF SameIndex, IInv, Local, CallInv
    <3>2. ReadInv(p)'
      BY <1>3, <2>1 DEF SameIndex, IInv, Local, ReadInv, Returned
    <3> QED  BY <2>1, <3>1, <3>2 DEF Local, StatusInv, EstablishedInv, Returned
  <2>3. /\ res' = [res EXCEPT ![p] = res'[p]]
        /\ res'[p] \in {"none", "ok", "error", "data", "Undefined", "NotWritten", "Valid"}
    BY <1>3 DEF IInv, Types
  <2> QED  BY <1>3, <2>1, <2>2, <2>3, Answered
<1>4. CASE arg[p].op = "NVStorageStatus" /\ Goto(p, "check") /\ UNCHANGED res
  <2>1. pc'[p] = "check" /\ res'[p] = res[p]
    BY <1>4 DEF IInv, Types
  <2>2. Local(p)'
    <3>1. CallInv(p)'
      BY <1>4, <2>1 DEF SameIndex, IInv, Local, CallInv
    <3>2. ReadInv(p)'
      BY <1>4, <2>1 DEF SameIndex, IInv, Local, ReadInv, Returned
    <3> QED  BY <2>1, <3>1, <3>2 DEF Local, StatusInv, EstablishedInv, Returned
  <2>3. /\ res' = [res EXCEPT ![p] = res'[p]]
        /\ res'[p] \in {"none", "ok", "error", "data", "Undefined", "NotWritten", "Valid"}
    BY <1>4 DEF IInv, Types
  <2> QED  BY <1>4, <2>1, <2>2, <2>3, Answered
<1>5. CASE arg[p].op = "NVStorageStatus" /\ ~NVHandleExists /\ Return(p, "Undefined")
  <2>1. pc'[p] = "idle" /\ res'[p] = "Undefined"
    BY <1>5 DEF Return, IInv, Types
  <2>2. OneAnswer => ~nv.defined
    BY <1>5, DefinedIsListed
  <2>3. nv \in seen[p]
    BY DEF IInv, Local, CallInv
  <2>4. Local(p)'
    BY <1>5, <2>1, <2>2, <2>3 DEF SameIndex, IInv, Types, Local, CallInv, ReadInv, StatusInv,
         EstablishedInv, Returned
  <2> QED  BY <1>5, <2>1, <2>4, Answered DEF Return
<1> QED  BY <1>1, <1>2, <1>3, <1>4, <1>5

\* CheckNVHandle looks at the index a second time, and at all of it at once.
LEMMA CheckKeeps == ASSUME IInv, NEW p \in Program, CheckNVHandle(p) PROVE IInv'
<1> USE DEF CheckNVHandle
<1>1. CASE Return(p, "error")
  BY <1>1, FailedKeeps
<1>2. CASE nv.defined /\ SizeAsExpected(arg[p].size) /\ Return(p, WrittenStatus)
  <2>1. pc'[p] = "idle" /\ res'[p] = WrittenStatus
    BY <1>2 DEF Return, Goto, IInv, Types
  <2>2. WrittenStatus \in {"Valid", "NotWritten"}
        /\ (WrittenStatus = "Valid" <=> nv.written)
    BY DEF WrittenStatus
  <2>3. nv \in seen[p] /\ arg[p].op = "NVStorageStatus" /\ arg[p].size \in Expected /\ arg[p].size \in Int
    <3>1. arg[p].size \in Int
      BY DEF IInv, Types
    <3> QED  BY <3>1 DEF IInv, Local, CallInv
  <2>4. SizesFit /\ arg[p].size >= 0 => Len(nv.data) = arg[p].size
    <3> SUFFICES ASSUME SizesFit, arg[p].size >= 0 PROVE Len(nv.data) = arg[p].size
      OBVIOUS
    <3>1. uint16(arg[p].size) = arg[p].size
      BY <2>3, FitsUint16 DEF SizesFit
    <3> QED  BY <1>2, <2>3, <3>1 DEF SizeAsExpected
  <2>5. StatusInv(p)'
    BY <1>2, <2>1, <2>2, <2>3, <2>4 DEF SameIndex, StatusInv, Returned
  <2>6. Local(p)'
    BY <1>2, <2>1, <2>2, <2>3, <2>5 DEF SameIndex, IInv, Types, Local, CallInv, ReadInv,
         EstablishedInv, Returned
  <2> QED  BY <1>2, <2>1, <2>2, <2>6, Answered DEF Return, Goto
<1> QED  BY <1>1, <1>2

\* A read that has all its bytes.
LEMMA ReadDoneKeeps == ASSUME IInv, NEW p \in Program, ReadDone(p) PROVE IInv'
<1> USE DEF ReadDone
<1>1. pc'[p] = "idle" /\ res'[p] = "data"
  BY DEF Return, Goto, IInv, Types
<1>2. Len(buffer[p]) = dataSize[p] /\ arg[p].op = "ReadFromNVStorage"
  BY DEF IInv, Types, Local, ReadInv, CallInv
<1>3. CallInv(p)'
  BY <1>1 DEF SameIndex, IInv, Local, CallInv
<1>4. ReadInv(p)'
  BY <1>1, <1>2 DEF SameIndex, IInv, Local, ReadInv, Returned
<1>5. Local(p)'
  BY <1>1, <1>2, <1>3, <1>4 DEF Local, StatusInv, EstablishedInv, Returned
<1> QED  BY <1>1, <1>5, Answered DEF Return, Goto

\* The public area tells a read how much there is.
LEMMA PublicKeeps == ASSUME IInv, NEW p \in Program, ReadPublicArea(p) PROVE IInv'
<1> USE DEF ReadPublicArea
<1>1. CASE Return(p, "error") /\ UNCHANGED dataSize
  BY <1>1, FailedKeeps
<1>2. CASE nv.defined /\ dataSize' = [dataSize EXCEPT ![p] = Len(nv.data)]
           /\ Goto(p, "read") /\ UNCHANGED res
  <2>1. pc'[p] = "read" /\ dataSize'[p] = Len(nv.data)
    BY <1>2 DEF Goto, IInv, Types
  <2>2. buffer[p] = <<>> /\ Len(buffer[p]) = 0 /\ nv \in seen[p] /\ arg[p].op = "ReadFromNVStorage"
    BY DEF IInv, Local, CallInv, ReadInv
  <2>3. Len(nv.data) \in Nat /\ Len(nv.data) < 65536
    BY DEF IInv, Types, Nv
  <2>4. Types'
    BY <1>2, <2>3 DEF SameIndex, Goto, IInv, Types
  <2>5. CallInv(p)'
    BY <1>2, <2>1, <2>2 DEF SameIndex, IInv, Local, CallInv
  <2>6. ReadInv(p)'
    BY <1>2, <2>1, <2>2, <2>3 DEF SameIndex, ReadInv, Returned
  <2>7. Local(p)'
    BY <2>1, <2>5, <2>6 DEF Local, StatusInv, EstablishedInv, Returned
  <2>8. Frame(p)
    BY <1>2, SameIndexFrame DEF Goto, IInv, Types
  <2> QED  BY <2>4, <2>7, <2>8, OneMoves
<1> QED  BY <1>1, <1>2

\* One chunk more of a read, taken from the index as it is now.
LEMMA ReadKeeps == ASSUME IInv, NEW p \in Program, NVRead(p) PROVE IInv'
<1> DEFINE have == Len(buffer[p])
           size == ReadSize(dataSize[p], have)
           chunk == Chunk(nv.data, have, size)
<1>1. CASE Return(p, "error") /\ UNCHANGED buffer
  BY <1>1, FailedKeeps DEF NVRead
<1>2. CASE /\ nv.written /\ have + size <= Len(nv.data)
           /\ buffer' = [buffer EXCEPT ![p] = @ \o chunk]
           /\ UNCHANGED <<pc, res>>
  <2>1. pc[p] = "read" /\ have < dataSize[p] /\ SameIndex /\ UNCHANGED <<arg, dataSize>>
    BY DEF NVRead
  <2>2. nv \in seen[p] /\ nv.data \in Seq(Byte) /\ buffer[p] \in Seq(Byte)
    BY <2>1 DEF IInv, Types, Nv, Local, CallInv
  <2>3. have \in Nat /\ dataSize[p] \in Nat /\ dataSize[p] < 65536
    BY <2>2 DEF IInv, Types, Local, ReadInv
  <2>4. size \in Nat /\ 0 < size /\ have + size <= dataSize[p]
    BY <2>1, <2>3, ReadSizeFits
  <2> HIDE DEF size, have
  <2>5. chunk \in Seq(Byte) /\ Len(chunk) = size
        /\ \A i \in 1 .. size : chunk[i] = nv.data[have + i]
    <3>1. have + size <= Len(nv.data)
      BY <1>2
    <3> QED  BY <2>2, <2>3, <2>4, <3>1, ChunkOf
  <2> HIDE DEF chunk
  <2>6. buffer'[p] = buffer[p] \o chunk
    BY <1>2 DEF IInv, Types
  <2>7. buffer'[p] \in Seq(Byte) /\ Len(buffer'[p]) = have + size
        /\ \A i \in 1 .. have + size :
              buffer'[p][i] = IF i <= have THEN buffer[p][i] ELSE chunk[i - have]
    BY <2>2, <2>3, <2>4, <2>5, <2>6, Concatenated DEF have
  <2>8. Types'
    BY <1>2, <2>1, <2>6, <2>7 DEF SameIndex, IInv, Types
  <2>9. CallInv(p)'
    BY <1>2, <2>1 DEF SameIndex, IInv, Local, CallInv
  <2>10. ReadInv(p)'
    <3>1. ASSUME NEW i \in 1 .. have + size
          PROVE  \E n \in seen[p] : n.written /\ i <= Len(n.data) /\ n.data[i] = buffer'[p][i]
      <4>1. CASE i <= have
        <5>1. i \in 1 .. have
          BY <2>3, <2>4, <4>1
        <5> QED  BY <2>7, <4>1, <5>1 DEF IInv, Local, ReadInv, have
      <4>2. CASE ~(i <= have)
        <5>1. i - have \in 1 .. size /\ have + (i - have) = i
          BY <2>3, <2>4, <4>2
        <5>2. chunk[i - have] = nv.data[i]
          BY <2>5, <5>1
        <5>3. i <= Len(nv.data)
          BY <1>2, <2>2, <2>3, <2>4
        <5> QED  BY <1>2, <2>2, <2>7, <4>2, <5>2, <5>3
      <4> QED  BY <4>1, <4>2
    <3>2. \A i \in 1 .. Len(buffer'[p]) :
             \E n \in seen[p] : n.written /\ i <= Len(n.data) /\ n.data[i] = buffer'[p][i]
      BY <3>1, <2>7
    <3>3. Len(buffer'[p]) <= dataSize[p]
      BY <2>4, <2>7
    <3>4. pc'[p] = "read" /\ dataSize'[p] = dataSize[p] /\ seen'[p] = seen[p]
      BY <1>2, <2>1 DEF SameIndex
    <3>5. \E n \in seen[p] : n.defined /\ Len(n.data) = dataSize[p]
      BY <2>1 DEF IInv, Local, ReadInv
    <3> QED  BY <2>3, <3>2, <3>3, <3>4, <3>5 DEF ReadInv, Returned
  <2>11. Local(p)'
    BY <1>2, <2>1, <2>9, <2>10 DEF Local, StatusInv, EstablishedInv, Returned
  <2>12. Frame(p)
    BY <1>2, <2>1, SameIndexFrame DEF IInv, Types
  <2> QED  BY <2>8, <2>11, <2>12, OneMoves
<1> QED  BY <1>1, <1>2 DEF NVRead, ReadOffset, Appended, Chunk

\* A command that changes the index, and what it must then show.
LEMMA ChangedKeeps ==
    ASSUME IInv, NEW p \in Program, pc[p] # "idle", NEW n \in Nv, Len(n.data) < 65536,
           Becomes(n), Return(p, "ok"), UNCHANGED <<arg, dataSize, buffer>>,
           arg[p].op = "InitNVStorage" => n.defined
    PROVE  IInv'
<1>1. pc'[p] = "idle" /\ res'[p] = "ok"
  BY DEF Return, Goto, IInv, Types
<1>2. /\ Frame(p)
      /\ seen' \in [Program -> SUBSET Nv]
      /\ seen'[p] = seen[p] \cup {n}
  BY BecomesFrame DEF Return, Goto, IInv, Types
<1>3. Types'
  <2>1. pc' \in [Program -> {"idle", "exists", "define", "check", "public", "read", "write", "clear"}]
    BY DEF Return, Goto, IInv, Types
  <2>2. res' \in [Program -> {"none", "ok", "error", "data", "Undefined", "NotWritten", "Valid"}]
    BY DEF Return, Goto, IInv, Types
  <2> QED  BY <1>2, <2>1, <2>2 DEF Becomes, IInv, Types
<1>4. CallInv(p)'
  BY <1>1 DEF IInv, Local, CallInv
<1>5. ReadInv(p)'
  BY <1>1, <1>2 DEF IInv, Local, ReadInv, Returned
<1>6. EstablishedInv(p)'
  BY <1>1, <1>2 DEF EstablishedInv, Returned
<1>7. StatusInv(p)'
  BY <1>1 DEF StatusInv, Returned
<1> QED  BY <1>2, <1>3, <1>4, <1>5, <1>6, <1>7, OneMoves DEF Local

\* The index is defined, with the size asked for and no byte written.
LEMMA DefineKeeps == ASSUME IInv, NEW p \in Program, DefineNVStorage(p) PROVE IInv'
<1> DEFINE bytes == [i \in 1..arg[p].size |-> Erased]
           n == [defined |-> TRUE, auth |-> arg[p].password, written |-> FALSE, data |-> bytes]
<1>1. pc[p] = "define" /\ UNCHANGED <<arg, dataSize, buffer>>
  BY DEF DefineNVStorage
<1>2. CASE Return(p, "error") /\ SameIndex
  BY <1>1, <1>2, FailedKeeps
<1>3. CASE Becomes(n) /\ Return(p, "ok")
  <2>1. arg[p].size \in Nat /\ arg[p].size < 65536
    BY <1>1, Bounds DEF IInv, Local, CallInv
  <2>2. bytes \in Seq(Byte) /\ Len(bytes) = arg[p].size
    BY <2>1 DEF Byte
  <2>3. arg[p].password \in Password \cup {NoPassword}
    BY DEF IInv, Types
  <2> HIDE DEF bytes
  <2>4. n \in Nv /\ n.data = bytes /\ n.defined
    BY <2>2, <2>3 DEF Nv
  <2> HIDE DEF n
  <2> QED  BY <1>1, <1>3, <2>1, <2>2, <2>4, ChangedKeeps
<1> QED  BY <1>2, <1>3 DEF DefineNVStorage

\* An index with other bytes is an index.
LEMMA WrittenTyped ==
    ASSUME NEW m \in Nv, NEW b \in Seq(Byte)
    PROVE  Written(m, b) \in Nv /\ Written(m, b).data = b
BY DEF Nv, Written

\* A write keeps the size, and everything behind what it writes.
LEMMA WriteKeeps == ASSUME IInv, NEW p \in Program, NVWrite(p) PROVE IInv'
<1>1. pc[p] = "write" /\ UNCHANGED <<arg, dataSize, buffer>>
  BY DEF NVWrite
<1>2. CASE Return(p, "error") /\ SameIndex
  BY <1>1, <1>2, FailedKeeps
<1>3. ASSUME NEW v \in Value, Return(p, "ok"),
             Becomes([nv EXCEPT !.written = TRUE,
                                !.data = [i \in 1..Len(nv.data) |->
                                             IF i <= arg[p].size THEN v ELSE nv.data[i]]])
      PROVE  IInv'
  <2> DEFINE bytes == [i \in 1..Len(nv.data) |-> IF i <= arg[p].size THEN v ELSE nv.data[i]]
             n == Written(nv, bytes)
  <2>1. nv \in Nv /\ nv.data \in Seq(Byte) /\ Len(nv.data) \in Nat /\ Len(nv.data) < 65536
    BY DEF IInv, Types, Nv
  <2>2. bytes \in Seq(Byte) /\ Len(bytes) = Len(nv.data)
    BY <2>1 DEF Byte
  <2> HIDE DEF bytes
  <2>3. n \in Nv /\ n.data = bytes
    BY <2>1, <2>2, WrittenTyped
  <2>4. arg[p].op = "WriteToNVStorage"
    BY <1>1 DEF IInv, Local, CallInv
  <2>5. Becomes(n)
    BY <1>3 DEF bytes, Written
  <2> HIDE DEF n
  <2> QED  BY <1>1, <1>3, <2>1, <2>2, <2>3, <2>4, <2>5, ChangedKeeps
<1> QED  BY <1>2, <1>3 DEF NVWrite

\* A cleared TPM has no index.
LEMMA ClearKeeps == ASSUME IInv, NEW p \in Program, Clear(p) PROVE IInv'
<1>1. pc[p] = "clear" /\ UNCHANGED <<arg, dataSize, buffer>>
  BY DEF Clear
<1>2. CASE Return(p, "error") /\ SameIndex
  BY <1>1, <1>2, FailedKeeps
<1>3. CASE Becomes(Undefined) /\ Return(p, "ok")
  <2>1. <<>> \in Seq(Byte) /\ Len(<<>>) = 0
    OBVIOUS
  <2>2. Undefined \in Nv /\ Len(Undefined.data) < 65536
    BY <2>1 DEF Undefined, Nv
  <2>3. arg[p].op = "Clear"
    BY <1>1 DEF IInv, Local, CallInv
  <2> QED  BY <1>1, <1>3, <2>2, <2>3, ChangedKeeps
<1> QED  BY <1>2, <1>3 DEF Clear

-----------------------------------------------------------------------------
(* The theorems                                                            *)

\* The inductive invariant holds in every reachable state.
LEMMA Inductive == Spec => []IInv
<1>1. Init => IInv
  BY InitInv
<1>2. IInv /\ [Next]_vars => IInv'
  <2> SUFFICES ASSUME IInv, [Next]_vars PROVE IInv'
    OBVIOUS
  <2>1. CASE UNCHANGED vars
    <3>1. Types'
      BY <2>1 DEF vars, IInv, Types
    <3>2. ASSUME NEW d \in Program PROVE Local(d)'
      BY <2>1, <3>1, OthersKeep DEF vars, IInv, Local, CallInv
    <3> QED  BY <3>1, <3>2 DEF IInv
  <2>2. ASSUME NEW p \in Program, Call(p) \/ Step(p) PROVE IInv'
    BY <2>2, CallKeeps, ExistsKeeps, DefineKeeps, CheckKeeps, PublicKeeps, ReadKeeps,
       ReadDoneKeeps, WriteKeeps, ClearKeeps DEF Step
  <2> QED  BY <2>1, <2>2 DEF Next
<1> QED  BY <1>1, <1>2, PTL DEF Spec

\* The status that NVStorageStatus returns, although it looks twice, is one
\* that the index had during the call, provided that the handles below the
\* index leave room for it in one answer (GetHandles does not ask for more)
\* and that the caller's size fits the TPM's 16 bits (CheckNVHandle converts).
THEOREM StatusIsTrue == ASSUME OneAnswer, SizesFit PROVE Spec => []StatusWasTrue
<1>1. IInv => StatusWasTrue
  BY DEF IInv, Local, StatusInv, StatusWasTrue
<1> QED  BY <1>1, Inductive, PTL

\* What ReadFromNVStorage returns has a length the index had, and every byte
\* one it held at that offset, during the call, whatever others write, define
\* or clear between the chunks.
THEOREM ReadRegular == Spec => []ReadIsRegular
<1>1. IInv => ReadIsRegular
  <2> SUFFICES ASSUME IInv PROVE ReadIsRegular
    OBVIOUS
  <2>1. TypeOK
    BY DEF IInv, Types, Nv, Local, ReadInv, TypeOK
  <2> QED  BY <2>1 DEF IInv, Local, ReadInv, ReadIsRegular
<1> QED  BY <1>1, Inductive, PTL

\* An InitNVStorage that succeeds, although it checks and defines in two
\* commands, has seen the index defined during the call.
THEOREM InitEstablished == Spec => []InitEstablishes
<1>1. IInv => InitEstablishes
  BY DEF IInv, Local, EstablishedInv, InitEstablishes
<1> QED  BY <1>1, Inductive, PTL

=============================================================================
