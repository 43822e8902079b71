------------------------------ MODULE NvStorage ------------------------------
(***************************************************************************)
(* The NV storage operations of pkg/tpm/tpm.go on one NV index, used by    *)
(* several programs at once: InitNVStorage, DefineNVStorage,               *)
(* NVStorageStatus, CheckNVHandle, NVHandleExists, GetHandles,             *)
(* ReadFromNVStorage, WriteToNVStorage and Clear.  The TPM executes one    *)
(* command at a time, so every command is one step; an operation that      *)
(* needs several commands is several steps, and what it learnt from the    *)
(* first may be stale at the second.                                       *)
(***************************************************************************)
EXTENDS Integers, Sequences, FiniteSets

CONSTANTS
    Program,        \* programs that use the TPM
    Index,          \* the handle of the NV index
    Occupied,       \* handles of the other NV indices that are defined
    MaxCapHandles,  \* handles the TPM returns in one capability answer
    NVBufferMax,    \* bytes the TPM reads or writes in one command
    Sizes,          \* data sizes asked for by InitNVStorage
    Expected,       \* dataSize arguments of NVStorageStatus
    Value,          \* byte values programs write
    Password,       \* passwords programs use
    Faults          \* commands may also fail when nothing is wrong with them

ASSUME NvAssumption ==
    /\ Index \in Nat /\ Occupied \subseteq Nat \ {Index} /\ IsFiniteSet(Occupied)
    /\ MaxCapHandles \in Nat \ {0}
    /\ NVBufferMax \in Nat /\ 0 < NVBufferMax /\ NVBufferMax < 65536
    /\ \A n \in Sizes : n \in Nat /\ n < 65536
    /\ Expected \subseteq Int
    /\ Faults \in BOOLEAN

uint16(n) == n % 65536

Erased == "erased"      \* what the TPM reports for a byte never written
NoPassword == ""

VARIABLES
    nv,         \* the index: defined, its authValue, written, its bytes
    pc,         \* where each program is
    arg,        \* the arguments of its call
    dataSize,   \* ReadFromNVStorage: size in the public area
    buffer,     \* ReadFromNVStorage: the bytes read so far
    res,        \* what its last call returned
    seen        \* every value nv has had since its call began

vars == <<nv, pc, arg, dataSize, buffer, res, seen>>

Undefined == [defined |-> FALSE, auth |-> NoPassword, written |-> FALSE, data |-> <<>>]

NoArg == [op |-> "none", password |-> NoPassword, size |-> 0]

Init ==
    /\ nv = Undefined
    /\ pc = [p \in Program |-> "idle"]
    /\ arg = [p \in Program |-> NoArg]
    /\ dataSize = [p \in Program |-> 0]
    /\ buffer = [p \in Program |-> <<>>]
    /\ res = [p \in Program |-> "none"]
    /\ seen = [p \in Program |-> {}]

-----------------------------------------------------------------------------
\* A command changes the index to n, before the eyes of every running call.
Becomes(n) ==
    /\ nv' = n
    /\ seen' = [p \in Program |-> IF pc[p] = "idle" THEN seen[p] ELSE seen[p] \cup {n}]

\* A command fails: the TPM refuses it, or it is lost.
Fails(accepted) == Faults \/ ~accepted

SameIndex == UNCHANGED <<nv, seen>>

Goto(p, label) == pc' = [pc EXCEPT ![p] = label]

Return(p, r) ==
    /\ res' = [res EXCEPT ![p] = r]
    /\ Goto(p, "idle")

EmptyBuffer(p) == <<>>

Begin(p, op, password, size, label) ==
    /\ pc[p] = "idle"
    /\ Goto(p, label)
    /\ arg' = [arg EXCEPT ![p] = [op |-> op, password |-> password, size |-> size]]
    /\ res' = [res EXCEPT ![p] = "none"]
    /\ buffer' = [buffer EXCEPT ![p] = EmptyBuffer(p)]
    /\ dataSize' = [dataSize EXCEPT ![p] = 0]
    /\ seen' = [seen EXCEPT ![p] = {nv}]
    /\ UNCHANGED nv

InitNVStorage(p, password, size) == Begin(p, "InitNVStorage", password, size, "exists")
NVStorageStatus(p, size) == Begin(p, "NVStorageStatus", NoPassword, size, "exists")
ReadFromNVStorage(p, password) == Begin(p, "ReadFromNVStorage", password, 0, "public")
WriteToNVStorage(p, password, length) == Begin(p, "WriteToNVStorage", password, length, "write")
CallClear(p) == Begin(p, "Clear", NoPassword, 0, "clear")

-----------------------------------------------------------------------------
\* GetHandles: one capability answer, the lowest handles first; whether the
\* TPM has more data is not looked at.
(* Definitions named X_Y are X with a plausible mistake Y, never used by    *)
(* the specification: each is what some property must tell from X.          *)
GetHandles ==
    LET all == Occupied \cup (IF nv.defined THEN {Index} ELSE {})
    IN  {x \in all : Cardinality({y \in all : y < x}) < MaxCapHandles}

NVHandleExists_AnyHandle == GetHandles # {}
NVHandleExists == Index \in GetHandles

\* InitNVStorage and NVStorageStatus, their first command.
Exists(p) ==
    /\ pc[p] = "exists"
    /\ \/ Fails(TRUE) /\ Return(p, "error")
       \/ /\ arg[p].op = "InitNVStorage"
          /\ \/ NVHandleExists /\ Return(p, "ok")
             \/ ~NVHandleExists /\ Goto(p, "define") /\ UNCHANGED res
       \/ /\ arg[p].op = "NVStorageStatus"
          /\ \/ NVHandleExists /\ Goto(p, "check") /\ UNCHANGED res
             \/ ~NVHandleExists /\ Return(p, "Undefined")
    /\ SameIndex /\ UNCHANGED <<arg, dataSize, buffer>>

\* DefineNVStorage: the TPM refuses an index that is defined.
DefineNVStorage(p) ==
    /\ pc[p] = "define"
    /\ \/ /\ ~nv.defined
          /\ Becomes([defined |-> TRUE, auth |-> arg[p].password, written |-> FALSE,
                      data |-> [i \in 1..arg[p].size |-> Erased]])
          /\ Return(p, "ok")
       \/ /\ Fails(~nv.defined)
          /\ Return(p, "error")
          /\ SameIndex
    /\ UNCHANGED <<arg, dataSize, buffer>>

\* The size the caller expects, as CheckNVHandle compares it.
SizeAsExpected(size) == size < 0 \/ Len(nv.data) = uint16(size)

WrittenStatus_Always == "Valid"
WrittenStatus == IF nv.written THEN "Valid" ELSE "NotWritten"

\* CheckNVHandle
CheckNVHandle(p) ==
    /\ pc[p] = "check"
    /\ LET valid == nv.defined /\ SizeAsExpected(arg[p].size) IN
       \/ valid /\ Return(p, WrittenStatus)
       \/ Fails(valid) /\ Return(p, "error")
    /\ SameIndex /\ UNCHANGED <<arg, dataSize, buffer>>

\* ReadFromNVStorage: the public area gives the number of bytes to read.
ReadPublicArea(p) ==
    /\ pc[p] = "public"
    /\ \/ /\ Fails(nv.defined)
          /\ Return(p, "error")
          /\ UNCHANGED dataSize
       \/ /\ nv.defined
          /\ dataSize' = [dataSize EXCEPT ![p] = Len(nv.data)]
          /\ Goto(p, "read") /\ UNCHANGED res
    /\ SameIndex /\ UNCHANGED <<arg, buffer>>

Smaller(a, b) == IF a < b THEN a ELSE b

\* The bytes the next NVRead asks for.
ReadSize(size, have) == Smaller(uint16(NVBufferMax), uint16(size - have))

ReadOffset_Zero(have) == 0
ReadOffset(have) == have

\* append(outBuff, ...)
Appended_Replaced(have, chunk) == chunk
Appended(have, chunk) == have \o chunk

\* ReadFromNVStorage: one NVRead.  The TPM checks the password, that the index
\* has been written and that the range lies within it.
NVRead(p) ==
    /\ pc[p] = "read" /\ Len(buffer[p]) < dataSize[p]
    /\ LET offset == ReadOffset(Len(buffer[p]))
           size == ReadSize(dataSize[p], Len(buffer[p]))
           readable == /\ nv.defined /\ nv.auth = arg[p].password /\ nv.written
                       /\ offset + size <= Len(nv.data)
       IN \/ /\ readable
             /\ buffer' = [buffer EXCEPT ![p] = Appended(@, SubSeq(nv.data, offset + 1, offset + size))]
             /\ UNCHANGED <<pc, res>>
          \/ /\ Fails(readable)
             /\ Return(p, "error")
             /\ UNCHANGED buffer
    /\ SameIndex /\ UNCHANGED <<arg, dataSize>>

\* ReadFromNVStorage returns the buffer.
ReadDone(p) ==
    /\ pc[p] = "read" /\ Len(buffer[p]) >= dataSize[p]
    /\ Return(p, "data")
    /\ SameIndex /\ UNCHANGED <<arg, dataSize, buffer>>

\* WriteToNVStorage: one NVWrite at offset zero.
NVWrite(p) ==
    /\ pc[p] = "write"
    /\ LET writable == /\ nv.defined /\ nv.auth = arg[p].password
                       /\ arg[p].size <= Smaller(Len(nv.data), NVBufferMax)
       IN \/ /\ writable
             /\ \E v \in Value :
                   Becomes([nv EXCEPT !.written = TRUE,
                                      !.data = [i \in 1..Len(nv.data) |->
                                                   IF i <= arg[p].size THEN v ELSE nv.data[i]]])
             /\ Return(p, "ok")
          \/ Fails(writable) /\ Return(p, "error") /\ SameIndex
    /\ UNCHANGED <<arg, dataSize, buffer>>

\* Clear removes the indices of the owner.
Clear(p) ==
    /\ pc[p] = "clear"
    /\ \/ Becomes(Undefined) /\ Return(p, "ok")
       \/ Fails(TRUE) /\ Return(p, "error") /\ SameIndex
    /\ UNCHANGED <<arg, dataSize, buffer>>

Step(p) ==
    \/ Exists(p) \/ DefineNVStorage(p) \/ CheckNVHandle(p) \/ ReadPublicArea(p)
    \/ NVRead(p) \/ ReadDone(p) \/ NVWrite(p) \/ Clear(p)

Call(p) ==
    \/ \E w \in Password : \/ \E n \in Sizes : InitNVStorage(p, w, n) \/ WriteToNVStorage(p, w, n)
                           \/ ReadFromNVStorage(p, w)
    \/ \E n \in Expected : NVStorageStatus(p, n)
    \/ CallClear(p)

Next == \E p \in Program : Call(p) \/ Step(p)

Spec == Init /\ [][Next]_vars

\* A call that has begun goes on: the TPM answers every command.
FairSpec == Spec /\ \A p \in Program : WF_vars(Step(p))

-----------------------------------------------------------------------------
(* Properties                                                              *)

Returned(p, op) == pc[p] = "idle" /\ arg[p].op = op

\* Types; a read never has more bytes than it asked for.  A part of
\* ReadIsRegular.
TypeOK ==
    /\ nv.defined \in BOOLEAN /\ nv.written \in BOOLEAN
    /\ pc \in [Program -> {"idle", "exists", "define", "check", "public", "read", "write", "clear"}]
    /\ res \in [Program -> {"none", "ok", "error", "data", "Undefined", "NotWritten", "Valid"}]
    /\ dataSize \in [Program -> Nat]
    /\ \A p \in Program : Len(buffer[p]) <= dataSize[p]

\* NVStorageStatus spans two commands, yet the status it returns is one the
\* index had at some moment of the call; and a status other than undefined is
\* given only to an index that had, at that same moment, the size the caller
\* expects.
StatusWasTrue ==
    \A p \in Program : Returned(p, "NVStorageStatus") =>
        LET sized(n) == n.defined /\ (arg[p].size >= 0 => Len(n.data) = arg[p].size)
        IN  /\ res[p] = "Undefined" => \E n \in seen[p] : ~n.defined
            /\ res[p] = "NotWritten" => \E n \in seen[p] : sized(n) /\ ~n.written
            /\ res[p] = "Valid" => \E n \in seen[p] : sized(n) /\ n.written

\* ReadFromNVStorage reads in chunks while others write, define and clear.
\* What it returns has the length the index had at some moment of the call, and
\* every byte is one that the index held at that offset during the call; so it
\* is the content of the index if nothing changed meanwhile.
ReadIsRegular ==
    /\ TypeOK
    /\ \A p \in Program : Returned(p, "ReadFromNVStorage") /\ res[p] = "data" =>
        /\ \E n \in seen[p] : n.defined /\ Len(n.data) = Len(buffer[p])
        /\ \A i \in 1..Len(buffer[p]) :
            \E n \in seen[p] : n.written /\ i <= Len(n.data) /\ n.data[i] = buffer[p][i]

\* InitNVStorage succeeds only if the index existed at some moment of the call,
\* although it checks and defines in two commands.
InitEstablishes ==
    \A p \in Program : Returned(p, "InitNVStorage") /\ res[p] = "ok" => \E n \in seen[p] : n.defined

\* Chunk by chunk, ReadFromNVStorage comes to its end.
ReadEnds == \A p \in Program : pc[p] = "read" ~> pc[p] = "idle"

=============================================================================
