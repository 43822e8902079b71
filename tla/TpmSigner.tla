------------------------------ MODULE TpmSigner ------------------------------
(***************************************************************************)
(* The crypto.Signer of pkg/tpm/sign.go, used by several goroutines.       *)
(*                                                                         *)
(* Public and Sign each open the device, load the key, use it, unload it   *)
(* and close the device.  Every TPM command is one step, and so is every   *)
(* access to the fields of the Signer, which are shared and not locked.    *)
(*                                                                         *)
(* The device is /dev/tpmrm0 or /dev/tpm0.  Behind the kernel's resource   *)
(* manager every open has a handle space of its own, emptied on close.     *)
(* The raw device has one space, admits one opener at a time and keeps     *)
(* what is loaded when it is closed, also what other programs load.        *)
(***************************************************************************)
EXTENDS Naturals

CONSTANTS
    Goroutine,          \* goroutines that use the Signer
    Handles,            \* transient object handles of one space
    Devices,            \* devices that OpenTPM may find
    MaxFaults,          \* bound on the TPM commands that fail for no reason
    NoKey               \* handle zero, the nil key, an empty slot

\* Keys in the TPM: the signer's own, and one of another program.
Mine == "mine"
Foreign == "foreign"
Key == {Mine, Foreign}

ASSUME SignerAssumption ==
    /\ Devices \subseteq {"/dev/tpmrm0", "/dev/tpm0"}
    /\ MaxFaults \in Nat
    /\ NoKey \notin Handles
    /\ NoKey \notin Key
    /\ Goroutine # {}

VARIABLES
    tpmPath,    \* the device this host has
    handle,     \* s.handle
    publicKey,  \* s.publicKey
    loaded,     \* the objects loaded in each handle space
    opened,     \* goroutines that hold the device open
    at,         \* where each goroutine is
    op,         \* the method it is in
    h,          \* its local: the handle it loaded or found
    ret,        \* its local: the key read, or the key that signed
    signErr,    \* its local: err of Sign
    faults      \* TPM commands that failed for no reason so far

signerVars == <<tpmPath, handle, publicKey, loaded, opened, at, op, h, ret, signErr, faults>>
fields == <<tpmPath, handle, publicKey>>

\* The kernel's resource manager is in between.
ResourceManager == tpmPath = "/dev/tpmrm0"

\* The handle space a goroutine's connection works in.
\* (Definitions named X_Y are X with a plausible mistake Y; the specification
\* never uses them, each is what some property must tell from X.)
Shared == "raw device"
Space == Goroutine \cup {Shared}
SpaceOf(g) == IF ResourceManager THEN g ELSE Shared

SignerInit ==
    /\ tpmPath \in Devices
    /\ handle = NoKey
    /\ publicKey = NoKey
    /\ loaded = [s \in Space |-> [x \in Handles |-> NoKey]]
    /\ opened = {}
    /\ at = [g \in Goroutine |-> "idle"]
    /\ op = [g \in Goroutine |-> "Public"]
    /\ h = [g \in Goroutine |-> NoKey]
    /\ ret = [g \in Goroutine |-> NoKey]
    /\ signErr = [g \in Goroutine |-> FALSE]
    /\ faults = 0

Goto(g, label) == at' = [at EXCEPT ![g] = label]

\* A command fails although nothing is wrong with it.
Fault ==
    /\ faults < MaxFaults
    /\ faults' = faults + 1

NoFault == UNCHANGED faults

-----------------------------------------------------------------------------
(* Calls.  Public returns the cached key if there is one.  Sign checks its *)
(* arguments before it touches the TPM.                                    *)

CallPublic(g) ==
    /\ at[g] = "idle"
    /\ op' = [op EXCEPT ![g] = "Public"]
    /\ ret' = [ret EXCEPT ![g] = publicKey]
    /\ signErr' = [signErr EXCEPT ![g] = FALSE]
    /\ h' = [h EXCEPT ![g] = NoKey]
    /\ Goto(g, IF publicKey # NoKey THEN "returned" ELSE "open")
    /\ UNCHANGED <<fields, loaded, opened, faults>>

CallSign(g, argsOK) ==
    /\ at[g] = "idle"
    /\ op' = [op EXCEPT ![g] = "Sign"]
    /\ ret' = [ret EXCEPT ![g] = NoKey]
    /\ signErr' = [signErr EXCEPT ![g] = ~argsOK]
    /\ h' = [h EXCEPT ![g] = NoKey]
    /\ Goto(g, IF argsOK THEN "open" ELSE "returned")
    /\ UNCHANGED <<fields, loaded, opened, faults>>

\* OpenTPM.  The raw device refuses a second opener.
OpenTPM(g) ==
    /\ at[g] = "open"
    /\ \/ /\ ResourceManager \/ opened = {}
          /\ opened' = opened \cup {g}
          /\ Goto(g, "load")
          /\ NoFault /\ UNCHANGED signErr
       \/ /\ ~ResourceManager /\ opened # {}
          /\ signErr' = [signErr EXCEPT ![g] = TRUE]
          /\ Goto(g, "returned")
          /\ UNCHANGED <<opened, faults>>
       \/ /\ Fault
          /\ signErr' = [signErr EXCEPT ![g] = TRUE]
          /\ Goto(g, "returned")
          /\ UNCHANGED opened
    /\ UNCHANGED <<fields, loaded, op, h, ret>>

\* Signer.Load hands out the handle it holds; Sign does not go through it.
UseHeldHandle(g) == op[g] = "Public" /\ handle # NoKey

AfterLoadError == "close"

\* LoadKey: the TPM chooses a free handle, or has none left.
Load(g) ==
    /\ at[g] = "load"
    /\ LET s == SpaceOf(g) IN
       \/ /\ UseHeldHandle(g)
          /\ h' = [h EXCEPT ![g] = handle]
          /\ Goto(g, "use")
          /\ NoFault /\ UNCHANGED <<loaded, signErr>>
       \/ /\ ~UseHeldHandle(g)
          /\ \E x \in Handles :
                /\ loaded[s][x] = NoKey
                /\ loaded' = [loaded EXCEPT ![s] = [@ EXCEPT ![x] = Mine]]
                /\ h' = [h EXCEPT ![g] = x]
          /\ Goto(g, IF op[g] = "Public" THEN "store" ELSE "use")
          /\ NoFault /\ UNCHANGED signErr
       \/ /\ ~UseHeldHandle(g)
          /\ \/ (\A x \in Handles : loaded[s][x] # NoKey) /\ NoFault
             \/ Fault
          /\ signErr' = [signErr EXCEPT ![g] = TRUE]
          /\ Goto(g, AfterLoadError)
          /\ UNCHANGED <<loaded, h>>
    /\ UNCHANGED <<fields, opened, op, ret>>

\* Signer.Load keeps the handle.
Store(g) ==
    /\ at[g] = "store"
    /\ handle' = h[g]
    /\ Goto(g, "use")
    /\ UNCHANGED <<tpmPath, publicKey, loaded, opened, op, h, ret, signErr, faults>>

\* Public reads the key behind the handle.  It drops the error, and what it
\* keeps is nil when the read failed.
ReadPublicKey(g) ==
    /\ at[g] = "use" /\ op[g] = "Public"
    /\ \E k \in Key \cup {NoKey} :
        /\ \/ k = loaded[SpaceOf(g)][h[g]] /\ NoFault
           \/ k = NoKey /\ Fault
        /\ ret' = [ret EXCEPT ![g] = k]
        /\ publicKey' = k
    /\ Goto(g, "unload")
    /\ UNCHANGED <<tpmPath, handle, loaded, opened, op, h, signErr>>

\* Sign signs with the handle it loaded, or fails: an unsupported algorithm,
\* a PCR policy that no longer holds, a refused command.
Sign(g) ==
    /\ at[g] = "use" /\ op[g] = "Sign"
    /\ \/ /\ loaded[SpaceOf(g)][h[g]] # NoKey
          /\ ret' = [ret EXCEPT ![g] = loaded[SpaceOf(g)][h[g]]]
          /\ UNCHANGED signErr
       \/ /\ signErr' = [signErr EXCEPT ![g] = TRUE]
          /\ UNCHANGED ret
    /\ Goto(g, "unload")
    /\ UNCHANGED <<fields, loaded, opened, op, h, faults>>

UnloadError_Ignored(g, failed) == signErr[g]
UnloadError_Overwrites(g, failed) == failed /\ op[g] = "Sign"

\* The error of the deferred unload is the result of a Sign that had none.
\* Public ignores it.
UnloadError(g, failed) == signErr[g] \/ (failed /\ op[g] = "Sign")

\* Signer.Unload flushes the handle the Signer holds, and goes on holding it;
\* Sign flushes the handle it loaded.
Unload(g) ==
    /\ at[g] = "unload"
    /\ LET s == SpaceOf(g)
           x == IF op[g] = "Public" THEN handle ELSE h[g]
       IN \/ /\ x # NoKey /\ loaded[s][x] # NoKey
             /\ loaded' = [loaded EXCEPT ![s] = [@ EXCEPT ![x] = NoKey]]
             /\ signErr' = [signErr EXCEPT ![g] = UnloadError(g, FALSE)]
             /\ NoFault
          \/ /\ \/ x # NoKey /\ loaded[s][x] = NoKey /\ NoFault
                \/ Fault
             /\ signErr' = [signErr EXCEPT ![g] = UnloadError(g, TRUE)]
             /\ UNCHANGED loaded
    /\ Goto(g, "close")
    /\ UNCHANGED <<fields, opened, op, h, ret>>

\* tpm.Close.  The resource manager flushes what the connection leaves.
CloseTPM(g) ==
    /\ at[g] = "close"
    /\ opened' = opened \ {g}
    /\ loaded' = IF ResourceManager
                 THEN [loaded EXCEPT ![g] = [x \in Handles |-> NoKey]]
                 ELSE loaded
    /\ Goto(g, "returned")
    /\ UNCHANGED <<fields, op, h, ret, signErr, faults>>

Return(g) ==
    /\ at[g] = "returned"
    /\ Goto(g, "idle")
    /\ UNCHANGED <<fields, loaded, opened, op, h, ret, signErr, faults>>

\* Another program opens the raw device, loads a key of its own or unloads it,
\* and closes the device.
OtherProgram ==
    /\ ~ResourceManager /\ opened = {}
    /\ \E x \in Handles :
        \/ /\ loaded[Shared][x] = NoKey
           /\ loaded' = [loaded EXCEPT ![Shared] = [@ EXCEPT ![x] = Foreign]]
        \/ /\ loaded[Shared][x] = Foreign
           /\ loaded' = [loaded EXCEPT ![Shared] = [@ EXCEPT ![x] = NoKey]]
    /\ UNCHANGED <<fields, opened, at, op, h, ret, signErr, faults>>

Step(g) ==
    \/ OpenTPM(g) \/ Load(g) \/ Store(g) \/ ReadPublicKey(g) \/ Sign(g)
    \/ Unload(g) \/ CloseTPM(g) \/ Return(g)

SignerNext ==
    \/ \E g \in Goroutine : \/ CallPublic(g)
                            \/ \E ok \in BOOLEAN : CallSign(g, ok)
                            \/ Step(g)
    \/ OtherProgram

SignerSpec == SignerInit /\ [][SignerNext]_signerVars

-----------------------------------------------------------------------------
(* Properties                                                              *)

PCs == {"idle", "open", "load", "store", "use", "unload", "close", "returned"}

\* Types of the Signer's fields, of the device and of the locals; a goroutine
\* that uses a handle has one.  A part of SignedByMine.
SignerTypeOK ==
    /\ tpmPath \in Devices
    /\ handle \in Handles \cup {NoKey}
    /\ publicKey \in Key \cup {NoKey}
    /\ loaded \in [Space -> [Handles -> Key \cup {NoKey}]]
    /\ opened \subseteq Goroutine
    /\ at \in [Goroutine -> PCs]
    /\ op \in [Goroutine -> {"Public", "Sign"}]
    /\ h \in [Goroutine -> Handles \cup {NoKey}]
    /\ ret \in [Goroutine -> Key \cup {NoKey}]
    /\ signErr \in [Goroutine -> BOOLEAN]
    /\ faults \in 0..MaxFaults
    /\ \A g \in Goroutine : at[g] \in {"store", "use", "unload"} => h[g] \in Handles

\* A key that Sign has loaded stays loaded under its handle until Sign unloads
\* it, although Public calls of other goroutines flush a handle that they may
\* have held since an earlier connection.  A part of SignedByMine.
SignKeyStays ==
    \A g \in Goroutine :
        at[g] \in {"use", "unload"} /\ op[g] = "Sign" => loaded[SpaceOf(g)][h[g]] = Mine

\* Whatever Public calls leave in the Signer and in the device, a signature
\* that Sign returns without an error was made with the Signer's own key, which
\* is there to the end of the call, and never with a handle that is none.
SignedByMine ==
    /\ SignerTypeOK
    /\ SignKeyStays
    /\ \A g \in Goroutine :
        at[g] = "returned" /\ op[g] = "Sign" /\ ~signErr[g] => ret[g] = Mine

\* Public returns the Signer's own public key or nil, and keeps no other.
PublicIsMine ==
    /\ publicKey \in {Mine, NoKey}
    /\ \A g \in Goroutine : at[g] = "returned" /\ op[g] = "Public" => ret[g] \in {Mine, NoKey}

\* Sign never leaks the transient object it loaded silently: if it returns
\* without an error, the handle it loaded is free again by the time the device
\* is closed.
NoSilentLeak ==
    \A g \in Goroutine :
        at[g] = "close" /\ op[g] = "Sign" /\ ~signErr[g] /\ h[g] # NoKey =>
            loaded[SpaceOf(g)][h[g]] = NoKey

=============================================================================
