-------------------------- MODULE GoroutineProofs ---------------------------
(***************************************************************************)
(* The safety of what goroutines share, whatever the others do meanwhile:  *)
(* OpenTPM, for any number of calls, and whatever the driver and the       *)
(* timers do; Signer.Sign, for any number of goroutines, handles and       *)
(* faults, on the raw device and behind the resource manager; and the log  *)
(* handlers that are derived from each other, for any derivations.         *)
(***************************************************************************)
EXTENDS OpenTpm, TpmSigner, Syslog, FiniteSetTheorems, FunctionTheorems, TLAPS

\* What a probe can come to.
ProbeErr == Results \cup {Errno("EIO"), Other("file already closed")}

\* The file of a call is open from its opening to the end of a failed select,
\* or until the caller closes it.
FileInv(c) ==
    /\ fd[c] <=> pc[c] \in {"select", "open"}
    /\ pc[c] = "failed" <=> err[c] # None

\* Where the goroutine is, and what it has left in the channel.
ProbeInv(c) ==
    /\ pc[c] = "new" => probe[c] = "none"
    /\ pc[c] \in {"select", "open"} => probe[c] # "none"
    /\ probe[c] \in {"none", "start"} => answer[c] = "none"
    /\ probe[c] \in {"none", "start", "wait"} => getErr[c] = None
    /\ probe[c] # "done" => errChan[c] = <<>>
    /\ probe[c] \in {"send", "done"} /\ getErr[c] = None => answer[c] = "given"
    /\ errChan[c] \in {<<>>, <<getErr[c]>>}
    /\ pc[c] = "open" => probe[c] = "done" /\ getErr[c] = None /\ errChan[c] = <<>>

Chan == {<<>>} \cup {<<e>> : e \in ProbeErr}

Types ==
    /\ device \in {"raw", "managed", "missing"}
    /\ pc \in [Calls -> {"new", "select", "open", "closed", "failed"}]
    /\ fd \in [Calls -> BOOLEAN]
    /\ probe \in [Calls -> {"none", "start", "wait", "send", "done"}]
    /\ answer \in [Calls -> {"none", "pending", "given"}]
    /\ getErr \in [Calls -> ProbeErr]
    /\ errChan \in [Calls -> Chan]
    /\ err \in [Calls -> {None} \cup Error]

IInv == Types /\ \A c \in Calls : FileInv(c) /\ ProbeInv(c)

-----------------------------------------------------------------------------

\* The results of a probe are errors or nil, and nil is not one of the others.
LEMMA ProbeErrors ==
    /\ ProbeErr \subseteq {None} \cup Error
    /\ None \in ProbeErr /\ None \notin Error /\ Results \subseteq ProbeErr
    /\ Errno("EIO") \in ProbeErr \ {None} /\ Other("file already closed") \in ProbeErr \ {None}
    /\ Errno("ENOENT") \in Error /\ Errno("EBUSY") \in Error /\ Errno("EIO") \in Error
    /\ TimeoutErr \in Error
BY NilIsNoError DEF ProbeErr, Error, Results, TimeoutErr

\* A channel of capacity 1.
LEMMA Channel ==
    /\ <<>> \in Chan
    /\ \A e \in ProbeErr : <<e>> \in Chan /\ <<e>> # <<>> /\ Append(<<>>, e) = <<e>>
                           /\ Head(<<e>>) = e /\ Tail(<<e>>) = <<>>
    /\ \A ch \in Chan : Len(ch) < 1 => ch = <<>>
    /\ \A ch \in Chan : Len(ch) <= 1
BY DEF Chan

\* Initially no call has begun.
LEMMA InitInv == Init => IInv
<1> SUFFICES ASSUME Init PROVE IInv
  OBVIOUS
<1>1. Types
  BY ProbeErrors, Channel DEF Init, Types
<1>2. ASSUME NEW c \in Calls PROVE FileInv(c) /\ ProbeInv(c)
  BY DEF Init, FileInv, ProbeInv
<1> QED  BY <1>1, <1>2 DEF IInv

\* A call that opens the file starts its goroutine.
LEMMA OpenKeeps == ASSUME IInv, NEW c \in Calls, Open(c) PROVE IInv'
<1> USE DEF Open, OpenFails
<1>1. Types /\ FileInv(c) /\ ProbeInv(c)
  BY DEF IInv
<1>2. Types'
  <2>1. pc' \in [Calls -> {"new", "select", "open", "closed", "failed"}]
    BY <1>1 DEF Types
  <2>2. fd' \in [Calls -> BOOLEAN]
    BY <1>1 DEF Types
  <2>3. err' \in [Calls -> {None} \cup Error]
    BY <1>1, ProbeErrors DEF Types
  <2> QED  BY <1>1, <2>1, <2>2, <2>3 DEF Types
<1>3. FileInv(c)'
  BY <1>1, ProbeErrors, Channel DEF Types, FileInv, ProbeInv
<1>4. ProbeInv(c)'
  BY <1>1, ProbeErrors, Channel DEF Types, FileInv, ProbeInv
<1>5. ASSUME NEW d \in Calls, d # c PROVE FileInv(d)' /\ ProbeInv(d)'
  BY <1>1, <1>5 DEF IInv, Types, FileInv, ProbeInv
<1> QED  BY <1>2, <1>3, <1>4, <1>5 DEF IInv

\* The result of the probe decides, and the channel is empty again.
LEMMA ReceiveKeeps == ASSUME IInv, NEW c \in Calls, Receive(c) PROVE IInv'
<1> USE DEF Receive, Finish
<1>1. Types /\ FileInv(c) /\ ProbeInv(c)
  BY DEF IInv
<1>2. Types'
  BY <1>1, ProbeErrors, Channel DEF Types, ProbeInv
<1>3. FileInv(c)'
  BY <1>1, ProbeErrors, Channel DEF Types, FileInv, ProbeInv
<1>6. errChan[c] = <<getErr[c]>> /\ getErr[c] \in ProbeErr /\ errChan'[c] = <<>>
  BY <1>1, Channel DEF Types, ProbeInv
<1>4. ProbeInv(c)'
  BY <1>1, <1>6, ProbeErrors, Channel DEF Types, FileInv, ProbeInv
<1>5. ASSUME NEW d \in Calls, d # c PROVE FileInv(d)' /\ ProbeInv(d)'
  BY <1>1, <1>5 DEF IInv, Types, FileInv, ProbeInv
<1> QED  BY <1>2, <1>3, <1>4, <1>5 DEF IInv

\* The timer closes the file under a goroutine that goes on.
LEMMA After10SecondsKeeps == ASSUME IInv, NEW c \in Calls, After10Seconds(c) PROVE IInv'
<1> USE DEF After10Seconds, Finish
<1>1. Types /\ FileInv(c) /\ ProbeInv(c)
  BY DEF IInv
<1>2. Types'
  BY <1>1, ProbeErrors, Channel DEF Types, ProbeInv
<1>3. FileInv(c)'
  BY <1>1, ProbeErrors, Channel DEF Types, FileInv, ProbeInv
<1>4. ProbeInv(c)'
  BY <1>1, ProbeErrors, Channel DEF Types, FileInv, ProbeInv
<1>5. ASSUME NEW d \in Calls, d # c PROVE FileInv(d)' /\ ProbeInv(d)'
  BY <1>1, <1>5 DEF IInv, Types, FileInv, ProbeInv
<1> QED  BY <1>2, <1>3, <1>4, <1>5 DEF IInv

\* The caller closes a TPM whose probe is over.
LEMMA CloseKeeps == ASSUME IInv, NEW c \in Calls, Close(c) PROVE IInv'
<1> USE DEF Close
<1>1. Types /\ FileInv(c) /\ ProbeInv(c)
  BY DEF IInv
<1>2. Types'
  BY <1>1, ProbeErrors, Channel DEF Types, ProbeInv
<1>3. FileInv(c)'
  BY <1>1, ProbeErrors, Channel DEF Types, FileInv, ProbeInv
<1>4. ProbeInv(c)'
  BY <1>1, ProbeErrors, Channel DEF Types, FileInv, ProbeInv
<1>5. ASSUME NEW d \in Calls, d # c PROVE FileInv(d)' /\ ProbeInv(d)'
  BY <1>1, <1>5 DEF IInv, Types, FileInv, ProbeInv
<1> QED  BY <1>2, <1>3, <1>4, <1>5 DEF IInv

\* A retry starts from nothing, since the goroutine has ended.
LEMMA AgainKeeps == ASSUME IInv, NEW c \in Calls, Again(c) PROVE IInv'
<1> USE DEF Again
<1>1. Types /\ FileInv(c) /\ ProbeInv(c)
  BY DEF IInv
<1>2. Types'
  BY <1>1, ProbeErrors, Channel DEF Types, ProbeInv
<1>3. FileInv(c)'
  BY <1>1, ProbeErrors, Channel DEF Types, FileInv, ProbeInv
<1>4. ProbeInv(c)'
  BY <1>1, ProbeErrors, Channel DEF Types, FileInv, ProbeInv
<1>5. ASSUME NEW d \in Calls, d # c PROVE FileInv(d)' /\ ProbeInv(d)'
  BY <1>1, <1>5 DEF IInv, Types, FileInv, ProbeInv
<1> QED  BY <1>2, <1>3, <1>4, <1>5 DEF IInv

\* The goroutine asks the driver, or fails to.
LEMMA ProbeWriteKeeps == ASSUME IInv, NEW c \in Calls, ProbeWrite(c) PROVE IInv'
<1> USE DEF ProbeWrite, GotErr
<1>1. Types /\ FileInv(c) /\ ProbeInv(c)
  BY DEF IInv
<1>2. Types'
  BY <1>1, ProbeErrors, Channel, ZenonT(30) DEF Types, ProbeInv
<1>3. FileInv(c)'
  BY <1>1, ProbeErrors, Channel DEF Types, FileInv, ProbeInv
<1>4. ProbeInv(c)'
  BY <1>1, ProbeErrors, Channel DEF Types, FileInv, ProbeInv
<1>5. ASSUME NEW d \in Calls, d # c PROVE FileInv(d)' /\ ProbeInv(d)'
  <2>1. FileInv(d) /\ ProbeInv(d)
    BY DEF IInv
  <2>2. /\ pc'[d] = pc[d] /\ fd'[d] = fd[d] /\ answer'[d] = answer[d] /\ errChan'[d] = errChan[d]
        /\ err'[d] = err[d] /\ probe'[d] = probe[d] /\ getErr'[d] = getErr[d]
    BY <1>1, <1>5 DEF Types
  <2> QED  BY <2>1, <2>2 DEF FileInv, ProbeInv
<1> QED  BY <1>2, <1>3, <1>4, <1>5 DEF IInv

\* It has a result without an error only if the driver answered.
LEMMA ProbeReadKeeps == ASSUME IInv, NEW c \in Calls, ProbeRead(c) PROVE IInv'
<1> USE DEF ProbeRead, GotErr
<1>1. Types /\ FileInv(c) /\ ProbeInv(c)
  BY DEF IInv
<1>2. Types'
  BY <1>1, ProbeErrors, Channel, ZenonT(30) DEF Types, ProbeInv
<1>3. FileInv(c)'
  BY <1>1, ProbeErrors, Channel DEF Types, FileInv, ProbeInv
<1>4. ProbeInv(c)'
  BY <1>1, ProbeErrors, Channel DEF Types, FileInv, ProbeInv
<1>5. ASSUME NEW d \in Calls, d # c PROVE FileInv(d)' /\ ProbeInv(d)'
  <2>1. FileInv(d) /\ ProbeInv(d)
    BY DEF IInv
  <2>2. /\ pc'[d] = pc[d] /\ fd'[d] = fd[d] /\ answer'[d] = answer[d] /\ errChan'[d] = errChan[d]
        /\ err'[d] = err[d] /\ probe'[d] = probe[d] /\ getErr'[d] = getErr[d]
    BY <1>1, <1>5 DEF Types
  <2> QED  BY <2>1, <2>2 DEF FileInv, ProbeInv
<1> QED  BY <1>2, <1>3, <1>4, <1>5 DEF IInv

\* The result fits into the channel.
LEMMA ProbeSendKeeps == ASSUME IInv, NEW c \in Calls, ProbeSend(c) PROVE IInv'
<1> USE DEF ProbeSend, Room
<1>1. Types /\ FileInv(c) /\ ProbeInv(c)
  BY DEF IInv
<1>2. Types'
  <2>1. errChan[c] = <<>> /\ getErr[c] \in ProbeErr
    BY <1>1 DEF Types, ProbeInv
  <2>2. Append(errChan[c], getErr[c]) \in Chan
    BY <2>1, Channel
  <2> QED  BY <1>1, <2>2 DEF Types
<1>3. FileInv(c)'
  BY <1>1, ProbeErrors, Channel DEF Types, FileInv, ProbeInv
<1>4. ProbeInv(c)'
  BY <1>1, ProbeErrors, Channel DEF Types, FileInv, ProbeInv
<1>5. ASSUME NEW d \in Calls, d # c PROVE FileInv(d)' /\ ProbeInv(d)'
  <2>1. FileInv(d) /\ ProbeInv(d)
    BY DEF IInv
  <2>2. /\ pc'[d] = pc[d] /\ fd'[d] = fd[d] /\ answer'[d] = answer[d] /\ getErr'[d] = getErr[d]
        /\ err'[d] = err[d] /\ probe'[d] = probe[d] /\ errChan'[d] = errChan[d]
    BY <1>1, <1>5 DEF Types
  <2> QED  BY <2>1, <2>2 DEF FileInv, ProbeInv
<1> QED  BY <1>2, <1>3, <1>4, <1>5 DEF IInv

\* The driver answers only a probe that waits.
LEMMA DriverAnswerKeeps == ASSUME IInv, NEW c \in Calls, DriverAnswer(c) PROVE IInv'
<1> USE DEF DriverAnswer
<1>1. Types /\ FileInv(c) /\ ProbeInv(c)
  BY DEF IInv
<1>2. Types'
  BY <1>1, ProbeErrors, Channel DEF Types, ProbeInv
<1>3. FileInv(c)'
  BY <1>1, ProbeErrors, Channel DEF Types, FileInv, ProbeInv
<1>4. ProbeInv(c)'
  BY <1>1, ProbeErrors, Channel DEF Types, FileInv, ProbeInv
<1>5. ASSUME NEW d \in Calls, d # c PROVE FileInv(d)' /\ ProbeInv(d)'
  BY <1>1, <1>5 DEF IInv, Types, FileInv, ProbeInv
<1> QED  BY <1>2, <1>3, <1>4, <1>5 DEF IInv


\* The invariant is inductive.
LEMMA NextInv == IInv /\ [Next]_vars => IInv'
<1> SUFFICES ASSUME IInv, [Next]_vars PROVE IInv'
  OBVIOUS
<1>1. CASE UNCHANGED vars
  BY <1>1 DEF vars, IInv, Types, FileInv, ProbeInv
<1>2. CASE Next
  BY <1>2, OpenKeeps, ReceiveKeeps, After10SecondsKeeps, CloseKeeps, AgainKeeps, ProbeWriteKeeps,
     ProbeReadKeeps, ProbeSendKeeps, DriverAnswerKeeps DEF Next
<1> QED  BY <1>1, <1>2

\* It follows from Spec.
LEMMA Inductive == Spec => []IInv
BY InitInv, NextInv, PTL DEF Spec

\* The TPM that OpenTPM returns is open, has answered its probe, and the probing
\* goroutine has ended and left nothing: for any number of calls, whenever the
\* timer runs out and whenever the driver answers.
THEOREM OpenIsProbed == Spec => []ReturnedIsProbed
<1>1. IInv => ReturnedIsProbed
  <2> SUFFICES ASSUME IInv PROVE ReturnedIsProbed
    OBVIOUS
  <2>1. TypeOK
    BY ProbeErrors, Channel DEF IInv, Types, FileInv, TypeOK
  <2>2. ASSUME NEW c \in Calls, pc[c] = "open"
        PROVE  fd[c] /\ answer[c] = "given" /\ getErr[c] = None /\ probe[c] = "done" /\ errChan[c] = <<>>
    BY <2>2 DEF IInv, FileInv, ProbeInv
  <2> QED  BY <2>1, <2>2 DEF ReturnedIsProbed
<1> QED  BY <1>1, Inductive, PTL

-----------------------------------------------------------------------------

\* A result of a probe is not classified as a busy device.
LEMMA ProbeNotBusy ==
    ASSUME NEW e \in ProbeErr, e # None, e.kind = "errno"
    PROVE  CategorizedError(e) # "TPM_RESOURCE_BUSY"
<1>1. /\ Other("expected 1 property").kind = "other" /\ Other("file already closed").kind = "other"
      /\ \A code \in Codes : RC(code).kind = "rc"
  BY DEF RC, Other
<1>2. e = Errno("EIO") \/ e = Errno("ETIME")
  BY <1>1 DEF ProbeErr, Results
<1> QED  BY <1>2 DEF CategorizedError, Errno

\* What one step says about a device that is busy.
Busy(c) ==
    /\ err[c] = None /\ err'[c] # None /\ err'[c].kind = "errno"
    /\ CategorizedError(err'[c]) = "TPM_RESOURCE_BUSY"

\* Only the open of a raw device that is held is refused as busy.
LEMMA BusyStep ==
    ASSUME IInv, Next, NEW c \in Calls, Busy(c)
    PROVE  \E d \in Calls \ {c} : pc[d] \in {"select", "open"} \/ probe[d] = "wait"
<1> USE DEF Busy
<1>1. PICK k \in Calls : \/ Open(k) \/ Receive(k) \/ After10Seconds(k) \/ Close(k) \/ Again(k)
                         \/ ProbeWrite(k) \/ ProbeRead(k) \/ ProbeSend(k) \/ DriverAnswer(k)
  BY DEF Next
<1>2. k = c /\ (Open(c) \/ Receive(c) \/ After10Seconds(c))
  BY <1>1 DEF IInv, Types, Open, OpenFails, Receive, After10Seconds, Finish, Close, Again, ProbeWrite,
              ProbeRead, ProbeSend, DriverAnswer
<1>3. CASE Open(c)
  <2>1. pc[c] = "new" /\ ~fd[c] /\ probe[c] = "none"
    BY <1>3 DEF Open, IInv, FileInv, ProbeInv
  <2>2. err'[c] \in {Errno("ENOENT"), Errno("EIO")} \/ Held # {}
    BY <1>3 DEF Open, OpenFails, IInv, Types
  <2>3. Held # {}
    BY <2>2 DEF CategorizedError, Errno
  <2>4. PICK d \in Calls : fd[d] \/ probe[d] = "wait"
    BY <2>3 DEF Held
  <2> QED  BY <2>1, <2>4 DEF IInv, FileInv
<1>4. CASE Receive(c)
  <2>1. errChan[c] = <<getErr[c]>> /\ getErr[c] \in ProbeErr
    BY <1>4 DEF Receive, IInv, Types, ProbeInv
  <2>2. err'[c] = getErr[c]
    BY <1>4, <2>1, Channel DEF Receive, Finish, IInv, Types
  <2> QED  BY <2>1, <2>2, ProbeNotBusy
<1>5. CASE After10Seconds(c)
  BY <1>5 DEF After10Seconds, Finish, TimeoutErr, Other, IInv, Types
<1> QED  BY <1>2, <1>3, <1>4, <1>5

\* The device is refused as busy only while another call is at its probe, another
\* caller has the TPM open, or the driver has not let go of a probe.
THEOREM BusyIsExplained == Spec => BusyExplained
<1> DEFINE A == \A c \in Calls : Busy(c) =>
                    \E d \in Calls \ {c} : pc[d] \in {"select", "open"} \/ probe[d] = "wait"
<1>1. IInv /\ [Next]_vars => [A]_vars
  BY BusyStep
<1>2. Spec => [][A]_vars
  BY <1>1, Inductive, PTL DEF Spec
<1> QED  BY <1>2 DEF BusyExplained, Busy

-----------------------------------------------------------------------------

\* The fields of a response code: the error, the bits of a parameter and of
\* format 1, the number, and the bit of a session or warning.
Fields(r, a, p, f, n, v) ==
    /\ a \in 0 .. 63 /\ p \in 0 .. 1 /\ f \in 0 .. 1 /\ n \in 0 .. 7 /\ v \in 0 .. 1
    /\ r = a + 64 * p + 128 * f + 256 * n + 2048 * v

\* Every code of twelve bits has its fields.
LEMMA HasFields == ASSUME NEW r \in Nat, r <= 4095 PROVE \E a, p, f, n, v : Fields(r, a, p, f, n, v)
<1>1. PICK q1 \in 0 .. 63, a \in 0 .. 63 : r = a + 64 * q1
  <2>1. r \div 64 \in 0 .. 63 /\ r % 64 \in 0 .. 63 /\ r = (r % 64) + 64 * (r \div 64)
    OBVIOUS
  <2> QED  BY <2>1
<1>2. PICK q2 \in 0 .. 31, p \in 0 .. 1 : q1 = p + 2 * q2
  <2>1. q1 \div 2 \in 0 .. 31 /\ q1 % 2 \in 0 .. 1 /\ q1 = (q1 % 2) + 2 * (q1 \div 2)
    OBVIOUS
  <2> QED  BY <2>1
<1>3. PICK q3 \in 0 .. 15, f \in 0 .. 1 : q2 = f + 2 * q3
  <2>1. q2 \div 2 \in 0 .. 15 /\ q2 % 2 \in 0 .. 1 /\ q2 = (q2 % 2) + 2 * (q2 \div 2)
    OBVIOUS
  <2> QED  BY <2>1
<1>4. PICK v \in 0 .. 1, n \in 0 .. 7 : q3 = n + 8 * v
  <2>1. q3 \div 8 \in 0 .. 1 /\ q3 % 8 \in 0 .. 7 /\ q3 = (q3 % 8) + 8 * (q3 \div 8)
    OBVIOUS
  <2> QED  BY <2>1
<1>5. Fields(r, a, p, f, n, v)
  BY <1>1, <1>2, <1>3, <1>4 DEF Fields
<1> QED  BY <1>5

\* The tests of single bits look at the fields.
LEMMA BitsOf ==
    ASSUME NEW r, NEW a, NEW p, NEW f, NEW n, NEW v, Fields(r, a, p, f, n, v)
    PROVE  /\ Bit(r, 64) <=> p = 1
           /\ Bit(r, 128) <=> f = 1
           /\ Bit(r, 256) <=> n \in {1, 3, 5, 7}
           /\ Bit(r, 2048) <=> v = 1
BY DEF Fields, Bit

\* Canonical leaves nothing but the error, wherever it is.
LEMMA CanonicalOf ==
    ASSUME NEW r, NEW a, NEW p, NEW n, NEW v, Fields(r, a, p, 1, n, v)
    PROVE  Canonical(r) = 128 + a
<1>1. (Bit(r, 64) <=> p = 1) /\ (Bit(r, 2048) <=> v = 1)
  BY BitsOf
<1> DEFINE plain == IF Bit(r, 64) THEN r - 64 ELSE IF Bit(r, 2048) THEN r - 2048 ELSE r
<1>2. PICK m \in 0 .. 15 : plain = 128 + a + 256 * m
  <2>1. p = 1 => plain = 128 + a + 256 * (n + 8 * v)
    BY <1>1 DEF Fields
  <2>2. p = 0 => plain = 128 + a + 256 * n
    BY <1>1 DEF Fields
  <2> QED  BY <2>1, <2>2 DEF Fields
<1>3. (plain \div 256) % 16 = m
  BY <1>2 DEF Fields
<1>4. Canonical(r) = plain - 256 * ((plain \div 256) % 16)
  BY DEF Canonical, rcP, rcS
<1> HIDE DEF plain
<1> QED  BY <1>2, <1>3, <1>4 DEF Fields


\* The tables: format-1 errors are numbers up to 63 above 128, the others have
\* not got that bit.
LEMMA Tables ==
    /\ \A e \in fmt1Descs : e - 128 \in 0 .. 63 /\ e \in Nat
    /\ \A e \in fmt0Descs : e \in 256 .. 383
    /\ \A e \in warnDescs : e \in 2304 .. 2431
    /\ fmt1Descs \cap (fmt0Descs \cup warnDescs) = {}
BY DEF fmt0Descs, fmt1Descs, warnDescs, rcFmt1

Reported(r) == {e \in fmt0Descs \cup fmt1Descs \cup warnDescs : r \in ReportedAs(e)}

\* With the bit of format 1 a code can only report the error in its low bits.
LEMMA Fmt1Reported ==
    ASSUME NEW r, NEW a, NEW p, NEW n, NEW v, Fields(r, a, p, 1, n, v)
    PROVE  Reported(r) = {128 + a} \cap fmt1Descs
<1>1. ASSUME NEW e \in fmt0Descs \cup warnDescs PROVE r \notin ReportedAs(e)
  <2>1. ReportedAs(e) = {e}
    BY Tables DEF ReportedAs
  <2>2. r # e
    BY <1>1, Tables DEF Fields
  <2> QED  BY <2>1, <2>2
<1>2. ASSUME NEW e \in fmt1Descs, r \in ReportedAs(e) PROVE e = 128 + a
  <2>1. PICK m \in 0 .. 15, b \in 0 .. 1 : r = e + 64 * b + 256 * m
    <3>1. CASE \E k \in 0 .. 15 : r = e + 64 + 256 * k
      <4>1. PICK k \in 0 .. 15 : r = e + 64 + 256 * k
        BY <3>1
      <4>2. r = e + 64 * 1 + 256 * k
        BY <4>1, Tables
      <4> QED  BY <4>2
    <3>2. CASE \E k \in 0 .. 7 : r = e + 256 * k
      <4>1. PICK k \in 0 .. 7 : r = e + 256 * k
        BY <3>2
      <4>2. r = e + 64 * 0 + 256 * k /\ k \in 0 .. 15
        BY <4>1, Tables
      <4> QED  BY <4>2
    <3>3. CASE \E k \in 0 .. 7 : r = e + 2048 + 256 * k
      <4>1. PICK k \in 0 .. 7 : r = e + 2048 + 256 * k
        BY <3>3
      <4>2. r = e + 64 * 0 + 256 * (k + 8) /\ k + 8 \in 0 .. 15
        BY <4>1, Tables
      <4> QED  BY <4>2
    <3> QED  BY <1>2, <3>1, <3>2, <3>3 DEF ReportedAs, rcP, rcS
  <2>2. e - 128 \in 0 .. 63 /\ e \in Nat
    BY Tables
  <2> QED  BY <2>1, <2>2 DEF Fields
<1>3. ASSUME 128 + a \in fmt1Descs PROVE r \in ReportedAs(128 + a)
  <2>1. p = 1 => r = 128 + a + 64 + 256 * (n + 8 * v) /\ n + 8 * v \in 0 .. 15
    BY DEF Fields
  <2>2. p = 0 /\ v = 0 => r = 128 + a + 256 * n
    BY DEF Fields
  <2>3. p = 0 /\ v = 1 => r = 128 + a + 2048 + 256 * n
    BY DEF Fields
  <2> QED  BY <1>3, <2>1, <2>2, <2>3 DEF Fields, ReportedAs, rcP, rcS
<1> QED  BY <1>1, <1>2, <1>3 DEF Reported

\* Without it a code reports itself.
LEMMA OthersReported ==
    ASSUME NEW r, NEW a, NEW p, NEW n, NEW v, Fields(r, a, p, 0, n, v)
    PROVE  Reported(r) = {r} \cap (fmt0Descs \cup warnDescs)
<1>1. ASSUME NEW e \in fmt0Descs \cup warnDescs PROVE ReportedAs(e) = {e}
  BY Tables DEF ReportedAs
<1>2. ASSUME NEW e \in fmt1Descs PROVE r \notin ReportedAs(e)
  <2>1. e - 128 \in 0 .. 63 /\ e \in Nat
    BY Tables
  <2>2. \A k \in 0 .. 15 : r # e + 64 + 256 * k
    BY <2>1 DEF Fields
  <2>3. \A k \in 0 .. 7 : r # e + 256 * k
    BY <2>1 DEF Fields
  <2>4. \A k \in 0 .. 7 : r # e + 2048 + 256 * k
    BY <2>1 DEF Fields
  <2> QED  BY <2>2, <2>3, <2>4 DEF ReportedAs, rcP, rcS
<1> QED  BY <1>1, <1>2 DEF Reported

\* ToErrorType names the one error of the tables that a response code reports.
LEMMA Classified ==
    ASSUME NEW r \in Nat, r <= 4095
    PROVE  IF Reported(r) = {} THEN ToErrorType(r) = OtherErrType ELSE Reported(r) = {ToErrorType(r)}
<1>1. PICK a, p, f, n, v : Fields(r, a, p, f, n, v)
  BY HasFields
<1>2. CASE f = 1
  <2>1. Reported(r) = {128 + a} \cap fmt1Descs /\ Canonical(r) = 128 + a
    BY <1>1, <1>2, Fmt1Reported, CanonicalOf
  <2>2. isFmt1Error(r) /\ ~IsWarning(r)
    BY <1>1, <1>2, BitsOf DEF isFmt1Error, IsWarning, rcFmt1
  <2> QED  BY <2>1, <2>2 DEF ToErrorType
<1>3. CASE f = 0
  <2>1. Reported(r) = {r} \cap (fmt0Descs \cup warnDescs)
    BY <1>1, <1>3, OthersReported
  <2>2. ~isFmt1Error(r)
    BY <1>1, <1>3, BitsOf DEF isFmt1Error, rcFmt1
  <2>3. r \in fmt0Descs => isFmt0Error(r) /\ ~IsWarning(r)
    <3> SUFFICES ASSUME r \in fmt0Descs PROVE isFmt0Error(r) /\ ~IsWarning(r)
      OBVIOUS
    <3>1. r \in 256 .. 383
      BY Tables
    <3>2. n = 1 /\ v = 0
      BY <1>1, <1>3, <3>1 DEF Fields
    <3>3. Bit(r, 256) /\ ~Bit(r, 2048)
      BY <1>1, <3>2, BitsOf
    <3> QED  BY <3>3 DEF isFmt0Error, IsWarning
  <2>4. r \in warnDescs => IsWarning(r) /\ ~isFmt0Error(r)
    <3> SUFFICES ASSUME r \in warnDescs PROVE IsWarning(r) /\ ~isFmt0Error(r)
      OBVIOUS
    <3>1. r \in 2304 .. 2431
      BY Tables
    <3>2. n = 1 /\ v = 1
      BY <1>1, <1>3, <3>1 DEF Fields
    <3>3. Bit(r, 256) /\ Bit(r, 2048)
      BY <1>1, <3>2, BitsOf
    <3> QED  BY <2>2, <3>3 DEF isFmt0Error, IsWarning
  <2> QED  BY <2>1, <2>2, <2>3, <2>4 DEF ToErrorType
<1> QED  BY <1>1, <1>2, <1>3 DEF Fields

\* The type that CategorizedError gives the response code of a failed call is
\* the error the TPM reported, for every code of twelve bits.
THEOREM ErrorIsNamed == Spec => []ErrorsNamed
<1>1. IInv => ErrorsNamed
  <2> SUFFICES ASSUME IInv, NEW c \in Calls, err[c] # None, err[c].kind = "rc"
               PROVE  IF Reported(err[c].code) = {} THEN CategorizedError(err[c]) = OtherErrType
                      ELSE Reported(err[c].code) = {CategorizedError(err[c])}
    BY DEF ErrorsNamed, Reported
  <2>1. /\ \A w : Other(w).kind = "other"
        /\ \A w : Errno(w).kind = "errno"
    BY DEF Other, Errno
  <2>2. PICK code \in Codes : err[c] = RC(code)
    BY <2>1 DEF IInv, Types, Error, Results
  <2>3. err[c].code = code /\ code \in Nat /\ code <= 4095 /\ CategorizedError(err[c]) = ToErrorType(code)
    <3>1. code \in Nat /\ code <= 4095
      BY OpenAssumption
    <3>2. err[c].code = code /\ CategorizedError(err[c]) = ToErrorType(code)
      BY <2>2 DEF RC, CategorizedError
    <3> QED  BY <3>1, <3>2
  <2>4. IF Reported(code) = {} THEN ToErrorType(code) = OtherErrType
        ELSE Reported(code) = {ToErrorType(code)}
    BY <2>3, Classified
  <2> QED  BY <2>3, <2>4
<1> QED  BY <1>1, Inductive, PTL

-----------------------------------------------------------------------------
(* The Signer.                                                             *)

Connected == {"load", "store", "use", "unload", "close"}

\* Who holds the device open is who is between OpenTPM and Close, and on the
\* raw device that is one goroutine at most.
OpenInv ==
    /\ opened = {g \in Goroutine : at[g] \in Connected}
    /\ ~ResourceManager => \A g, k \in opened : g = k

\* Only Public keeps the handle in the Signer.
StoreInv == \A g \in Goroutine : at[g] = "store" => op[g] = "Public"

\* What a Sign that has no error so far has got.
SignatureInv ==
    \A g \in Goroutine :
        op[g] = "Sign" /\ ~signErr[g] /\ at[g] \in {"unload", "close", "returned"} => ret[g] = Mine

SignerInv ==
    /\ SignerTypeOK
    /\ OpenInv
    /\ StoreInv
    /\ SignKeyStays
    /\ SignatureInv
    /\ NoSilentLeak

-----------------------------------------------------------------------------

\* An object that is loaded or flushed leaves the spaces typed.
LEMMA LoadedTyped ==
    ASSUME loaded \in [Space -> [Handles -> Key \cup {NoKey}]],
           NEW g \in Goroutine, NEW x \in Handles, NEW k \in Key \cup {NoKey}
    PROVE  [loaded EXCEPT ![SpaceOf(g)] = [@ EXCEPT ![x] = k]] \in [Space -> [Handles -> Key \cup {NoKey}]]
<1>1. SpaceOf(g) \in Space
  BY DEF SpaceOf, Space
<1>2. [loaded[SpaceOf(g)] EXCEPT ![x] = k] \in [Handles -> Key \cup {NoKey}]
  BY <1>1
<1> QED  BY <1>1, <1>2

\* Initially nobody has the device open and nothing is loaded.
LEMMA SignerInitInv == SignerInit => SignerInv
BY SignerAssumption DEF SignerInit, SignerInv, SignerTypeOK, OpenInv, StoreInv, SignKeyStays,
    SignatureInv, NoSilentLeak, Connected, PCs, Space, SpaceOf, Key

\* A call of Public that begins.
LEMMA CallPublicKeeps == ASSUME SignerInv, NEW g \in Goroutine, CallPublic(g) PROVE SignerInv'
<1> USE SignerAssumption DEF SignerInv, CallPublic, Goto, fields
<1>1. SignerTypeOK'
  BY DEF SignerTypeOK, PCs, Space, Key, SpaceOf
<1>2. OpenInv'
  BY DEF SignerTypeOK, OpenInv, Connected, ResourceManager, PCs
<1>3. SignKeyStays'
  BY DEF SignerTypeOK, OpenInv, Connected, SignKeyStays, StoreInv, SpaceOf, Space, ResourceManager, Key, PCs
<1>4. SignatureInv'
  BY DEF SignerTypeOK, SignKeyStays, SignatureInv, PCs
<1>5. NoSilentLeak'
  BY DEF SignerTypeOK, OpenInv, Connected, SignKeyStays, NoSilentLeak, SpaceOf, Space,
      ResourceManager, Key, PCs
<1>6. StoreInv'
  BY DEF SignerTypeOK, StoreInv, PCs
<1> QED  BY <1>1, <1>2, <1>3, <1>4, <1>5, <1>6

\* A call of Sign that begins, or is refused for its arguments.
LEMMA CallSignKeeps ==
    ASSUME SignerInv, NEW g \in Goroutine, NEW ok \in BOOLEAN, CallSign(g, ok) PROVE SignerInv'
<1> USE SignerAssumption DEF SignerInv, CallSign, Goto, fields
<1>1. SignerTypeOK'
  BY DEF SignerTypeOK, PCs, Space, Key, SpaceOf
<1>2. OpenInv'
  BY DEF SignerTypeOK, OpenInv, Connected, ResourceManager, PCs
<1>3. SignKeyStays'
  BY DEF SignerTypeOK, OpenInv, Connected, SignKeyStays, StoreInv, SpaceOf, Space, ResourceManager, Key, PCs
<1>4. SignatureInv'
  BY DEF SignerTypeOK, SignKeyStays, SignatureInv, PCs
<1>5. NoSilentLeak'
  BY DEF SignerTypeOK, OpenInv, Connected, SignKeyStays, NoSilentLeak, SpaceOf, Space,
      ResourceManager, Key, PCs
<1>6. StoreInv'
  BY DEF SignerTypeOK, StoreInv, PCs
<1> QED  BY <1>1, <1>2, <1>3, <1>4, <1>5, <1>6

\* OpenTPM admits one goroutine to the raw device.
LEMMA SignerOpenKeeps == ASSUME SignerInv, NEW g \in Goroutine, OpenTPM(g) PROVE SignerInv'
<1> USE SignerAssumption DEF SignerInv, OpenTPM, Goto, Fault, NoFault, fields
<1>1. SignerTypeOK'
  <2>1. faults' \in 0 .. MaxFaults
    BY DEF SignerTypeOK
  <2>2. signErr' \in [Goroutine -> BOOLEAN]
    BY DEF SignerTypeOK
  <2>3. loaded' \in [Space -> [Handles -> Key \cup {NoKey}]]
    BY DEF SignerTypeOK, Space, Key, SpaceOf
  <2> QED  BY <2>1, <2>2, <2>3 DEF SignerTypeOK, PCs
<1>2. OpenInv'
  BY DEF SignerTypeOK, OpenInv, Connected, ResourceManager, PCs
<1>3. SignKeyStays'
  BY DEF SignerTypeOK, OpenInv, Connected, SignKeyStays, StoreInv, SpaceOf, Space, ResourceManager, Key, PCs
<1>4. SignatureInv'
  BY DEF SignerTypeOK, SignKeyStays, SignatureInv, PCs
<1>5. NoSilentLeak'
  BY DEF SignerTypeOK, OpenInv, Connected, SignKeyStays, NoSilentLeak, SpaceOf, Space,
      ResourceManager, Key, PCs
<1>6. StoreInv'
  BY DEF SignerTypeOK, StoreInv, PCs
<1> QED  BY <1>1, <1>2, <1>3, <1>4, <1>5, <1>6

\* A key that is loaded takes a slot that nobody uses.
LEMMA LoadKeeps == ASSUME SignerInv, NEW g \in Goroutine, Load(g) PROVE SignerInv'
<1> USE SignerAssumption DEF SignerInv, Load, Goto, Fault, NoFault, AfterLoadError, UseHeldHandle, fields
<1>1. SignerTypeOK'
  <2>1. faults' \in 0 .. MaxFaults
    BY DEF SignerTypeOK
  <2>2. signErr' \in [Goroutine -> BOOLEAN]
    BY DEF SignerTypeOK
  <2>3. loaded' \in [Space -> [Handles -> Key \cup {NoKey}]]
    <3>1. CASE UNCHANGED loaded
      BY <3>1 DEF SignerTypeOK
    <3>2. ASSUME NEW x \in Handles, loaded' = [loaded EXCEPT ![SpaceOf(g)] = [@ EXCEPT ![x] = Mine]]
          PROVE  loaded' \in [Space -> [Handles -> Key \cup {NoKey}]]
      BY <3>2, LoadedTyped DEF SignerTypeOK, Key
    <3> QED  BY <3>1, <3>2
  <2> QED  BY <2>1, <2>2, <2>3 DEF SignerTypeOK, PCs
<1>2. OpenInv'
  BY DEF SignerTypeOK, OpenInv, Connected, ResourceManager, PCs
<1>3. SignKeyStays'
  BY DEF SignerTypeOK, OpenInv, Connected, SignKeyStays, StoreInv, SpaceOf, Space, ResourceManager, Key, PCs
<1>4. SignatureInv'
  BY DEF SignerTypeOK, SignKeyStays, SignatureInv, PCs
<1>5. NoSilentLeak'
  BY DEF SignerTypeOK, OpenInv, Connected, SignKeyStays, NoSilentLeak, SpaceOf, Space,
      ResourceManager, Key, PCs
<1>6. StoreInv'
  BY DEF SignerTypeOK, StoreInv, PCs
<1> QED  BY <1>1, <1>2, <1>3, <1>4, <1>5, <1>6

\* The Signer's own field is not what Sign signs with.
LEMMA StoreKeeps == ASSUME SignerInv, NEW g \in Goroutine, Store(g) PROVE SignerInv'
<1> USE SignerAssumption DEF SignerInv, Store, Goto
<1>1. SignerTypeOK'
  BY DEF SignerTypeOK, PCs, Space, Key, SpaceOf
<1>2. OpenInv'
  BY DEF SignerTypeOK, OpenInv, Connected, ResourceManager, PCs
<1>3. SignKeyStays'
  BY DEF SignerTypeOK, OpenInv, Connected, SignKeyStays, StoreInv, SpaceOf, Space, ResourceManager, Key, PCs
<1>4. SignatureInv'
  BY DEF SignerTypeOK, SignKeyStays, SignatureInv, PCs
<1>5. NoSilentLeak'
  BY DEF SignerTypeOK, OpenInv, Connected, SignKeyStays, NoSilentLeak, SpaceOf, Space,
      ResourceManager, Key, PCs
<1>6. StoreInv'
  BY DEF SignerTypeOK, StoreInv, PCs
<1> QED  BY <1>1, <1>2, <1>3, <1>4, <1>5, <1>6

\* Public reads; nothing that Sign relies on changes.
LEMMA ReadPublicKeyKeeps == ASSUME SignerInv, NEW g \in Goroutine, ReadPublicKey(g) PROVE SignerInv'
<1> USE SignerAssumption DEF SignerInv, ReadPublicKey, Goto, Fault, NoFault
<1>1. SignerTypeOK'
  BY DEF SignerTypeOK, PCs, Space, Key, SpaceOf
<1>2. OpenInv'
  BY DEF SignerTypeOK, OpenInv, Connected, ResourceManager, PCs
<1>3. SignKeyStays'
  BY DEF SignerTypeOK, OpenInv, Connected, SignKeyStays, StoreInv, SpaceOf, Space, ResourceManager, Key, PCs
<1>4. SignatureInv'
  BY DEF SignerTypeOK, SignKeyStays, SignatureInv, PCs
<1>5. NoSilentLeak'
  BY DEF SignerTypeOK, OpenInv, Connected, SignKeyStays, NoSilentLeak, SpaceOf, Space,
      ResourceManager, Key, PCs
<1>6. StoreInv'
  BY DEF SignerTypeOK, StoreInv, PCs
<1> QED  BY <1>1, <1>2, <1>3, <1>4, <1>5, <1>6

\* The key behind the handle is the one that was loaded.
LEMMA SignKeeps == ASSUME SignerInv, NEW g \in Goroutine, Sign(g) PROVE SignerInv'
<1> USE SignerAssumption DEF SignerInv, Sign, Goto, fields
<1>1. SignerTypeOK'
  <2>1. signErr' \in [Goroutine -> BOOLEAN]
    BY DEF SignerTypeOK
  <2>2. ret' \in [Goroutine -> Key \cup {NoKey}]
    BY DEF SignerTypeOK, Key, SpaceOf, Space
  <2> QED  BY <2>1, <2>2 DEF SignerTypeOK, PCs
<1>2. OpenInv'
  BY DEF SignerTypeOK, OpenInv, Connected, ResourceManager, PCs
<1>3. SignKeyStays'
  BY DEF SignerTypeOK, OpenInv, Connected, SignKeyStays, StoreInv, SpaceOf, Space, ResourceManager, Key, PCs
<1>4. SignatureInv'
  BY DEF SignerTypeOK, SignKeyStays, SignatureInv, PCs
<1>5. NoSilentLeak'
  BY DEF SignerTypeOK, OpenInv, Connected, SignKeyStays, NoSilentLeak, SpaceOf, Space,
      ResourceManager, Key, PCs
<1>6. StoreInv'
  BY DEF SignerTypeOK, StoreInv, PCs
<1> QED  BY <1>1, <1>2, <1>3, <1>4, <1>5, <1>6

\* Flushing the handle that a Signer holds cannot meet the key of a Sign: behind
\* the resource manager the spaces differ, and on the raw device nobody else is
\* connected.
LEMMA UnloadKeeps == ASSUME SignerInv, NEW g \in Goroutine, Unload(g) PROVE SignerInv'
<1> USE SignerAssumption DEF SignerInv, Unload, UnloadError, Goto, Fault, NoFault, fields
<1>1. SignerTypeOK'
  <2>1. faults' \in 0 .. MaxFaults
    BY DEF SignerTypeOK
  <2>2. signErr' \in [Goroutine -> BOOLEAN]
    BY DEF SignerTypeOK
  <2>3. loaded' \in [Space -> [Handles -> Key \cup {NoKey}]]
    <3> DEFINE x == IF op[g] = "Public" THEN handle ELSE h[g]
    <3>1. CASE UNCHANGED loaded
      BY <3>1 DEF SignerTypeOK
    <3>2. CASE x # NoKey /\ loaded' = [loaded EXCEPT ![SpaceOf(g)] = [@ EXCEPT ![x] = NoKey]]
      <4>1. x \in Handles
        BY <3>2 DEF SignerTypeOK
      <4> QED  BY <3>2, <4>1, LoadedTyped DEF SignerTypeOK
    <3> QED  BY <3>1, <3>2
  <2> QED  BY <2>1, <2>2, <2>3 DEF SignerTypeOK, PCs
<1>2. OpenInv'
  BY DEF SignerTypeOK, OpenInv, Connected, ResourceManager, PCs
<1>3. SignKeyStays'
  BY DEF SignerTypeOK, OpenInv, Connected, SignKeyStays, StoreInv, SpaceOf, Space, ResourceManager, Key, PCs
<1>4. SignatureInv'
  BY DEF SignerTypeOK, SignKeyStays, SignatureInv, PCs
<1>5. NoSilentLeak'
  <2> SUFFICES ASSUME NEW k \in Goroutine, at'[k] = "close", op'[k] = "Sign", ~signErr'[k], h'[k] # NoKey
               PROVE  loaded'[SpaceOf(k)'][h'[k]] = NoKey
    BY DEF NoSilentLeak
  <2>1. SpaceOf(k)' = SpaceOf(k) /\ SpaceOf(k) \in Space /\ SpaceOf(g) \in Space
    BY DEF SpaceOf, ResourceManager, Space
  <2>2. CASE k = g
    <3>1. op[g] = "Sign" /\ h[g] \in Handles
      BY <2>2 DEF SignerTypeOK
    <3>2. loaded' = [loaded EXCEPT ![SpaceOf(g)] = [@ EXCEPT ![h[g]] = NoKey]]
      BY <2>2, <3>1 DEF SignerTypeOK
    <3> QED  BY <2>1, <2>2, <3>1, <3>2 DEF SignerTypeOK
  <2>3. CASE k # g
    <3>1. at[k] = "close" /\ op[k] = "Sign" /\ ~signErr[k] /\ h'[k] = h[k] /\ h[k] # NoKey
      BY <2>3 DEF SignerTypeOK
    <3>2. loaded[SpaceOf(k)][h[k]] = NoKey
      BY <3>1 DEF NoSilentLeak
    <3>3. SpaceOf(k) # SpaceOf(g)
      BY <2>3, <3>1 DEF OpenInv, Connected, SpaceOf
    <3>4. loaded'[SpaceOf(k)] = loaded[SpaceOf(k)]
      BY <2>1, <3>3 DEF SignerTypeOK
    <3> QED  BY <2>1, <3>1, <3>2, <3>4
  <2> QED  BY <2>2, <2>3
<1>6. StoreInv'
  BY DEF SignerTypeOK, StoreInv, PCs
<1> QED  BY <1>1, <1>2, <1>3, <1>4, <1>5, <1>6

\* Closing empties a space that only this goroutine used.
LEMMA SignerCloseKeeps == ASSUME SignerInv, NEW g \in Goroutine, CloseTPM(g) PROVE SignerInv'
<1> USE SignerAssumption DEF SignerInv, CloseTPM, Goto, fields
<1>1. SignerTypeOK'
  <2>1. faults' \in 0 .. MaxFaults
    BY DEF SignerTypeOK
  <2>2. signErr' \in [Goroutine -> BOOLEAN]
    BY DEF SignerTypeOK
  <2>3. loaded' \in [Space -> [Handles -> Key \cup {NoKey}]]
    BY DEF SignerTypeOK, Space, Key, SpaceOf
  <2> QED  BY <2>1, <2>2, <2>3 DEF SignerTypeOK, PCs
<1>2. OpenInv'
  BY DEF SignerTypeOK, OpenInv, Connected, ResourceManager, PCs
<1>3. SignKeyStays'
  BY DEF SignerTypeOK, OpenInv, Connected, SignKeyStays, StoreInv, SpaceOf, Space, ResourceManager, Key, PCs
<1>4. SignatureInv'
  BY DEF SignerTypeOK, SignKeyStays, SignatureInv, PCs
<1>5. NoSilentLeak'
  BY DEF SignerTypeOK, OpenInv, Connected, SignKeyStays, NoSilentLeak, SpaceOf, Space,
      ResourceManager, Key, PCs
<1>6. StoreInv'
  BY DEF SignerTypeOK, StoreInv, PCs
<1> QED  BY <1>1, <1>2, <1>3, <1>4, <1>5, <1>6

\* Returning changes no state but the goroutine's own.
LEMMA ReturnKeeps == ASSUME SignerInv, NEW g \in Goroutine, Return(g) PROVE SignerInv'
<1> USE SignerAssumption DEF SignerInv, Return, Goto, fields
<1>1. SignerTypeOK'
  BY DEF SignerTypeOK, PCs, Space, Key, SpaceOf
<1>2. OpenInv'
  BY DEF SignerTypeOK, OpenInv, Connected, ResourceManager, PCs
<1>3. SignKeyStays'
  BY DEF SignerTypeOK, OpenInv, Connected, SignKeyStays, StoreInv, SpaceOf, Space, ResourceManager, Key, PCs
<1>4. SignatureInv'
  BY DEF SignerTypeOK, SignKeyStays, SignatureInv, PCs
<1>5. NoSilentLeak'
  BY DEF SignerTypeOK, OpenInv, Connected, SignKeyStays, NoSilentLeak, SpaceOf, Space,
      ResourceManager, Key, PCs
<1>6. StoreInv'
  BY DEF SignerTypeOK, StoreInv, PCs
<1> QED  BY <1>1, <1>2, <1>3, <1>4, <1>5, <1>6

\* Others use the raw device only while no goroutine does.
LEMMA OtherProgramKeeps == ASSUME SignerInv, OtherProgram PROVE SignerInv'
<1> USE SignerAssumption DEF SignerInv, OtherProgram, fields
<1>1. ~ResourceManager /\ \A g \in Goroutine : at[g] \notin Connected
  BY DEF OpenInv
<1>2. \E x \in Handles, k \in Key \cup {NoKey} :
        loaded' = [loaded EXCEPT ![Shared] = [@ EXCEPT ![x] = k]]
  BY DEF Key
<1>3. SignerTypeOK'
  BY <1>2 DEF SignerTypeOK, Space
<1>4. SignKeyStays' /\ NoSilentLeak'
  BY <1>1 DEF SignKeyStays, NoSilentLeak, Connected
<1> QED  BY <1>3, <1>4 DEF OpenInv, StoreInv, SignatureInv, ResourceManager

\* The invariant is inductive.
LEMMA SignerNextInv == SignerInv /\ [SignerNext]_signerVars => SignerInv'
<1> SUFFICES ASSUME SignerInv, [SignerNext]_signerVars PROVE SignerInv'
  OBVIOUS
<1>1. CASE UNCHANGED signerVars
  BY <1>1 DEF signerVars, SignerInv, SignerTypeOK, OpenInv, StoreInv, SignKeyStays,
      SignatureInv, NoSilentLeak,
              ResourceManager, SpaceOf
<1>2. CASE SignerNext
  BY <1>2, CallPublicKeeps, CallSignKeeps, SignerOpenKeeps, LoadKeeps, StoreKeeps, ReadPublicKeyKeeps,
     SignKeeps, UnloadKeeps, SignerCloseKeeps, ReturnKeeps, OtherProgramKeeps DEF SignerNext, Step
<1> QED  BY <1>1, <1>2

\* It follows from Spec.
LEMMA SignerInductive == SignerSpec => []SignerInv
BY SignerInitInv, SignerNextInv, PTL DEF SignerSpec

\* A signature that Sign returns without an error is by the Signer's own key,
\* which stays loaded under its handle while Sign uses it: however many
\* goroutines call Public and Sign at once, whatever other programs load into
\* the raw device, and whichever commands fail.
THEOREM SignatureIsOwn == SignerSpec => []SignedByMine
<1>1. SignerInv => SignedByMine
  BY DEF SignerInv, SignedByMine, SignatureInv
<1> QED  BY <1>1, SignerInductive, PTL

\* A Sign that has no error to report has flushed the object it loaded.
THEOREM NoLeakUnreported == SignerSpec => []NoSilentLeak
<1>1. SignerInv => NoSilentLeak
  BY DEF SignerInv
<1> QED  BY <1>1, SignerInductive, PTL

-----------------------------------------------------------------------------

\* Behind the resource manager the Signer meets no key but its own.
OwnKeysOnly ==
    ResourceManager =>
        /\ publicKey \in {Mine, NoKey}
        /\ ret \in [Goroutine -> {Mine, NoKey}]
        /\ loaded \in [Space -> [Handles -> {Mine, NoKey}]]

\* No step of a goroutine brings a foreign key into a space of its own.
LEMMA OwnKeysNext == SignerTypeOK /\ OwnKeysOnly /\ [SignerNext]_signerVars => OwnKeysOnly'
<1> SUFFICES ASSUME SignerTypeOK, OwnKeysOnly, [SignerNext]_signerVars, ResourceManager'
             PROVE  /\ publicKey' \in {Mine, NoKey}
                    /\ ret' \in [Goroutine -> {Mine, NoKey}]
                    /\ loaded' \in [Space -> [Handles -> {Mine, NoKey}]]
  BY DEF OwnKeysOnly
<1>1. ResourceManager
  BY DEF ResourceManager, SignerNext, Step, CallPublic, CallSign, OpenTPM, Load, Store, ReadPublicKey, Sign,
         Unload, CloseTPM, Return, OtherProgram, fields, signerVars
<1>2. /\ publicKey \in {Mine, NoKey}
      /\ ret \in [Goroutine -> {Mine, NoKey}]
      /\ loaded \in [Space -> [Handles -> {Mine, NoKey}]]
  BY <1>1 DEF OwnKeysOnly
<1>3. CASE UNCHANGED signerVars
  BY <1>2, <1>3 DEF signerVars
<1>4. ASSUME NEW g \in Goroutine, CallPublic(g) \/ \E ok \in BOOLEAN : CallSign(g, ok)
      PROVE  publicKey' = publicKey /\ loaded' = loaded /\ ret' \in [Goroutine -> {Mine, NoKey}]
  BY <1>2, <1>4 DEF CallPublic, CallSign, fields
<1>5. ASSUME NEW g \in Goroutine, OpenTPM(g) \/ Store(g) \/ Return(g)
      PROVE  publicKey' = publicKey /\ loaded' = loaded /\ ret' = ret
  BY <1>5 DEF OpenTPM, Store, Return, fields
<1>6. ASSUME NEW g \in Goroutine, Load(g) \/ Unload(g)
      PROVE  publicKey' = publicKey /\ ret' = ret /\ loaded' \in [Space -> [Handles -> {Mine, NoKey}]]
  <2>1. publicKey' = publicKey /\ ret' = ret
    BY <1>6 DEF Load, Unload, fields
  <2>2. loaded' = loaded \/ \E x \in Handles, k \in {Mine, NoKey} :
                                loaded' = [loaded EXCEPT ![SpaceOf(g)] = [@ EXCEPT ![x] = k]]
    BY <1>6 DEF Load, Unload, SignerTypeOK
  <2>3. SpaceOf(g) \in Space
    BY DEF SpaceOf, Space
  <2>4. ASSUME NEW x \in Handles, NEW k \in {Mine, NoKey}
        PROVE  [loaded EXCEPT ![SpaceOf(g)] = [@ EXCEPT ![x] = k]] \in [Space -> [Handles -> {Mine, NoKey}]]
    <3>1. [loaded[SpaceOf(g)] EXCEPT ![x] = k] \in [Handles -> {Mine, NoKey}]
      BY <1>2, <2>3
    <3> QED  BY <1>2, <2>3, <3>1
  <2> QED  BY <1>2, <2>1, <2>2, <2>4
<1>7. ASSUME NEW g \in Goroutine, ReadPublicKey(g) \/ Sign(g)
      PROVE  /\ loaded' = loaded
             /\ publicKey' \in {Mine, NoKey} /\ ret' \in [Goroutine -> {Mine, NoKey}]
  <2>1. SpaceOf(g) \in Space /\ h[g] \in Handles
    BY <1>7 DEF SpaceOf, Space, SignerTypeOK, ReadPublicKey, Sign
  <2>2. loaded[SpaceOf(g)][h[g]] \in {Mine, NoKey}
    BY <1>2, <2>1
  <2> QED  BY <1>2, <1>7, <2>2 DEF ReadPublicKey, Sign, fields
<1>8. ASSUME NEW g \in Goroutine, CloseTPM(g)
      PROVE  publicKey' = publicKey /\ ret' = ret /\ loaded' \in [Space -> [Handles -> {Mine, NoKey}]]
  BY <1>2, <1>8 DEF CloseTPM, fields, Space
<1>9. ~OtherProgram
  BY <1>1 DEF OtherProgram
<1> QED  BY <1>2, <1>3, <1>4, <1>5, <1>6, <1>7, <1>8, <1>9 DEF SignerNext, Step

\* What is a finding on the raw device cannot happen behind the resource
\* manager: there Public returns and keeps the Signer's own key or nil, although
\* Unload goes on holding a handle of an earlier connection.
THEOREM PublicIsOwnBehindManager == SignerSpec => [](ResourceManager => PublicIsMine)
<1>1. SignerInit => OwnKeysOnly
  BY DEF SignerInit, OwnKeysOnly
<1>2. SignerInv => SignerTypeOK
  BY DEF SignerInv
<1>3. OwnKeysOnly => (ResourceManager => PublicIsMine)
  BY DEF OwnKeysOnly, PublicIsMine
<1> QED  BY <1>1, <1>2, <1>3, SignerInductive, OwnKeysNext, PTL DEF SignerSpec

-----------------------------------------------------------------------------
(* The log handler.  Positions in a derivation and in a list of attributes *)
(* are related by their ranks.                                             *)

\* The members of a finite set of numbers have different ranks, in order, and
\* together these are the numbers up to its size.
LEMMA Ranks ==
    ASSUME NEW S, S \subseteq Nat, IsFiniteSet(S)
    PROVE  /\ Cardinality(S) \in Nat
           /\ \A i \in S : Rank(S, i) \in 1 .. Cardinality(S)
           /\ \A i, j \in S : i < j <=> Rank(S, i) < Rank(S, j)
           /\ \A i, j \in S : i = j <=> Rank(S, i) = Rank(S, j)
           /\ \A k \in 1 .. Cardinality(S) : \E i \in S : Rank(S, i) = k
<1> DEFINE n == Cardinality(S)
<1> DEFINE Upto(i) == {j \in S : j <= i}
<1>1. n \in Nat
  BY FS_CardinalityType
<1>2. ASSUME NEW i \in S
      PROVE  Rank(S, i) \in 1 .. n /\ IsFiniteSet(Upto(i)) /\ Rank(S, i) = Cardinality(Upto(i))
  <2>1. Upto(i) \in SUBSET S /\ i \in Upto(i)
    OBVIOUS
  <2>2. IsFiniteSet(Upto(i)) /\ Cardinality(Upto(i)) <= n
    BY <2>1, FS_Subset
  <2>3. Cardinality(Upto(i)) \in Nat /\ Cardinality(Upto(i)) # 0
    BY <2>1, <2>2, FS_CardinalityType, FS_EmptySet
  <2>4. Rank(S, i) = Cardinality(Upto(i))
    BY DEF Rank
  <2> HIDE DEF Upto
  <2> QED  BY <1>1, <2>2, <2>3, <2>4
<1>3. ASSUME NEW i \in S, NEW j \in S, i < j PROVE Rank(S, i) < Rank(S, j)
  <2>1. Upto(i) \in SUBSET Upto(j) /\ j \in Upto(j) /\ j \notin Upto(i)
    <3>1. i \in Nat /\ j \in Nat /\ ~(j <= i) /\ \A l \in S : l \in Nat /\ (l <= i => l <= j)
      BY <1>3
    <3>2. \A l \in S : l \in Upto(i) => l \in Upto(j)
      BY <3>1
    <3>3. j \in Upto(j) /\ j \notin Upto(i)
      BY <3>1
    <3>4. Upto(i) \subseteq S
      OBVIOUS
    <3> HIDE DEF Upto
    <3> QED  BY <3>2, <3>3, <3>4
  <2>2. Cardinality(Upto(i)) <= Cardinality(Upto(j)) /\ Cardinality(Upto(i)) # Cardinality(Upto(j))
    BY <1>2, <2>1, FS_Subset
  <2> HIDE DEF Upto
  <2> QED  BY <1>1, <1>2, <2>2
<1> HIDE DEF Upto
<1>4. \A i, j \in S : i < j <=> Rank(S, i) < Rank(S, j)
  <2> SUFFICES ASSUME NEW i \in S, NEW j \in S PROVE i < j <=> Rank(S, i) < Rank(S, j)
    OBVIOUS
  <2>1. i < j \/ i = j \/ j < i
    OBVIOUS
  <2> QED  BY <1>1, <1>2, <1>3, <2>1
<1>5. \A i, j \in S : i = j <=> Rank(S, i) = Rank(S, j)
  <2> SUFFICES ASSUME NEW i \in S, NEW j \in S, i # j PROVE Rank(S, i) # Rank(S, j)
    OBVIOUS
  <2>1. i < j \/ j < i
    OBVIOUS
  <2> QED  BY <1>1, <1>2, <1>3, <2>1
<1>6. \A k \in 1 .. n : \E i \in S : Rank(S, i) = k
  <2> DEFINE f == [i \in S |-> Rank(S, i)]
  <2>1. f \in Injection(S, 1 .. n)
    BY <1>2, <1>5 DEF Injection, IsInjective
  <2>2. IsFiniteSet(1 .. n) /\ Cardinality(1 .. n) = n
    BY <1>1, FS_Interval
  <2>3. f \in Surjection(S, 1 .. n)
    BY <2>1, <2>2, FS_Injection
  <2> QED  BY <2>3 DEF Surjection
<1> QED  BY <1>1, <1>2, <1>4, <1>5, <1>6

\* Ranks are numbers.
LEMMA RankTypes ==
    ASSUME NEW S, S \subseteq Nat, IsFiniteSet(S) PROVE \A i \in S : i \in Nat /\ Rank(S, i) \in Nat
<1> DEFINE n == Cardinality(S)
<1>1. n \in Nat /\ \A i \in S : Rank(S, i) \in 1 .. n
  BY Ranks
<1> HIDE DEF n
<1> QED  BY <1>1

\* Nth is the inverse of Rank.
LEMMA NthIs ==
    ASSUME NEW S, S \subseteq Nat, IsFiniteSet(S)
    PROVE  /\ \A i \in S : Nth(S, Rank(S, i)) = i
           /\ \A k \in 1 .. Cardinality(S) : Nth(S, k) \in S /\ Rank(S, Nth(S, k)) = k
<1>1. ASSUME NEW k \in 1 .. Cardinality(S) PROVE Nth(S, k) \in S /\ Rank(S, Nth(S, k)) = k
  BY Ranks, Zenon DEF Nth
<1>2. ASSUME NEW i \in S PROVE Nth(S, Rank(S, i)) = i
  <2>1. Rank(S, i) \in 1 .. Cardinality(S)
    BY Ranks
  <2> QED  BY <1>1, <2>1, Ranks
<1> QED  BY <1>1, <1>2

\* T has the members of S, all of them up to a, and the n numbers after a.
Continues(T, S, a, n) ==
    /\ a \in Nat /\ n \in Nat
    /\ S \in SUBSET (1 .. a) /\ T = S \cup ((1 .. a + n) \ (1 .. a))

\* Numbers that follow those of a set come after them.
LEMMA RanksFollow ==
    ASSUME NEW T, NEW S, NEW a, NEW n, Continues(T, S, a, n)
    PROVE  /\ IsFiniteSet(S) /\ IsFiniteSet(T) /\ Cardinality(S) \in Nat
           /\ Cardinality(T) = Cardinality(S) + n
           /\ \A i \in S : Rank(T, i) = Rank(S, i)
           /\ \A k \in 1 .. n : Rank(T, a + k) = Cardinality(S) + k
<1> DEFINE b == a + n
<1>1. /\ a \in Nat /\ b \in Nat /\ a <= b
      /\ S \in SUBSET (1 .. a) /\ T = S \cup ((1 .. b) \ (1 .. a))
  BY DEF Continues
<1>2. n \in Nat /\ n = b - a /\ \A k \in 1 .. n : a + k \in a .. b /\ a + k \in (1 .. b) \ (1 .. a)
  BY DEF Continues
<1> HIDE DEF b
<1> USE <1>1
<1>3. IsFiniteSet(S) /\ Cardinality(S) \in Nat
  <2>1. IsFiniteSet(1 .. a)
    BY FS_Interval
  <2>2. IsFiniteSet(S)
    BY <2>1, FS_Subset
  <2> QED  BY <2>2, FS_CardinalityType
<1>4. ASSUME NEW i \in a .. b, NEW U, U = S \cup ((a + 1) .. i)
      PROVE  IsFiniteSet(U) /\ Cardinality(U) = Cardinality(S) + (i - a)
  <2>1. IsFiniteSet((a + 1) .. i) /\ Cardinality((a + 1) .. i) = i - a
    <3>1. a + 1 \in Int /\ i \in Int /\ (IF a + 1 > i THEN 0 ELSE i - (a + 1) + 1) = i - a
      OBVIOUS
    <3> QED  BY <3>1, FS_Interval
  <2>2. S \cap ((a + 1) .. i) = {}
    OBVIOUS
  <2>3. IsFiniteSet(U)
        /\ Cardinality(U) = Cardinality(S) + Cardinality((a + 1) .. i) - Cardinality(S \cap ((a + 1) .. i))
    BY <1>3, <1>4, <2>1, FS_Union
  <2>4. Cardinality(S \cap ((a + 1) .. i)) = 0
    BY <2>2, FS_EmptySet
  <2> QED  BY <1>3, <2>1, <2>3, <2>4
<1>5. ASSUME NEW i \in S PROVE Rank(T, i) = Rank(S, i)
  <2>1. {j \in T : j <= i} = {j \in S : j <= i}
    OBVIOUS
  <2> QED  BY <2>1 DEF Rank
<1>6. ASSUME NEW i \in a .. b PROVE {j \in T : j <= i} = S \cup ((a + 1) .. i)
  <2> SUFFICES ASSUME NEW j
               PROVE  (j \in T /\ j <= i) <=> (j \in S \/ j \in (a + 1) .. i)
    OBVIOUS
  <2>1. CASE j \in S
    BY <2>1
  <2>2. CASE j \notin S
    BY <2>2
  <2> QED  BY <2>1, <2>2
<1>7. ASSUME NEW k \in 1 .. n PROVE Rank(T, a + k) = Cardinality(S) + k
  <2>1. a + k \in a .. b /\ a + k - a = k
    BY <1>2
  <2>2. Rank(T, a + k) = Cardinality(S) + (a + k - a)
    BY <2>1, <1>4, <1>6 DEF Rank
  <2> QED  BY <2>1, <2>2
<1>8. IsFiniteSet(T) /\ Cardinality(T) = Cardinality(S) + n
  <2>1. b \in a .. b /\ T = S \cup ((a + 1) .. b)
    OBVIOUS
  <2> QED  BY <2>1, <1>4, <1>2
<1> QED  BY <1>3, <1>5, <1>7, <1>8

RanksOf(N, S) == {Rank(S, i) : i \in N}

\* The ranks of some members have the ranks these have among themselves.
LEMMA RanksOfRanks ==
    ASSUME NEW S, S \subseteq Nat, IsFiniteSet(S), NEW N \in SUBSET S
    PROVE  /\ IsFiniteSet(N) /\ IsFiniteSet(RanksOf(N, S)) /\ RanksOf(N, S) \subseteq Nat
           /\ Cardinality(RanksOf(N, S)) = Cardinality(N)
           /\ \A i \in N : Rank(RanksOf(N, S), Rank(S, i)) = Rank(N, i)
<1> DEFINE W == RanksOf(N, S)
<1> USE DEF RanksOf
<1>1. ASSUME NEW M \in SUBSET S
      PROVE  /\ IsFiniteSet(M) /\ IsFiniteSet({Rank(S, i) : i \in M})
             /\ Cardinality({Rank(S, i) : i \in M}) = Cardinality(M)
  <2> DEFINE f == [i \in M |-> Rank(S, i)]
  <2>1. IsFiniteSet(M)
    BY FS_Subset
  <2>2. f \in Bijection(M, {Rank(S, i) : i \in M})
    <3>1. \A i, j \in M : i # j => Rank(S, i) # Rank(S, j)
      BY Ranks
    <3> QED  BY <3>1 DEF Bijection, Injection, Surjection, IsInjective
  <2> QED  BY <2>1, <2>2, FS_Bijection DEF ExistsBijection
<1>2. ASSUME NEW i \in N PROVE Rank(W, Rank(S, i)) = Rank(N, i)
  <2>1. {w \in W : w <= Rank(S, i)} = {Rank(S, j) : j \in {l \in N : l <= i}}
    <3>1. \A j \in N : Rank(S, j) <= Rank(S, i) <=> j <= i
      <4> SUFFICES ASSUME NEW j \in N PROVE Rank(S, j) <= Rank(S, i) <=> j <= i
        OBVIOUS
      <4>1. \A l \in S : l \in Nat /\ Rank(S, l) \in Nat
        BY RankTypes
      <4>2. Rank(S, j) \in Nat /\ Rank(S, i) \in Nat /\ i \in Nat /\ j \in Nat
        BY <4>1
      <4>3. (i < j) <=> (Rank(S, i) < Rank(S, j))
        BY Ranks
      <4> QED  BY <4>2, <4>3
    <3> QED  BY <3>1
  <2>2. {l \in N : l <= i} \in SUBSET S
    OBVIOUS
  <2> QED  BY <1>1, <2>1, <2>2 DEF Rank
<1>3. W \subseteq Nat
  BY RankTypes
<1> QED  BY <1>1, <1>2, <1>3
\* Steps of a derivation, and what a handler keeps of them.
AttrStep == [op : {"attr"}, attr : Attr]
GroupStep == [op : {"group"}, name : GroupNames]
DeriveStep == AttrStep \cup GroupStep
GroupedAttr == [attr : Attr, group : Seq(GroupNames)]

GroupsBefore(p, i) == {j \in 1 .. i - 1 : p[j].op = "group"}

\* The attributes s are those of the derivation p, each with the groups that
\* were open.
Lists(s, p) ==
    /\ Len(s) = Cardinality(AttrSteps(p))
    /\ \A i \in AttrSteps(p) :
         s[Rank(AttrSteps(p), i)] = [attr |-> p[i].attr, group |-> OpenGroups(p, i)]

\* The open groups are the steps that opened them, in order.
LEMMA OpenAs ==
    ASSUME NEW p, NEW i \in Nat
    PROVE  LET G == GroupsBefore(p, i)
           IN  /\ G \subseteq Nat /\ IsFiniteSet(G) /\ Cardinality(G) \in Nat
               /\ OpenGroups(p, i) = [k \in 1 .. Cardinality(G) |-> p[Nth(G, k)].name]
               /\ \A k \in 1 .. Cardinality(G) : Nth(G, k) \in G
<1> DEFINE G == GroupsBefore(p, i)
<1>1. G \subseteq 1 .. i - 1
  BY DEF GroupsBefore
<1>2. IsFiniteSet(1 .. i - 1)
  BY FS_Interval
<1>3. G \subseteq Nat /\ IsFiniteSet(G)
  BY <1>1, <1>2, FS_Subset
<1>4. Cardinality(G) \in Nat /\ \A k \in 1 .. Cardinality(G) : Nth(G, k) \in G
  BY <1>3, FS_CardinalityType, NthIs
<1>5. OpenGroups(p, i) = [k \in 1 .. Cardinality(G) |-> p[Nth(G, k)].name]
  <2> DEFINE steps == [k \in 1 .. Cardinality(G) |-> p[Nth(G, k)]]
  <2>1. steps = Select(p, {j \in 1 .. i - 1 : p[j].op = "group"})
    BY DEF Select, GroupsBefore
  <2>2. OpenGroups(p, i) = [k \in DOMAIN steps |-> steps[k].name]
    BY <2>1 DEF OpenGroups
  <2>3. DOMAIN steps = 1 .. Cardinality(G) /\ \A k \in 1 .. Cardinality(G) : steps[k] = p[Nth(G, k)]
    OBVIOUS
  <2> HIDE DEF steps
  <2> QED  BY <2>2, <2>3
<1> QED  BY <1>3, <1>4, <1>5

\* They depend on these steps only.
LEMMA OpenSame ==
    ASSUME NEW p, NEW q, NEW i \in Nat, NEW j \in Nat,
           GroupsBefore(p, i) = GroupsBefore(q, j),
           \A k \in GroupsBefore(p, i) : p[k] = q[k]
    PROVE  OpenGroups(p, i) = OpenGroups(q, j)
<1> DEFINE G == GroupsBefore(p, i)
<1>1. /\ OpenGroups(p, i) = [k \in 1 .. Cardinality(G) |-> p[Nth(G, k)].name]
      /\ OpenGroups(q, j) = [k \in 1 .. Cardinality(G) |-> q[Nth(G, k)].name]
      /\ \A k \in 1 .. Cardinality(G) : Nth(G, k) \in G
  BY OpenAs
<1>2. \A k \in 1 .. Cardinality(G) : p[Nth(G, k)].name = q[Nth(G, k)].name
  BY <1>1
<1> HIDE DEF G
<1> QED  BY <1>1, <1>2

\* What is appended to a derivation, unless it is a group.
LEMMA OpenLater ==
    ASSUME NEW p \in Seq(DeriveStep), NEW q \in Seq(DeriveStep), NEW i \in 1 .. Len(p) + Len(q) + 1,
           i <= Len(p) + 1 \/ q \in Seq(AttrStep)
    PROVE  OpenGroups(p \o q, i) = OpenGroups(p, IF i <= Len(p) + 1 THEN i ELSE Len(p) + 1)
<1> DEFINE n == IF i <= Len(p) + 1 THEN i ELSE Len(p) + 1
<1> DEFINE pq == p \o q
<1>1. Len(p) \in Nat /\ Len(q) \in Nat /\ i \in Nat /\ n \in Nat /\ n <= Len(p) + 1 /\ n <= i
  OBVIOUS
<1>2. \A k \in 1 .. Len(p) : pq[k] = p[k]
  OBVIOUS
<1>3. \A k \in 1 .. i - 1 : k > Len(p) => pq[k].op # "group"
  <2> SUFFICES ASSUME NEW k \in 1 .. i - 1, k > Len(p) PROVE pq[k].op = "attr"
    OBVIOUS
  <2>1. q \in Seq(AttrStep) /\ k - Len(p) \in 1 .. Len(q)
    BY <1>1
  <2>2. pq[k] = q[k - Len(p)]
    BY <2>1
  <2>3. q[k - Len(p)] \in AttrStep
    BY <2>1
  <2> QED  BY <2>2, <2>3 DEF AttrStep
<1> HIDE DEF pq
<1>4. \A k \in 1 .. i - 1 : k <= Len(p) => k \in 1 .. n - 1
  BY <1>1
<1>5. \A k \in 1 .. n - 1 : k \in 1 .. i - 1 /\ k \in 1 .. Len(p)
  BY <1>1
<1>6. \A k \in 1 .. i - 1 : k <= Len(p) \/ k > Len(p)
  BY <1>1
<1> HIDE DEF n
<1>7. GroupsBefore(pq, i) = GroupsBefore(p, n)
  BY <1>2, <1>3, <1>4, <1>5, <1>6, Zenon DEF GroupsBefore
<1>8. \A k \in GroupsBefore(pq, i) : pq[k] = p[k]
  BY <1>2, <1>5, <1>7 DEF GroupsBefore
<1>9. OpenGroups(pq, i) = OpenGroups(p, n)
  BY <1>1, <1>7, <1>8, OpenSame
<1> QED  BY <1>9 DEF n, pq

\* A group that is opened is the innermost.
LEMMA OpenGroup ==
    ASSUME NEW p \in Seq(DeriveStep), NEW name \in GroupNames
    PROVE  OpenGroups(Append(p, [op |-> "group", name |-> name]), Len(p) + 2)
             = Append(OpenGroups(p, Len(p) + 1), name)
<1> DEFINE m == Len(p)
<1> DEFINE pq == Append(p, [op |-> "group", name |-> name])
<1> DEFINE G == GroupsBefore(p, m + 1)
<1> DEFINE H == GroupsBefore(pq, m + 2)
<1> DEFINE n == Cardinality(G)
<1>1. m \in Nat /\ m + 1 - 1 = m /\ m + 2 - 1 = m + 1 /\ m + 2 \in Nat /\ m + 1 \in Nat
  OBVIOUS
<1>2. (\A k \in 1 .. m : pq[k] = p[k]) /\ pq[m + 1] = [op |-> "group", name |-> name]
  OBVIOUS
<1> HIDE DEF pq, m
<1>3. G \in SUBSET (1 .. m) /\ H = G \cup ((1 .. m + 1) \ (1 .. m))
  <2>1. \A k : k \in 1 .. m + 1 <=> k \in 1 .. m \/ k = m + 1
    BY <1>1
  <2>2. (1 .. m + 1) \ (1 .. m) = {m + 1}
    BY <1>1
  <2>3. G = {k \in 1 .. m : p[k].op = "group"} /\ H = {k \in 1 .. m + 1 : pq[k].op = "group"}
    BY <1>1 DEF GroupsBefore
  <2> QED  BY <1>2, <2>1, <2>2, <2>3
<1>4. /\ G \subseteq Nat /\ IsFiniteSet(G) /\ n \in Nat
      /\ OpenGroups(p, m + 1) = [k \in 1 .. n |-> p[Nth(G, k)].name]
      /\ \A k \in 1 .. n : Nth(G, k) \in G
  BY <1>1, OpenAs
<1>5. /\ H \subseteq Nat /\ IsFiniteSet(H)
      /\ OpenGroups(pq, m + 2) = [k \in 1 .. Cardinality(H) |-> pq[Nth(H, k)].name]
  BY <1>1, OpenAs
<1> HIDE DEF G, H
<1>6. Cardinality(H) = n + 1 /\ (\A i \in G : Rank(H, i) = Rank(G, i)) /\ Rank(H, m + 1) = n + 1
  <2>1. Continues(H, G, m, 1) /\ 1 \in 1 .. 1
    BY <1>1, <1>3 DEF Continues
  <2>2. /\ Cardinality(H) = n + 1
        /\ \A i \in G : Rank(H, i) = Rank(G, i)
        /\ \A k \in 1 .. 1 : Rank(H, m + k) = n + k
    BY <2>1, RanksFollow
  <2> QED  BY <1>1, <2>1, <2>2
<1>7. ASSUME NEW k \in 1 .. n PROVE pq[Nth(H, k)].name = p[Nth(G, k)].name
  <2>1. Nth(G, k) \in G /\ Rank(G, Nth(G, k)) = k
    BY <1>4, NthIs
  <2>2. Nth(G, k) \in H /\ Rank(H, Nth(G, k)) = k
    BY <2>1, <1>3, <1>6
  <2>3. Nth(H, k) = Nth(G, k)
    BY <2>2, <1>5, NthIs
  <2> QED  BY <2>1, <2>3, <1>2, <1>3
<1>8. pq[Nth(H, n + 1)].name = name
  <2>1. m + 1 \in H
    BY <1>1, <1>3
  <2>2. Nth(H, n + 1) = m + 1
    BY <2>1, <1>5, <1>6, NthIs
  <2> QED  BY <2>2, <1>2
<1> HIDE DEF n
<1>9. OpenGroups(pq, m + 2) = Append(OpenGroups(p, m + 1), name)
  <2> DEFINE old == [k \in 1 .. n |-> p[Nth(G, k)].name]
  <2> DEFINE new == [k \in 1 .. n + 1 |-> pq[Nth(H, k)].name]
  <2>1. Append(old, name) = [k \in 1 .. n + 1 |-> IF k <= n THEN old[k] ELSE name]
    BY <1>4
  <2>2. \A k \in 1 .. n + 1 : new[k] = IF k <= n THEN old[k] ELSE name
    <3> SUFFICES ASSUME NEW k \in 1 .. n + 1 PROVE new[k] = IF k <= n THEN old[k] ELSE name
      OBVIOUS
    <3>1. CASE k <= n
      <4>1. k \in 1 .. n
        BY <3>1, <1>4
      <4> QED  BY <4>1, <1>7
    <3>2. CASE ~(k <= n)
      <4>1. k = n + 1
        BY <3>2, <1>4
      <4>2. new[k] = pq[Nth(H, k)].name
        OBVIOUS
      <4> QED  BY <4>1, <4>2, <1>8, <3>2
    <3> QED  BY <3>1, <3>2
  <2>3. new = [k \in 1 .. n + 1 |-> IF k <= n THEN old[k] ELSE name]
    BY <2>2
  <2> QED  BY <2>1, <2>3, <1>4, <1>5, <1>6
<1> QED  BY <1>9 DEF pq, m

\* The length of a concatenation.
LEMMA ConcatLen ==
    ASSUME NEW E, NEW s \in Seq(E), NEW u \in Seq(E) PROVE Len(s \o u) = Len(s) + Len(u)
OBVIOUS

\* A sequence over a set is one over a larger set.
LEMMA SeqOfMore ==
    ASSUME NEW S, NEW T, S \subseteq T, NEW s \in Seq(S) PROVE s \in Seq(T)
<1>1. Len(s) \in Nat /\ s = [k \in 1 .. Len(s) |-> s[k]]
  OBVIOUS
<1>2. \A k \in 1 .. Len(s) : s[k] \in T
  OBVIOUS
<1> QED  BY <1>1, <1>2

\* Attributes that are added to a derivation and to its list.
LEMMA ListsMore ==
    ASSUME NEW p \in Seq(DeriveStep), NEW s \in Seq(GroupedAttr), Lists(s, p),
           NEW q \in Seq(AttrStep), NEW u \in Seq(GroupedAttr), Len(u) = Len(q),
           \A k \in 1 .. Len(q) : u[k] = [attr |-> q[k].attr, group |-> OpenGroups(p, Len(p) + 1)]
    PROVE  Lists(s \o u, p \o q)
<1> DEFINE m == Len(p)
<1> DEFINE n == Len(q)
<1> DEFINE pq == p \o q
<1> DEFINE A == AttrSteps(p)
<1> DEFINE B == AttrSteps(pq)
<1>1. m \in Nat /\ n \in Nat /\ q \in Seq(DeriveStep)
  <2>1. AttrStep \subseteq DeriveStep
    BY DEF DeriveStep
  <2>2. q \in Seq(DeriveStep)
    BY <2>1, SeqOfMore, Zenon
  <2>3. m \in Nat /\ n \in Nat
    OBVIOUS
  <2> QED  BY <2>2, <2>3
<1>2. /\ DOMAIN p = 1 .. m /\ DOMAIN pq = 1 .. m + n
      /\ \A k \in 1 .. m : pq[k] = p[k]
      /\ \A k \in 1 .. n : pq[m + k] = q[k]
      /\ \A k \in 1 .. n : q[k].op = "attr"
  <2>1. DOMAIN p = 1 .. m /\ DOMAIN pq = 1 .. m + n
    BY <1>1
  <2>2. (\A k \in 1 .. m : pq[k] = p[k]) /\ (\A k \in 1 .. n : pq[m + k] = q[k])
    BY <1>1
  <2>3. ASSUME NEW k \in 1 .. n PROVE q[k].op = "attr"
    <3>1. q[k] \in AttrStep
      OBVIOUS
    <3> QED  BY <3>1 DEF AttrStep
  <2> QED  BY <2>1, <2>2, <2>3
<1>3. A \in SUBSET (1 .. m) /\ B = A \cup ((1 .. m + n) \ (1 .. m))
  <2>1. \A k \in 1 .. m : k \in 1 .. m + n
    BY <1>1
  <2>2. ASSUME NEW k \in (1 .. m + n) \ (1 .. m) PROVE pq[k].op = "attr"
    <3>1. k - m \in 1 .. n /\ k = m + (k - m)
      BY <1>1
    <3> QED  BY <3>1, <1>2
  <2>3. A = {k \in 1 .. m : p[k].op = "attr"} /\ B = {k \in 1 .. m + n : pq[k].op = "attr"}
    BY <1>2 DEF AttrSteps
  <2> HIDE DEF A, B, pq, m, n
  <2> QED  BY <1>2, <2>1, <2>2, <2>3
<1>4. Len(s) = Cardinality(A) /\ Len(s) \in Nat
      /\ \A i \in A : s[Rank(A, i)] = [attr |-> p[i].attr, group |-> OpenGroups(p, i)]
  BY DEF Lists
<1>5. /\ IsFiniteSet(A) /\ Cardinality(B) = Len(s) + n
      /\ \A i \in A : Rank(B, i) = Rank(A, i)
      /\ \A k \in 1 .. n : Rank(B, m + k) = Len(s) + k
  <2> HIDE DEF A, B, pq, m, n
  <2>1. Continues(B, A, m, n)
    BY <1>1, <1>3 DEF Continues
  <2>2. /\ IsFiniteSet(A) /\ Cardinality(B) = Cardinality(A) + n
        /\ \A i \in A : Rank(B, i) = Rank(A, i)
        /\ \A k \in 1 .. n : Rank(B, m + k) = Cardinality(A) + k
    BY <2>1, RanksFollow
  <2> QED  BY <2>2, <1>4
<1>6. A \subseteq Nat /\ \A i \in A : Rank(A, i) \in 1 .. Len(s)
  <2>1. A \subseteq Nat
    BY <1>1, <1>3
  <2> QED  BY <2>1, <1>4, <1>5, Ranks
<1>7. /\ Len(s \o u) = Len(s) + n
      /\ \A k \in 1 .. Len(s) : (s \o u)[k] = s[k]
      /\ \A k \in 1 .. n : (s \o u)[Len(s) + k] = u[k]
  <2>1. Len(s) \in Nat /\ Len(u) = n
    OBVIOUS
  <2>2. Len(s \o u) = Len(s) + Len(u)
    BY ConcatLen, Zenon
  <2>3. \A k \in 1 .. Len(s) : (s \o u)[k] = s[k]
    OBVIOUS
  <2>4. ASSUME NEW k \in 1 .. Len(u) PROVE (s \o u)[Len(s) + k] = u[k]
    <3>1. Len(s) + k \in 1 .. Len(s) + Len(u) /\ ~(Len(s) + k <= Len(s)) /\ Len(s) + k - Len(s) = k
      BY <2>1
    <3> QED  BY <3>1, <2>1
  <2> QED  BY <2>1, <2>2, <2>3, <2>4
<1>8. ASSUME NEW i \in A PROVE OpenGroups(pq, i) = OpenGroups(p, i) /\ pq[i] = p[i]
  <2>1. i \in 1 .. m
    BY <1>3
  <2>2. i \in 1 .. m + n + 1 /\ i <= m + 1
    BY <1>1, <2>1
  <2>3. OpenGroups(pq, i) = OpenGroups(p, i)
    BY <1>1, <2>2, OpenLater
  <2> QED  BY <1>2, <2>1, <2>3
<1>9. ASSUME NEW k \in 1 .. n PROVE OpenGroups(pq, m + k) = OpenGroups(p, m + 1)
  <2>1. m + k \in 1 .. m + n + 1 /\ (m + k <= m + 1 => m + k = m + 1)
    BY <1>1
  <2>2. OpenGroups(pq, m + k) = OpenGroups(p, IF m + k <= m + 1 THEN m + k ELSE m + 1)
    BY <1>1, <2>1, OpenLater
  <2> QED  BY <2>1, <2>2
<1>10. ASSUME NEW i \in B
       PROVE  (s \o u)[Rank(B, i)] = [attr |-> pq[i].attr, group |-> OpenGroups(pq, i)]
  <2>1. CASE i \in A
    BY <2>1, <1>4, <1>5, <1>6, <1>7, <1>8, ZenonT(30)
  <2>2. CASE i \notin A
    <3>1. PICK k \in 1 .. n : i = m + k
      <4>1. i \in (1 .. m + n) \ (1 .. m)
        BY <2>2, <1>3
      <4>2. i - m \in 1 .. n /\ i = m + (i - m)
        BY <4>1, <1>1
      <4> QED  BY <4>2
    <3>2. (s \o u)[Rank(B, i)] = u[k]
      BY <3>1, <1>5, <1>7
    <3>3. u[k] = [attr |-> q[k].attr, group |-> OpenGroups(p, m + 1)]
      OBVIOUS
    <3>4. pq[i] = q[k] /\ OpenGroups(pq, i) = OpenGroups(p, m + 1)
      BY <3>1, <1>2, <1>9
    <3> QED  BY <3>2, <3>3, <3>4
  <2> QED  BY <2>1, <2>2
<1>11. Len(s \o u) = Cardinality(B)
  BY <1>5, <1>7
<1> QED  BY <1>10, <1>11 DEF Lists

\* A group that is opened adds nothing to the list.
LEMMA ListsGroup ==
    ASSUME NEW p \in Seq(DeriveStep), NEW s, Lists(s, p), NEW step \in GroupStep
    PROVE  Lists(s, Append(p, step))
<1> DEFINE m == Len(p)
<1> DEFINE pq == Append(p, step)
<1>1. /\ m \in Nat /\ DOMAIN p = 1 .. m /\ DOMAIN pq = 1 .. m + 1
      /\ (\A k \in 1 .. m : pq[k] = p[k]) /\ pq[m + 1] = step
  OBVIOUS
<1>2. step.op = "group" /\ step \in DeriveStep
  BY DEF GroupStep, DeriveStep
<1>3. AttrSteps(pq) = AttrSteps(p)
  <2>1. \A k : k \in 1 .. m + 1 <=> k \in 1 .. m \/ k = m + 1
    BY <1>1
  <2>2. /\ AttrSteps(p) = {k \in 1 .. m : p[k].op = "attr"}
        /\ AttrSteps(pq) = {k \in 1 .. m + 1 : pq[k].op = "attr"}
    BY <1>1 DEF AttrSteps
  <2> HIDE DEF pq, m
  <2> QED  BY <1>1, <1>2, <2>1, <2>2
<1>4. ASSUME NEW i \in AttrSteps(p) PROVE pq[i] = p[i] /\ OpenGroups(pq, i) = OpenGroups(p, i)
  <2>1. i \in 1 .. m
    BY <1>1 DEF AttrSteps
  <2>2. <<step>> \in Seq(DeriveStep) /\ pq = p \o <<step>> /\ Len(<<step>>) = 1
    BY <1>2
  <2>3. i \in 1 .. m + 1 + 1 /\ i <= m + 1
    BY <1>1, <2>1
  <2>4. OpenGroups(pq, i) = OpenGroups(p, i)
    BY <2>2, <2>3, OpenLater
  <2> QED  BY <2>1, <2>4, <1>1
<1> QED  BY <1>3, <1>4 DEF Lists

\* Of a list of attributes those are written that are not empty, and they are
\* the named steps of the derivation.
LEMMA NamesWritten ==
    ASSUME NEW p \in Seq(DeriveStep), NEW s \in Seq(GroupedAttr), Lists(s, p),
           NEW N, N = NamedSteps(p), NEW named, named = Select(s, Written(s))
    PROVE  /\ Cardinality(N) \in Nat /\ DOMAIN named = 1 .. Cardinality(N)
           /\ \A i \in N : /\ Rank(N, i) \in 1 .. Cardinality(N)
                           /\ named[Rank(N, i)] = [attr |-> p[i].attr, group |-> OpenGroups(p, i)]
<1> DEFINE A == AttrSteps(p)
<1> DEFINE W == Written(s)
<1>1. /\ A \subseteq Nat /\ IsFiniteSet(A) /\ N \in SUBSET A
      /\ \A i \in A : i \in N <=> p[i].attr # EmptyAttr
  <2>1. A \in SUBSET (1 .. Len(p)) /\ Len(p) \in Nat
    BY DEF AttrSteps
  <2>2. IsFiniteSet(1 .. Len(p))
    BY <2>1, FS_Interval
  <2>3. IsFiniteSet(A) /\ A \subseteq Nat
    BY <2>1, <2>2, FS_Subset
  <2>4. N = {i \in A : p[i].attr # EmptyAttr}
    BY DEF NamedSteps
  <2> HIDE DEF A
  <2> QED  BY <2>3, <2>4
<1>2. /\ Len(s) = Cardinality(A) /\ DOMAIN s = 1 .. Cardinality(A)
      /\ \A i \in A : s[Rank(A, i)] = [attr |-> p[i].attr, group |-> OpenGroups(p, i)]
  BY DEF Lists
<1> HIDE DEF A
<1>3. W = RanksOf(N, A)
  <2>1. \A i \in A : Rank(A, i) \in DOMAIN s
    <3>1. \A i \in A : Rank(A, i) \in 1 .. Cardinality(A)
      BY <1>1, Ranks, Zenon
    <3> QED  BY <3>1, <1>2, Zenon
  <2>2. \A i \in A : Rank(A, i) \in DOMAIN s /\ s[Rank(A, i)].attr = p[i].attr
    <3> SUFFICES ASSUME NEW i \in A PROVE s[Rank(A, i)].attr = p[i].attr
      BY <2>1
    <3>1. s[Rank(A, i)] = [attr |-> p[i].attr, group |-> OpenGroups(p, i)]
      BY <1>2
    <3> QED  BY <3>1
  <2>3. \A k \in DOMAIN s : \E i \in A : k = Rank(A, i)
    <3>1. \A k \in 1 .. Cardinality(A) : \E i \in A : Rank(A, i) = k
      BY <1>1, Ranks, Zenon
    <3> QED  BY <3>1, <1>2, Zenon
  <2>4. W = {k \in DOMAIN s : s[k].attr # EmptyAttr}
    BY DEF Written
  <2> HIDE DEF W
  <2>5. ASSUME NEW k \in W PROVE k \in RanksOf(N, A)
    <3>1. k \in DOMAIN s /\ s[k].attr # EmptyAttr
      BY <2>4
    <3>2. PICK i \in A : k = Rank(A, i)
      BY <2>3, <3>1
    <3>3. i \in N
      BY <1>1, <2>2, <3>1, <3>2
    <3> QED  BY <3>2, <3>3 DEF RanksOf
  <2>6. ASSUME NEW i \in N PROVE Rank(A, i) \in W
    BY <1>1, <2>2, <2>4
  <2> QED  BY <2>5, <2>6 DEF RanksOf
<1>4. /\ IsFiniteSet(N) /\ IsFiniteSet(W) /\ W \subseteq Nat /\ Cardinality(W) = Cardinality(N)
      /\ \A i \in N : Rank(W, Rank(A, i)) = Rank(N, i)
  <2> HIDE DEF W
  <2> QED  BY <1>1, <1>3, RanksOfRanks
<1>5. named = [k \in 1 .. Cardinality(W) |-> s[Nth(W, k)]]
  BY DEF Select
<1> HIDE DEF W
<1>6. ASSUME NEW i \in N
      PROVE  Rank(N, i) \in 1 .. Cardinality(N) /\ Nth(W, Rank(N, i)) = Rank(A, i)
  <2>1. N \subseteq Nat
    BY <1>1
  <2>2. Rank(N, i) \in 1 .. Cardinality(N)
    BY <1>4, <2>1, Ranks
  <2>3. Rank(A, i) \in W
    BY <1>3 DEF RanksOf
  <2>4. Nth(W, Rank(W, Rank(A, i))) = Rank(A, i)
    BY <1>4, <2>3, NthIs
  <2> QED  BY <1>4, <2>2, <2>4
<1>7. Cardinality(N) \in Nat /\ DOMAIN named = 1 .. Cardinality(N)
  BY <1>4, <1>5, FS_CardinalityType
<1>8. ASSUME NEW i \in N
      PROVE  named[Rank(N, i)] = [attr |-> p[i].attr, group |-> OpenGroups(p, i)]
  <2>1. named[Rank(N, i)] = s[Nth(W, Rank(N, i))]
    BY <1>4, <1>5, <1>6
  <2> QED  BY <2>1, <1>1, <1>2, <1>6
<1> QED  BY <1>6, <1>7, <1>8

\* What follows a first element.
LEMMA AfterFirst ==
    ASSUME NEW E, NEW x \in E, NEW w \in Seq(E)
    PROVE  /\ Len(<<x>> \o w) = 1 + Len(w) /\ DOMAIN (<<x>> \o w) = 1 .. 1 + Len(w)
           /\ (<<x>> \o w)[1] = x
           /\ \A k \in 1 .. Len(w) : (<<x>> \o w)[1 + k] = w[k]
OBVIOUS

\* A piece without its line breaks.
LEMMA Sanitized ==
    ASSUME NEW key, NEW broken, NEW piece, piece = [key |-> key, broken |-> broken]
    PROVE  [piece EXCEPT !.broken = FALSE].key = key /\ [piece EXCEPT !.broken = FALSE].broken = FALSE
OBVIOUS

LineOf(broken, named) ==
    Sanitize(<<[key |-> <<"msg">>, broken |-> broken]>> \o [k \in DOMAIN named |-> writeAttr(named[k])])

\* A line has a piece for the message and one for each attribute.
LEMMA LineLaid ==
    ASSUME NEW broken, NEW c \in Nat, NEW named, DOMAIN named = 1 .. c
    PROVE  /\ Len(LineOf(broken, named)) = 1 + c
           /\ \A i \in DOMAIN LineOf(broken, named) : ~LineOf(broken, named)[i].broken
           /\ \A k \in 1 .. c :
                LineOf(broken, named)[1 + k].key = Append(named[k].group, named[k].attr.key)
<1> DEFINE text == LineOf(broken, named)
<1> DEFINE m == [key |-> <<"msg">>, broken |-> broken]
<1> DEFINE w == [k \in 1 .. c |-> writeAttr(named[k])]
<1> DEFINE mw == <<m>> \o w
<1> DEFINE E == {m} \cup {writeAttr(named[k]) : k \in 1 .. c}
<1>1. m \in E /\ w \in Seq(E) /\ Len(w) = c
  OBVIOUS
<1>2. DOMAIN mw = 1 .. 1 + c /\ mw[1] = m /\ \A k \in 1 .. c : mw[1 + k] = w[k]
  <2> HIDE DEF m, w, E
  <2> QED  BY <1>1, AfterFirst
<1>3. text = [i \in DOMAIN mw |-> [mw[i] EXCEPT !.broken = FALSE]]
  BY DEF Sanitize, LineOf
<1>4. \A k \in 1 .. c : w[k] = [key |-> Append(named[k].group, named[k].attr.key),
                                 broken |-> named[k].attr.broken /\ ~named[k].attr.blank]
  BY DEF writeAttr
<1> HIDE DEF mw, w, text
<1>6. Len(text) = 1 + c /\ DOMAIN text = 1 .. 1 + c
  <2>1. DOMAIN text = 1 .. 1 + c /\ text = [i \in 1 .. 1 + c |-> [mw[i] EXCEPT !.broken = FALSE]]
    BY <1>2, <1>3
  <2> QED  BY <2>1
<1>7. ASSUME NEW k \in 1 .. c
      PROVE text[1 + k].key = Append(named[k].group, named[k].attr.key) /\ text[1 + k].broken = FALSE
  <2>1. 1 + k \in 1 .. 1 + c
    OBVIOUS
  <2>2. text[1 + k] = [mw[1 + k] EXCEPT !.broken = FALSE] /\ mw[1 + k] = w[k]
    BY <1>2, <1>3, <2>1
  <2> DEFINE key == Append(named[k].group, named[k].attr.key)
  <2> DEFINE b == named[k].attr.broken /\ ~named[k].attr.blank
  <2>3. mw[1 + k] = [key |-> key, broken |-> b]
    BY <1>4, <2>2
  <2> HIDE DEF key, b
  <2>4. text[1 + k].key = key /\ text[1 + k].broken = FALSE
    BY <2>2, <2>3, Sanitized
  <2> QED  BY <2>4 DEF key
<1>8. text[1].broken = FALSE
  <2>1. 1 \in 1 .. 1 + c
    OBVIOUS
  <2>2. text[1] = [mw[1] EXCEPT !.broken = FALSE]
    BY <1>2, <1>3, <2>1
  <2> QED  BY <2>2, <1>2
<1>9. ASSUME NEW i \in DOMAIN text PROVE ~text[i].broken
  <2>1. i = 1 \/ (i - 1 \in 1 .. c /\ 1 + (i - 1) = i)
    BY <1>6
  <2> QED  BY <2>1, <1>7, <1>8
<1> QED  BY <1>6, <1>7, <1>9 DEF text
-----------------------------------------------------------------------------

HandlerRec == [group : Seq(GroupNames), array : Nat, len : Nat, path : Seq(DeriveStep)]

\* A handler has the groups and the attributes of its derivation.
Derived(hd) ==
    /\ hd.array \in DOMAIN heap
    /\ hd.len \in 0 .. Len(heap[hd.array])
    /\ hd.group = OpenGroups(hd.path, Len(hd.path) + 1)
    /\ Lists(SubSeq(heap[hd.array], 1, hd.len), hd.path)

\* A line has a piece for each named step of a derivation.
Names(text, path) ==
    /\ Len(text) = 1 + Cardinality(NamedSteps(path))
    /\ \A i \in NamedSteps(path) :
         text[1 + Rank(NamedSteps(path), i)].key = Append(OpenGroups(path, i), path[i].attr.key)

LineInv(t) ==
    /\ stage[t] = "idle" => line[t] = NoLine
    /\ stage[t] # "idle" =>
         /\ line[t].h \in DOMAIN handlers /\ line[t].r \in Records
         /\ \A i \in DOMAIN line[t].text : ~line[t].text[i].broken
         /\ Names(line[t].text, PathOf(line[t]))

Stages == {"idle", "lock", "Err", "Warning", "Info", "Debug"}

LogInv ==
    /\ heap \in Seq(Seq(GroupedAttr))
    /\ handlers \in Seq(HandlerRec)
    /\ \A n \in DOMAIN handlers : Derived(handlers[n])
    /\ mu \in [1 .. MaxHandlers -> BOOLEAN]
    /\ stage \in [Threads -> Stages]
    /\ DOMAIN line = Threads
    /\ \A t \in Threads : LineInv(t)

\* The handler of NewHandler has nothing.
LEMMA LogInitInv == LogInit => LogInv
<1> SUFFICES ASSUME LogInit PROVE LogInv
  OBVIOUS
<1> DEFINE hd == [group |-> <<>>, array |-> 1, len |-> 0, path |-> <<>>]
<1>1. heap = << <<>> >> /\ handlers = <<hd>>
  BY DEF LogInit
<1>2. heap \in Seq(Seq(GroupedAttr)) /\ heap[1] = <<>> /\ 1 \in DOMAIN heap
  BY <1>1
<1>3. hd \in HandlerRec
  BY DEF HandlerRec
<1>4. OpenGroups(<<>>, 1) = <<>>
  <2>1. GroupsBefore(<<>>, 1) = {}
    BY DEF GroupsBefore
  <2>2. OpenGroups(<<>>, 1) = [k \in 1 .. Cardinality({}) |-> <<>>[Nth({}, k)].name]
    BY <2>1, OpenAs
  <2> DEFINE name(k) == <<>>[Nth({}, k)].name
  <2>3. OpenGroups(<<>>, 1) = [k \in 1 .. 0 |-> name(k)]
    BY <2>2, FS_EmptySet
  <2> HIDE DEF name
  <2> QED  BY <2>3
<1>5. Lists(<<>>, <<>>)
  <2>1. AttrSteps(<<>>) = {}
    BY DEF AttrSteps
  <2> QED  BY <2>1, FS_EmptySet DEF Lists
<1>6. Derived(hd)
  <2>1. SubSeq(<<>>, 1, 0) = <<>>
    OBVIOUS
  <2>2. hd.array = 1 /\ hd.len = 0 /\ hd.group = <<>> /\ hd.path = <<>>
    OBVIOUS
  <2> HIDE DEF hd
  <2>3. hd.array \in DOMAIN heap /\ hd.len \in 0 .. Len(heap[hd.array])
    BY <1>2, <2>2
  <2>4. hd.group = OpenGroups(hd.path, Len(hd.path) + 1)
    <3>1. Len(hd.path) + 1 = 1
      BY <2>2
    <3> QED  BY <1>4, <2>2, <3>1
  <2>5. Lists(SubSeq(heap[hd.array], 1, hd.len), hd.path)
    BY <1>2, <1>5, <2>1, <2>2
  <2> QED  BY <2>3, <2>4, <2>5 DEF Derived
<1> HIDE DEF hd
<1>7. handlers \in Seq(HandlerRec) /\ \A n \in DOMAIN handlers : Derived(handlers[n])
  BY <1>1, <1>3, <1>6
<1>8. /\ mu \in [1 .. MaxHandlers -> BOOLEAN] /\ stage \in [Threads -> Stages]
      /\ DOMAIN line = Threads /\ \A t \in Threads : stage[t] = "idle" /\ line[t] = NoLine
  BY DEF LogInit, Stages
<1> QED  BY <1>2, <1>7, <1>8 DEF LogInv, LineInv

\* The attributes of a handler.
LEMMA HandlerAttrs ==
    ASSUME LogInv, NEW n \in DOMAIN handlers
    PROVE  /\ handlers[n] \in HandlerRec /\ Derived(handlers[n])
           /\ handlers[n].path \in Seq(DeriveStep) /\ handlers[n].group \in Seq(GroupNames)
           /\ handlers[n].group = OpenGroups(handlers[n].path, Len(handlers[n].path) + 1)
           /\ attrs(n) \in Seq(GroupedAttr) /\ Len(attrs(n)) = handlers[n].len
           /\ Lists(attrs(n), handlers[n].path)
<1>1. handlers[n] \in HandlerRec /\ Derived(handlers[n])
  BY DEF LogInv
<1>2. handlers[n].path \in Seq(DeriveStep) /\ handlers[n].group \in Seq(GroupNames) /\ handlers[n].len \in Nat
  BY <1>1 DEF HandlerRec
<1> DEFINE array == heap[handlers[n].array]
<1>3. array \in Seq(GroupedAttr) /\ handlers[n].len \in 0 .. Len(array)
  BY <1>1 DEF LogInv, Derived
<1>4. attrs(n) = SubSeq(array, 1, handlers[n].len)
  BY DEF attrs
<1> HIDE DEF array
<1>5. attrs(n) \in Seq(GroupedAttr) /\ Len(attrs(n)) = handlers[n].len
  BY <1>3, <1>4
<1>6. handlers[n].group = OpenGroups(handlers[n].path, Len(handlers[n].path) + 1)
      /\ Lists(attrs(n), handlers[n].path)
  BY <1>1 DEF Derived, attrs
<1> QED  BY <1>1, <1>2, <1>5, <1>6

\* A derived handler has a copy of the attributes and shares nothing.
LEMMA DeriveKeeps ==
    ASSUME LogInv, NEW n \in DOMAIN handlers, NEW group \in Seq(GroupNames),
           NEW added \in Seq(GroupedAttr), NEW step \in DeriveStep, Derive(n, group, added, step),
           NEW path, path = Append(handlers[n].path, step),
           group = OpenGroups(path, Len(path) + 1), Lists(attrs(n) \o added, path)
    PROVE  LogInv'
<1> DEFINE new == attrs(n) \o added
<1> DEFINE hd == [group |-> group, array |-> Len(heap) + 1,
                  len |-> handlers[n].len + Len(added), path |-> path]
<1>1. heap' = Append(heap, new) /\ handlers' = Append(handlers, hd) /\ UNCHANGED <<mu, stage, line>>
  <2>1. Extend(n, added).heap = Append(heap, new) /\ Extend(n, added).array = Len(heap) + 1
    BY DEF Extend
  <2> QED  BY <2>1 DEF Derive
<1>2. /\ attrs(n) \in Seq(GroupedAttr) /\ Len(attrs(n)) = handlers[n].len
      /\ handlers[n].path \in Seq(DeriveStep)
  BY HandlerAttrs
<1>3. new \in Seq(GroupedAttr) /\ Len(new) = handlers[n].len + Len(added) /\ Len(new) \in Nat
  <2>1. Len(new) = Len(attrs(n)) + Len(added)
    BY <1>2, ConcatLen, Zenon
  <2> QED  BY <1>2, <2>1
<1>4. heap \in Seq(Seq(GroupedAttr)) /\ handlers \in Seq(HandlerRec)
  BY DEF LogInv
<1>5. hd \in HandlerRec /\ hd.array = Len(heap) + 1 /\ hd.len = Len(new) /\ hd.group = group /\ hd.path = path
  <2>1. path \in Seq(DeriveStep)
    BY <1>2
  <2>2. Len(heap) + 1 \in Nat /\ handlers[n].len + Len(added) \in Nat
    BY <1>3, <1>4
  <2> HIDE DEF new
  <2> QED  BY <1>3, <2>1, <2>2 DEF HandlerRec
<1> HIDE DEF new, hd
<1>6. /\ heap' \in Seq(Seq(GroupedAttr)) /\ DOMAIN heap' = 1 .. Len(heap) + 1 /\ heap'[Len(heap) + 1] = new
      /\ \A k \in DOMAIN heap : k \in DOMAIN heap' /\ heap'[k] = heap[k]
  BY <1>1, <1>3, <1>4, SMTT(20)
<1>7. /\ handlers' \in Seq(HandlerRec) /\ DOMAIN handlers' = 1 .. Len(handlers) + 1
      /\ handlers'[Len(handlers) + 1] = hd
      /\ \A k \in DOMAIN handlers : k \in DOMAIN handlers' /\ handlers'[k] = handlers[k]
      /\ \A k \in DOMAIN handlers' : k \in DOMAIN handlers \/ k = Len(handlers) + 1
  BY <1>1, <1>4, <1>5
<1>8. ASSUME NEW k \in DOMAIN handlers' PROVE Derived(handlers[k])'
  <2>1. CASE k \in DOMAIN handlers
    <3> DEFINE old == handlers[k]
    <3>1. Derived(old)
      BY <2>1 DEF LogInv
    <3>2. handlers'[k] = old
      BY <2>1, <1>7
    <3>3. old.array \in DOMAIN heap' /\ heap'[old.array] = heap[old.array]
      BY <3>1, <1>6 DEF Derived
    <3>4. /\ old.array \in DOMAIN heap' /\ old.len \in 0 .. Len(heap'[old.array])
          /\ old.group = OpenGroups(old.path, Len(old.path) + 1)
          /\ Lists(SubSeq(heap'[old.array], 1, old.len), old.path)
      BY <3>1, <3>3 DEF Derived
    <3> QED  BY <3>2, <3>4 DEF Derived
  <2>2. CASE k = Len(handlers) + 1
    <3>1. handlers'[k] = hd
      BY <2>2, <1>7
    <3>2. hd.array \in DOMAIN heap' /\ heap'[hd.array] = new
      <4>1. Len(heap) + 1 \in 1 .. Len(heap) + 1
        BY <1>4
      <4> QED  BY <4>1, <1>5, <1>6
    <3>3. hd.len \in 0 .. Len(new) /\ SubSeq(new, 1, hd.len) = new
      BY <1>3, <1>5
    <3>4. Lists(new, path)
      BY DEF new
    <3>5. /\ hd.array \in DOMAIN heap' /\ hd.len \in 0 .. Len(heap'[hd.array])
          /\ hd.group = OpenGroups(hd.path, Len(hd.path) + 1)
          /\ Lists(SubSeq(heap'[hd.array], 1, hd.len), hd.path)
      BY <1>5, <3>2, <3>3, <3>4
    <3> QED  BY <3>1, <3>5 DEF Derived
  <2> QED  BY <2>1, <2>2, <1>7
<1>9. ASSUME NEW t \in Threads PROVE LineInv(t)'
  <2>1. LineInv(t)
    BY DEF LogInv
  <2>2. line'[t] = line[t] /\ stage'[t] = stage[t]
    BY <1>1
  <2>3. CASE stage[t] = "idle"
    BY <2>1, <2>2, <2>3 DEF LineInv, NoLine
  <2>4. CASE stage[t] # "idle"
    <3>1. /\ line[t].h \in DOMAIN handlers /\ line[t].r \in Records
          /\ \A i \in DOMAIN line[t].text : ~line[t].text[i].broken
          /\ Names(line[t].text, PathOf(line[t]))
      BY <2>1, <2>4 DEF LineInv
    <3>2. handlers'[line[t].h] = handlers[line[t].h] /\ line[t].h \in DOMAIN handlers'
      BY <3>1, <1>7
    <3>3. PathOf(line[t])' = PathOf(line[t])
      BY <2>2, <3>2 DEF PathOf
    <3>4. Names(line[t].text, PathOf(line[t]))'
      BY <2>2, <3>1, <3>3 DEF Names
    <3> QED  BY <2>2, <2>4, <3>1, <3>2, <3>4 DEF LineInv
  <2> QED  BY <2>3, <2>4
<1> QED
  <2>1. mu' \in [1 .. MaxHandlers -> BOOLEAN] /\ stage' \in [Threads -> Stages] /\ DOMAIN line' = Threads
    BY <1>1 DEF LogInv
  <2> QED  BY <1>6, <1>7, <1>8, <1>9, <2>1 DEF LogInv

\* Append is a concatenation.
LEMMA AppendIs ==
    ASSUME NEW E, NEW s \in Seq(E), NEW x \in E
    PROVE  Append(s, x) = s \o <<x>> /\ Len(Append(s, x)) = Len(s) + 1 /\ Len(s) \in Nat
OBVIOUS

\* Attributes are steps.
LEMMA StepsOf == ASSUME NEW q \in Seq(AttrStep) PROVE q \in Seq(DeriveStep)
<1>1. AttrStep \subseteq DeriveStep
  BY DEF DeriveStep
<1>2. \A k \in 1 .. Len(q) : q[k] \in DeriveStep
  BY <1>1
<1>3. q = [k \in 1 .. Len(q) |-> q[k]] /\ Len(q) \in Nat
  OBVIOUS
<1> QED  BY <1>2, <1>3

\* The line of a goroutine that does nothing.
LEMMA SameLine ==
    ASSUME NEW t \in Threads, LineInv(t), line'[t] = line[t], handlers' = handlers,
           stage'[t] = "idle" <=> stage[t] = "idle"
    PROVE  LineInv(t)'
<1>1. PathOf(line[t])' = PathOf(line[t])
  BY DEF PathOf
<1>2. Names(line[t].text, PathOf(line[t])) => Names(line[t].text, PathOf(line[t]))'
  BY <1>1 DEF Names
<1> QED  BY <1>2 DEF LineInv, NoLine

\* WithAttrs adds one attribute, below the groups that are open.
LEMMA WithAttrsKeeps ==
    ASSUME LogInv, NEW n \in DOMAIN handlers, NEW a \in Attrs, WithAttrs(n, a) PROVE LogInv'
<1> DEFINE group == handlers[n].group
<1> DEFINE added == <<[attr |-> a, group |-> group]>>
<1> DEFINE step == [op |-> "attr", attr |-> a]
<1> DEFINE old == handlers[n].path
<1> DEFINE path == Append(old, step)
<1>1. /\ old \in Seq(DeriveStep) /\ group \in Seq(GroupNames)
      /\ group = OpenGroups(old, Len(old) + 1)
      /\ attrs(n) \in Seq(GroupedAttr) /\ Lists(attrs(n), old)
  BY HandlerAttrs
<1>2. a \in Attr
  BY SyslogAssumption
<1>3. added \in Seq(GroupedAttr) /\ Len(added) = 1 /\ added[1] = [attr |-> a, group |-> group]
  BY <1>1, <1>2 DEF GroupedAttr
<1>4. step \in AttrStep /\ step \in DeriveStep /\ step.attr = a
  BY <1>2 DEF AttrStep, DeriveStep
<1>5. Derive(n, group, added, step)
  BY DEF WithAttrs
<1> HIDE DEF group, added, step
<1>6. path = old \o <<step>> /\ Len(path) = Len(old) + 1 /\ Len(old) \in Nat
  BY <1>1, <1>4, AppendIs
<1>7. <<step>> \in Seq(AttrStep) /\ <<step>> \in Seq(DeriveStep) /\ Len(<<step>>) = 1 /\ <<step>>[1] = step
  BY <1>4
<1>8. group = OpenGroups(path, Len(path) + 1)
  <2>1. /\ Len(old) + 2 \in 1 .. Len(old) + 1 + 1 /\ ~(Len(old) + 2 <= Len(old) + 1)
        /\ Len(path) + 1 = Len(old) + 2
    BY <1>6
  <2>2. OpenGroups(old \o <<step>>, Len(old) + 2)
          = OpenGroups(old, IF Len(old) + 2 <= Len(old) + 1 THEN Len(old) + 2 ELSE Len(old) + 1)
    BY <1>1, <1>7, <2>1, OpenLater
  <2> QED  BY <1>1, <1>6, <2>1, <2>2
<1>9. Lists(attrs(n) \o added, path)
  <2>1. \A k \in 1 .. 1 : added[k] = [attr |-> <<step>>[k].attr, group |-> OpenGroups(old, Len(old) + 1)]
    BY <1>1, <1>3, <1>4, <1>7
  <2>2. Lists(attrs(n) \o added, old \o <<step>>)
    BY <1>1, <1>3, <1>7, <2>1, ListsMore
  <2> QED  BY <1>6, <2>2
<1> QED  BY <1>1, <1>3, <1>4, <1>5, <1>8, <1>9, DeriveKeeps

\* WithGroup opens a group and copies the attributes.
LEMMA WithGroupKeeps ==
    ASSUME LogInv, NEW n \in DOMAIN handlers, NEW name \in Groups, WithGroup(n, name) PROVE LogInv'
<1> DEFINE group == Append(handlers[n].group, name)
<1> DEFINE step == [op |-> "group", name |-> name]
<1> DEFINE old == handlers[n].path
<1> DEFINE path == Append(old, step)
<1>1. /\ old \in Seq(DeriveStep) /\ handlers[n].group \in Seq(GroupNames)
      /\ handlers[n].group = OpenGroups(old, Len(old) + 1)
      /\ attrs(n) \in Seq(GroupedAttr) /\ Lists(attrs(n), old)
  BY HandlerAttrs
<1>2. NewGroup(name) /\ Derive(n, group, <<>>, step)
  BY DEF WithGroup
<1>3. name \in GroupNames
  BY <1>2, Zenon DEF NewGroup, GroupNames
<1>4. group \in Seq(GroupNames) /\ <<>> \in Seq(GroupedAttr)
  BY <1>1, <1>3
<1>5. step \in GroupStep /\ step \in DeriveStep
  BY <1>3 DEF GroupStep, DeriveStep
<1>6. group = OpenGroups(path, Len(path) + 1)
  <2>1. OpenGroups(path, Len(old) + 2) = Append(OpenGroups(old, Len(old) + 1), name)
    BY <1>1, <1>3, OpenGroup
  <2>2. Len(path) + 1 = Len(old) + 2
    BY <1>1
  <2> HIDE DEF path
  <2> QED  BY <1>1, <2>1, <2>2
<1>7. Lists(attrs(n) \o <<>>, path)
  <2>1. Lists(attrs(n), path)
    BY <1>1, <1>5, ListsGroup
  <2>2. attrs(n) \o <<>> = attrs(n)
    BY <1>1
  <2> QED  BY <2>1, <2>2
<1> HIDE DEF group, step
<1> QED  BY <1>2, <1>4, <1>5, <1>6, <1>7, DeriveKeeps

\* What Handle makes of a record names what it has to.
LEMMA FormatNames ==
    ASSUME LogInv, NEW n \in DOMAIN handlers, NEW r \in Records,
           NEW l, l = [h |-> n, r |-> r, text |-> Format(n, r)]
    PROVE  Names(l.text, PathOf(l)) /\ \A i \in DOMAIN l.text : ~l.text[i].broken
<1> DEFINE old == handlers[n].path
<1> DEFINE q == [i \in DOMAIN r.attrs |-> [op |-> "attr", attr |-> r.attrs[i]]]
<1> DEFINE u == [i \in DOMAIN r.attrs |-> [attr |-> r.attrs[i], group |-> handlers[n].group]]
<1> DEFINE path == old \o q
<1> DEFINE all == attrs(n) \o u
<1>1. /\ old \in Seq(DeriveStep) /\ handlers[n].group \in Seq(GroupNames)
      /\ handlers[n].group = OpenGroups(old, Len(old) + 1)
      /\ attrs(n) \in Seq(GroupedAttr) /\ Lists(attrs(n), old)
  BY HandlerAttrs
<1>2. r.attrs \in Seq(Attr)
  BY SyslogAssumption
<1> DEFINE m == Len(r.attrs)
<1>3. m \in Nat /\ DOMAIN r.attrs = 1 .. m /\ \A k \in 1 .. m : r.attrs[k] \in Attr
  BY <1>2
<1>4. q \in Seq(AttrStep) /\ Len(q) = m /\ \A k \in 1 .. m : q[k].attr = r.attrs[k]
  <2>1. q = [i \in 1 .. m |-> [op |-> "attr", attr |-> r.attrs[i]]]
    BY <1>3
  <2>2. \A i \in 1 .. m : [op |-> "attr", attr |-> r.attrs[i]] \in AttrStep
    BY <1>3 DEF AttrStep
  <2> HIDE DEF m
  <2> QED  BY <1>3, <2>1, <2>2
<1>5. /\ u \in Seq(GroupedAttr) /\ Len(u) = m
      /\ \A k \in 1 .. m : u[k] = [attr |-> r.attrs[k], group |-> handlers[n].group]
  <2>1. u = [i \in 1 .. m |-> [attr |-> r.attrs[i], group |-> handlers[n].group]]
    BY <1>3
  <2>2. \A i \in 1 .. m : [attr |-> r.attrs[i], group |-> handlers[n].group] \in GroupedAttr
    BY <1>3, <1>1 DEF GroupedAttr
  <2> HIDE DEF m
  <2> QED  BY <1>3, <2>1, <2>2
<1>6. l.text = Format(n, r) /\ PathOf(l) = path
  BY DEF PathOf
<1>7. all = AllAttrs(n, r)
  BY DEF AllAttrs
<1> HIDE DEF q, u, old
<1>8. Lists(all, path) /\ all \in Seq(GroupedAttr) /\ path \in Seq(DeriveStep)
  <2>1. \A k \in 1 .. Len(q) : u[k] = [attr |-> q[k].attr, group |-> OpenGroups(old, Len(old) + 1)]
    BY <1>1, <1>4, <1>5
  <2>2. Len(u) = Len(q)
    BY <1>4, <1>5
  <2>3. Lists(all, path)
    BY <1>1, <1>4, <1>5, <2>1, <2>2, ListsMore
  <2>4. q \in Seq(DeriveStep)
    BY <1>4, StepsOf
  <2> QED  BY <1>1, <1>5, <2>3, <2>4
<1> HIDE DEF all, path
<1> DEFINE N == NamedSteps(path)
<1> DEFINE named == Select(all, Written(all))
<1>9. /\ Cardinality(N) \in Nat /\ DOMAIN named = 1 .. Cardinality(N)
      /\ \A i \in N : /\ Rank(N, i) \in 1 .. Cardinality(N)
                      /\ named[Rank(N, i)] = [attr |-> path[i].attr, group |-> OpenGroups(path, i)]
  BY <1>8, NamesWritten
<1>10. l.text = LineOf(r.broken, named)
  BY <1>6, <1>7 DEF Format, LineOf
<1> HIDE DEF N, named
<1>11. /\ Len(l.text) = 1 + Cardinality(N)
       /\ \A i \in DOMAIN l.text : ~l.text[i].broken
       /\ \A k \in 1 .. Cardinality(N) : l.text[1 + k].key = Append(named[k].group, named[k].attr.key)
  <2> DEFINE c == Cardinality(N)
  <2> DEFINE text == LineOf(r.broken, named)
  <2>1. c \in Nat /\ DOMAIN named = 1 .. c
    BY <1>9
  <2> HIDE DEF c
  <2>2. /\ Len(text) = 1 + c
        /\ \A i \in DOMAIN text : ~text[i].broken
        /\ \A k \in 1 .. c : text[1 + k].key = Append(named[k].group, named[k].attr.key)
    BY <2>1, LineLaid, ZenonT(40)
  <2> HIDE DEF text
  <2> QED  BY <2>2, <1>10 DEF c, text
<1>12. ASSUME NEW i \in N
       PROVE  l.text[1 + Rank(N, i)].key = Append(OpenGroups(path, i), path[i].attr.key)
  <2>1. Rank(N, i) \in 1 .. Cardinality(N)
    BY <1>9
  <2>2. l.text[1 + Rank(N, i)].key = Append(named[Rank(N, i)].group, named[Rank(N, i)].attr.key)
    BY <1>9, <1>11, <2>1
  <2>3. named[Rank(N, i)] = [attr |-> path[i].attr, group |-> OpenGroups(path, i)]
    BY <1>9
  <2> QED  BY <2>2, <2>3
<1>13. Names(l.text, path)
  BY <1>11, <1>12 DEF Names, N
<1> QED  BY <1>6, <1>11, <1>13

\* Handle begins.
LEMMA HandleKeeps ==
    ASSUME LogInv, NEW t \in Threads, NEW n \in DOMAIN handlers, NEW r \in Records, Handle(t, n, r)
    PROVE  LogInv'
<1> DEFINE l == [h |-> n, r |-> r, text |-> Format(n, r)]
<1>1. /\ stage' = [stage EXCEPT ![t] = "lock"] /\ line' = [line EXCEPT ![t] = l]
      /\ UNCHANGED <<heap, handlers, mu>>
  BY DEF Handle
<1>2. l.h = n /\ l.r = r /\ Names(l.text, PathOf(l)) /\ \A i \in DOMAIN l.text : ~l.text[i].broken
  BY FormatNames
<1> HIDE DEF l
<1>3. stage' \in [Threads -> Stages] /\ DOMAIN line' = Threads /\ line'[t] = l /\ stage'[t] = "lock"
  BY <1>1 DEF LogInv, Stages
<1>4. LineInv(t)'
  <2>1. PathOf(line[t])' = PathOf(l)
    BY <1>1, <1>3 DEF PathOf
  <2>2. Names(line[t].text, PathOf(line[t]))'
    BY <1>2, <1>3, <2>1 DEF Names
  <2> QED  BY <1>1, <1>2, <1>3, <2>2 DEF LineInv
<1>5. ASSUME NEW o \in Threads, o # t PROVE LineInv(o)'
  <2>1. LineInv(o) /\ line'[o] = line[o] /\ stage'[o] = stage[o]
    BY <1>1, <1>5 DEF LogInv
  <2> QED  BY <1>1, <2>1, SameLine
<1>6. \A k \in DOMAIN handlers' : Derived(handlers[k])'
  BY <1>1 DEF LogInv, Derived
<1> QED  BY <1>1, <1>3, <1>4, <1>5, <1>6 DEF LogInv

\* The mutex is taken.
LEMMA LockKeeps == ASSUME LogInv, NEW t \in Threads, Lock(t) PROVE LogInv'
<1> DEFINE to == Severity(line[t].r.level)
<1>1. /\ stage[t] = "lock" /\ stage' = [stage EXCEPT ![t] = to] /\ mu' = [mu EXCEPT ![line[t].h] = TRUE]
      /\ UNCHANGED <<heap, handlers, line>>
  BY DEF Lock
<1>2. to \in Stages \ {"idle"}
  <2>1. LineInv(t) /\ stage[t] # "idle"
    BY <1>1 DEF LogInv
  <2>2. line[t].r.level \in Int
    BY <2>1, SyslogAssumption DEF LineInv
  <2> QED  BY <2>2 DEF Severity, Stages
<1> HIDE DEF to
<1>3. stage' \in [Threads -> Stages] /\ mu' \in [1 .. MaxHandlers -> BOOLEAN] /\ DOMAIN line' = Threads
  BY <1>1, <1>2 DEF LogInv
<1>4. ASSUME NEW o \in Threads PROVE LineInv(o)'
  <2>1. LineInv(o) /\ line'[o] = line[o] /\ handlers' = handlers /\ (stage'[o] = "idle" <=> stage[o] = "idle")
    BY <1>1, <1>2 DEF LogInv
  <2> QED  BY <2>1, SameLine
<1>5. \A k \in DOMAIN handlers' : Derived(handlers[k])'
  BY <1>1 DEF LogInv, Derived
<1> QED  BY <1>1, <1>3, <1>4, <1>5 DEF LogInv

\* The line is written, or not, and the mutex given back.
LEMMA WriteKeeps == ASSUME LogInv, NEW t \in Threads, Write(t) PROVE LogInv'
<1>1. /\ stage' = [stage EXCEPT ![t] = "idle"] /\ mu' = [mu EXCEPT ![line[t].h] = FALSE]
      /\ line' = [line EXCEPT ![t] = NoLine] /\ UNCHANGED <<heap, handlers>>
  BY DEF Write, Unlock
<1>2. stage' \in [Threads -> Stages] /\ mu' \in [1 .. MaxHandlers -> BOOLEAN] /\ DOMAIN line' = Threads
  BY <1>1 DEF LogInv, Stages
<1>3. LineInv(t)'
  <2>1. stage'[t] = "idle" /\ line'[t] = NoLine
    BY <1>1 DEF LogInv
  <2> QED  BY <2>1 DEF LineInv, NoLine
<1>4. ASSUME NEW o \in Threads, o # t PROVE LineInv(o)'
  <2>1. LineInv(o) /\ line'[o] = line[o] /\ handlers' = handlers /\ stage'[o] = stage[o]
    BY <1>1, <1>4 DEF LogInv
  <2> QED  BY <2>1, SameLine
<1>5. \A k \in DOMAIN handlers' : Derived(handlers[k])'
  BY <1>1 DEF LogInv, Derived
<1> QED  BY <1>1, <1>2, <1>3, <1>4, <1>5 DEF LogInv

\* Every step of the logging goroutines.
LEMMA LogNextInv == LogInv /\ [LogNext]_logVars => LogInv'
<1> SUFFICES ASSUME LogInv, [LogNext]_logVars PROVE LogInv'
  OBVIOUS
<1>1. 1 .. Len(handlers) = DOMAIN handlers
  BY DEF LogInv
<1>2. ASSUME NEW n \in DOMAIN handlers, NEW a \in Attrs, WithAttrs(n, a) PROVE LogInv'
  BY <1>2, WithAttrsKeeps
<1>3. ASSUME NEW n \in DOMAIN handlers, NEW name \in Groups, WithGroup(n, name) PROVE LogInv'
  BY <1>3, WithGroupKeeps
<1>4. ASSUME NEW n \in DOMAIN handlers, NEW t \in Threads, NEW r \in Records, Handle(t, n, r) PROVE LogInv'
  BY <1>4, HandleKeeps
<1>5. ASSUME NEW t \in Threads, Lock(t) PROVE LogInv'
  BY <1>5, LockKeeps
<1>6. ASSUME NEW t \in Threads, Write(t) PROVE LogInv'
  BY <1>6, WriteKeeps
<1>7. CASE UNCHANGED logVars
  <2>1. heap' = heap /\ handlers' = handlers /\ mu' = mu /\ stage' = stage /\ line' = line
    BY <1>7 DEF logVars
  <2>2. \A t \in Threads : LineInv(t)'
    BY <2>1, SameLine DEF LogInv
  <2>3. \A k \in DOMAIN handlers' : Derived(handlers[k])'
    BY <2>1 DEF LogInv, Derived
  <2> QED  BY <2>1, <2>2, <2>3 DEF LogInv
<1> QED  BY <1>1, <1>2, <1>3, <1>4, <1>5, <1>6, <1>7 DEF LogNext

LEMMA LogInductive == LogSpec => []LogInv
BY LogInitInv, LogNextInv, PTL DEF LogSpec

\* Whatever goroutines derive from whatever handlers while others log, a line
\* of Handle is one line, and names the attributes of its handler's derivation
\* and of its record, in order, each below the groups that were open: for any
\* number of goroutines and handlers, any derivations, and records of any
\* length.
THEOREM LineBelongs == LogSpec => []LineIsTheHandlers
<1>1. LogInv => LineIsTheHandlers
  <2> SUFFICES ASSUME LogInv PROVE LineIsTheHandlers
    OBVIOUS
  <2>1. ASSUME NEW n \in DOMAIN handlers
        PROVE  /\ handlers[n].group \in Seq(GroupNames) /\ handlers[n].array \in DOMAIN heap
               /\ handlers[n].len \in 0 .. Len(heap[handlers[n].array])
    BY HandlerAttrs DEF Derived
  <2>2. ASSUME NEW t \in Threads
        PROVE  /\ stage[t] = "idle" <=> line[t] = NoLine
               /\ stage[t] # "idle" => (\A i \in DOMAIN line[t].text : ~line[t].text[i].broken)
               /\ stage[t] # "idle" => Names(line[t].text, PathOf(line[t]))
    <3>1. LineInv(t)
      BY DEF LogInv
    <3>2. stage[t] # "idle" => line[t].h # 0
      BY <3>1 DEF LogInv, LineInv
    <3>3. NoLine.h = 0
      BY DEF NoLine
    <3> QED  BY <3>1, <3>2, <3>3 DEF LineInv
  <2>3. LogTypeOK
    BY <2>1, <2>2 DEF LogTypeOK, LogInv, Stages
  <2>4. SingleLine
    BY <2>2 DEF SingleLine
  <2> QED  BY <2>2, <2>3, <2>4 DEF LineIsTheHandlers, Names
<1> QED  BY <1>1, LogInductive, PTL

=============================================================================
