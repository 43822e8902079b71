------------------------------ MODULE OpenTpm -------------------------------
(***************************************************************************)
(* OpenTPM of pkg/tpm/open_other.go: a goroutine probes the device that    *)
(* was opened while the caller waits for its result or ten seconds.  The   *)
(* timer may run out at any moment of the probe, and the driver may answer *)
(* before, after or never.  Calls are concurrent or follow each other, on  *)
(* a device that one file at a time may be open on, or any number.         *)
(***************************************************************************)
EXTENDS Sequences, TpmErrors

CONSTANTS
    None,       \* nil
    Calls,      \* calls of OpenTPM that are in progress or linger at one time
    Codes       \* response codes of a TPM that is in trouble

\* They have twelve bits.
ASSUME OpenAssumption == \A code \in Codes : code \in Nat /\ 0 < code /\ code < 4096

VARIABLES
    device,     \* what tpmPath names: "raw", "managed", or "missing"
    pc,         \* where a call is; the caller's TPM afterwards
    fd,         \* the call's file has not been closed
    probe,      \* where the call's goroutine is
    answer,     \* whether the driver has answered the probe
    getErr,     \* the goroutine's result
    errChan,    \* the channel to the call
    err         \* what the call returned

vars == <<device, pc, fd, probe, answer, getErr, errChan, err>>

Errno(name) == [kind |-> "errno", errno |-> name]
RC(code) == [kind |-> "rc", code |-> code]
Other(what) == [kind |-> "other", what |-> what]

\* The kernel has the file of a call while it is open, and while the probe
\* waits in the driver, even if the descriptor has been closed meanwhile.
Held == {c \in Calls : fd[c] \/ probe[c] = "wait"}

Init ==
    /\ device \in {"raw", "managed", "missing"}
    /\ pc = [c \in Calls |-> "new"]
    /\ fd = [c \in Calls |-> FALSE]
    /\ probe = [c \in Calls |-> "none"]
    /\ answer = [c \in Calls |-> "none"]
    /\ getErr = [c \in Calls |-> None]
    /\ errChan = [c \in Calls |-> <<>>]
    /\ err = [c \in Calls |-> None]

-----------------------------------------------------------------------------
(* The call.                                                               *)

OpenFails(c, e) ==
    /\ pc' = [pc EXCEPT ![c] = "failed"]
    /\ err' = [err EXCEPT ![c] = e]
    /\ UNCHANGED <<fd, probe>>

Open(c) ==
    /\ pc[c] = "new"
    /\ \/ device = "missing" /\ OpenFails(c, Errno("ENOENT"))
       \/ device = "raw" /\ Held # {} /\ OpenFails(c, Errno("EBUSY"))
       \/ device # "missing" /\ OpenFails(c, Errno("EIO"))
       \/ /\ device = "raw" => Held = {}
          /\ device # "missing"
          /\ pc' = [pc EXCEPT ![c] = "select"]
          /\ fd' = [fd EXCEPT ![c] = TRUE]
          /\ probe' = [probe EXCEPT ![c] = "start"]
          /\ UNCHANGED err
    /\ UNCHANGED <<device, answer, getErr, errChan>>

\* The result of select decides: the TPM is the caller's, or it is closed.
Finish_StaysOpen(c, e) ==
    /\ pc' = [pc EXCEPT ![c] = IF e = None THEN "open" ELSE "failed"]
    /\ err' = [err EXCEPT ![c] = e]
    /\ UNCHANGED <<device, probe, answer, getErr, fd>>
Finish(c, e) ==
    /\ pc' = [pc EXCEPT ![c] = IF e = None THEN "open" ELSE "failed"]
    /\ fd' = [fd EXCEPT ![c] = e = None]
    /\ err' = [err EXCEPT ![c] = e]
    /\ UNCHANGED <<device, probe, answer, getErr>>

Receive(c) ==
    /\ pc[c] = "select" /\ errChan[c] # <<>>
    /\ errChan' = [errChan EXCEPT ![c] = Tail(@)]
    /\ Finish(c, Head(errChan[c]))

TimeoutErr_Nil == None
TimeoutErr == Other("timed out getting manufacturer")

After10Seconds_Never(c) == FALSE
After10Seconds(c) ==
    /\ pc[c] = "select"
    /\ Finish(c, TimeoutErr)
    /\ UNCHANGED errChan

\* The caller closes the TPM it was given.
Close(c) ==
    /\ pc[c] = "open"
    /\ pc' = [pc EXCEPT ![c] = "closed"]
    /\ fd' = [fd EXCEPT ![c] = FALSE]
    /\ UNCHANGED <<device, probe, answer, getErr, errChan, err>>

\* The caller tries again.  A goroutine of an earlier call that has not ended
\* stays with that call: the retry is then a call of its own.
Again(c) ==
    /\ pc[c] \in {"failed", "closed"} /\ probe[c] \in {"none", "done"}
    /\ pc' = [pc EXCEPT ![c] = "new"]
    /\ probe' = [probe EXCEPT ![c] = "none"]
    /\ answer' = [answer EXCEPT ![c] = "none"]
    /\ getErr' = [getErr EXCEPT ![c] = None]
    /\ errChan' = [errChan EXCEPT ![c] = <<>>]
    /\ err' = [err EXCEPT ![c] = None]
    /\ UNCHANGED <<device, fd>>

-----------------------------------------------------------------------------
(* The goroutine: getProperty, then the send on the channel.               *)

GotErr(c, e) ==
    /\ probe' = [probe EXCEPT ![c] = "send"]
    /\ getErr' = [getErr EXCEPT ![c] = e]

\* Writing the command fails on a file that was closed.
ProbeWrite(c) ==
    /\ probe[c] = "start"
    /\ \/ /\ fd[c]
          /\ probe' = [probe EXCEPT ![c] = "wait"]
          /\ answer' = [answer EXCEPT ![c] = "pending"]
          /\ UNCHANGED getErr
       \/ GotErr(c, IF fd[c] THEN Errno("EIO") ELSE Other("file already closed")) /\ UNCHANGED answer
    /\ UNCHANGED <<device, pc, fd, errChan, err>>

\* What getProperty makes of an answer: the property, a response code, more or
\* less than one property, or the driver's own timeout.
Results == {None, Other("expected 1 property"), Errno("ETIME")} \cup {RC(code) : code \in Codes}

\* Reading the answer fails on such a file too.
ProbeRead(c) ==
    /\ probe[c] = "wait" /\ answer[c] = "given"
    /\ \/ fd[c] /\ \E e \in Results : GotErr(c, e)
       \/ ~fd[c] /\ GotErr(c, Other("file already closed"))
    /\ UNCHANGED <<device, pc, fd, answer, errChan, err>>

\* A channel of capacity 1 takes the result whether or not somebody waits.
Room_Unbuffered(c) == pc[c] = "select"
Room(c) == Len(errChan[c]) < 1

ProbeSend(c) ==
    /\ probe[c] = "send" /\ Room(c)
    /\ probe' = [probe EXCEPT ![c] = "done"]
    /\ errChan' = [errChan EXCEPT ![c] = Append(@, getErr[c])]
    /\ UNCHANGED <<device, pc, fd, answer, getErr, err>>

-----------------------------------------------------------------------------
(* The driver: it answers, if only by its own timeout, which is longer     *)
(* than ten seconds for many commands.                                     *)

DriverAnswer(c) ==
    /\ answer[c] = "pending"
    /\ answer' = [answer EXCEPT ![c] = "given"]
    /\ UNCHANGED <<device, pc, fd, probe, getErr, errChan, err>>

-----------------------------------------------------------------------------

Next ==
    \E c \in Calls :
        \/ Open(c) \/ Receive(c) \/ After10Seconds(c) \/ Close(c) \/ Again(c)
        \/ ProbeWrite(c) \/ ProbeRead(c) \/ ProbeSend(c)
        \/ DriverAnswer(c)

\* Goroutines that can run do, and the timer runs out.  Nothing is assumed of
\* the driver, and nobody has to open or close.
Fairness ==
    \A c \in Calls :
        /\ WF_vars(ProbeWrite(c)) /\ WF_vars(ProbeRead(c)) /\ WF_vars(ProbeSend(c))
        /\ WF_vars(Receive(c) \/ After10Seconds(c))

Spec == Init /\ [][Next]_vars /\ Fairness

-----------------------------------------------------------------------------
(* Properties                                                              *)

Error ==
    (Results \ {None})
    \cup {Errno("ENOENT"), Errno("EBUSY"), Errno("EIO"),
          Other("timed out getting manufacturer"), Other("file already closed")}

\* nil is none of them.
ASSUME NilIsNoError == None \notin Error

\* Types; a call has failed exactly if it has an error, and no more than one
\* result waits in a channel.  A part of ReturnedIsProbed.
TypeOK ==
    /\ device \in {"raw", "managed", "missing"}
    /\ pc \in [Calls -> {"new", "select", "open", "closed", "failed"}]
    /\ fd \in [Calls -> BOOLEAN]
    /\ probe \in [Calls -> {"none", "start", "wait", "send", "done"}]
    /\ answer \in [Calls -> {"none", "pending", "given"}]
    /\ \A c \in Calls : /\ getErr[c] \in {None} \cup Error
                        /\ Len(errChan[c]) <= 1
                        /\ pc[c] = "failed" <=> err[c] \in Error

\* The TPM a caller is given is open, has answered the probe, and the probe is
\* over: no answer of an earlier command is left to be read by the caller's
\* first, and no goroutine uses the file behind its back.
ReturnedIsProbed ==
    /\ TypeOK
    /\ \A c \in Calls : pc[c] = "open" =>
        fd[c] /\ answer[c] = "given" /\ getErr[c] = None /\ probe[c] = "done" /\ errChan[c] = <<>>

\* The device is refused as busy only while another call is waiting for its
\* probe, a caller has a TPM it has not closed, or the driver has not yet let
\* go of a probe: a call that failed, on whichever path, does not keep the
\* device from the retries.
BusyExplained ==
    [][\A c \in Calls :
        /\ err[c] = None /\ err'[c] # None /\ err'[c].kind = "errno"
        /\ CategorizedError(err'[c]) = "TPM_RESOURCE_BUSY"
        =>
        \E d \in Calls \ {c} : pc[d] \in {"select", "open"} \/ probe[d] = "wait"]_vars

\* The codes by which a TPM reports the error of a table: format-1 errors
\* carry the number of a parameter, up to 15, or of a handle or session, up to
\* 7.
ReportedAs(e) ==
    IF e \in fmt1Descs
    THEN {e + rcP + 256 * n : n \in 0 .. 15}
             \cup {e + 256 * n : n \in 0 .. 7} \cup {e + rcS + 256 * n : n \in 0 .. 7}
    ELSE {e}

\* The type CategorizedError gives a response code that a failed call returns
\* is the error of the tables that the TPM reported, wherever in the command
\* the error was, and OtherErrType for a code of none.
ErrorsNamed ==
    \A c \in Calls : err[c] # None /\ err[c].kind = "rc" =>
        LET reported == {e \in fmt0Descs \cup fmt1Descs \cup warnDescs : err[c].code \in ReportedAs(e)}
        IN  IF reported = {} THEN CategorizedError(err[c]) = OtherErrType
                             ELSE reported = {CategorizedError(err[c])}

\* Every call returns, even if the driver never answers.
CallEnds == \A c \in Calls : pc[c] = "select" ~> pc[c] \in {"open", "failed"}

\* Once the driver has answered the probe of a call that gave up, or if it was
\* never asked, the goroutine ends and the kernel closes the file.
ProbeEnds ==
    \A c \in Calls :
        pc[c] = "failed" /\ answer[c] # "pending" ~> probe[c] \in {"none", "done"} /\ c \notin Held

=============================================================================
