----------------------------- MODULE TpmErrors ------------------------------
(***************************************************************************)
(* The classification of errors of pkg/tpm/errors.go and tpm2_errors.go.   *)
(* An error is a response code of the TPM, an error number of the system   *)
(* or something else.  The type of a response code that is described in    *)
(* one of the tables is the name there, for which the table's key stands.  *)
(***************************************************************************)
EXTENDS Naturals

\* The type of a code that is in none of them; no error has the code 0.
OtherErrType == 0

rcFmt1 == 128
rcP == 64
rcS == 2048
\* rcVer1 and rcWarn are 256 and 256 + 2048.
Bit(r, b) == (r \div b) % 2 = 1

\* Numbers of TPM 2.0 Part 2, 6.6.3, as the tables' keys.
fmt0Descs ==
    {256 + n : n \in {0, 1, 3, 11, 25, 32, 33} \cup 36 .. 40 \cup 45 .. 49 \cup 66 .. 76 \cup 80 .. 85}
fmt1Descs ==
    {rcFmt1 + n : n \in 1 .. 5 \cup 7 .. 16 \cup {18} \cup 21 .. 24 \cup 26 .. 29 \cup 31 .. 39}
warnDescs ==
    {256 + 2048 + n : n \in 1 .. 10 \cup 16 .. 22 \cup 24 .. 30 \cup 32 .. 35}

isFmt0Error(r) == Bit(r, 256) /\ ~Bit(r, 2048)

\* The canonical code of a format-1 error: bits 8 to 11, the number of the
\* parameter, handle or session, are cleared, and so is the bit that says
\* parameter.
Canonical_KeepNumber(r) == IF Bit(r, rcP) THEN r - rcP ELSE IF Bit(r, rcS) THEN r - rcS ELSE r
Canonical(r) ==
    LET plain == IF Bit(r, rcP) THEN r - rcP ELSE IF Bit(r, rcS) THEN r - rcS ELSE r
    IN  plain - 256 * ((plain \div 256) % 16)
isFmt1Error(r) == Bit(r, rcFmt1)

IsWarning(r) == ~isFmt1Error(r) /\ Bit(r, 256) /\ Bit(r, 2048)

ToErrorType(r) ==
    CASE isFmt1Error(r) /\ Canonical(r) \in fmt1Descs -> Canonical(r)
      [] ~isFmt1Error(r) /\ isFmt0Error(r) /\ r \in fmt0Descs -> r
      [] IsWarning(r) /\ r \in warnDescs -> r
      [] OTHER -> OtherErrType

\* An error that has been categorized keeps its type; error numbers other than
\* these have the empty type.
CategorizedError(err) ==
    CASE err.kind = "categorized" -> err.type
      [] err.kind = "rc" -> ToErrorType(err.code)
      [] err.kind = "errno" ->
            (CASE err.errno = "EBUSY" -> "TPM_RESOURCE_BUSY"
               [] err.errno \in {"ETIMEDOUT", "ETIME", "EAGAIN"} -> "TPM_TIMEOUT"
               [] OTHER -> "")
      [] OTHER -> OtherErrType

=============================================================================
