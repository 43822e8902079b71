------------------------------ MODULE MCObjects -----------------------------
(***************************************************************************)
(* TPMs with and without EK certificates.  STMicroelectronics pads serial  *)
(* numbers with zeros, which strict parsers refuse, as they do a negative  *)
(* number.                                                                 *)
(***************************************************************************)
EXTENDS TpmObjects

Cert(serial, issuer) == [der |-> TRUE, rest |-> TRUE, serial |-> serial, issuer |-> issuer]
Good == Cert(<<0, 200, 1>>, "other")
Negative == Cert(<<200, 1>>, "STMicroelectronics NV")
Padded(issuer) == Cert(<<0, 0, 0, 7>>, issuer)

Machine(maker, p256, p384) == [maker |-> maker, p256 |-> p256, p384 |-> p384]

MCMachines ==
    {Machine("NTC", None, Padded("other")),
     Machine("AMZN", [Good EXCEPT !.der = FALSE], None),
     Machine("STM", Padded("STMicroelectronics NV"), Good),
     Machine("IFX", Negative, Good)}
=============================================================================
