-------------------------------- MODULE MCPcr --------------------------------
(* TPMs with their banks in several orders, and PCR lists, for TLC.        *)
EXTENDS PcrPolicy

B(hash, full) == [hash |-> hash, full |-> full]

\* SHA2-256 between others, a bank of it without PCRs among others and alone.
TPMs == {<<B("SHA1", TRUE), B("SHA256", TRUE), B("SHA384", TRUE)>>,
         <<B("SHA512", TRUE), B("SHA256", FALSE), B("SHA384", TRUE)>>,
         <<B("SHA256", FALSE)>>}
OnlySHA256 == {<<B("SHA256", TRUE)>>}

\* Ascending, unordered with a PCR named twice, with a PCR that is not there,
\* empty.
AnyOrder == {<<0, 1, 2>>, <<0, 2>>, <<2, 0, 2>>, <<0, 24>>, << >>}
Reversed == {<<1, 0>>}

=============================================================================
