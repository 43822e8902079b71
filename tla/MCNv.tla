--------------------------------- MODULE MCNv ---------------------------------
(* Arguments of NVStorageStatus for TLC: "any size", and one of the sizes. *)
EXTENDS NvStorage

MCExpected == {-1, 3}
=============================================================================
