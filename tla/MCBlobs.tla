------------------------------ MODULE MCBlobs -------------------------------
(***************************************************************************)
(* Data of none, part of, one, several and too many segments of two bytes, *)
(* and blobs whose length takes the second byte of an integer of base 8.   *)
(***************************************************************************)
EXTENDS KeyBlobs

MCData ==
    {<<>>, <<1>>, <<0, 1>>, <<1, 0, 0>>, <<0, 1, 1, 0, 1, 0>>, <<1, 0, 1, 1, 0, 0, 1>>}
MCPCRSets == {{}, {0, 3, 7}}
=============================================================================
