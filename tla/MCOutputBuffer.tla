--------------------------- MODULE MCOutputBuffer ---------------------------
(***************************************************************************)
(* Three buffers: the smallest a sink may install, one a varint does not   *)
(* fit inline in after its first byte, and one that takes two of them.     *)
(***************************************************************************)
EXTENDS OutputBuffer

ThreeSizes == <<3, 1, 2>>
AllModes == {"none", "memory", "sink"}
=============================================================================
