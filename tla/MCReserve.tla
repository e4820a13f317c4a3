------------------------------ MODULE MCReserve ------------------------------
(***************************************************************************)
(* Two agents with one footprint, and an indexer beside them.               *)
(***************************************************************************)
EXTENDS Reserve

mcContract(a) == {"n"}
=============================================================================
