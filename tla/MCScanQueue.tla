---------------------------- MODULE MCScanQueue ----------------------------
(* Instances of ScanQueue for TLC. *)
EXTENDS ScanQueue

AllOnFirst == [r \in Refs |-> CHOOSE d \in Digests : TRUE]
=============================================================================
