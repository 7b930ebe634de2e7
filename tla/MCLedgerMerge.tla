---------------------------- MODULE MCLedgerMerge ----------------------------
(***************************************************************************)
(* Instances of LedgerMerge for TLC.                                       *)
(***************************************************************************)
EXTENDS LedgerMerge, TLC

\* Findings of one vulnerability, with one component and without source issues.
OneVuln  == [f \in Findings |-> CHOOSE v \in Vulns : TRUE]
NoIssues == [f \in Findings |-> NoIssue]
OneGroup == [f \in Findings |-> "openssl"]

\* Findings are interchangeable, and so are assets.
Symmetry == Permutations(Findings) \cup Permutations(Assets)
=============================================================================
