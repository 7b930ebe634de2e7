-------------------------- MODULE MCDecisionLedger --------------------------
(***************************************************************************)
(* Instances of DecisionLedger for TLC.                                    *)
(***************************************************************************)
EXTENDS DecisionLedger, TLC

\* Findings that are one subject.
OneVuln  == [f \in Findings |-> CHOOSE v \in Vulns : TRUE]
NoIssues == [f \in Findings |-> NoIssue]

\* Findings told apart by package but reported under one issue of the source system,
\* and one without an issue that is the same subject as one of them.
Loner == CHOOSE f \in Findings : TRUE
Twin  == CHOOSE f \in Findings : f # Loner
LonerNoIssue == [f \in Findings |-> IF f = Loner THEN NoIssue ELSE CHOOSE i \in Issues : TRUE]
LonerAsTwin ==
  LET v == CHOOSE v \in Vulns : TRUE
  IN  [f \in Findings |-> IF f \in {Loner, Twin} THEN v ELSE CHOOSE w \in Vulns : w # v]

\* Findings are interchangeable where they are one subject.
FindingSymmetry == Permutations(Findings)
=============================================================================
