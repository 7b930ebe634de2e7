---------------------------- MODULE MCSyncQueue ----------------------------
(* Instances of SyncQueue for TLC. *)
EXTENDS SyncQueue

\* All findings in one group, each with a CVE of its own.
OneGroupKey == [f \in Findings |-> <<"group", f>>]

\* The findings below the threshold were created first.
LowFirst ==
  CHOOSE rank \in [Findings -> 1..Cardinality(Findings)] :
    \A f, g \in Findings : /\ rank[f] = rank[g] => f = g
                           /\ f \in Below /\ g \notin Below => rank[f] < rank[g]
=============================================================================
