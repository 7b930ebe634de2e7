-------------------------- MODULE MCTrackerInbound --------------------------
(* Instances of TrackerInbound for TLC. *)
EXTENDS TrackerInbound

\* The title of the issue names the CVE of the second finding only.
Order  == <<1, 2>>
Cves   == <<"c2", "c1">>
Titles == [i \in Issues |-> "c1"]
AnyId  == {"c1", "c2"}
Answer(f, r) == [form |-> f, id |-> "c1", raw |-> r]
Rewrites  == {Answer("keyvalue", "RiskAccepted"), Answer("prose", "blank")}
NoneOrFirst == {{}, {1}}
OneAnswer == {Answer("block", "RiskAccepted")}
=============================================================================
