--------------------------- MODULE MCBatchIngest ---------------------------
(* BatchIngest with scanners that report on the same image: s3 finds       *)
(* nothing, s4 has a finding the database refuses, s5 sends no report.     *)
EXTENDS BatchIngest, TLC

CONSTANTS s1, s2, s3, s4, s5, f1, f2, f3, f4

MCReport ==
  s1 :> <<f1, f2>> @@ s2 :> <<f1>> @@ s3 :> <<>> @@ s4 :> <<f3, f4>> @@ s5 :> <<>>
MCGroups == {{s1, s2, s3}, {s1, s2, s4}, {s5}}
============================================================================
