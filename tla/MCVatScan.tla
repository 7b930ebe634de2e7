----------------------------- MODULE MCVatScan -----------------------------
(* VatScan with two images, two paths, and two items: a running image and one that only  *)
(* Docker has.                                                                           *)
EXTENDS VatScan

CONSTANTS i1, i2
MCItems == {i1, i2}
MCPlace == [i \in MCItems |-> IF i = i1 THEN "containers" ELSE "docker images"]
============================================================================
