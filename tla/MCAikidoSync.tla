---------------------------- MODULE MCAikidoSync ----------------------------
(* Instances of AikidoSync for TLC. *)
EXTENDS AikidoSync

Order == <<1, 2>>
ClosedAndIgnored == {<<"closed", "ignoredClosed">>}
=============================================================================
