---------------------------- MODULE MCVulnFeeds ----------------------------
(* Instances of VulnFeeds for TLC. *)
EXTENDS VulnFeeds

ThreePackages == <<"a", "b", "c">>
FourPackages  == <<"a", "b", "c", "d">>

\* Names and versions agree everywhere, or not with OSV on a, as for Maven.
Everything == Packages \X Strategies
NotMaven   == Everything \ {<<"a", "exact">>}
=============================================================================
