---------------------------- MODULE MCAssetMerge ----------------------------
(***************************************************************************)
(* Instances of AssetMerge for TLC.                                        *)
(***************************************************************************)
EXTENDS AssetMerge, TLC

\* Findings with one component, one digest and one correlation key.
OneGroup   == [f \in Findings |-> "openssl"]
OneDigest  == [f \in Findings |-> "sha256"]
NoDigests  == [f \in Findings |-> NoDigest]
OneCluster == [f \in Findings |-> "key"]
NoClusters == [f \in Findings |-> NoCorrelation]
Containers == [a \in Assets |-> "container"]

\* Asset 2 is a tag variant of asset 1.
TagVariant == {<<2, 1>>}

\* The findings of these instances have the same keys: they are interchangeable.
FindingSymmetry == Permutations(Findings)
=============================================================================
