------------------------------ MODULE LedgerMerge ------------------------------
(***************************************************************************)
(* The decision ledger together with the alias table: what asset merges    *)
(* (group_asset_into_target, auto_merge_assets_by_digest) do to the keys   *)
(* under which decisions are recorded and looked up.                       *)
(***************************************************************************)
EXTENDS DecisionLedger

CONSTANTS
  MaxDepth,   \* bound on the alias links followed
  GroupKeyOf  \* what makes two findings of an asset duplicates when merged

\* resolve_canonical_asset_id follows at least one link.
ASSUME DepthAssumption == MaxDepth \in Nat \ {0}

VARIABLE alias  \* asset_aliases

mergeVars == <<vars, alias>>

Aliases == INSTANCE AssetAliases

\* resolve_canonical_asset_id over a table, for every asset.
CanonicalIn(t) == [a \in Assets |-> Aliases!ResolveCanonicalAssetId(t, a)]

MergeInit == Init /\ alias = Aliases!NoAliases

(***************************************************************************)
(* register_decision_aliases_for_asset_merge: the primary keys of new are  *)
(* aliased to the decisions recorded under the same keys of old.           *)
(***************************************************************************)

\* Mutant: the alias leads from the old key to the new one.
RegisterDecisionAliasesBackwards(old, new) ==
  [k \in Keys |->
    IF k[1] = "primary" /\ k[2] = old /\ k \in Recorded
    THEN <<"primary", new, k[3]>> ELSE subjectAlias[k]]
RegisterDecisionAliases(old, new) ==
  [k \in Keys |->
    IF k[1] = "primary" /\ k[2] = new /\ <<"primary", old, k[3]>> \in Recorded
    THEN <<"primary", old, k[3]>> ELSE subjectAlias[k]]

\* A merge of source into target.  consolidate: an admin's merge marks moved
\* findings that have a peer on the target Duplicate, a digest merge does not.
MergeAssets(source, target, consolidate) ==
  LET moved == {f \in Findings : image[f] = source}
      img   == [f \in Findings |-> IF f \in moved THEN target ELSE image[f]]
      dup   == {f \in moved : /\ consolidate
                              /\ \E g \in Findings \ {f} :
                                   img[g] = target /\ GroupKeyOf[g] = GroupKeyOf[f]}
  IN  /\ Free /\ source # target
      /\ alias' = Aliases!RepointAliases(
                    Aliases!UpsertAssetAlias(alias, source, target), source, target)
      /\ canonical' = CanonicalIn(alias')
      /\ subjectAlias' = IF alias[source] = target THEN subjectAlias
                         ELSE RegisterDecisionAliases(source, target)
      /\ image' = img
      /\ status' = [f \in Findings |-> IF f \in dup THEN "Duplicate" ELSE status[f]]
      /\ UNCHANGED <<triage, decision, revisions, link, humanNewer, today, job>>

Group(source, requested) == MergeAssets(source, canonical[requested], TRUE)

\* Two assets that share a digest; both have been resolved.
AutoMerge(a, b) == MergeAssets(canonical[a], canonical[b], FALSE)

\* delete_asset: findings and alias rows; decisions and subject aliases stay.
DeleteAssetRows(a) ==
  LET gone == {f \in Findings : image[f] = a}
      rows == {b \in Assets : alias[b] # NoAsset /\ a \in {b, alias[b]}}
  IN  /\ Free /\ gone \cup rows # {}
      /\ DeleteFindings(gone)
      /\ alias' = [b \in Assets |-> IF b \in rows THEN NoAsset ELSE alias[b]]
      /\ canonical' = CanonicalIn(alias')

MergeNext ==
  \/ Operation /\ UNCHANGED alias
  \/ \E a, b \in Assets : Group(a, b)
  \/ \E a, b \in Assets : AutoMerge(a, b)
  \/ \E a \in Assets : DeleteAssetRows(a)

MergeSpec == MergeInit /\ [][MergeNext]_mergeVars

(***************************************************************************)
(* Properties.                                                             *)
(***************************************************************************)

\* A decision follows a merge: for a finding of an asset under whose own key a
\* decision is recorded, some decision is found, although the finding is now
\* looked up under the asset it was merged into.  It holds as long as nobody
\* merges the target of a merge; the docstring promises it of every merge.
DecisionFollowsMerge ==
  \A f \in Findings, a \in Assets :
    PrimaryKey(f, a) \in Recorded => LookupDecision(f, a) # NoKey
=============================================================================
