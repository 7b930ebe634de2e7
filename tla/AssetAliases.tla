---------------------------- MODULE AssetAliases ----------------------------
(***************************************************************************)
(* The asset alias table (services/asset_aliases.py): source asset id to   *)
(* canonical asset id.  The table is a function from asset ids to asset    *)
(* ids, NoAsset where there is no row.  Operators only; the state that     *)
(* holds a table is declared by the modules that use it.                   *)
(***************************************************************************)
EXTENDS Integers

CONSTANTS
  Assets,    \* asset ids: image references, repositories, packages
  NoAsset,   \* no row, or a finding that does not exist
  MaxDepth   \* bound on the links followed; the code's default is 16

ASSUME AliasAssumption ==
  /\ NoAsset \notin Assets
  /\ MaxDepth \in Nat \ {0}

AliasTable == [Assets -> Assets \cup {NoAsset}]

NoAliases == [a \in Assets |-> NoAsset]

(***************************************************************************)
(* resolve_canonical_asset_id follows links until there is no row, a row   *)
(* that names itself, an asset already seen, or MaxDepth links.            *)
(***************************************************************************)
Walk(alias, p, n) ==
  \A i \in 0..(n - 1) :
    /\ alias[p[i]] \notin {NoAsset, p[i]}
    /\ p[i + 1] = alias[p[i]]
    /\ \A j \in 0..(i - 1) : p[j] # p[i]

Stops(alias, p, n) ==
  \/ n = MaxDepth
  \/ alias[p[n]] \in {NoAsset, p[n]}
  \/ \E m \in 0..(n - 1) : p[m] = p[n]

ResolveCanonicalAssetId(alias, asset) ==
  IF alias[asset] \in {NoAsset, asset} THEN asset
  ELSE CHOOSE b \in Assets :
         \E n \in 1..MaxDepth : \E p \in [0..n -> Assets] :
           p[0] = asset /\ p[n] = b /\ Walk(alias, p, n) /\ Stops(alias, p, n)

\* The row upsert_asset_alias writes; callers have refused source = canonical.
UpsertAssetAlias(alias, source, canonical) ==
  [alias EXCEPT ![source] = canonical]

\* repoint_aliases: rows that target old now target new, but never a row of new.
RepointAliases(alias, old, new) ==
  [a \in Assets |-> IF alias[a] = old /\ a # new THEN new ELSE alias[a]]

\* No canonical asset is itself merged away: one link leads to the canonical id.
Flat(alias) == \A a \in Assets : alias[a] # NoAsset => alias[alias[a]] = NoAsset
=============================================================================
