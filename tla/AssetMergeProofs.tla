--------------------------- MODULE AssetMergeProofs ---------------------------
(***************************************************************************)
(* Asset merges keep the alias table flat and findings on canonical        *)
(* assets, their tables typed, and what is needed to undo them, for every  *)
(* set of assets, findings, digests and events.                            *)
(*                                                                         *)
(* Two features of the code break the first two facts and are assumed away *)
(* where they do: the ingest endpoint's tag aliases skip the repointing    *)
(* that merges do (TagVariants), and findings are put or left on a         *)
(* merged-away asset by an explicit asset header (Explicit) or by a merge  *)
(* that leaves existing findings alone (Reassign).  The others hold with   *)
(* all of these features: MergeTypeOK, StatusesKept, UnmergeUndoes.        *)
(***************************************************************************)
EXTENDS AssetMerge, FiniteSetTheorems, SequenceTheorems, NaturalsInduction,
        WellFoundedInduction, TLAPS

(***************************************************************************)
(* Lemmas about the operators.                                             *)
(***************************************************************************)

\* In a flat table resolution takes at most one link and ends at an asset that
\* is not merged away (resolve_canonical_asset_id).
LEMMA ResolveFlat ==
  ASSUME NEW t \in AliasTable, Flat(t), NEW a \in Assets
  PROVE  /\ ResolveCanonicalAssetId(t, a) \in Assets
         /\ t[ResolveCanonicalAssetId(t, a)] = NoAsset
<1> USE AliasAssumption
<1>1. CASE t[a] = NoAsset
  BY <1>1 DEF ResolveCanonicalAssetId
<1>2. CASE t[a] # NoAsset
  <2> DEFINE b == t[a]
             Ends(c) == \E n \in 1..MaxDepth : \E p \in [0..n -> Assets] :
                          p[0] = a /\ p[n] = c /\ Walk(t, p, n) /\ Stops(t, p, n)
  <2>1. b \in Assets /\ t[b] = NoAsset /\ b # a
    BY <1>2 DEF AliasTable, Flat
  <2>2. Ends(b)
    <3> DEFINE p == [i \in 0..1 |-> IF i = 0 THEN a ELSE b]
    <3>1. p \in [0..1 -> Assets] /\ p[0] = a /\ p[1] = b
      BY <2>1
    <3>2. Walk(t, p, 1)
      BY <3>1, <2>1 DEF Walk
    <3>3. Stops(t, p, 1)
      BY <3>1, <2>1 DEF Stops
    <3>4. 1 \in 1..MaxDepth
      OBVIOUS
    <3> QED BY <3>1, <3>2, <3>3, <3>4
  <2>3. ASSUME NEW c \in Assets, Ends(c) PROVE c = b
    <3>1. PICK n \in 1..MaxDepth : \E p \in [0..n -> Assets] :
                 p[0] = a /\ p[n] = c /\ Walk(t, p, n) /\ Stops(t, p, n)
      BY <2>3
    <3>2. PICK p \in [0..n -> Assets] :
                 p[0] = a /\ p[n] = c /\ Walk(t, p, n) /\ Stops(t, p, n)
      BY <3>1
    <3>3. n \in Nat /\ n >= 1
      OBVIOUS
    <3>4. p[1] = b
      BY <3>2, <3>3 DEF Walk
    <3>5. n = 1
      <4>1. SUFFICES ASSUME n >= 2 PROVE FALSE
        BY <3>3
      <4>2. 1 \in 0..(n - 1)
        BY <3>3, <4>1
      <4>3. t[p[1]] # NoAsset
        BY <3>2, <4>2 DEF Walk
      <4> QED BY <4>3, <3>4, <2>1
    <3> QED BY <3>2, <3>4, <3>5
  <2>4. ResolveCanonicalAssetId(t, a) = CHOOSE c \in Assets : Ends(c)
    BY <1>2, <2>1 DEF ResolveCanonicalAssetId
  <2> HIDE DEF Ends, b
  <2>5. ResolveCanonicalAssetId(t, a) \in Assets /\ Ends(ResolveCanonicalAssetId(t, a))
    BY <2>1, <2>2, <2>4
  <2> QED BY <2>1, <2>3, <2>5
<1> QED BY <1>1, <1>2

\* _canonical_pick chooses one of the assets it is given.
LEMMA PickChooses ==
  ASSUME NEW S, S \subseteq Assets, S # {}
  PROVE  CanonicalPick(S) \in S
<1>1. S \subseteq Nat
  BY MergeAssumption
<1>2. PICK a \in S : \A b \in S : ~ (<<b, a>> \in OpToRel(<, Nat))
  BY <1>1, NatLessThanWellFounded, WFMin, Zenon
<1>3. ASSUME NEW b \in S PROVE a <= b
  <2>1. a \in Nat /\ b \in Nat
    BY <1>1
  <2>2. ASSUME b < a PROVE <<b, a>> \in OpToRel(<, Nat)
    BY <2>1, <2>2 DEF OpToRel
  <2>3. ~ (b < a)
    BY <1>2, <2>2, Zenon
  <2> QED BY <2>1, <2>3
<1> QED BY <1>3 DEF CanonicalPick

(***************************************************************************)
(* The inductive invariant.  Flatness needs the types of the tables that   *)
(* merges read asset ids from; the findings' assets need flatness.         *)
(***************************************************************************)
AliasInv ==
  /\ alias \in AliasTable
  /\ image \in [Findings -> Assets \cup {NoAsset}]
  /\ index \in [Digests -> SUBSET Assets]
  /\ Flat(alias)

MergeInv == AliasInv /\ FindingsOnCanonical

\* upsert_asset_alias and repoint_aliases together keep the table flat when the
\* target is canonical, and give a row to the source only.
LEMMA MergeKeepsFlat ==
  ASSUME NEW t \in AliasTable, Flat(t), NEW s \in Assets, NEW c \in Assets,
         s # c, t[c] = NoAsset
  PROVE  LET u == RepointAliases(UpsertAssetAlias(t, s, c), s, c)
         IN  /\ u \in AliasTable /\ Flat(u)
             /\ \A a \in Assets \ {s} : t[a] = NoAsset => u[a] = NoAsset
<1> DEFINE u == RepointAliases(UpsertAssetAlias(t, s, c), s, c)
<1>1. \A a \in Assets : u[a] = IF a = s THEN c
                              ELSE IF t[a] = s THEN c ELSE t[a]
  BY AliasAssumption DEF AliasTable, RepointAliases, UpsertAssetAlias
<1>2. u \in AliasTable
  BY DEF AliasTable, RepointAliases, UpsertAssetAlias
<1>3. Flat(u)
  <2> SUFFICES ASSUME NEW a \in Assets, u[a] # NoAsset
               PROVE  u[u[a]] = NoAsset
    BY DEF Flat
  <2>1. u[c] = NoAsset
    BY <1>1, AliasAssumption
  <2>2. CASE a = s \/ t[a] = s
    BY <2>1, <2>2, <1>1
  <2>3. CASE a # s /\ t[a] # s
    <3>1. u[a] = t[a] /\ t[a] \in Assets /\ t[t[a]] = NoAsset
      BY <1>1, <2>3 DEF AliasTable, Flat
    <3> QED BY <1>1, <2>3, <3>1, AliasAssumption
  <2> QED BY <2>2, <2>3
<1>4. \A a \in Assets \ {s} : t[a] = NoAsset => u[a] = NoAsset
  BY <1>1, AliasAssumption
<1> QED BY <1>2, <1>3, <1>4

(***************************************************************************)
(* One lemma per action that writes alias rows, images or the index.       *)
(***************************************************************************)

\* An import lands on a canonical asset unless the header names another.
LEMMA IngestKeeps ==
  ASSUME AliasInv, NEW f \in Findings, NEW a \in Assets, NEW e \in BOOLEAN,
         NEW st, Ingest(f, a, e, st)
  PROVE  /\ AliasInv'
         /\ ~e /\ FindingsOnCanonical => FindingsOnCanonical'
<1>1. Resolve(a) \in Assets /\ alias[Resolve(a)] = NoAsset
  BY ResolveFlat DEF AliasInv, Resolve
<1>2. alias' = alias /\ index' = index
      /\ image' = [image EXCEPT ![f] = IF e THEN a ELSE Resolve(a)]
  BY DEF Ingest, IngestImage
<1>3. AliasInv'
  BY <1>1, <1>2 DEF AliasInv
<1>4. ASSUME ~e, FindingsOnCanonical PROVE FindingsOnCanonical'
  BY <1>1, <1>2, <1>4 DEF FindingsOnCanonical, Live, AliasInv
<1> QED BY <1>3, <1>4

\* A merge of source into the canonical target of a request.
LEMMA GroupKeeps ==
  ASSUME AliasInv, NEW s \in Assets, NEW r \in Assets, NEW g \in BOOLEAN,
         Group(s, r, g)
  PROVE  /\ AliasInv'
         /\ g /\ FindingsOnCanonical => FindingsOnCanonical'
<1> DEFINE t == Resolve(r)
<1>1. t \in Assets /\ alias[t] = NoAsset
  BY ResolveFlat DEF AliasInv, Resolve
<1>2. /\ s # t /\ index' = index
      /\ alias' = RepointAliases(UpsertAssetAlias(alias, s, t), s, t)
      /\ image' = [f \in Findings |-> IF g /\ image[f] = s THEN t ELSE image[f]]
  BY DEF Group
<1>3. /\ alias' \in AliasTable /\ Flat(alias')
      /\ \A a \in Assets \ {s} : alias[a] = NoAsset => alias'[a] = NoAsset
  BY <1>1, <1>2, MergeKeepsFlat DEF AliasInv
<1>4. AliasInv'
  BY <1>1, <1>2, <1>3 DEF AliasInv
<1>5. ASSUME g, FindingsOnCanonical PROVE FindingsOnCanonical'
  <2> SUFFICES ASSUME NEW f \in Findings, image'[f] # NoAsset
               PROVE  alias'[image'[f]] = NoAsset
    BY DEF FindingsOnCanonical, Live
  <2>1. CASE image[f] = s
    BY <1>1, <1>2, <1>3, <1>5, <2>1
  <2>2. CASE image[f] # s
    <3>1. image'[f] = image[f] /\ image[f] \in Assets \ {s}
      BY <1>2, <2>2 DEF AliasInv
    <3>2. alias[image[f]] = NoAsset
      BY <1>5, <3>1, AliasAssumption DEF FindingsOnCanonical, Live
    <3> QED BY <1>3, <3>1, <3>2
  <2> QED BY <2>1, <2>2
<1> QED BY <1>4, <1>5

\* An unmerge removes one row and moves findings to the asset it frees.
LEMMA UnmergeKeeps ==
  ASSUME AliasInv, NEW s \in Assets, NEW t \in Assets, Unmerge(s, t)
  PROVE  AliasInv' /\ (FindingsOnCanonical => FindingsOnCanonical')
<1>1. /\ alias' = [alias EXCEPT ![s] = NoAsset] /\ index' = index
      /\ \A f \in Findings : image'[f] \in {image[f], s}
      /\ image' \in [Findings -> Assets \cup {NoAsset}]
  BY DEF Unmerge, RestoredImage, AliasInv
<1>2. AliasInv'
  BY <1>1, AliasAssumption DEF AliasInv, AliasTable, Flat
<1>3. ASSUME FindingsOnCanonical PROVE FindingsOnCanonical'
  BY <1>1, <1>3 DEF FindingsOnCanonical, Live, AliasInv, AliasTable
<1> QED BY <1>2, <1>3

\* The index holds assets that exist.
LEMMA AutoMergeStartKeeps ==
  ASSUME AliasInv, AutoMergeStart
  PROVE  AliasInv' /\ (FindingsOnCanonical => FindingsOnCanonical')
<1>1. alias' = alias /\ image' = image
  BY DEF AutoMergeStart
<1>2. PICK observed \in [Digests -> SUBSET Observed] :
        index' = [d \in Digests |->
                   observed[d] \cup {image[f] : f \in {g \in Live : DigestOf[g] = d}}]
  BY DEF AutoMergeStart
<1>3. index' \in [Digests -> SUBSET Assets]
  <2>1. ASSUME NEW d \in Digests
        PROVE  observed[d] \cup {image[f] : f \in {g \in Live : DigestOf[g] = d}}
                 \subseteq Assets
    <3>1. observed[d] \subseteq Assets
      BY MergeAssumption
    <3>2. \A f \in Live : image[f] \in Assets
      BY DEF AliasInv, Live
    <3> QED BY <3>1, <3>2
  <2> QED BY <1>2, <2>1
<1> QED BY <1>1, <1>3 DEF AliasInv, FindingsOnCanonical, Live

\* A digest's assets of one kind become one: the chosen ones are canonical and
\* are not merged away by the same step.
LEMMA AutoMergeDigestKeeps ==
  ASSUME AliasInv, NEW d \in Digests, AutoMergeDigest(d)
  PROVE  AliasInv' /\ (FindingsOnCanonical => FindingsOnCanonical')
<1> DEFINE canonicals == {Resolve(a) : a \in index[d]}
           pick(a) == CanonicalPick({b \in canonicals : kind[b] = kind[a]})
           sources == {a \in canonicals : pick(a) # a}
<1>1. canonicals \subseteq Assets /\ \A a \in canonicals : alias[a] = NoAsset
  <2> SUFFICES ASSUME NEW a \in index[d]
               PROVE  Resolve(a) \in Assets /\ alias[Resolve(a)] = NoAsset
    OBVIOUS
  <2>1. a \in Assets
    BY DEF AliasInv
  <2> QED BY <2>1, ResolveFlat DEF AliasInv, Resolve
<1>2. ASSUME NEW a \in canonicals
      PROVE  pick(a) \in canonicals /\ pick(a) \notin sources
  <2> DEFINE S == {b \in canonicals : kind[b] = kind[a]}
  <2>1. S \subseteq Assets /\ S # {}
    BY <1>1, <1>2
  <2>2. CanonicalPick(S) \in S
    BY <2>1, PickChooses
  <2>3. kind[pick(a)] = kind[a] /\ pick(a) \in canonicals
    BY <2>2
  <2>4. pick(pick(a)) = pick(a)
    BY <2>3
  <2> QED BY <2>3, <2>4
<1>3. /\ alias' = [a \in Assets |->
           IF a \in sources THEN pick(a)
           ELSE IF alias[a] \in sources /\ a # pick(alias[a]) THEN pick(alias[a])
           ELSE alias[a]]
      /\ image' = [f \in Findings |->
           IF f \in Live /\ image[f] \in sources THEN pick(image[f]) ELSE image[f]]
      /\ index' = [index EXCEPT ![d] = {}]
  BY DEF AutoMergeDigest
<1> HIDE DEF pick, canonicals
<1>4. sources \subseteq canonicals
  OBVIOUS
<1> HIDE DEF sources
<1>5. \A a \in sources : pick(a) \in Assets /\ alias[pick(a)] = NoAsset /\ pick(a) \notin sources
  BY <1>1, <1>2, <1>4
<1>6. \A a \in Assets \ sources : alias[a] = NoAsset => alias'[a] = NoAsset
  BY <1>1, <1>3, <1>4, AliasAssumption
<1>7. alias' \in AliasTable
  BY <1>3, <1>5 DEF AliasInv, AliasTable
<1>8. Flat(alias')
  <2> SUFFICES ASSUME NEW a \in Assets, alias'[a] # NoAsset
               PROVE  alias'[alias'[a]] = NoAsset
    BY DEF Flat
  <2>1. CASE a \in sources
    BY <2>1, <1>3, <1>5, <1>6
  <2>2. CASE a \notin sources /\ alias[a] \in sources
    \* The pick has no row, so it is not the asset whose row is repointed.
    <3>1. a # pick(alias[a])
      BY <2>2, <1>5, <1>1, <1>4, AliasAssumption
    <3> QED BY <2>2, <3>1, <1>3, <1>5, <1>6
  <2>3. CASE a \notin sources /\ alias[a] \notin sources
    <3>1. alias'[a] = alias[a] /\ alias[a] \in Assets \ sources /\ alias[alias[a]] = NoAsset
      BY <2>3, <1>3 DEF AliasInv, AliasTable, Flat
    <3> QED BY <3>1, <1>6
  <2> QED BY <2>1, <2>2, <2>3
<1>9. AliasInv'
  <2>1. image' \in [Findings -> Assets \cup {NoAsset}]
    BY <1>3, <1>5 DEF AliasInv
  <2>2. index' \in [Digests -> SUBSET Assets]
    BY <1>3 DEF AliasInv
  <2> QED BY <1>7, <1>8, <2>1, <2>2 DEF AliasInv
<1>10. ASSUME FindingsOnCanonical PROVE FindingsOnCanonical'
  <2> SUFFICES ASSUME NEW f \in Findings, image'[f] # NoAsset
               PROVE  alias'[image'[f]] = NoAsset
    BY DEF FindingsOnCanonical, Live
  <2>1. CASE f \in Live /\ image[f] \in sources
    BY <2>1, <1>3, <1>5, <1>6
  <2>2. CASE ~(f \in Live /\ image[f] \in sources)
    <3>1. image'[f] = image[f] /\ f \in Live /\ image[f] \in Assets \ sources
      BY <2>2, <1>3 DEF AliasInv, Live
    <3> QED BY <1>6, <1>10, <3>1 DEF FindingsOnCanonical
  <2> QED BY <2>1, <2>2
<1> QED BY <1>9, <1>10

\* Deleting an asset removes rows and images only.
LEMMA DeleteKeeps ==
  ASSUME AliasInv, NEW a \in Assets, DeleteAsset(a)
  PROVE  AliasInv' /\ (FindingsOnCanonical => FindingsOnCanonical')
<1>1. /\ alias' = [b \in Assets |-> IF a \in {b, alias[b]} THEN NoAsset ELSE alias[b]]
      /\ image' = [f \in Findings |-> IF image[f] = a THEN NoAsset ELSE image[f]]
      /\ index' = index
  BY DEF DeleteAsset
<1>2. AliasInv'
  BY <1>1, AliasAssumption DEF AliasInv, AliasTable, Flat
<1>3. ASSUME FindingsOnCanonical PROVE FindingsOnCanonical'
  BY <1>1, <1>3 DEF FindingsOnCanonical, Live, AliasInv, AliasTable
<1> QED BY <1>2, <1>3

\* The other actions leave the three tables alone.
LEMMA StepKeeps ==
  ASSUME AliasInv, TagVariants = {}, [Next]_vars
  PROVE  /\ AliasInv'
         /\ FindingsOnCanonical /\ Explicit = {FALSE} /\ Reassign = {TRUE}
              => FindingsOnCanonical'
<1> DEFINE Same == alias' = alias /\ image' = image /\ index' = index
<1>1. CASE Same
  BY <1>1 DEF AliasInv, FindingsOnCanonical, Live
<1>2. ASSUME NEW f \in Findings, NEW a \in Assets, NEW e \in Explicit, NEW st \in Statuses,
             Ingest(f, a, e, st)
      PROVE  AliasInv' /\ (Explicit = {FALSE} /\ FindingsOnCanonical => FindingsOnCanonical')
  BY <1>2, IngestKeeps, MergeAssumption
<1>3. ASSUME NEW a \in Assets, NEW b \in Assets, NEW g \in Reassign, Group(a, b, g)
      PROVE  AliasInv' /\ (Reassign = {TRUE} /\ FindingsOnCanonical => FindingsOnCanonical')
  BY <1>3, GroupKeeps, MergeAssumption
<1>4. ASSUME NEW f \in Findings, NEW st \in Statuses, IngestAgain(f, st) PROVE Same
  BY <1>4 DEF IngestAgain
<1>5. ASSUME NEW f \in Findings, NEW st \in Statuses, Review(f, st) PROVE Same
  BY <1>5 DEF Review
<1>6. CASE UNCHANGED vars
  BY <1>1, <1>6 DEF vars
<1> QED
  BY <1>1, <1>2, <1>3, <1>4, <1>5, <1>6, UnmergeKeeps, AutoMergeStartKeeps,
     AutoMergeDigestKeeps, DeleteKeeps DEF Next

\* There are no rows at first.
LEMMA InitKeeps == Init => MergeInv
BY AliasAssumption
   DEF Init, MergeInv, AliasInv, FindingsOnCanonical, Live, AliasTable, NoAliases, Flat, NoIndex

(***************************************************************************)
(* The theorems.                                                           *)
(***************************************************************************)

\* However merges by admins (group_asset_into_target), digest merges, unmerges and
\* deletions are chained and interleaved, every alias leads to a canonical asset
\* in one link, so max_depth never cuts a resolution short.
THEOREM AliasesStayFlat ==
  ASSUME TagVariants = {}
  PROVE  Spec => []FlatAliases
<1>1. Init => AliasInv
  BY InitKeeps DEF MergeInv
<1>2. AliasInv /\ [Next]_vars => AliasInv'
  BY StepKeeps
<1>3. AliasInv => FlatAliases
  BY DEF AliasInv, FlatAliases
<1> QED BY <1>1, <1>2, <1>3, PTL DEF Spec

\* No finding is left on, or imported to, an asset that has been merged away.
THEOREM FindingsStayOnCanonical ==
  ASSUME TagVariants = {}, Explicit = {FALSE}, Reassign = {TRUE}
  PROVE  Spec => []FindingsOnCanonical
<1>1. Init => MergeInv
  BY InitKeeps
<1>2. MergeInv /\ [Next]_vars => MergeInv'
  BY StepKeeps DEF MergeInv
<1>3. MergeInv => FindingsOnCanonical
  BY DEF MergeInv
<1> QED BY <1>1, <1>2, <1>3, PTL DEF Spec

(***************************************************************************)
(* Finite sets of places, and the elements of a sequence at such places.   *)
(***************************************************************************)

\* A set of numbers has a least one: the induction the proofs below use.
LEMMA LeastOf ==
  ASSUME NEW S \in SUBSET Nat, S # {}
  PROVE  \E m \in S : \A k \in S : m <= k
<1>1. PICK m \in S : \A k \in S : ~ (<<k, m>> \in OpToRel(<, Nat))
  BY NatLessThanWellFounded, WFMin, Zenon
<1>2. ASSUME NEW k \in S PROVE m <= k
  <2>1. k \in Nat /\ m \in Nat
    OBVIOUS
  <2>2. ASSUME k < m PROVE <<k, m>> \in OpToRel(<, Nat)
    BY <2>1, <2>2 DEF OpToRel
  <2>3. ~(k < m)
    BY <1>1, <2>2, Zenon
  <2>4. QED
    BY <2>1, <2>3
<1>3. QED
  BY <1>2

\* Different places of a set have different ranks.
LEMMA PlaceFacts ==
  ASSUME NEW N \in Nat, NEW S \in SUBSET (1..N)
  PROVE  /\ IsFiniteSet(S) /\ Cardinality(S) \in Nat
         /\ \A i \in S : Place(S, i) \in 1..Cardinality(S)
         /\ \A i, j \in S : Place(S, i) = Place(S, j) => i = j
<1> DEFINE Upto(i) == {j \in S : j <= i}
<1>1. IsFiniteSet(S) /\ Cardinality(S) \in Nat
  <2>1. IsFiniteSet(1..N)
    BY FS_Interval
  <2>2. IsFiniteSet(S)
    BY <2>1, FS_Subset
  <2>3. QED
    BY <2>2, FS_CardinalityType
<1>2. ASSUME NEW i \in S
      PROVE  /\ IsFiniteSet(Upto(i)) /\ Cardinality(Upto(i)) \in 1..Cardinality(S)
  <2>1. Upto(i) \in SUBSET S
    OBVIOUS
  <2>2. IsFiniteSet(Upto(i)) /\ Cardinality(Upto(i)) <= Cardinality(S)
    BY <1>1, <2>1, FS_Subset
  <2>3. i \in Upto(i)
    OBVIOUS
  <2>4. Cardinality(Upto(i)) \in Nat /\ Cardinality(Upto(i)) # 0
    BY <2>2, <2>3, FS_CardinalityType, FS_EmptySet
  <2>5. QED
    BY <1>1, <2>2, <2>4
<1>3. ASSUME NEW i \in S, NEW j \in S, Cardinality(Upto(i)) = Cardinality(Upto(j)), i < j
      PROVE  FALSE
  <2>1. Upto(i) \in SUBSET Upto(j)
    <3>1. \A k \in S : k \in Nat
      OBVIOUS
    <3>2. \A k \in S : k <= i => k <= j
      BY <1>3, <3>1
    <3>3. QED
      BY <3>2
  <2>2. Upto(i) = Upto(j)
    BY <1>2, <1>3, <2>1, FS_Subset
  <2>3. j \in Upto(j) /\ j \notin Upto(i)
    BY <1>3
  <2>4. QED
    BY <2>2, <2>3
<1>4. \A i, j \in S : i < j \/ i = j \/ j < i
  OBVIOUS
<1>5. QED
  BY <1>1, <1>2, <1>3, <1>4 DEF Place

\* Every rank up to the size of the set is taken.
LEMMA NthFacts ==
  ASSUME NEW N \in Nat, NEW S \in SUBSET (1..N)
  PROVE  /\ \A n \in 1..Cardinality(S) : Nth(S, n) \in S /\ Place(S, Nth(S, n)) = n
         /\ \A i \in S : Nth(S, Place(S, i)) = i
<1> DEFINE p == [i \in S |-> Place(S, i)]
           C == 1..Cardinality(S)
<1>1. /\ IsFiniteSet(S) /\ Cardinality(S) \in Nat
      /\ \A i \in S : Place(S, i) \in C
      /\ \A i, j \in S : Place(S, i) = Place(S, j) => i = j
  BY PlaceFacts
<1>2. p \in Injection(S, C)
  BY <1>1 DEF Injection, IsInjective
<1>3. IsFiniteSet(C) /\ Cardinality(C) = Cardinality(S)
  BY <1>1, FS_Interval
<1>4. p \in Surjection(S, C)
  BY <1>2, <1>3, FS_Injection
<1>5. \A n \in C : \E i \in S : Place(S, i) = n
  BY <1>4 DEF Surjection
<1>6. QED
  BY <1>1, <1>5 DEF Nth

\* From an asset with a row, some walk of at least one link stops.
LEMMA SomeWalkStops ==
  ASSUME NEW t \in AliasTable, NEW a \in Assets, t[a] \notin {NoAsset, a}
  PROVE  \E n \in 1..MaxDepth : \E p \in [0..n -> Assets] :
           p[0] = a /\ Walk(t, p, n) /\ Stops(t, p, n)
<1> USE AliasAssumption
<1> DEFINE Walks(n) == \E p \in [0..n -> Assets] : p[0] = a /\ Walk(t, p, n)
           Spare == {k \in Nat : MaxDepth - k \in 1..MaxDepth /\ Walks(MaxDepth - k)}
<1>1. Walks(1)
  <2> DEFINE p == [i \in 0..1 |-> IF i = 0 THEN a ELSE t[a]]
  <2>1. p \in [0..1 -> Assets] /\ p[0] = a /\ p[1] = t[a]
    BY DEF AliasTable
  <2>2. Walk(t, p, 1)
    BY <2>1 DEF Walk
  <2>3. QED
    BY <2>1, <2>2
<1>2. MaxDepth - 1 \in Spare
  <2>1. MaxDepth - (MaxDepth - 1) = 1 /\ MaxDepth - 1 \in Nat /\ 1 \in 1..MaxDepth
    OBVIOUS
  <2> HIDE DEF Walks
  <2>2. QED
    BY <1>1, <2>1
<1>3. PICK k \in Spare : \A j \in Spare : ~ (<<j, k>> \in OpToRel(<, Nat))
  <2>1. Spare \subseteq Nat /\ Spare # {}
    BY <1>2
  <2> HIDE DEF Spare
  <2>2. QED
    BY <2>1, NatLessThanWellFounded, WFMin, Zenon
<1> DEFINE n == MaxDepth - k
<1>4. k \in Nat /\ n \in 1..MaxDepth /\ Walks(n) /\ k = MaxDepth - n
  OBVIOUS
<1> HIDE DEF n
<1>5. PICK p \in [0..n -> Assets] : p[0] = a /\ Walk(t, p, n)
  BY <1>4
<1>6. Stops(t, p, n)
  <2> SUFFICES ASSUME ~ Stops(t, p, n) PROVE FALSE
    OBVIOUS
  <2>1. /\ n # MaxDepth /\ t[p[n]] \notin {NoAsset, p[n]}
        /\ \A m \in 0..(n - 1) : p[m] # p[n]
    BY DEF Stops
  <2> DEFINE q == [i \in 0..(n + 1) |-> IF i <= n THEN p[i] ELSE t[p[n]]]
  <2>2. n \in Nat /\ n + 1 \in 1..MaxDepth /\ p[n] \in Assets /\ t[p[n]] \in Assets
    BY <1>4, <2>1 DEF AliasTable
  <2>3. \A i \in 0..n : q[i] = p[i]
    BY <2>2
  <2>4. q[n + 1] = t[p[n]] /\ q \in [0..(n + 1) -> Assets] /\ q[0] = a
    BY <1>5, <2>2
  <2> HIDE DEF q
  <2>5. Walk(t, q, n + 1)
    <3> SUFFICES ASSUME NEW i \in 0..n
                 PROVE  /\ t[q[i]] \notin {NoAsset, q[i]}
                        /\ q[i + 1] = t[q[i]]
                        /\ \A j \in 0..(i - 1) : q[j] # q[i]
      BY <2>2 DEF Walk
    <3>1. CASE i = n
      BY <2>1, <2>2, <2>3, <2>4, <3>1
    <3>2. CASE i # n
      <4>1. i \in 0..(n - 1) /\ i + 1 \in 0..n /\ \A j \in 0..(i - 1) : j \in 0..n
        BY <2>2, <3>2
      <4>2. /\ t[p[i]] \notin {NoAsset, p[i]} /\ p[i + 1] = t[p[i]]
            /\ \A j \in 0..(i - 1) : p[j] # p[i]
        BY <1>5, <4>1 DEF Walk
      <4>3. QED
        BY <2>3, <4>1, <4>2
    <3>3. QED
      BY <3>1, <3>2
  <2>6. Walks(n + 1)
    BY <2>4, <2>5
  <2>7. k - 1 \in Nat /\ MaxDepth - (k - 1) = n + 1 /\ k - 1 < k
    BY <1>4, <2>1, <2>2
  <2> HIDE DEF Walks
  <2>8. k - 1 \in Spare
    BY <2>2, <2>6, <2>7
  <2> HIDE DEF Spare
  <2>9. <<k - 1, k>> \in OpToRel(<, Nat)
    BY <1>4, <2>7 DEF OpToRel
  <2>10. QED
    BY <1>3, <2>8, <2>9, Zenon
<1>7. QED
  BY <1>4, <1>5, <1>6

\* A function on 1..n is a sequence.
LEMMA SeqOf ==
  ASSUME NEW T, NEW n \in Nat, NEW g \in [1..n -> T]
  PROVE  g \in Seq(T) /\ Len(g) = n /\ DOMAIN g = 1..n
OBVIOUS

\* The chosen elements of a sequence are elements of it, and all that were meant.
LEMMA ChosenFacts ==
  ASSUME NEW T, NEW s \in Seq(T), NEW S \in SUBSET (DOMAIN s)
  PROVE  /\ Chosen(s, S) \in Seq(T)
         /\ \A n \in DOMAIN Chosen(s, S) : \E i \in S : Chosen(s, S)[n] = s[i]
         /\ \A i \in S : \E n \in DOMAIN Chosen(s, S) : Chosen(s, S)[n] = s[i]
<1> DEFINE N == Len(s)
           C == Cardinality(S)
<1>1. N \in Nat /\ DOMAIN s = 1..N
  OBVIOUS
<1> HIDE DEF N
<1>2. S \in SUBSET (1..N)
  BY <1>1
<1>3. /\ C \in Nat /\ \A i \in S : Place(S, i) \in 1..C
      /\ \A n \in 1..C : Nth(S, n) \in S
      /\ \A i \in S : Nth(S, Place(S, i)) = i
  BY <1>1, <1>2, PlaceFacts, NthFacts
<1> HIDE DEF C
<1>4. Chosen(s, S) = [n \in 1..C |-> s[Nth(S, n)]]
  BY DEF Chosen, C
<1>5. \A i \in S : s[i] \in T
  BY <1>1
<1>6. Chosen(s, S) \in [1..C -> T]
  BY <1>3, <1>4, <1>5
<1>7. Chosen(s, S) \in Seq(T) /\ DOMAIN Chosen(s, S) = 1..C
  BY <1>3, <1>6, SeqOf
<1>8. \A n \in 1..C : Chosen(s, S)[n] = s[Nth(S, n)]
  BY <1>4
<1>9. QED
  BY <1>3, <1>7, <1>8

\* One sequence after another.
LEMMA ConcatFacts ==
  ASSUME NEW T, NEW s \in Seq(T), NEW t \in Seq(T)
  PROVE  /\ s \o t \in Seq(T) /\ Len(s \o t) = Len(s) + Len(t)
         /\ \A i \in 1..Len(s) : (s \o t)[i] = s[i]
         /\ \A i \in 1..Len(t) : (s \o t)[Len(s) + i] = t[i]
<1>1. Len(s) \in Nat /\ Len(t) \in Nat
  OBVIOUS
<1>2. /\ s \o t \in Seq(T) /\ Len(s \o t) = Len(s) + Len(t)
      /\ \A i \in 1..(Len(s) + Len(t)) :
           (s \o t)[i] = IF i <= Len(s) THEN s[i] ELSE t[i - Len(s)]
  BY ConcatProperties
<1> DEFINE m == Len(s)
           n == Len(t)
           u == s \o t
<1> HIDE DEF m, n, u
<1>3. \A i \in 1..m : u[i] = s[i]
  BY <1>1, <1>2 DEF m, n, u
<1>4. ASSUME NEW i \in 1..n PROVE u[m + i] = t[i]
  <2>1. m + i \in 1..(m + n) /\ ~(m + i <= m) /\ (m + i) - m = i
    BY <1>1 DEF m, n
  <2>2. QED
    BY <1>2, <2>1 DEF m, n, u
<1>5. QED
  BY <1>2, <1>3, <1>4 DEF m, n, u

\* The oldest finding of a set (select_correlation_cluster, group_asset_into_target).
LEMMA OldestIn ==
  ASSUME NEW rows \in Seq(Findings), NEW S, NEW k \in DOMAIN rows, rows[k] \in S
  PROVE  Oldest(S, rows) \in S /\ Oldest(S, rows) \in Findings
<1> DEFINE D == {i \in DOMAIN rows : rows[i] \in S}
<1>1. D \in SUBSET Nat /\ D # {} /\ DOMAIN rows = 1..Len(rows) /\ Len(rows) \in Nat
  OBVIOUS
<1>2. PICK m \in D : \A i \in D : m <= i
  BY <1>1, LeastOf
<1>3. \A j \in 1..(m - 1) : rows[j] \notin S
  <2> SUFFICES ASSUME NEW j \in 1..(m - 1), rows[j] \in S PROVE FALSE
    OBVIOUS
  <2>1. m \in 1..Len(rows) /\ j \in 1..Len(rows) /\ ~(m <= j)
    BY <1>1, <1>2
  <2>2. j \in D
    BY <1>1, <2>1
  <2>3. QED
    BY <1>2, <2>1, <2>2
<1> DEFINE P(i) == rows[i] \in S /\ \A j \in 1..(i - 1) : rows[j] \notin S
           c == CHOOSE i \in DOMAIN rows : P(i)
<1>4. m \in DOMAIN rows /\ P(m)
  BY <1>2, <1>3
<1>5. c \in DOMAIN rows /\ P(c)
  <2> HIDE DEF P
  <2>1. QED
    BY <1>4
<1>6. rows[c] \in S /\ rows[c] \in Findings
  BY <1>5
<1>7. Oldest(S, rows) = rows[c]
  BY DEF Oldest
<1> HIDE DEF c, P
<1>8. QED
  BY <1>6, <1>7

Correlations == [Findings -> Findings \cup {NoFinding}]

\* apply_correlation_linking: links are to rows there are, and only findings with a
\* correlation key get one.
LEMMA LinkingFacts ==
  ASSUME NEW c \in Correlations, NEW rows \in Seq(Findings), NEW subjects
  PROVE  /\ Linking(c, rows, subjects) \in Correlations
         /\ \A f \in Findings : CorrelationKeyOf[f] = NoCorrelation => Linking(c, rows, subjects)[f] = c[f]
<1> DEFINE cluster(f) == {g \in Findings : /\ \E i \in DOMAIN rows : rows[i] = g
                                           /\ CorrelationKeyOf[g] = CorrelationKeyOf[f]}
           linked(f) == /\ CorrelationKeyOf[f] # NoCorrelation /\ f \in cluster(f)
                        /\ cluster(f) \cap subjects # {} /\ f # Oldest(cluster(f), rows)
<1>1. Linking(c, rows, subjects) = [f \in Findings |-> IF linked(f) THEN Oldest(cluster(f), rows) ELSE c[f]]
  BY DEF Linking
<1>2. ASSUME NEW f \in Findings, linked(f) PROVE Oldest(cluster(f), rows) \in Findings
  <2>1. PICK i \in DOMAIN rows : rows[i] = f
    BY <1>2
  <2>2. rows[i] \in cluster(f)
    BY <1>2, <2>1
  <2> HIDE DEF cluster, linked
  <2>3. QED
    BY <2>2, OldestIn
<1>3. \A f \in Findings : CorrelationKeyOf[f] = NoCorrelation => ~linked(f)
  OBVIOUS
<1> HIDE DEF linked, cluster
<1>4. QED
  BY <1>1, <1>2, <1>3 DEF Correlations

\* resolve_canonical_asset_id ends at an asset, whatever the table.
LEMMA ResolveTyped ==
  ASSUME NEW t \in AliasTable, NEW a \in Assets
  PROVE  ResolveCanonicalAssetId(t, a) \in Assets
<1>1. CASE t[a] \in {NoAsset, a}
  BY <1>1 DEF ResolveCanonicalAssetId
<1>2. CASE t[a] \notin {NoAsset, a}
  <2> DEFINE Ends(b) == \E n \in 1..MaxDepth : \E p \in [0..n -> Assets] :
                          /\ p[0] = a /\ p[n] = b /\ Walk(t, p, n) /\ Stops(t, p, n)
  <2>1. \E b \in Assets : Ends(b)
    <3>1. PICK n \in 1..MaxDepth : \E p \in [0..n -> Assets] :
                 p[0] = a /\ Walk(t, p, n) /\ Stops(t, p, n)
      BY <1>2, SomeWalkStops
    <3>2. PICK p \in [0..n -> Assets] : p[0] = a /\ Walk(t, p, n) /\ Stops(t, p, n)
      BY <3>1
    <3>3. p[n] \in Assets
      BY AliasAssumption
    <3>4. QED
      BY <3>2, <3>3
  <2>2. ResolveCanonicalAssetId(t, a) = CHOOSE b \in Assets : Ends(b)
    BY <1>2 DEF ResolveCanonicalAssetId
  <2> HIDE DEF Ends
  <2>3. QED
    BY <2>1, <2>2
<1>3. QED
  BY <1>1, <1>2

(***************************************************************************)
(* What unmerge makes of correlated_to is defined along the events: it     *)
(* exists, and is typed, by induction over their number.                   *)
(***************************************************************************)

\* From c, step by step with G.
Iterations(T, N, c, G) == {g \in [0..N -> T] : g[0] = c /\ \A i \in 1..N : g[i] = G[i][g[i - 1]]}

\* There is a run of any length, by its shortest counterexample.
LEMMA IterationExists ==
  ASSUME NEW T, NEW N \in Nat, NEW c \in T, NEW G, \A i \in 1..N : \A x \in T : G[i][x] \in T
  PROVE  Iterations(T, N, c, G) # {}
<1>0. SUFFICES \E g \in [0..N -> T] : g[0] = c /\ \A i \in 1..N : g[i] = G[i][g[i - 1]]
  BY DEF Iterations
<1> DEFINE Runs(n) == \E g \in [0..n -> T] : g[0] = c /\ \A i \in 1..n : g[i] = G[i][g[i - 1]]
           D == {k \in Nat : k <= N /\ ~Runs(k)}
<1>1. SUFFICES ASSUME ~Runs(N) PROVE FALSE
  OBVIOUS
<1>2. D \in SUBSET Nat /\ D # {}
  <2>1. N \in D
    BY <1>1
  <2>2. QED
    BY <2>1
<1>3. PICK k \in D : \A j \in D : k <= j
  BY <1>2, LeastOf
<1>4. k \in Nat /\ k <= N /\ ~Runs(k)
  BY <1>3
<1>5. CASE k = 0
  <2> DEFINE g == [i \in 0..0 |-> c]
  <2>1. g \in [0..0 -> T] /\ g[0] = c /\ 1..0 = {}
    OBVIOUS
  <2>2. Runs(0)
    BY <2>1
  <2>3. QED
    BY <1>4, <1>5, <2>2
<1>6. CASE k # 0
  <2>1. k - 1 \in Nat /\ k - 1 <= N /\ ~(k <= k - 1) /\ k \in 1..N
    BY <1>4, <1>6
  <2>2. Runs(k - 1)
    <3> HIDE DEF Runs
    <3>1. k - 1 \notin D
      BY <1>3, <2>1
    <3>2. QED
      BY <2>1, <3>1
  <2>3. PICK g \in [0..(k - 1) -> T] : g[0] = c /\ \A i \in 1..(k - 1) : g[i] = G[i][g[i - 1]]
    BY <2>2
  <2> DEFINE h == [i \in 0..k |-> IF i <= k - 1 THEN g[i] ELSE G[k][g[k - 1]]]
  <2>4. h \in [0..k -> T]
    <3>0. k - 1 \in 0..(k - 1)
      BY <2>1
    <3>1. G[k][g[k - 1]] \in T
      BY <2>1, <2>3, <3>0
    <3>2. \A i \in 0..k : i <= k - 1 => i \in 0..(k - 1)
      BY <2>1
    <3>3. \A i \in 0..k : i <= k - 1 => g[i] \in T
      BY <2>3, <3>2
    <3>4. QED
      BY <3>1, <3>3
  <2>5. h[0] = c /\ h[k] = G[k][g[k - 1]] /\ \A i \in 0..(k - 1) : h[i] = g[i]
    BY <1>4, <2>1, <2>3
  <2> HIDE DEF h
  <2>6. ASSUME NEW i \in 1..k PROVE h[i] = G[i][h[i - 1]]
    <3>1. CASE i = k
      <4>1. k - 1 \in 0..(k - 1)
        BY <2>1
      <4>2. QED
        BY <2>5, <3>1, <4>1
    <3>2. CASE i # k
      <4>1. i \in 1..(k - 1) /\ i \in 0..(k - 1) /\ i - 1 \in 0..(k - 1)
        BY <2>1, <2>6, <3>2
      <4>2. QED
        BY <2>3, <2>5, <4>1
    <3>3. QED
      BY <3>1, <3>2
  <2>7. Runs(k)
    BY <2>4, <2>5, <2>6
  <2>8. QED
    BY <1>4, <2>7
<1>7. QED
  BY <1>5, <1>6

\* One event after another, each giving back the correlation that it took.
Back(N, c, mine, es) ==
  CHOOSE b : b = [i \in 0..N |->
    IF i = 0 THEN c
    ELSE [f \in Findings |-> IF i \in mine[f] /\ b[i - 1][f] = es[i].to
                             THEN es[i].from ELSE b[i - 1][f]]]

\* Back, which is defined by recursion, is a table of correlations whose rows follow
\* from one another: Iterations has a member.
LEMMA BackFacts ==
  ASSUME NEW N \in Nat, NEW c \in Correlations, NEW mine, NEW es,
         \A i \in 1..N : es[i].from \in Findings \cup {NoFinding}
  PROVE  /\ Back(N, c, mine, es) \in [0..N -> Correlations] /\ Back(N, c, mine, es)[0] = c
         /\ \A i \in 1..N : \A f \in Findings :
              Back(N, c, mine, es)[i][f] = IF i \in mine[f] /\ Back(N, c, mine, es)[i - 1][f] = es[i].to
                                           THEN es[i].from ELSE Back(N, c, mine, es)[i - 1][f]
<1> DEFINE Step(i, x) == [f \in Findings |-> IF i \in mine[f] /\ x[f] = es[i].to THEN es[i].from ELSE x[f]]
           G == [i \in 1..N |-> [x \in Correlations |-> Step(i, x)]]
<1>1. ASSUME NEW i \in 1..N, NEW x \in Correlations PROVE Step(i, x) \in Correlations
  BY DEF Correlations
<1>2. \A i \in 1..N : \A x \in Correlations : G[i][x] \in Correlations
  <2> HIDE DEF Step
  <2>1. QED
    BY <1>1
<1>3. \A i \in 1..N : \A x \in Correlations : G[i][x] = Step(i, x)
  <2> HIDE DEF Step
  <2>1. QED
    OBVIOUS
<1> HIDE DEF G
<1>4. PICK g \in [0..N -> Correlations] : g[0] = c /\ \A i \in 1..N : g[i] = G[i][g[i - 1]]
  <2> HIDE DEF Step
  <2>1. Iterations(Correlations, N, c, G) # {}
    BY <1>2, IterationExists
  <2>2. QED
    BY <2>1 DEF Iterations
<1> DEFINE Eq(b) == b = [i \in 0..N |-> IF i = 0 THEN c ELSE Step(i, b[i - 1])]
<1>5. Eq(g)
  <2> HIDE DEF Step
  <2>1. ASSUME NEW i \in 0..N PROVE g[i] = IF i = 0 THEN c ELSE Step(i, g[i - 1])
    <3>1. CASE i = 0
      BY <1>4, <3>1
    <3>2. CASE i # 0
      <4>1. i \in 1..N /\ i - 1 \in 0..N
        BY <3>2
      <4>2. QED
        BY <1>3, <1>4, <3>2, <4>1
    <3>3. QED
      BY <3>1, <3>2
  <2>2. QED
    BY <1>4, <2>1
<1>6. Back(N, c, mine, es) = CHOOSE b : Eq(b)
  BY DEF Back
<1> DEFINE back == Back(N, c, mine, es)
<1>7. Eq(back)
  <2> HIDE DEF Eq
  <2>1. QED
    BY <1>5, <1>6
<1> HIDE DEF back
<1>8. DOMAIN back = 0..N /\ back[0] = c /\ \A i \in 1..N : back[i] = Step(i, back[i - 1])
  <2>1. back = [i \in 0..N |-> IF i = 0 THEN c ELSE Step(i, back[i - 1])]
    BY <1>7
  <2> HIDE DEF Step
  <2>2. DOMAIN back = 0..N
    BY <2>1
  <2>3. 0 \in 0..N /\ \A i \in 1..N : i \in 0..N /\ i # 0
    OBVIOUS
  <2>4. \A i \in 0..N : back[i] = IF i = 0 THEN c ELSE Step(i, back[i - 1])
    BY <2>1
  <2>5. QED
    BY <2>2, <2>3, <2>4
<1>9. \A k \in 0..N : back[k] \in Correlations
  <2> DEFINE D == {k \in 0..N : back[k] \notin Correlations}
  <2>1. SUFFICES ASSUME D # {} PROVE FALSE
    OBVIOUS
  <2>2. D \in SUBSET Nat
    OBVIOUS
  <2>3. PICK k \in D : \A j \in D : k <= j
    BY <2>1, <2>2, LeastOf
  <2>4. k \in 0..N /\ k # 0
    BY <1>8, <2>3
  <2>5. k \in 1..N /\ k - 1 \in 0..N /\ ~(k <= k - 1)
    BY <2>4
  <2>6. back[k - 1] \in Correlations
    BY <2>3, <2>5
  <2> HIDE DEF Step
  <2>7. back[k] \in Correlations
    BY <1>1, <1>8, <2>5, <2>6
  <2>8. QED
    BY <2>3, <2>7
<1>10. back \in [0..N -> Correlations]
  <2>1. back = [i \in 0..N |-> back[i]]
    BY <1>7
  <2>2. QED
    BY <1>9, <2>1
<1>11. ASSUME NEW i \in 1..N, NEW f \in Findings
       PROVE  back[i][f] = IF i \in mine[f] /\ back[i - 1][f] = es[i].to
                           THEN es[i].from ELSE back[i - 1][f]
  <2>1. back[i] = Step(i, back[i - 1])
    BY <1>8
  <2>2. QED
    BY <2>1
<1>12. QED
  BY <1>8, <1>10, <1>11 DEF back

\* What unmerge makes of correlated_to is the last row of Back.
LEMMA RestoredCorrelationIs ==
  ASSUME NEW source, NEW target
  PROVE  RestoredCorrelation(source, target) =
           Back(Len(events), correlatedTo, [f \in Findings |-> EventsOf(source, target, f)], events)[Len(events)]
BY DEF RestoredCorrelation, Back

(***************************************************************************)
(* The types of every table, and the rows behind the live findings.        *)
(***************************************************************************)

\* Every finding there is has its place among the rows.
RowsKept == \A f \in Live : \E i \in DOMAIN created : created[i] = f

MergeTypes == TypeOK /\ RowsKept

\* An asset that is resolved is an asset.
LEMMA ResolveIn ==
  ASSUME TypeOK, NEW a \in Assets
  PROVE  Resolve(a) \in Assets
BY ResolveTyped DEF TypeOK, Resolve

\* The peer a moved finding becomes a duplicate of is a finding there is.
LEMMA PeerIn ==
  ASSUME MergeTypes, NEW moved, NEW img, NEW f \in Findings, Peers(f, img) # {},
         Peers(f, img) \subseteq Live
  PROVE  CanonicalPeer(f, moved, img) \in Findings
<1> DEFINE P == Peers(f, img)
           S == IF P \ moved # {} THEN P \ moved ELSE P
<1>1. S # {} /\ S \subseteq Live /\ created \in Seq(Findings)
  BY DEF MergeTypes, TypeOK
<1>2. PICK g \in S : TRUE
  BY <1>1
<1>3. PICK k \in DOMAIN created : created[k] = g
  BY <1>1, <1>2 DEF MergeTypes, RowsKept
<1>4. created[k] \in S
  BY <1>2, <1>3
<1>5. CanonicalPeer(f, moved, img) = Oldest(S, created)
  BY DEF CanonicalPeer
<1> HIDE DEF S
<1>6. QED
  BY <1>1, <1>4, <1>5, OldestIn

\* The events of a merge: those there were, and one for each moved finding.
EventsAdded(moved, ev) ==
  /\ events' \in Seq(Events)
  /\ \A i \in DOMAIN events : i \in DOMAIN events' /\ events'[i] = events[i]
  /\ \A i \in DOMAIN events' \ DOMAIN events : \E f \in moved : events'[i] = ev[f]
  /\ \A f \in moved : (\E k \in DOMAIN created : created[k] = f) =>
       \E i \in DOMAIN events' \ DOMAIN events : events'[i] = ev[f]

\* They are what RecordMergeEvents adds: every moved finding with a row has an event.
LEMMA RecordFacts ==
  ASSUME created \in Seq(Findings), events \in Seq(Events), NEW moved \in SUBSET Findings,
         NEW ev \in [moved -> Events], RecordMergeEvents(moved, ev)
  PROVE  EventsAdded(moved, ev)
<1> DEFINE at   == {i \in DOMAIN created : created[i] \in moved}
           rows == Chosen(created, at)
           new  == [i \in DOMAIN rows |-> ev[rows[i]]]
<1>1. events' = events \o new
  BY DEF RecordMergeEvents
<1>2. at \in SUBSET (DOMAIN created) /\ \A i \in at : created[i] \in moved
  OBVIOUS
<1>3. /\ rows \in Seq(Findings)
      /\ \A n \in DOMAIN rows : \E i \in at : rows[n] = created[i]
      /\ \A i \in at : \E n \in DOMAIN rows : rows[n] = created[i]
  <2> HIDE DEF at
  <2>1. QED
    BY <1>2, ChosenFacts
<1>4. \A f \in moved : (\E k \in DOMAIN created : created[k] = f) => \E n \in DOMAIN rows : rows[n] = f
  BY <1>3
<1> HIDE DEF at, rows
<1>5. \A n \in DOMAIN rows : rows[n] \in moved
  BY <1>2, <1>3
<1>6. DOMAIN rows = 1..Len(rows) /\ Len(rows) \in Nat
  BY <1>3
<1>7. new \in [1..Len(rows) -> Events]
  BY <1>5, <1>6
<1>8. new \in Seq(Events) /\ Len(new) = Len(rows) /\ DOMAIN new = 1..Len(new)
  BY <1>6, <1>7, SeqOf
<1>9. \A n \in DOMAIN rows : new[n] = ev[rows[n]]
  OBVIOUS
<1> HIDE DEF new
<1>10. /\ events' \in Seq(Events) /\ Len(events') = Len(events) + Len(new)
       /\ \A i \in 1..Len(events) : events'[i] = events[i]
       /\ \A i \in 1..Len(new) : events'[Len(events) + i] = new[i]
  <2>1. /\ events \o new \in Seq(Events) /\ Len(events \o new) = Len(events) + Len(new)
        /\ \A i \in 1..Len(events) : (events \o new)[i] = events[i]
        /\ \A i \in 1..Len(new) : (events \o new)[Len(events) + i] = new[i]
    <3>1. events \in Seq(Events) /\ new \in Seq(Events)
      BY <1>8
    <3>2. QED
      BY <3>1, ConcatFacts, SMT
  <2>2. QED
    BY <1>1, <2>1
<1>11. /\ Len(events) \in Nat /\ Len(new) \in Nat /\ DOMAIN events = 1..Len(events)
       /\ DOMAIN events' = 1..(Len(events) + Len(new))
  BY <1>6, <1>8, <1>10
<1>12. \A i \in DOMAIN events : i \in DOMAIN events' /\ events'[i] = events[i]
  BY <1>10, <1>11
<1>13. ASSUME NEW i \in DOMAIN events' \ DOMAIN events PROVE \E f \in moved : events'[i] = ev[f]
  <2> DEFINE n == i - Len(events)
  <2>1. n \in 1..Len(new) /\ Len(events) + n = i
    BY <1>11
  <2>2. events'[i] = ev[rows[n]] /\ rows[n] \in moved
    BY <1>5, <1>6, <1>8, <1>9, <1>10, <2>1
  <2>3. QED
    BY <2>2
<1>14. ASSUME NEW f \in moved, NEW n \in DOMAIN rows, rows[n] = f
       PROVE  \E i \in DOMAIN events' \ DOMAIN events : events'[i] = ev[f]
  <2> DEFINE i == Len(events) + n
  <2>1. n \in 1..Len(new) /\ i \in DOMAIN events' \ DOMAIN events
    BY <1>6, <1>8, <1>11
  <2>2. events'[i] = ev[f]
    BY <1>9, <1>10, <1>14, <2>1
  <2>3. QED
    BY <2>1, <2>2
<1>15. QED
  BY <1>4, <1>10, <1>12, <1>13, <1>14 DEF EventsAdded

\* The status a merge replaced is a status.
LEMMA RestoredStatusTyped ==
  ASSUME TypeOK, NEW source, NEW target
  PROVE  RestoredStatus(source, target) \in [Findings -> Statuses]
<1> DEFINE saved(f) == {i \in EventsOf(source, target, f) : events[i].status # Kept}
           first(f) == CHOOSE i \in saved(f) : \A j \in saved(f) : i <= j
<1>1. ASSUME NEW f \in Findings, saved(f) # {} PROVE events[first(f)].status \in Statuses
  <2>1. saved(f) \in SUBSET Nat /\ saved(f) \subseteq DOMAIN events /\ \A i \in saved(f) : events[i].status # Kept
    BY DEF EventsOf, TypeOK
  <2> HIDE DEF saved
  <2>2. \E i \in saved(f) : \A j \in saved(f) : i <= j
    BY <1>1, <2>1, LeastOf
  <2>3. first(f) \in saved(f)
    BY <2>2
  <2> HIDE DEF first
  <2>4. events[first(f)] \in Events /\ events[first(f)].status # Kept
    BY <2>1, <2>3 DEF TypeOK
  <2>5. QED
    BY <2>4 DEF Events
<1>2. RestoredStatus(source, target) =
        [f \in Findings |-> IF status[f] = "Duplicate" /\ saved(f) # {}
                            THEN events[first(f)].status ELSE status[f]]
  BY DEF RestoredStatus
<1>3. status \in [Findings -> Statuses]
  BY DEF TypeOK
<1> HIDE DEF saved, first
<1>4. QED
  BY <1>1, <1>2, <1>3

\* A correlation that unmerge restores is a correlation.
LEMMA RestoredCorrelationTyped ==
  ASSUME TypeOK, NEW source, NEW target
  PROVE  RestoredCorrelation(source, target) \in Correlations
<1> DEFINE mine == [f \in Findings |-> EventsOf(source, target, f)]
           N    == Len(events)
<1>1. N \in Nat /\ correlatedTo \in Correlations
      /\ \A i \in 1..N : events[i].from \in Findings \cup {NoFinding}
  <2>1. N \in Nat /\ \A i \in 1..N : events[i] \in Events
    BY DEF TypeOK
  <2>2. QED
    BY <2>1 DEF TypeOK, Correlations, Events
<1> HIDE DEF mine, N
<1>2. Back(N, correlatedTo, mine, events) \in [0..N -> Correlations]
  BY <1>1, BackFacts
<1>3. RestoredCorrelation(source, target) = Back(N, correlatedTo, mine, events)[N]
  BY RestoredCorrelationIs DEF mine, N
<1>4. QED
  BY <1>1, <1>2, <1>3

(***************************************************************************)
(* Each action keeps the types and the rows.                               *)
(***************************************************************************)

\* An import adds a row for its finding.
LEMMA IngestTyped ==
  ASSUME MergeTypes, NEW f \in Findings, NEW a \in Assets, NEW e \in BOOLEAN,
         NEW st \in Statuses, Ingest(f, a, e, st)
  PROVE  MergeTypes'
<1>1. Resolve(a) \in Assets
  BY ResolveIn DEF MergeTypes
<1>2. /\ image' = [image EXCEPT ![f] = IngestImage(a, e)]
      /\ created' = Append(created, f)
      /\ status' = [status EXCEPT ![f] = st]
      /\ correlatedTo' = Linking([correlatedTo EXCEPT ![f] = NoFinding], created', {f})
      /\ kind' = [kind EXCEPT ![Resolve(a)] = IF @ = NoKind THEN KindOf[Resolve(a)] ELSE @]
      /\ alias' = alias /\ events' = events /\ index' = index
  BY DEF Ingest
<1>3. IngestImage(a, e) \in Assets
  BY <1>1 DEF IngestImage
<1>4. created' \in Seq(Findings)
  BY <1>2 DEF MergeTypes, TypeOK
<1>5. correlatedTo' \in [Findings -> Findings \cup {NoFinding}]
  <2>1. [correlatedTo EXCEPT ![f] = NoFinding] \in Correlations
    BY DEF MergeTypes, TypeOK, Correlations
  <2>2. QED
    BY <1>2, <1>4, <2>1, LinkingFacts DEF Correlations
<1>6. kind' \in [Assets -> Kinds \cup {NoKind}]
  <2>1. KindOf[Resolve(a)] \in Kinds
    BY <1>1, MergeAssumption
  <2>2. QED
    BY <1>1, <1>2, <2>1 DEF MergeTypes, TypeOK
<1>7. status' \in [Findings -> Statuses] /\ image' \in [Findings -> Assets \cup {NoAsset}]
  BY <1>2, <1>3 DEF MergeTypes, TypeOK, Statuses
<1>8. RowsKept'
  <2> SUFFICES ASSUME NEW g \in Findings, image'[g] # NoAsset
               PROVE  \E i \in DOMAIN created' : created'[i] = g
    BY DEF RowsKept, Live
  <2>1. /\ DOMAIN created' = 1..(Len(created) + 1) /\ created'[Len(created) + 1] = f
        /\ Len(created) \in Nat /\ DOMAIN created = 1..Len(created)
        /\ \A i \in DOMAIN created : created'[i] = created[i]
    BY <1>2 DEF MergeTypes, TypeOK
  <2>2. CASE g = f
    BY <2>1, <2>2
  <2>3. CASE g # f
    <3>1. g \in Live
      BY <1>2, <2>3 DEF Live, MergeTypes, TypeOK
    <3>2. PICK i \in DOMAIN created : created[i] = g
      BY <3>1 DEF MergeTypes, RowsKept
    <3>3. QED
      BY <2>1, <3>2
  <2>4. QED
    BY <2>2, <2>3
<1>9. QED
  BY <1>2, <1>4, <1>5, <1>6, <1>7, <1>8 DEF MergeTypes, TypeOK

\* The event of a merge has the type of its columns.
LEMMA MergeEventTyped ==
  ASSUME TypeOK, NEW s \in Assets, NEW t \in Assets, NEW f \in Findings,
         NEW peer \in Findings \cup {NoFinding}
  PROVE  MergeEvent(s, t, f, peer) \in Events
BY DEF MergeEvent, Events, TypeOK

\* Group's own definitions, by name.
Moved(s, reassign)     == {f \in Findings : reassign /\ image[f] = s}
MovedTo(s, t, reassign) == [f \in Findings |-> IF f \in Moved(s, reassign) THEN t ELSE image[f]]
PeerOf(s, t, reassign) ==
  [f \in Findings |->
     IF f \in Moved(s, reassign) /\ Peers(f, MovedTo(s, t, reassign)) # {}
     THEN CanonicalPeer(f, Moved(s, reassign), MovedTo(s, t, reassign)) ELSE NoFinding]

\* Peers are findings: a moved finding has a peer only among findings there are.
LEMMA PeerTyped ==
  ASSUME MergeTypes, NEW s \in Assets, NEW t \in Assets, NEW reassign \in BOOLEAN
  PROVE  PeerOf(s, t, reassign) \in [Findings -> Findings \cup {NoFinding}]
<1> DEFINE moved == Moved(s, reassign)
           img   == MovedTo(s, t, reassign)
<1>1. ASSUME NEW f \in moved PROVE Peers(f, img) \subseteq Live
  <2>1. f \in Findings /\ img[f] = t
    BY DEF Moved, MovedTo
  <2>2. \A g \in Peers(f, img) : g \in Findings /\ img[g] # NoAsset
    BY <2>1, AliasAssumption DEF Peers
  <2>3. \A g \in Findings : img[g] # NoAsset => image[g] # NoAsset
    BY AliasAssumption DEF Moved, MovedTo
  <2>4. QED
    BY <2>2, <2>3 DEF Live
<1>2. \A f \in Findings : f \in moved /\ Peers(f, img) # {} =>
        CanonicalPeer(f, moved, img) \in Findings
  <2> HIDE DEF moved, img
  <2>1. QED
    BY <1>1, PeerIn
<1>3. PeerOf(s, t, reassign) =
        [f \in Findings |-> IF f \in moved /\ Peers(f, img) # {}
                            THEN CanonicalPeer(f, moved, img) ELSE NoFinding]
  BY DEF PeerOf
<1> HIDE DEF moved, img
<1>4. QED
  BY <1>2, <1>3

\* What a merge does, in these names.
GroupEffect(s, t, reassign) ==
  /\ t \in Assets /\ s # t
  /\ alias' = RepointAliases(UpsertAssetAlias(alias, s, t), s, t)
  /\ image' = MovedTo(s, t, reassign)
  /\ status' = [f \in Findings |-> IF f \in Moved(s, reassign) /\ PeerOf(s, t, reassign)[f] # NoFinding
                                   THEN "Duplicate" ELSE status[f]]
  /\ correlatedTo' = Linking([f \in Findings |->
       IF f \in Moved(s, reassign) /\ PeerOf(s, t, reassign)[f] # NoFinding
       THEN PeerOf(s, t, reassign)[f] ELSE correlatedTo[f]], created, Moved(s, reassign))
  /\ kind' = [kind EXCEPT
       ![t] = IF @ # NoKind THEN @ ELSE IF kind[s] # NoKind THEN kind[s] ELSE KindOf[t],
       ![s] = NoKind]
  /\ RecordMergeEvents(Moved(s, reassign),
       [f \in Moved(s, reassign) |-> MergeEvent(s, t, f, PeerOf(s, t, reassign)[f])])
  /\ created' = created /\ index' = index

\* They are what a merge does.
LEMMA GroupIs ==
  ASSUME MergeTypes, NEW s \in Assets, NEW r \in Assets, NEW reassign \in BOOLEAN, Group(s, r, reassign)
  PROVE  GroupEffect(s, Resolve(r), reassign)
<1> DEFINE t == Resolve(r)
<1>1. t \in Assets
  BY ResolveIn DEF MergeTypes
<1> DEFINE moved == {f \in Findings : reassign /\ image[f] = s}
           img   == [f \in Findings |-> IF f \in moved THEN t ELSE image[f]]
           peer  == [f \in Findings |->
                  IF f \in moved /\ Peers(f, img) # {} THEN CanonicalPeer(f, moved, img)
                  ELSE NoFinding]
           merged == {f \in moved : peer[f] # NoFinding}
<1>2. moved = Moved(s, reassign) /\ img = MovedTo(s, t, reassign) /\ peer = PeerOf(s, t, reassign)
  BY DEF Moved, MovedTo, PeerOf
<1>3. /\ s # t
      /\ alias' = RepointAliases(UpsertAssetAlias(alias, s, t), s, t)
      /\ image' = img
      /\ status' = [f \in Findings |-> IF f \in merged THEN "Duplicate" ELSE status[f]]
      /\ correlatedTo' =
           Linking([f \in Findings |-> IF f \in merged THEN peer[f] ELSE correlatedTo[f]],
                   created, moved)
      /\ kind' = [kind EXCEPT
           ![t] = IF @ # NoKind THEN @ ELSE IF kind[s] # NoKind THEN kind[s] ELSE KindOf[t],
           ![s] = NoKind]
      /\ RecordMergeEvents(moved, [f \in moved |-> MergeEvent(s, t, f, peer[f])])
      /\ created' = created /\ index' = index
  BY DEF Group
<1>4. \A f \in Findings : f \in merged <=> f \in moved /\ peer[f] # NoFinding
  OBVIOUS
<1> HIDE DEF peer, img, merged
<1>5. /\ status' = [f \in Findings |-> IF f \in moved /\ peer[f] # NoFinding THEN "Duplicate" ELSE status[f]]
      /\ correlatedTo' = Linking([f \in Findings |-> IF f \in moved /\ peer[f] # NoFinding
              THEN peer[f] ELSE correlatedTo[f]], created, moved)
  BY <1>3, <1>4
<1> HIDE DEF moved
<1>6. QED
  BY <1>1, <1>2, <1>3, <1>5 DEF GroupEffect

\* Where no row is removed and no finding appears, the rows are kept.
LEMMA SameRows ==
  ASSUME RowsKept, created' = created,
         \A f \in Findings : image'[f] # NoAsset => image[f] # NoAsset
  PROVE  RowsKept'
BY DEF RowsKept, Live

\* A merge keeps the types: targets, peers and events are of their tables.
LEMMA GroupTyped ==
  ASSUME MergeTypes, NEW s \in Assets, NEW r \in Assets, NEW reassign \in BOOLEAN, Group(s, r, reassign)
  PROVE  MergeTypes'
<1> DEFINE t == Resolve(r)
           moved == Moved(s, reassign)
           peer  == PeerOf(s, t, reassign)
           first == [f \in Findings |-> IF f \in moved /\ peer[f] # NoFinding THEN peer[f] ELSE correlatedTo[f]]
           ev    == [f \in moved |-> MergeEvent(s, t, f, peer[f])]
<1>1. /\ t \in Assets /\ s # t
      /\ alias' = RepointAliases(UpsertAssetAlias(alias, s, t), s, t)
      /\ image' = MovedTo(s, t, reassign)
      /\ status' = [f \in Findings |-> IF f \in moved /\ peer[f] # NoFinding
                                       THEN "Duplicate" ELSE status[f]]
      /\ correlatedTo' = Linking(first, created, moved)
      /\ kind' = [kind EXCEPT
           ![t] = IF @ # NoKind THEN @ ELSE IF kind[s] # NoKind THEN kind[s] ELSE KindOf[t],
           ![s] = NoKind]
      /\ RecordMergeEvents(moved, ev)
      /\ created' = created /\ index' = index
  BY GroupIs DEF GroupEffect
<1> HIDE DEF t
<1>2. peer \in [Findings -> Findings \cup {NoFinding}] /\ moved \subseteq Findings
  BY <1>1, PeerTyped DEF Moved
<1>3. alias' \in AliasTable
  BY <1>1 DEF AliasTable, RepointAliases, UpsertAssetAlias, MergeTypes, TypeOK
<1>4. image' \in [Findings -> Assets \cup {NoAsset}] /\ \A f \in Findings : image'[f] # NoAsset => image[f] # NoAsset
  BY <1>1, AliasAssumption DEF MovedTo, Moved, MergeTypes, TypeOK
<1> HIDE DEF peer, moved
<1>5. status' \in [Findings -> Statuses]
  BY <1>1 DEF MergeTypes, TypeOK, Statuses
<1>6. correlatedTo' \in [Findings -> Findings \cup {NoFinding}]
  <2>1. first \in Correlations
    BY <1>2 DEF MergeTypes, TypeOK, Correlations
  <2> HIDE DEF first
  <2>2. QED
    BY <1>1, <2>1, LinkingFacts DEF MergeTypes, TypeOK, Correlations
<1>7. kind' \in [Assets -> Kinds \cup {NoKind}]
  <2>1. KindOf[t] \in Kinds
    BY <1>1, MergeAssumption
  <2>2. QED
    BY <1>1, <2>1 DEF MergeTypes, TypeOK
<1>8. events' \in Seq(Events)
  <2>1. \A f \in moved : MergeEvent(s, t, f, peer[f]) \in Events
    BY <1>1, <1>2, MergeEventTyped DEF MergeTypes
  <2>2. ev \in [moved -> Events]
    BY <2>1
  <2> HIDE DEF ev
  <2>3. QED
    BY <1>1, <1>2, <2>2, RecordFacts DEF EventsAdded, MergeTypes, TypeOK
<1>9. RowsKept'
  BY <1>1, <1>4, SameRows DEF MergeTypes
<1>10. QED
  BY <1>1, <1>3, <1>4, <1>5, <1>6, <1>7, <1>8, <1>9 DEF MergeTypes, TypeOK

\* An unmerge restores values of the tables' types.
LEMMA UnmergeTyped ==
  ASSUME MergeTypes, NEW s \in Assets, NEW t \in Assets, Unmerge(s, t)
  PROVE  MergeTypes'
<1> DEFINE stay == {i \in DOMAIN events : events[i].source # s \/ events[i].target # t}
<1>1. /\ image' = RestoredImage(s, t) /\ status' = RestoredStatus(s, t)
      /\ correlatedTo' = RestoredCorrelation(s, t)
      /\ alias' = [alias EXCEPT ![s] = NoAsset]
      /\ kind' = [kind EXCEPT ![s] =
           IF @ # NoKind THEN @ ELSE IF kind[t] # NoKind THEN kind[t] ELSE "package"]
      /\ events' = Chosen(events, stay)
      /\ created' = created /\ index' = index
  BY DEF Unmerge
<1>2. status' \in [Findings -> Statuses] /\ correlatedTo' \in [Findings -> Findings \cup {NoFinding}]
  BY <1>1, RestoredStatusTyped, RestoredCorrelationTyped DEF MergeTypes, Correlations
<1>3. /\ image' \in [Findings -> Assets \cup {NoAsset}]
      /\ \A f \in Findings : image'[f] # NoAsset => image[f] # NoAsset
  BY <1>1, AliasAssumption DEF RestoredImage, MergeTypes, TypeOK
<1>4. alias' \in AliasTable /\ kind' \in [Assets -> Kinds \cup {NoKind}]
  BY <1>1, MergeAssumption DEF MergeTypes, TypeOK, AliasTable
<1>5. events' \in Seq(Events)
  <2>1. stay \in SUBSET (DOMAIN events) /\ events \in Seq(Events)
    BY DEF MergeTypes, TypeOK
  <2> HIDE DEF stay
  <2>2. QED
    BY <1>1, <2>1, ChosenFacts
<1>6. RowsKept'
  BY <1>1, <1>3, SameRows DEF MergeTypes
<1>7. QED
  BY <1>1, <1>2, <1>3, <1>4, <1>5, <1>6 DEF MergeTypes, TypeOK

\* The index of a digest merge holds assets.
LEMMA AutoMergeStartTyped ==
  ASSUME MergeTypes, AutoMergeStart
  PROVE  MergeTypes'
<1>1. /\ alias' = alias /\ image' = image /\ created' = created /\ status' = status
      /\ correlatedTo' = correlatedTo /\ kind' = kind /\ events' = events
  BY DEF AutoMergeStart
<1>2. PICK observed \in [Digests -> SUBSET Observed] :
        index' = [d \in Digests |->
                   observed[d] \cup {image[f] : f \in {g \in Live : DigestOf[g] = d}}]
  BY DEF AutoMergeStart
<1>3. ASSUME NEW d \in Digests
      PROVE  observed[d] \cup {image[f] : f \in {g \in Live : DigestOf[g] = d}} \subseteq Assets
  <2>1. observed[d] \subseteq Assets
    BY MergeAssumption
  <2>2. \A f \in Live : image[f] \in Assets
    BY DEF MergeTypes, TypeOK, Live
  <2>3. QED
    BY <2>1, <2>2
<1>4. index' \in [Digests -> SUBSET Assets]
  BY <1>2, <1>3
<1>5. RowsKept'
  BY <1>1, SameRows DEF MergeTypes
<1>6. QED
  BY <1>1, <1>4, <1>5 DEF MergeTypes, TypeOK

\* A digest merge puts findings on assets picked among the canonical ones, changes
\* no status and adds to the events.
LEMMA AutoMergeDigestTyped ==
  ASSUME MergeTypes, NEW d \in Digests, AutoMergeDigest(d)
  PROVE  /\ MergeTypes' /\ status' = status
         /\ \A i \in DOMAIN events : i \in DOMAIN events' /\ events'[i] = events[i]
<1> DEFINE canonicals == {Resolve(a) : a \in index[d]}
           pick(a) == CanonicalPick({b \in canonicals : kind[b] = kind[a]})
           sources == {a \in canonicals : pick(a) # a}
           moved   == {f \in Live : image[f] \in sources}
           ev      == [f \in moved |-> MergeEvent(image[f], pick(image[f]), f, NoFinding)]
<1>1. canonicals \subseteq Assets
  <2>1. \A a \in index[d] : a \in Assets
    BY DEF MergeTypes, TypeOK
  <2>2. QED
    BY <2>1, ResolveIn DEF MergeTypes
<1>2. ASSUME NEW a \in sources PROVE a \in Assets /\ pick(a) \in Assets
  <2> DEFINE S == {b \in canonicals : kind[b] = kind[a]}
  <2>1. S \subseteq Assets /\ S # {} /\ a \in Assets
    BY <1>1
  <2>2. CanonicalPick(S) \in S
    BY <2>1, PickChooses
  <2>3. QED
    BY <2>1, <2>2
<1>3. /\ alias' = [a \in Assets |->
           IF a \in sources THEN pick(a)
           ELSE IF alias[a] \in sources /\ a # pick(alias[a]) THEN pick(alias[a])
           ELSE alias[a]]
      /\ image' = [f \in Findings |-> IF f \in moved THEN pick(image[f]) ELSE image[f]]
      /\ kind' = [a \in Assets |-> IF a \in sources THEN NoKind ELSE kind[a]]
      /\ RecordMergeEvents(moved, ev)
      /\ index' = [index EXCEPT ![d] = {}]
      /\ created' = created /\ status' = status /\ correlatedTo' = correlatedTo
  BY DEF AutoMergeDigest
<1>4. /\ \A f \in moved : f \in Findings /\ image[f] \in sources /\ image[f] # NoAsset
      /\ moved \subseteq Findings
  BY DEF Live
<1> HIDE DEF pick, canonicals, sources
<1>5. \A f \in moved : MergeEvent(image[f], pick(image[f]), f, NoFinding) \in Events
  BY <1>2, <1>4, MergeEventTyped DEF MergeTypes
<1>6. alias' \in AliasTable
  BY <1>2, <1>3 DEF MergeTypes, TypeOK, AliasTable
<1> HIDE DEF moved
<1>7. /\ image' \in [Findings -> Assets \cup {NoAsset}]
      /\ \A f \in Findings : image'[f] # NoAsset => image[f] # NoAsset
  BY <1>2, <1>3, <1>4 DEF MergeTypes, TypeOK
<1>8. kind' \in [Assets -> Kinds \cup {NoKind}] /\ index' \in [Digests -> SUBSET Assets]
  BY <1>3 DEF MergeTypes, TypeOK
<1>9. /\ events' \in Seq(Events)
      /\ \A i \in DOMAIN events : i \in DOMAIN events' /\ events'[i] = events[i]
  <2>1. ev \in [moved -> Events]
    BY <1>5
  <2> HIDE DEF ev
  <2>2. QED
    BY <1>3, <1>4, <2>1, RecordFacts DEF EventsAdded, MergeTypes, TypeOK
<1>10. RowsKept'
  BY <1>3, <1>7, SameRows DEF MergeTypes
<1>11. QED
  BY <1>3, <1>6, <1>7, <1>8, <1>9, <1>10 DEF MergeTypes, TypeOK

\* The rows and events that a deletion leaves are those of other assets.
LEMMA DeleteTyped ==
  ASSUME MergeTypes, NEW a \in Assets, DeleteAsset(a)
  PROVE  MergeTypes'
<1> DEFINE gone == {f \in Findings : image[f] = a}
           rows == {i \in DOMAIN created : created[i] \notin gone}
           stay == {i \in DOMAIN events : /\ a \notin {events[i].source, events[i].target}
                                          /\ events[i].finding \notin gone}
<1>1. /\ image' = [f \in Findings |-> IF f \in gone THEN NoAsset ELSE image[f]]
      /\ created' = Chosen(created, rows)
      /\ status' = [f \in Findings |-> IF f \in gone THEN "Open" ELSE status[f]]
      /\ correlatedTo' = [f \in Findings |-> IF f \in gone THEN NoFinding ELSE correlatedTo[f]]
      /\ alias' = [b \in Assets |-> IF a \in {b, alias[b]} THEN NoAsset ELSE alias[b]]
      /\ kind' = [kind EXCEPT ![a] = NoKind]
      /\ events' = Chosen(events, stay)
      /\ index' = index
  BY DEF DeleteAsset
<1>2. /\ rows \in SUBSET (DOMAIN created) /\ stay \in SUBSET (DOMAIN events)
      /\ created \in Seq(Findings) /\ events \in Seq(Events)
  BY DEF MergeTypes, TypeOK
<1>3. \A i \in DOMAIN created : created[i] \notin gone => i \in rows
  OBVIOUS
<1>4. /\ image' \in [Findings -> Assets \cup {NoAsset}]
      /\ \A f \in Findings : image'[f] # NoAsset => f \in Live /\ f \notin gone
  BY <1>1, AliasAssumption DEF MergeTypes, TypeOK, Live
<1> HIDE DEF rows, stay, gone
<1>5. events' \in Seq(Events)
  BY <1>1, <1>2, ChosenFacts
<1>6. created' \in Seq(Findings) /\ \A i \in rows : \E n \in DOMAIN created' : created'[n] = created[i]
  BY <1>1, <1>2, ChosenFacts
<1>7. RowsKept'
  <2> SUFFICES ASSUME NEW f \in Findings, image'[f] # NoAsset
               PROVE  \E n \in DOMAIN created' : created'[n] = f
    BY DEF RowsKept, Live
  <2>1. PICK i \in DOMAIN created : created[i] = f
    BY <1>4 DEF MergeTypes, RowsKept
  <2>2. i \in rows
    BY <1>3, <1>4, <2>1
  <2>3. QED
    BY <1>6, <2>1, <2>2
<1>8. alias' \in AliasTable /\ kind' \in [Assets -> Kinds \cup {NoKind}] /\ index' \in [Digests -> SUBSET Assets]
  BY <1>1 DEF MergeTypes, TypeOK, AliasTable
<1>9. status' \in [Findings -> Statuses] /\ correlatedTo' \in [Findings -> Findings \cup {NoFinding}]
  BY <1>1 DEF MergeTypes, TypeOK, Statuses
<1>10. QED
  BY <1>4, <1>5, <1>6, <1>7, <1>8, <1>9 DEF MergeTypes, TypeOK

\* Nothing is there at first.
LEMMA InitTyped == Init => MergeTypes
<1>1. SUFFICES ASSUME Init PROVE MergeTypes
  OBVIOUS
<1>2. Live = {}
  BY <1>1 DEF Init, Live
<1>3. RowsKept
  BY <1>2 DEF RowsKept
<1>4. TypeOK
  BY <1>1, AliasAssumption, MergeAssumption DEF Init, TypeOK, NoAliases, NoIndex, AliasTable, Statuses
<1>5. QED
  BY <1>3, <1>4 DEF MergeTypes

\* Every step keeps them.
LEMMA StepTyped ==
  ASSUME MergeTypes, [Next]_vars
  PROVE  MergeTypes'
<1>1. ASSUME NEW f \in Findings, NEW a \in Assets, NEW e \in Explicit, NEW st \in Statuses,
             Ingest(f, a, e, st)
      PROVE  MergeTypes'
  <2>1. e \in BOOLEAN
    BY MergeAssumption
  <2>2. QED
    BY <1>1, <2>1, IngestTyped
<1>2. ASSUME NEW f \in Findings, NEW st \in Statuses, IngestAgain(f, st) PROVE MergeTypes'
  <2>1. /\ correlatedTo' = Linking(correlatedTo, created, {f})
        /\ status' = [status EXCEPT ![f] = st]
        /\ alias' = alias /\ image' = image /\ created' = created
        /\ kind' = kind /\ events' = events /\ index' = index
    BY <1>2 DEF IngestAgain
  <2>2. correlatedTo' \in [Findings -> Findings \cup {NoFinding}]
    <3>1. correlatedTo \in Correlations /\ created \in Seq(Findings)
      BY DEF MergeTypes, TypeOK, Correlations
    <3>2. QED
      BY <2>1, <3>1, LinkingFacts DEF Correlations
  <2>3. QED
    BY <2>1, <2>2, SameRows DEF MergeTypes, TypeOK
<1>3. ASSUME NEW v \in TagVariants, TagAlias(v[1], v[2]) PROVE MergeTypes'
  <2>1. v[1] \in Assets /\ v[2] \in Assets
    BY MergeAssumption
  <2>2. /\ alias' = [alias EXCEPT ![v[1]] = v[2]]
        /\ correlatedTo' = correlatedTo /\ image' = image /\ created' = created /\ status' = status
        /\ kind' = kind /\ events' = events /\ index' = index
    BY <1>3 DEF TagAlias, UpsertAssetAlias
  <2>3. alias' \in AliasTable
    BY <2>1, <2>2 DEF MergeTypes, TypeOK, AliasTable
  <2>4. QED
    BY <2>2, <2>3, SameRows DEF MergeTypes, TypeOK
<1>4. ASSUME NEW f \in Findings, NEW st \in Statuses, Review(f, st) PROVE MergeTypes'
  <2>1. /\ status' = [status EXCEPT ![f] = st]
        /\ alias' = alias /\ image' = image /\ created' = created /\ correlatedTo' = correlatedTo
        /\ kind' = kind /\ events' = events /\ index' = index
    BY <1>4 DEF Review
  <2>2. QED
    BY <2>1, SameRows DEF MergeTypes, TypeOK
<1>5. ASSUME NEW a \in Assets, NEW b \in Assets, NEW g \in Reassign, Group(a, b, g) PROVE MergeTypes'
  <2>1. g \in BOOLEAN
    BY MergeAssumption
  <2>2. QED
    BY <1>5, <2>1, GroupTyped
<1>6. CASE UNCHANGED vars
  BY <1>6, SameRows DEF vars, MergeTypes, TypeOK
<1>7. QED
  BY <1>1, <1>2, <1>3, <1>4, <1>5, <1>6, UnmergeTyped, AutoMergeStartTyped,
     AutoMergeDigestTyped, DeleteTyped DEF Next

\* Types and rows are kept by every step: the invariant of all that follows.
THEOREM MergeTypesKept == Spec => []MergeTypes
BY InitTyped, StepTyped, PTL DEF Spec

\* Whatever merges, unmerges, imports and deletions do, in any order and with any
\* tables to start a merge from, every column keeps its type.
THEOREM MergeTypeOK == Spec => []TypeOK
<1>1. MergeTypes => TypeOK
  BY DEF MergeTypes
<1>2. QED
  BY <1>1, MergeTypesKept, PTL

(***************************************************************************)
(* The status a merge replaced.                                            *)
(***************************************************************************)

\* An event says which status a finding had before it became a Duplicate.
Saved(f, es) == \E i \in DOMAIN es : es[i].finding = f /\ es[i].status # Kept

\* A step that marks a finding Duplicate, or leaves it so, leaves such an event.
KeepsSaved(f) ==
  status'[f] = "Duplicate" /\ (status[f] = "Duplicate" => Saved(f, events)) => Saved(f, events')

\* A merge saves what it replaces.
LEMMA GroupSaves ==
  ASSUME MergeTypes, NEW s \in Assets, NEW r \in Assets, NEW reassign \in BOOLEAN, Group(s, r, reassign),
         NEW h \in Live
  PROVE  KeepsSaved(h)
<1> DEFINE t == Resolve(r)
           moved == Moved(s, reassign)
           peer  == PeerOf(s, t, reassign)
           ev    == [f \in moved |-> MergeEvent(s, t, f, peer[f])]
<1>0. GroupEffect(s, t, reassign)
  BY GroupIs
<1>1. /\ t \in Assets
      /\ status' = [f \in Findings |-> IF f \in moved /\ peer[f] # NoFinding
                                       THEN "Duplicate" ELSE status[f]]
      /\ RecordMergeEvents(moved, ev)
  BY <1>0 DEF GroupEffect
<1> HIDE DEF t
<1>2. peer \in [Findings -> Findings \cup {NoFinding}] /\ moved \in SUBSET Findings
  BY <1>1, PeerTyped DEF Moved
<1> HIDE DEF moved, peer
<1>3. ev \in [moved -> Events]
  BY <1>1, <1>2, MergeEventTyped DEF MergeTypes
<1>4. h \in moved => ev[h] = MergeEvent(s, t, h, peer[h])
  OBVIOUS
<1> HIDE DEF ev
<1>5. /\ \A i \in DOMAIN events : i \in DOMAIN events' /\ events'[i] = events[i]
      /\ \A g \in moved : (\E k \in DOMAIN created : created[k] = g) =>
           \E i \in DOMAIN events' \ DOMAIN events : events'[i] = ev[g]
  <2>1. created \in Seq(Findings) /\ events \in Seq(Events)
    BY DEF MergeTypes, TypeOK
  <2>2. EventsAdded(moved, ev)
    BY <1>1, <1>2, <1>3, <2>1, RecordFacts
  <2>3. QED
    BY <2>2 DEF EventsAdded
<1>6. CASE status[h] = "Duplicate"
  BY <1>5, <1>6 DEF KeepsSaved, Saved
<1>7. CASE status[h] # "Duplicate" /\ status'[h] = "Duplicate"
  <2>1. h \in Findings /\ h \in moved /\ peer[h] # NoFinding
    BY <1>1, <1>7 DEF Live
  <2>2. PICK i \in DOMAIN events' : events'[i] = ev[h]
    BY <1>5, <2>1 DEF MergeTypes, RowsKept
  <2>3. events'[i].finding = h /\ events'[i].status = status[h]
    BY <1>4, <1>7, <2>1, <2>2 DEF MergeEvent
  <2>4. status[h] # Kept
    BY <2>1 DEF MergeTypes, TypeOK, Statuses, Kept
  <2>5. QED
    BY <2>3, <2>4 DEF KeepsSaved, Saved
<1>8. QED
  BY <1>6, <1>7 DEF KeepsSaved

\* An unmerge that drops the event gives the status back.
LEMMA UnmergeSaves ==
  ASSUME MergeTypes, NEW s \in Assets, NEW t \in Assets, Unmerge(s, t), NEW f \in Live
  PROVE  KeepsSaved(f)
<1> DEFINE stay == {i \in DOMAIN events : events[i].source # s \/ events[i].target # t}
           saved(g) == {i \in EventsOf(s, t, g) : events[i].status # Kept}
           first(g) == CHOOSE i \in saved(g) : \A j \in saved(g) : i <= j
<1>1. events' = Chosen(events, stay)
      /\ status' = [g \in Findings |-> IF status[g] = "Duplicate" /\ saved(g) # {}
                                       THEN events[first(g)].status ELSE status[g]]
  BY DEF Unmerge, RestoredStatus
<1>2. /\ events \in Seq(Events) /\ stay \in SUBSET (DOMAIN events) /\ f \in Findings
      /\ \A i \in DOMAIN events : events[i] \in Events
  BY DEF MergeTypes, TypeOK, Live
<1>3. \A i \in stay : \E n \in DOMAIN events' : events'[n] = events[i]
  <2> HIDE DEF stay, saved, first
  <2>1. QED
    BY <1>1, <1>2, ChosenFacts
<1>4. SUFFICES ASSUME status'[f] = "Duplicate", status[f] = "Duplicate", Saved(f, events)
               PROVE  Saved(f, events')
  <2>1. status'[f] = "Duplicate" => status[f] = "Duplicate"
    BY <1>1, <1>2
  <2>2. QED
    BY <2>1 DEF KeepsSaved
<1>5. PICK i \in DOMAIN events : events[i].finding = f /\ events[i].status # Kept
  BY <1>4 DEF Saved
<1>6. CASE i \in stay
  BY <1>3, <1>5, <1>6 DEF Saved
<1>7. CASE i \notin stay
  <2>1. i \in saved(f)
    BY <1>5, <1>7 DEF EventsOf
  <2>2. saved(f) \in SUBSET Nat /\ saved(f) \subseteq DOMAIN events /\ \A j \in saved(f) : events[j].status # Kept
    BY <1>2 DEF EventsOf
  <2>3. status'[f] = events[first(f)].status
    BY <1>1, <1>2, <1>4, <2>1
  <2> HIDE DEF saved
  <2>4. \E k \in saved(f) : \A j \in saved(f) : k <= j
    BY <2>1, <2>2, LeastOf
  <2>5. first(f) \in saved(f)
    BY <2>4
  <2> HIDE DEF first
  <2>6. events[first(f)] \in Events /\ events[first(f)].status # Kept
    BY <1>2, <2>2, <2>5
  <2>7. events[first(f)].status # "Duplicate"
    BY <2>6 DEF Events, Statuses
  <2>8. QED
    BY <1>4, <2>3, <2>7
<1>8. QED
  BY <1>6, <1>7

\* A digest merge changes no status and drops no event.
LEMMA AutoMergeDigestSaves ==
  ASSUME MergeTypes, NEW d \in Digests, AutoMergeDigest(d), NEW f \in Live
  PROVE  KeepsSaved(f)
BY AutoMergeDigestTyped DEF KeepsSaved, Saved

\* The status a merge replaced is not lost, in any order of merges, digest merges,
\* unmerges, imports and reviews, Duplicate among their statuses: an unmerge that
\* drops an event restores it, and the event of a merge is written for every finding
\* the merge marks, because its row is there.
THEOREM StatusesKept == Spec => FormerStatusKept
<1> DEFINE Lost(f) == /\ status'[f] = "Duplicate" /\ ~Saved(f, events')
                      /\ status[f] = "Duplicate" => Saved(f, events)
           Judged(f) == status[f] # "Duplicate" /\ JudgedDuplicate(f)
           Step == \A f \in Live : Lost(f) => \/ \E a \in Assets : DeleteAsset(a)
                                              \/ Judged(f)
<1>1. ASSUME MergeTypes, [Next]_vars PROVE Step \/ UNCHANGED vars
  <2>1. SUFFICES ASSUME NEW f \in Live, ~\E a \in Assets : DeleteAsset(a), ~Judged(f)
                 PROVE  KeepsSaved(f)
    BY DEF KeepsSaved
  <2>2. f \in Findings /\ image[f] # NoAsset
    BY DEF Live
  <2>3. ASSUME status'[f] \in {status[f], "Open", "RiskAccepted"}, events' = events PROVE KeepsSaved(f)
    BY <2>3 DEF KeepsSaved
  <2>4. ASSUME NEW g \in Findings, NEW a \in Assets, NEW e \in Explicit, NEW st \in Statuses,
               Ingest(g, a, e, st)
        PROVE  KeepsSaved(f)
    <3>1. g # f /\ status' = [status EXCEPT ![g] = st] /\ events' = events
      BY <2>2, <2>4 DEF Ingest
    <3>2. QED
      BY <2>2, <2>3, <3>1 DEF MergeTypes, TypeOK
  <2>5. ASSUME NEW g \in Findings, NEW st \in Statuses, Review(g, st) PROVE KeepsSaved(f)
    <3>1. status' = [status EXCEPT ![g] = st] /\ events' = events /\ status[g] # st
      BY <2>5 DEF Review
    <3>2. g = f => st \in {"Open", "RiskAccepted"}
      BY <2>1, <2>5, <3>1 DEF JudgedDuplicate, Statuses
    <3>3. QED
      BY <1>1, <2>2, <2>3, <3>1, <3>2 DEF MergeTypes, TypeOK
  <2>6. ASSUME NEW a \in Assets, NEW b \in Assets, NEW g \in Reassign, Group(a, b, g) PROVE KeepsSaved(f)
    <3>1. g \in BOOLEAN
      BY MergeAssumption
    <3>2. QED
      BY <1>1, <2>6, <3>1, GroupSaves
  <2>7. CASE UNCHANGED vars
    BY <2>3, <2>7 DEF vars
  <2>8. ASSUME NEW g \in Findings, NEW st \in Statuses, IngestAgain(g, st) PROVE KeepsSaved(f)
    <3>1. status' = [status EXCEPT ![g] = st] /\ events' = events
      BY <2>8 DEF IngestAgain
    <3>2. g = f => st \in {status[f], "Open", "RiskAccepted"}
      BY <2>1, <2>8 DEF JudgedDuplicate, Statuses
    <3>3. QED
      BY <1>1, <2>2, <2>3, <3>1, <3>2 DEF MergeTypes, TypeOK
  <2>9. ASSUME NEW v \in TagVariants, TagAlias(v[1], v[2]) PROVE KeepsSaved(f)
    BY <2>3, <2>9 DEF TagAlias
  <2>10. ASSUME AutoMergeStart PROVE KeepsSaved(f)
    BY <2>3, <2>10 DEF AutoMergeStart
  <2>11. QED
    BY <1>1, <2>1, <2>4, <2>5, <2>6, <2>7, <2>8, <2>9, <2>10, UnmergeSaves, AutoMergeDigestSaves DEF Next
<1>2. FormerStatusKept <=> [][Step]_vars
  BY DEF FormerStatusKept, Saved, JudgedDuplicate
<1> HIDE DEF Step
<1>3. QED
  BY <1>1, <1>2, MergeTypesKept, PTL DEF Spec

(***************************************************************************)
(* What unmerge makes of a merge that was just done.                       *)
(***************************************************************************)

\* A value that no step of a run leaves is there to its end.
LEMMA RunStays ==
  ASSUME NEW N \in Nat, NEW b, NEW V, NEW m \in 0..N, b[m] \in V,
         \A k \in (m + 1)..N : b[k - 1] \in V => b[k] \in V
  PROVE  \A k \in m..N : b[k] \in V
<1> DEFINE D == {k \in m..N : b[k] \notin V}
<1>1. SUFFICES ASSUME D # {} PROVE FALSE
  OBVIOUS
<1>2. D \in SUBSET Nat
  OBVIOUS
<1>3. PICK k \in D : \A j \in D : k <= j
  BY <1>1, <1>2, LeastOf
<1>4. k \in m..N /\ k # m
  BY <1>3
<1>5. k \in (m + 1)..N /\ k - 1 \in m..N /\ ~(k <= k - 1)
  BY <1>4
<1>6. k - 1 \notin D
  BY <1>3, <1>5
<1>7. QED
  BY <1>3, <1>5, <1>6

\* Where all events of the merge are alike and there is one, the value goes back.
GoesBack(N, r, M, p, c) ==
  /\ N \in Nat /\ r[0] = p /\ M \subseteq 1..N
  /\ M = {} => c = p
  /\ \A k \in 1..N : r[k] = IF k \in M /\ r[k - 1] = p THEN c ELSE r[k - 1]

\* Such a run ends with the value that was replaced.
LEMMA RunGoesBack ==
  ASSUME NEW N, NEW r, NEW M, NEW p, NEW c, GoesBack(N, r, M, p, c)
  PROVE  r[N] = c
<1> USE DEF GoesBack
<1>1. N \in Nat /\ 0 \in 0..N
  OBVIOUS
<1>2. CASE M = {}
  <2>1. r[0] \in {c} /\ \A k \in (0 + 1)..N : r[k - 1] \in {c} => r[k] \in {c}
    BY <1>2
  <2>2. \A k \in 0..N : r[k] \in {c}
    BY <1>1, <2>1, RunStays
  <2>3. QED
    BY <2>2
<1>3. ASSUME NEW m \in M PROVE r[N] = c
  <2>1. m \in 1..N /\ m \in 0..N /\ m - 1 \in 0..N
    BY <1>3
  <2>2. r[0] \in {p, c} /\ \A k \in (0 + 1)..N : r[k - 1] \in {p, c} => r[k] \in {p, c}
    OBVIOUS
  <2>3. \A k \in 0..N : r[k] \in {p, c}
    BY <1>1, <2>2, RunStays
  <2>4. r[m] \in {c}
    BY <1>3, <2>1, <2>3
  <2>5. \A k \in (m + 1)..N : r[k - 1] \in {c} => r[k] \in {c}
    BY <2>1
  <2>6. \A k \in m..N : r[k] \in {c}
    BY <2>1, <2>4, <2>5, RunStays
  <2>7. N \in m..N
    BY <2>1
  <2>8. QED
    BY <2>6, <2>7
<1>4. QED
  BY <1>2, <1>3

\* The events of the merge, when no other merge of the two assets left any.
Recorded(s, t, reassign, f) ==
  /\ EventsOf(s, t, f)' \subseteq 1..Len(events')
  /\ \A i \in EventsOf(s, t, f)' : f \in Moved(s, reassign)
       /\ events'[i] = MergeEvent(s, t, f, PeerOf(s, t, reassign)[f])
  /\ f \in Moved(s, reassign) => EventsOf(s, t, f)' # {}

\* Every moved finding has such events, and no other finding has any.
LEMMA MergeRecorded ==
  ASSUME MergeTypes, NEW s \in Assets, NEW t, NEW reassign \in BOOLEAN, GroupEffect(s, t, reassign),
         \A f \in Findings : EventsOf(s, t, f) = {}, NEW h \in Findings
  PROVE  events' \in Seq(Events) /\ Recorded(s, t, reassign, h)
<1> DEFINE moved == Moved(s, reassign)
           peer  == PeerOf(s, t, reassign)
           ev    == [f \in moved |-> MergeEvent(s, t, f, peer[f])]
<1>1. /\ t \in Assets /\ RecordMergeEvents(moved, ev)
      /\ image' = [f \in Findings |-> IF f \in moved THEN t ELSE image[f]]
  BY DEF GroupEffect, MovedTo
<1>2. peer \in [Findings -> Findings \cup {NoFinding}] /\ moved \in SUBSET Live
  BY <1>1, PeerTyped, AliasAssumption DEF Moved, Live
<1>3. \A f \in Live : f \in Findings
  BY DEF Live
<1> HIDE DEF moved, peer
<1>4. ev \in [moved -> Events]
  BY <1>1, <1>2, <1>3, MergeEventTyped DEF MergeTypes
<1>5. \A f \in moved : ev[f] = MergeEvent(s, t, f, peer[f])
  OBVIOUS
<1> HIDE DEF ev
<1>6. /\ events' \in Seq(Events)
      /\ \A i \in DOMAIN events : i \in DOMAIN events' /\ events'[i] = events[i]
      /\ \A i \in DOMAIN events' \ DOMAIN events : \E f \in moved : events'[i] = ev[f]
      /\ \A f \in moved : (\E k \in DOMAIN created : created[k] = f) =>
           \E i \in DOMAIN events' \ DOMAIN events : events'[i] = ev[f]
  <2>1. moved \in SUBSET Findings /\ created \in Seq(Findings) /\ events \in Seq(Events)
    BY <1>2, <1>3 DEF MergeTypes, TypeOK
  <2>2. EventsAdded(moved, ev)
    BY <1>1, <1>4, <2>1, RecordFacts
  <2>3. QED
    BY <2>2 DEF EventsAdded
<1>7. EventsOf(s, t, h)' = {i \in DOMAIN events' :
         /\ events'[i].source = s /\ events'[i].target = t
         /\ events'[i].finding = h /\ image'[h] # NoAsset}
  BY DEF EventsOf, Live
<1>8. ASSUME NEW i \in EventsOf(s, t, h)'
      PROVE  h \in moved /\ events'[i] = MergeEvent(s, t, h, peer[h])
  <2>1. i \in DOMAIN events' /\ events'[i].finding = h /\ image'[h] # NoAsset
    BY <1>7
  <2>2. h \in Live
    BY <1>1, <1>2, <2>1 DEF Live
  <2>3. i \notin DOMAIN events
    BY <1>6, <1>7, <2>2 DEF EventsOf
  <2>4. PICK f \in moved : events'[i] = ev[f]
    BY <1>6, <2>1, <2>3
  <2>5. events'[i].finding = f
    <3>1. ev[f] = MergeEvent(s, t, f, peer[f])
      BY <1>5
    <3>2. QED
      BY <2>4, <3>1 DEF MergeEvent
  <2>6. QED
    BY <1>5, <2>1, <2>4, <2>5
<1>9. ASSUME h \in moved PROVE EventsOf(s, t, h)' # {}
  <2>1. PICK i \in DOMAIN events' : events'[i] = ev[h]
    BY <1>2, <1>6, <1>9 DEF MergeTypes, RowsKept
  <2>2. events'[i].source = s /\ events'[i].target = t /\ events'[i].finding = h
    <3>1. ev[h] = MergeEvent(s, t, h, peer[h])
      BY <1>5, <1>9
    <3>2. QED
      BY <2>1, <3>1 DEF MergeEvent
  <2>3. image'[h] # NoAsset
    BY <1>1, <1>9, AliasAssumption
  <2>4. QED
    BY <1>7, <2>2, <2>3
<1>10. EventsOf(s, t, h)' \subseteq 1..Len(events')
  BY <1>6, <1>7
<1>11. QED
  BY <1>6, <1>8, <1>9, <1>10 DEF Recorded, moved, peer

\* Image and status.
LEMMA FieldsUndone ==
  ASSUME MergeTypes, NEW s \in Assets, NEW t, NEW reassign \in BOOLEAN, GroupEffect(s, t, reassign),
         \A f \in Findings : EventsOf(s, t, f) = {}, NEW h \in Findings
  PROVE  /\ (IF image'[h] = t /\ EventsOf(s, t, h)' # {} THEN s ELSE image'[h]) = image[h]
         /\ LET saved == {i \in EventsOf(s, t, h)' : events'[i].status # Kept}
            IN  (IF status'[h] = "Duplicate" /\ saved # {}
                 THEN events'[CHOOSE i \in saved : \A j \in saved : i <= j].status ELSE status'[h]) = status[h]
<1> DEFINE peer  == PeerOf(s, t, reassign)
           saved == {i \in EventsOf(s, t, h)' : events'[i].status # Kept}
           first == CHOOSE i \in saved : \A j \in saved : i <= j
<1>1. /\ t \in Assets
      /\ image' = [f \in Findings |-> IF f \in Moved(s, reassign) THEN t ELSE image[f]]
      /\ status' = [f \in Findings |-> IF f \in Moved(s, reassign) /\ peer[f] # NoFinding
                                       THEN "Duplicate" ELSE status[f]]
  BY DEF GroupEffect, MovedTo
<1>2. Recorded(s, t, reassign, h)
  BY MergeRecorded
<1>3. /\ EventsOf(s, t, h)' \subseteq 1..Len(events')
      /\ \A i \in EventsOf(s, t, h)' : h \in Moved(s, reassign) /\ events'[i] = MergeEvent(s, t, h, peer[h])
      /\ h \in Moved(s, reassign) => EventsOf(s, t, h)' # {}
      /\ h \in Moved(s, reassign) => image[h] = s
  BY <1>2 DEF Recorded, Moved
<1> HIDE DEF peer
<1>4. (IF image'[h] = t /\ EventsOf(s, t, h)' # {} THEN s ELSE image'[h]) = image[h]
  BY <1>1, <1>3
<1>5. status[h] \in Statuses /\ status[h] # Kept
  BY DEF MergeTypes, TypeOK, Statuses, Kept
<1>6. \A i \in EventsOf(s, t, h)' : events'[i].status =
        IF peer[h] # NoFinding /\ status[h] # "Duplicate" THEN status[h] ELSE Kept
  BY <1>3 DEF MergeEvent
<1>7. (IF status'[h] = "Duplicate" /\ saved # {} THEN events'[first].status ELSE status'[h]) = status[h]
  <2>1. CASE h \in Moved(s, reassign) /\ peer[h] # NoFinding /\ status[h] # "Duplicate"
    <3>1. saved = EventsOf(s, t, h)' /\ saved # {}
      BY <1>3, <1>5, <1>6, <2>1
    <3>2. saved \in SUBSET Nat
      BY <1>3
    <3>3. \E i \in saved : \A j \in saved : i <= j
      <4> HIDE DEF saved
      <4>1. QED
        BY <3>1, <3>2, LeastOf
    <3>4. first \in saved
      <4> HIDE DEF saved
      <4>1. QED
        BY <3>3
    <3> HIDE DEF first
    <3>5. events'[first].status = status[h] /\ status'[h] = "Duplicate"
      BY <1>1, <1>6, <2>1, <3>1, <3>4
    <3>6. QED
      BY <3>1, <3>5
  <2>2. CASE ~(h \in Moved(s, reassign) /\ peer[h] # NoFinding /\ status[h] # "Duplicate")
    <3>1. saved = {}
      BY <1>3, <1>6, <2>2
    <3>2. status'[h] = status[h]
      BY <1>1, <2>2
    <3> HIDE DEF saved, first
    <3>3. QED
      BY <3>1, <3>2
  <2>3. QED
    BY <2>1, <2>2
<1>8. QED
  BY <1>4, <1>7

\* Correlation.
LEMMA CorrelationUndone ==
  ASSUME MergeTypes, MergeTypes', NEW s \in Assets, NEW t, NEW reassign \in BOOLEAN,
         GroupEffect(s, t, reassign), \A f \in Findings : EventsOf(s, t, f) = {},
         NEW h \in Findings, CorrelationKeyOf[h] = NoCorrelation
  PROVE  RestoredCorrelation(s, t)'[h] = correlatedTo[h]
<1> DEFINE moved == Moved(s, reassign)
           peer  == PeerOf(s, t, reassign)
           first == [f \in Findings |-> IF f \in moved /\ peer[f] # NoFinding THEN peer[f] ELSE correlatedTo[f]]
           mine  == [f \in Findings |-> EventsOf(s, t, f)']
           N     == Len(events')
           b     == Back(N, correlatedTo', mine, events')
<1>1. t \in Assets /\ correlatedTo' = Linking(first, created, moved)
  BY DEF GroupEffect
<1>2. peer \in [Findings -> Findings \cup {NoFinding}]
  BY <1>1, PeerTyped
<1>3. RestoredCorrelation(s, t)' = b[N]
  BY DEF RestoredCorrelation, Back
<1>4. N \in Nat /\ correlatedTo' \in Correlations
      /\ \A i \in 1..N : events'[i].from \in Findings \cup {NoFinding}
  <2>1. N \in Nat /\ \A i \in 1..N : events'[i] \in Events
    BY DEF MergeTypes, TypeOK
  <2>2. QED
    BY <2>1 DEF MergeTypes, TypeOK, Correlations, Events
<1>5. mine[h] = EventsOf(s, t, h)'
  OBVIOUS
<1>6. Recorded(s, t, reassign, h)
  BY MergeRecorded
<1>7. /\ mine[h] \subseteq 1..N
      /\ \A i \in mine[h] : h \in moved /\ events'[i] = MergeEvent(s, t, h, peer[h])
      /\ h \in moved => mine[h] # {}
  BY <1>5, <1>6 DEF Recorded
<1> HIDE DEF peer, moved, mine, N
<1>8. correlatedTo'[h] = first[h]
  <2>1. first \in Correlations /\ created \in Seq(Findings)
    BY <1>2 DEF MergeTypes, TypeOK, Correlations
  <2> HIDE DEF first
  <2>2. QED
    BY <1>1, <2>1, LinkingFacts
<1>9. /\ b[0] = correlatedTo'
      /\ \A i \in 1..N : \A f \in Findings :
           b[i][f] = IF i \in mine[f] /\ b[i - 1][f] = events'[i].to THEN events'[i].from ELSE b[i - 1][f]
  BY <1>4, BackFacts
<1> HIDE DEF b
<1> DEFINE r == [k \in 0..N |-> b[k][h]]
<1>10. /\ r[0] = correlatedTo'[h] /\ r[N] = b[N][h]
       /\ \A k \in 1..N : r[k] = IF k \in mine[h] /\ r[k - 1] = events'[k].to
                                 THEN events'[k].from ELSE r[k - 1]
  <2>1. 0 \in 0..N /\ N \in 0..N /\ \A k \in 1..N : k \in 0..N /\ k - 1 \in 0..N
    BY <1>4
  <2>2. QED
    BY <1>9, <2>1
<1> HIDE DEF r
<1>11. CASE h \in moved /\ peer[h] # NoFinding
  <2>1. correlatedTo'[h] = peer[h]
    BY <1>8, <1>11
  <2>2. \A i \in mine[h] : events'[i].to = peer[h] /\ events'[i].from = correlatedTo[h]
    BY <1>7, <1>11 DEF MergeEvent
  <2>3. \A k \in 1..N : r[k] = IF k \in mine[h] /\ r[k - 1] = peer[h] THEN correlatedTo[h] ELSE r[k - 1]
    BY <1>10, <2>2
  <2> DEFINE M == mine[h]
             p == peer[h]
             c == correlatedTo[h]
  <2>4. GoesBack(N, r, M, p, c)
    BY <1>4, <1>7, <1>10, <1>11, <2>1, <2>3 DEF GoesBack
  <2> HIDE DEF M, p, c
  <2>5. r[N] = c
    BY <2>4, RunGoesBack
  <2>6. QED
    BY <1>3, <1>10, <2>5 DEF c
<1>12. CASE ~(h \in moved /\ peer[h] # NoFinding)
  <2>1. correlatedTo'[h] = correlatedTo[h]
    BY <1>8, <1>12
  <2>2. \A i \in mine[h] : events'[i].to = NoFinding /\ events'[i].from = NoFinding
    BY <1>7, <1>12 DEF MergeEvent
  <2>3. \A k \in 1..N : r[k] = r[k - 1]
    BY <1>10, <2>2
  <2>4. r[N] = correlatedTo'[h]
    <3>1. /\ r[0] \in {correlatedTo'[h]} /\ 0 \in 0..N /\ N \in 0..N
          /\ \A k \in (0 + 1)..N : r[k - 1] \in {correlatedTo'[h]} => r[k] \in {correlatedTo'[h]}
      BY <1>4, <1>10, <2>3
    <3>2. \A k \in 0..N : r[k] \in {correlatedTo'[h]}
      BY <1>4, <3>1, RunStays
    <3>3. QED
      BY <3>1, <3>2
  <2>5. QED
    BY <1>3, <1>10, <2>1, <2>4
<1>13. QED
  BY <1>11, <1>12

\* A merge can be undone.
LEMMA GroupUndone ==
  ASSUME MergeTypes, MergeTypes', NEW s \in Assets, NEW r \in Assets, NEW t \in Assets,
         NEW reassign \in BOOLEAN, Group(s, r, reassign), alias'[s] = t,
         \A f \in Findings : EventsOf(s, t, f) = {}
  PROVE  /\ RestoredImage(s, t)' = image
         /\ RestoredStatus(s, t)' = status
         /\ \A f \in Findings : CorrelationKeyOf[f] = NoCorrelation =>
              RestoredCorrelation(s, t)'[f] = correlatedTo[f]
<1>1. GroupEffect(s, Resolve(r), reassign)
  BY GroupIs
<1>2. t = Resolve(r)
  BY <1>1, AliasAssumption DEF GroupEffect, RepointAliases, UpsertAssetAlias, MergeTypes, TypeOK, AliasTable
<1>3. GroupEffect(s, t, reassign)
  BY <1>1, <1>2
<1>4. RestoredImage(s, t)' = image
  <2>1. \A f \in Findings : (IF image'[f] = t /\ EventsOf(s, t, f)' # {} THEN s ELSE image'[f]) = image[f]
    BY <1>3, FieldsUndone
  <2>2. RestoredImage(s, t)' = [f \in Findings |-> IF image'[f] = t /\ EventsOf(s, t, f)' # {}
                                                  THEN s ELSE image'[f]]
    BY DEF RestoredImage
  <2>3. QED
    BY <2>1, <2>2 DEF MergeTypes, TypeOK
<1>5. RestoredStatus(s, t)' = status
  <2> DEFINE saved(f) == {i \in EventsOf(s, t, f)' : events'[i].status # Kept}
             first(f) == CHOOSE i \in saved(f) : \A j \in saved(f) : i <= j
  <2>1. \A f \in Findings : (IF status'[f] = "Duplicate" /\ saved(f) # {}
                             THEN events'[first(f)].status ELSE status'[f]) = status[f]
    BY <1>3, FieldsUndone
  <2>2. RestoredStatus(s, t)' = [f \in Findings |-> IF status'[f] = "Duplicate" /\ saved(f) # {}
                                                   THEN events'[first(f)].status ELSE status'[f]]
    BY DEF RestoredStatus
  <2> HIDE DEF saved, first
  <2>3. QED
    BY <2>1, <2>2 DEF MergeTypes, TypeOK
<1>6. \A f \in Findings : CorrelationKeyOf[f] = NoCorrelation =>
        RestoredCorrelation(s, t)'[f] = correlatedTo[f]
  BY <1>3, CorrelationUndone
<1>7. QED
  BY <1>4, <1>5, <1>6

\* Unmerging what was just merged gives every finding back what it had, whatever
\* was merged, reviewed and imported before, unless events of an earlier merge of
\* the same two assets are still there.
THEOREM UnmergeUndoes == Spec => UnmergeUndoesMerge
<1> DEFINE Step == \A a, b, t \in Assets, reassign \in Reassign :
             (/\ <<alias, image>>' # <<alias, image>> /\ alias'[a] = t
              /\ \A f \in Findings : EventsOf(a, t, f) = {}
              /\ Group(a, b, reassign)) =>
                   /\ RestoredImage(a, t)' = image
                   /\ RestoredStatus(a, t)' = status
                   /\ \A f \in Findings : CorrelationKeyOf[f] = NoCorrelation =>
                        RestoredCorrelation(a, t)'[f] = correlatedTo[f]
<1>1. ASSUME MergeTypes, [Next]_vars PROVE Step
  <2>1. MergeTypes' /\ Reassign \subseteq BOOLEAN
    BY <1>1, StepTyped, MergeAssumption
  <2>2. QED
    BY <1>1, <2>1, GroupUndone
<1>2. UnmergeUndoesMerge <=> [][Step]_vars
  BY DEF UnmergeUndoesMerge
<1> HIDE DEF Step
<1>3. QED
  BY <1>1, <1>2, MergeTypesKept, PTL DEF Spec

=============================================================================
