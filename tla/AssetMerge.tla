------------------------------ MODULE AssetMerge ------------------------------
(***************************************************************************)
(* Merging assets and undoing merges (api/assets.py group and unmerge,     *)
(* services/asset_merge_suggestions.py auto_merge_assets_by_digest), with  *)
(* the imports, reviews and deletions that happen in between.  A merge     *)
(* moves finding rows, may mark them Duplicate of a finding of the target, *)
(* and records an event per moved finding, from which unmerge restores it. *)
(*                                                                         *)
(* Assets are numbers, in the order in which _canonical_pick prefers them. *)
(***************************************************************************)
EXTENDS AssetAliases, Sequences, FiniteSets

CONSTANTS
  Findings,         \* finding ids
  NoFinding,        \* correlated_to of a finding that is correlated to none
  GroupKeyOf,       \* finding_type, branch, tag and component_base of a finding
  CorrelationKeyOf, \* correlation_key; findings that share it score high or medium
  NoCorrelation,    \* no correlation key
  DigestOf,         \* image digest of a finding
  NoDigest,         \* no digest
  Observed,         \* assets that may have observed tags with a digest
  Kinds, KindOf,    \* asset types, and the type inferred from an asset id
  NoKind,           \* no asset row
  TagVariants,      \* pairs (raw, asset) that differ in their tag only
  Explicit,         \* whether imports name the asset in the X-VAT-Asset header
  Reassign,         \* whether admins have existing findings reassigned
  MaxEvents         \* bound: merge events that are not reverted

ASSUME MergeAssumption ==
  /\ Assets \subseteq Nat
  /\ NoFinding \notin Findings
  /\ KindOf \in [Assets -> Kinds] /\ NoKind \notin Kinds /\ "package" \in Kinds
  /\ Observed \subseteq Assets
  /\ TagVariants \subseteq Assets \X Assets
  /\ \A v \in TagVariants : v[1] # v[2]
  /\ Explicit \subseteq BOOLEAN /\ Reassign \subseteq BOOLEAN
  /\ MaxEvents \in Nat

Digests == {DigestOf[f] : f \in Findings} \ {NoDigest}

\* What a merge and a review make of a finding's status.
Statuses == {"Open", "RiskAccepted", "Duplicate"}

\* The fields an asset_merge_events row that is not reverted restores: image from
\* target to source, status from Duplicate to `status` (unless Kept), correlated_to
\* from `to` to `from`, which are equal where the merge left it alone.
Kept == "kept"
Events == [source : Assets, target : Assets, finding : Findings,
           status : (Statuses \ {"Duplicate"}) \cup {Kept},
           from : Findings \cup {NoFinding}, to : Findings \cup {NoFinding}]

VARIABLES
  alias,         \* asset_aliases
  image,         \* finding.image; NoAsset: no such row
  created,       \* the finding rows in the order of (created_at, id)
  status,        \* finding.status
  correlatedTo,  \* finding.correlated_to
  kind,          \* asset.type; NoKind: no such row
  events,        \* asset_merge_events that are not reverted, in id order
  index          \* digest index of the auto-merge in progress: assets per digest

vars == <<alias, image, created, status, correlatedTo, kind, events, index>>

Live == {f \in Findings : image[f] # NoAsset}
Resolve(a) == ResolveCanonicalAssetId(alias, a)

TypeOK ==
  /\ alias \in AliasTable
  /\ image \in [Findings -> Assets \cup {NoAsset}]
  /\ created \in Seq(Findings)
  /\ status \in [Findings -> Statuses]
  /\ correlatedTo \in [Findings -> Findings \cup {NoFinding}]
  /\ kind \in [Assets -> Kinds \cup {NoKind}]
  /\ events \in Seq(Events)
  /\ index \in [Digests -> SUBSET Assets]

NoIndex == [d \in Digests |-> {}]

Init ==
  /\ alias = NoAliases
  /\ image = [f \in Findings |-> NoAsset]
  /\ created = << >>
  /\ status = [f \in Findings |-> "Open"]
  /\ correlatedTo = [f \in Findings |-> NoFinding]
  /\ kind = [a \in Assets |-> NoKind]
  /\ events = << >>
  /\ index = NoIndex

\* No auto-merge transaction is open.
Idle == index = NoIndex

\* The elements of a sequence at the places S, in their order.
Place(S, i)    == Cardinality({j \in S : j <= i})
Nth(S, n)      == CHOOSE i \in S : Place(S, i) = n
Chosen(seq, S) == [n \in 1..Cardinality(S) |-> seq[Nth(S, n)]]

\* The oldest finding of a set, by the row order rows.
Oldest(S, rows) ==
  rows[CHOOSE i \in DOMAIN rows : rows[i] \in S /\ \A j \in 1..(i - 1) : rows[j] \notin S]

(***************************************************************************)
(* apply_correlation_linking for each finding of `subjects`: every row of  *)
(* its cluster is linked to the cluster's oldest row.                      *)
(***************************************************************************)
Linking(correlated, rows, subjects) ==
  LET cluster(f) == {g \in Findings : /\ \E i \in DOMAIN rows : rows[i] = g
                                      /\ CorrelationKeyOf[g] = CorrelationKeyOf[f]}
  IN  [f \in Findings |->
        IF /\ CorrelationKeyOf[f] # NoCorrelation /\ f \in cluster(f)
           /\ cluster(f) \cap subjects # {} /\ f # Oldest(cluster(f), rows)
        THEN Oldest(cluster(f), rows) ELSE correlated[f]]

\* The asset a payload is put on: it is mapped to the canonical asset, but a header
\* that names an asset has the last word.
IngestImage(asset, explicit) == IF explicit THEN asset ELSE Resolve(asset)

\* Ingest of a new finding, whose status st a decision of the ledger may give; the
\* row of the canonical asset is created if missing.
Ingest(f, asset, explicit, st) ==
  /\ Idle /\ image[f] = NoAsset
  /\ image' = [image EXCEPT ![f] = IngestImage(asset, explicit)]
  /\ created' = Append(created, f)
  /\ status' = [status EXCEPT ![f] = st]
  /\ correlatedTo' = Linking([correlatedTo EXCEPT ![f] = NoFinding], created', {f})
  /\ kind' = [kind EXCEPT ![Resolve(asset)] = IF @ = NoKind THEN KindOf[Resolve(asset)] ELSE @]
  /\ UNCHANGED <<alias, events, index>>

\* ingest_finding of an existing finding: it keeps its image, is linked again, and a
\* decision may be projected on it.
IngestAgain(f, st) ==
  /\ Idle /\ f \in Live
  /\ status' = [status EXCEPT ![f] = st]
  /\ correlatedTo' = Linking(correlatedTo, created, {f})
  /\ UNCHANGED <<alias, image, created, kind, events, index>>

\* The ingest endpoint aliases a raw asset id to the id without its tag.
TagAlias(raw, asset) ==
  /\ Idle /\ <<raw, asset>> \in TagVariants /\ alias[raw] # asset
  /\ alias' = UpsertAssetAlias(alias, raw, asset)
  /\ UNCHANGED <<image, created, status, correlatedTo, kind, events, index>>

\* A reviewer decides or reopens a finding; Duplicate is one of the statuses.
Review(f, st) ==
  /\ Idle /\ f \in Live /\ status[f] # st
  /\ status' = [status EXCEPT ![f] = st]
  /\ UNCHANGED <<alias, image, created, correlatedTo, kind, events, index>>

(***************************************************************************)
(* group_asset_into_target.                                                *)
(***************************************************************************)

\* Consolidation: the finding a moved finding becomes a Duplicate of.  Findings
\* that were on the target come before findings that moved with it.
Peers(f, img) ==
  {g \in Findings \ {f} : img[g] = img[f] /\ GroupKeyOf[g] = GroupKeyOf[f]}
CanonicalPeer(f, moved, img) ==
  LET peers == Peers(f, img)
  IN  Oldest(IF peers \ moved # {} THEN peers \ moved ELSE peers, created)

\* Mutant: the event does not say what the status was.
MergeEventNoStatus(source, target, f, peer) ==
  [source |-> source, target |-> target, finding |-> f, status |-> Kept,
   from |-> IF peer # NoFinding THEN correlatedTo[f] ELSE NoFinding, to |-> peer]

\* The event recorded for moved finding f; peer is NoFinding without consolidation.
MergeEvent(source, target, f, peer) ==
  [source |-> source, target |-> target, finding |-> f,
   status |-> IF peer # NoFinding /\ status[f] # "Duplicate" THEN status[f] ELSE Kept,
   from |-> IF peer # NoFinding THEN correlatedTo[f] ELSE NoFinding,
   to |-> peer]

\* One event is added per moved finding, in the order of the rows.
RecordMergeEvents(moved, event) ==
  LET rows == Chosen(created, {i \in DOMAIN created : created[i] \in moved})
  IN  events' = events \o [i \in DOMAIN rows |-> event[rows[i]]]

\* Bound: there is room for n events.
RoomFor(n) == Len(events) + n <= MaxEvents

Group(source, requested, reassign) ==
  LET target == Resolve(requested)
      moved  == {f \in Findings : reassign /\ image[f] = source}
      img    == [f \in Findings |-> IF f \in moved THEN target ELSE image[f]]
      peer   == [f \in Findings |->
                  IF f \in moved /\ Peers(f, img) # {} THEN CanonicalPeer(f, moved, img)
                  ELSE NoFinding]
      merged == {f \in moved : peer[f] # NoFinding}
  IN  /\ Idle /\ source # target /\ RoomFor(Cardinality(moved))
      /\ alias' = RepointAliases(UpsertAssetAlias(alias, source, target), source, target)
      /\ image' = img
      /\ status' = [f \in Findings |-> IF f \in merged THEN "Duplicate" ELSE status[f]]
      /\ correlatedTo' =
           Linking([f \in Findings |-> IF f \in merged THEN peer[f] ELSE correlatedTo[f]],
                   created, moved)
      /\ kind' = [kind EXCEPT
           ![target] = IF @ # NoKind THEN @
                       ELSE IF kind[source] # NoKind THEN kind[source] ELSE KindOf[target],
           ![source] = NoKind]
      /\ RecordMergeEvents(moved, [f \in moved |-> MergeEvent(source, target, f, peer[f])])
      /\ UNCHANGED <<created, index>>

(***************************************************************************)
(* unmerge_asset_alias: each field of a moved finding that still has the   *)
(* value the merge gave it gets its former value back.  The events are     *)
(* handled in order: the first one restores image and status, while        *)
(* correlated_to may go back through several.                              *)
(***************************************************************************)
EventsOf(source, target, f) ==
  {i \in DOMAIN events : /\ events[i].source = source /\ events[i].target = target
                         /\ events[i].finding = f /\ f \in Live}

\* Mutant: an event that lacks one of the fields is skipped altogether.
RestoredImageAllFields(source, target) ==
  [f \in Findings |->
     IF image[f] = target /\ \E i \in EventsOf(source, target, f) : events[i].status # Kept
     THEN source ELSE image[f]]
RestoredImage(source, target) ==
  [f \in Findings |-> IF image[f] = target /\ EventsOf(source, target, f) # {}
                      THEN source ELSE image[f]]

\* Mutant: the status is restored from events that do not have one, too.
RestoredStatusUnchecked(source, target) ==
  LET all(f) == EventsOf(source, target, f)
      first(f) == CHOOSE i \in all(f) : \A j \in all(f) : i <= j
  IN  [f \in Findings |-> IF status[f] = "Duplicate" /\ all(f) # {}
                          THEN events[first(f)].status ELSE status[f]]
RestoredStatus(source, target) ==
  LET saved(f) == {i \in EventsOf(source, target, f) : events[i].status # Kept}
      first(f) == CHOOSE i \in saved(f) : \A j \in saved(f) : i <= j
  IN  [f \in Findings |-> IF status[f] = "Duplicate" /\ saved(f) # {}
                          THEN events[first(f)].status ELSE status[f]]

RestoredCorrelation(source, target) ==
  LET mine == [f \in Findings |-> EventsOf(source, target, f)]
      back[i \in 0..Len(events)] ==
        IF i = 0 THEN correlatedTo
        ELSE [f \in Findings |-> IF i \in mine[f] /\ back[i - 1][f] = events[i].to
                                 THEN events[i].from ELSE back[i - 1][f]]
  IN  back[Len(events)]

Unmerge(source, target) ==
  /\ Idle /\ source # target /\ alias[source] = target
  /\ image' = RestoredImage(source, target)
  /\ status' = RestoredStatus(source, target)
  /\ correlatedTo' = RestoredCorrelation(source, target)
  /\ alias' = [alias EXCEPT ![source] = NoAsset]
  /\ kind' = [kind EXCEPT ![source] =
       IF @ # NoKind THEN @ ELSE IF kind[target] # NoKind THEN kind[target] ELSE "package"]
  /\ events' = Chosen(events, {i \in DOMAIN events :
                               events[i].source # source \/ events[i].target # target})
  /\ UNCHANGED <<created, index>>

(***************************************************************************)
(* auto_merge_assets_by_digest: one transaction that indexes the assets    *)
(* with findings or observed tags of each digest and then handles one      *)
(* digest after another.                                                   *)
(***************************************************************************)
AutoMergeStart ==
  /\ Idle /\ RoomFor(Cardinality(Live) * Cardinality(Digests))
  /\ \E observed \in [Digests -> SUBSET Observed] :
       index' = [d \in Digests |->
                  observed[d] \cup {image[f] : f \in {g \in Live : DigestOf[g] = d}}]
  /\ UNCHANGED <<alias, image, created, status, correlatedTo, kind, events>>

CanonicalPick(S) == CHOOSE a \in S : \A b \in S : a <= b

\* Assets of one kind that share digest d become one; the preferred one stays.
AutoMergeDigest(d) ==
  LET canonicals == {Resolve(a) : a \in index[d]}
      pick(a) == CanonicalPick({b \in canonicals : kind[b] = kind[a]})
      sources == {a \in canonicals : pick(a) # a}
      moved   == {f \in Live : image[f] \in sources}
  IN  /\ index[d] # {}
      /\ alias' = [a \in Assets |->
           IF a \in sources THEN pick(a)
           ELSE IF alias[a] \in sources /\ a # pick(alias[a]) THEN pick(alias[a])
           ELSE alias[a]]
      /\ image' = [f \in Findings |-> IF f \in moved THEN pick(image[f]) ELSE image[f]]
      /\ kind' = [a \in Assets |-> IF a \in sources THEN NoKind ELSE kind[a]]
      /\ RecordMergeEvents(moved,
           [f \in moved |-> MergeEvent(image[f], pick(image[f]), f, NoFinding)])
      /\ index' = [index EXCEPT ![d] = {}]
      /\ UNCHANGED <<created, status, correlatedTo>>

\* _delete_asset_owned_data: findings, merge events and alias rows of the asset.
DeleteAsset(a) ==
  LET gone == {f \in Findings : image[f] = a}
      stay == {i \in DOMAIN events : /\ a \notin {events[i].source, events[i].target}
                                     /\ events[i].finding \notin gone}
  IN  /\ Idle
      /\ \/ gone # {} \/ kind[a] # NoKind
         \/ \E b \in Assets : alias[b] # NoAsset /\ a \in {b, alias[b]}
         \/ stay # DOMAIN events
      /\ image' = [f \in Findings |-> IF f \in gone THEN NoAsset ELSE image[f]]
      /\ created' = Chosen(created, {i \in DOMAIN created : created[i] \notin gone})
      /\ status' = [f \in Findings |-> IF f \in gone THEN "Open" ELSE status[f]]
      /\ correlatedTo' = [f \in Findings |-> IF f \in gone THEN NoFinding ELSE correlatedTo[f]]
      /\ alias' = [b \in Assets |-> IF a \in {b, alias[b]} THEN NoAsset ELSE alias[b]]
      /\ kind' = [kind EXCEPT ![a] = NoKind]
      /\ events' = Chosen(events, stay)
      /\ UNCHANGED index

Next ==
  \/ \E f \in Findings, a \in Assets, explicit \in Explicit, st \in Statuses :
       Ingest(f, a, explicit, st)
  \/ \E f \in Findings, st \in Statuses : IngestAgain(f, st)
  \/ \E v \in TagVariants : TagAlias(v[1], v[2])
  \/ \E f \in Findings, st \in Statuses : Review(f, st)
  \/ \E a, b \in Assets, reassign \in Reassign : Group(a, b, reassign)
  \/ \E a, b \in Assets : Unmerge(a, b)
  \/ AutoMergeStart
  \/ \E d \in Digests : AutoMergeDigest(d)
  \/ \E a \in Assets : DeleteAsset(a)

Spec == Init /\ [][Next]_vars

(***************************************************************************)
(* Properties.                                                             *)
(***************************************************************************)

\* However merges are chained, undone and interleaved with digest merges and
\* deletions, every alias leads to its canonical asset in one link.
FlatAliases == Flat(alias)

\* No finding is left on an asset that was merged away.
FindingsOnCanonical == \A f \in Live : alias[image[f]] = NoAsset

\* A reviewer or a decision, not a merge, says that the finding is a Duplicate.
JudgedDuplicate(f) == Review(f, "Duplicate") \/ IngestAgain(f, "Duplicate")

\* The status a merge replaced is not lost: a finding becomes Duplicate with an
\* event that holds a former status, unless a reviewer or a decision makes it one,
\* and while it stays so the event outlives further merges, unmerges, reviews and
\* imports; deleting one of the merged assets is the only way to lose it.
FormerStatusKept ==
  [][\A f \in Live :
       LET Saved(es) == \E i \in DOMAIN es : es[i].finding = f /\ es[i].status # Kept
       IN  /\ status'[f] = "Duplicate" /\ ~Saved(events')
           /\ status[f] = "Duplicate" => Saved(events)
           => \/ \E a \in Assets : DeleteAsset(a)
              \/ status[f] # "Duplicate" /\ JudgedDuplicate(f)]_vars

\* A merge that links an asset or moves findings can be undone: unless an earlier
\* merge of the same two assets has left events behind, unmerging what was just
\* merged gives every finding back the asset and the status, and without
\* correlation linking the correlation, it had.
UnmergeUndoesMerge ==
  [][\A a, b, t \in Assets, reassign \in Reassign :
       (/\ <<alias, image>>' # <<alias, image>> /\ alias'[a] = t
        /\ \A f \in Findings : EventsOf(a, t, f) = {}
        /\ Group(a, b, reassign)) =>
             /\ RestoredImage(a, t)' = image
             /\ RestoredStatus(a, t)' = status
             /\ \A f \in Findings : CorrelationKeyOf[f] = NoCorrelation =>
                  RestoredCorrelation(a, t)'[f] = correlatedTo[f]]_vars

(***************************************************************************)
(* What the repository says and the code does not do.                      *)
(***************************************************************************)

\* Comment: a merge keeps a canonical finding and marks its duplicates.
CanonicalFindingKept ==
  [][\A a, b \in Assets, reassign \in Reassign, f \in Findings :
       Group(a, b, reassign) /\ status'[f] = "Duplicate" /\ status[f] # "Duplicate" =>
         \E g \in Live : /\ image'[g] = image'[f] /\ GroupKeyOf[g] = GroupKeyOf[f]
                         /\ status'[g] # "Duplicate"]_vars

\* Docstring: a stored alias maps future ingests to the canonical asset.
IngestsFollowAliases ==
  [][\A f \in Findings : image[f] = NoAsset /\ image'[f] # NoAsset =>
       alias[image'[f]] = NoAsset]_vars

\* Test: unmerge removes the alias and restores merged finding fields.  A finding
\* that was merged away from the source goes back to it.
UnmergeRestoresFindings ==
  [][\A a, b \in Assets :
       Unmerge(a, b) =>
         \A i \in DOMAIN events :
           LET f == events[i].finding
           IN  events[i].source = a /\ image[f] = b => image'[f] = a]_vars
=============================================================================
