--------------------------- MODULE DecisionLedger ---------------------------
(***************************************************************************)
(* The decision ledger: durable triage decisions keyed by decision subject *)
(* keys, and the finding rows they are projected on.                       *)
(*                                                                         *)
(*   services/decision_ledger.py       record, look up, apply, expire      *)
(*   services/decision_subject_key.py  subject keys of a finding           *)
(*   services/findings_service.py      reviewer operations                 *)
(*   services/ingest.py                scanner imports                     *)
(*   services/waiver_expiry.py         the expiry job                      *)
(*                                                                         *)
(* Every API handler and import is one database transaction and one        *)
(* action.  The handlers that loop over findings (bulk update, backfill,   *)
(* reconciliation) are a start action and one step per finding; `job`      *)
(* keeps other transactions out until the loop has committed.              *)
(***************************************************************************)
EXTENDS Integers, Sequences, FiniteSets

CONSTANTS
  Findings,         \* finding ids (f-<fingerprint>): the same scan item, the same id
  Assets, NoAsset,  \* asset ids, and the image of a finding row that does not exist
  Vulns,            \* what a primary key says besides the asset: CVE, package, rule
  Issues, NoIssue,  \* issue ids of the source system, and none
  NoKey,            \* no subject key
  VulnOf, IssueOf,  \* the identity a finding row carries
  HumanStatuses,    \* statuses reviewers set in this instance
  Rationales,       \* whether a reviewer gives a justification, controls or a note
  ScannerStatuses,  \* statuses an import payload carries besides Open
  PageLimit,        \* rows one backfill (5000) or reconciliation (20000) reads
  MaxVersion,       \* bound: decision versions
  MaxDay            \* bound: last day a waiver may expire on

(***************************************************************************)
(* Status classes.                                                         *)
(***************************************************************************)
PRE_DECISION_STATUSES == {"Open", "SyncedToTracker", "InReview", "Reopened"}
TERMINAL_DECISION_STATUSES ==
  {"RiskAccepted", "FalsePositive", "Suppressed", "NotApplicable",
   "Mitigated", "Duplicate"}
REVIEW_REQUIRED_STATUSES == {"Approved", "Rejected"}
RECORDABLE_STATUSES ==
  TERMINAL_DECISION_STATUSES \cup REVIEW_REQUIRED_STATUSES \cup {"Resolved"}
Statuses == PRE_DECISION_STATUSES \cup RECORDABLE_STATUSES

\* Recorded even when the reviewer gave no justification, controls, note or attestation.
SELF_EXPLANATORY == {"RiskAccepted", "FalsePositive", "Suppressed", "NotApplicable"}

\* Source statuses that an import writes over the finding's status.
SOURCE_SYNCED == {"Resolved", "Suppressed", "FalsePositive", "NotApplicable"}

(***************************************************************************)
(* A key is the primary key of a vulnerability on an asset or the          *)
(* source-issue alias of an issue on an asset.                             *)
(***************************************************************************)
Keys == ({"primary"} \X Assets \X Vulns) \cup ({"source"} \X Assets \X Issues)

PrimaryKey(f, a) == <<"primary", a, VulnOf[f]>>
SourceKey(f, a)  == <<"source", a, IssueOf[f]>>

\* Attestation: 0 is none, d > 0 a waiver that expires at the end of day d.
Attestations == 0..MaxDay

Triage == [previous : Statuses \cup {"none"}, rationale : BOOLEAN,
           attestation : Attestations]
NewTriage == [previous |-> "none", rationale |-> FALSE, attestation |-> 0]

\* A decision row; version 0 stands for no row.
Decision == [status : Statuses, rationale : BOOLEAN, attestation : Attestations,
             version : Nat]
NoDecision == [status |-> "Open", rationale |-> FALSE, attestation |-> 0,
               version |-> 0]

\* A link row: none, active, or soft-unlinked (unlinked_at is set).
Link == [state : {"none", "linked", "unlinked"}, version : Nat]
NoLink == [state |-> "none", version |-> 0]

Jobs == [kind : {"idle", "bulk", "backfill", "reconcile", "expiry"},
         todo : SUBSET Findings, status : Statuses, rationale : BOOLEAN]
NoJob == [kind |-> "idle", todo |-> {}, status |-> "Open", rationale |-> FALSE]

ASSUME LedgerAssumption ==
  /\ NoAsset \notin Assets
  /\ NoIssue \notin Issues
  /\ NoKey \notin Keys
  /\ VulnOf \in [Findings -> Vulns]
  /\ IssueOf \in [Findings -> Issues \cup {NoIssue}]
  /\ HumanStatuses \subseteq Statuses
  /\ Rationales \subseteq BOOLEAN
  /\ ScannerStatuses \subseteq Statuses \ {"Open", "Reopened"}
  /\ PageLimit \in Nat \ {0}
  /\ MaxVersion \in Nat
  /\ MaxDay \in Nat

VARIABLES
  image,         \* the asset of each finding row; NoAsset: no such row
  status,        \* finding.status
  triage,        \* the other triage columns of a finding
  canonical,     \* what resolve_canonical_asset_id returns; changed by asset merges
  decision,      \* triage_decisions, by subject key
  revisions,     \* triage_decision_revisions: the snapshots, oldest first
  link,          \* decision_finding_links
  subjectAlias,  \* decision_subject_aliases
  humanNewer,    \* decisions whose updated_at is before the finding's last human edit
  today,         \* the current day
  job            \* the loop in progress

findingVars == <<image, status, triage>>
ledgerVars  == <<decision, revisions, subjectAlias>>
vars == <<image, status, triage, canonical, decision, revisions, link,
          subjectAlias, humanNewer, today, job>>

TypeOK ==
  /\ image \in [Findings -> Assets \cup {NoAsset}]
  /\ status \in [Findings -> Statuses]
  /\ triage \in [Findings -> Triage]
  /\ canonical \in [Assets -> Assets]
  /\ decision \in [Keys -> Decision]
  /\ revisions \in [Keys -> Seq(Decision)]
  /\ link \in [Keys -> [Findings -> Link]]
  /\ subjectAlias \in [Keys -> Keys \cup {NoKey}]
  /\ humanNewer \in [Findings -> SUBSET Keys]
  /\ today \in Nat
  /\ job \in Jobs

Init ==
  /\ image = [f \in Findings |-> NoAsset]
  /\ status = [f \in Findings |-> "Open"]
  /\ triage = [f \in Findings |-> NewTriage]
  /\ canonical = [a \in Assets |-> a]
  /\ decision = [k \in Keys |-> NoDecision]
  /\ revisions = [k \in Keys |-> << >>]
  /\ link = [k \in Keys |-> [f \in Findings |-> NoLink]]
  /\ subjectAlias = [k \in Keys |-> NoKey]
  /\ humanNewer = [f \in Findings |-> {}]
  /\ today = 1
  /\ job = NoJob

Live == {f \in Findings : image[f] # NoAsset}
Recorded == {k \in Keys : decision[k].version > 0}

\* No loop holds the tables; the expiry job holds nothing between its two commits.
Free == job.kind \in {"idle", "expiry"}

IsWaiverExpired(attestation) == attestation # 0 /\ attestation < today

(***************************************************************************)
(* Looking a decision up and applying it.                                  *)
(***************************************************************************)

\* Mutant: aliases are not followed.
DecisionForNoAlias(key) == IF key \in Recorded THEN key ELSE NoKey

\* One candidate: the decision with this key, or the one its alias leads to.
DecisionFor(key) ==
  IF key \in Recorded THEN key
  ELSE IF subjectAlias[key] \in Recorded THEN subjectAlias[key] ELSE NoKey

LookupDecision(f, asset) ==
  LET primary == DecisionFor(PrimaryKey(f, canonical[asset]))
  IN  IF primary # NoKey \/ IssueOf[f] = NoIssue THEN primary
      ELSE DecisionFor(SourceKey(f, canonical[asset]))

\* Mutants: judgements treated as terminal; only Open rows are undecided.
DecisionApplyActionJudges(st, d, l, newerHumanEdit) ==
  IF st \in PRE_DECISION_STATUSES THEN "apply"
  ELSE IF st = d.status THEN "skip"
  ELSE IF newerHumanEdit THEN "conflict" ELSE "apply"
DecisionApplyActionOpenOnly(st, d, l, newerHumanEdit) ==
  IF d.status \in TERMINAL_DECISION_STATUSES /\ st = "Open" THEN "apply" ELSE "skip"

\* What to do with decision d for a finding with status st and link row l.
DecisionApplyAction(st, d, l, newerHumanEdit) ==
  IF d.status \in REVIEW_REQUIRED_STATUSES
    THEN IF st = d.status THEN "skip" ELSE "conflict"
  ELSE IF d.status \notin TERMINAL_DECISION_STATUSES THEN "skip"
  ELSE IF st \in PRE_DECISION_STATUSES THEN "apply"
  ELSE IF st = d.status /\ ~(l.state # "none" /\ d.version > l.version) THEN "skip"
  ELSE IF newerHumanEdit THEN "conflict"
  ELSE "apply"

\* The action for finding f as a row with this image, status and newer-edit set.
RelinkAction(f, asset, st, newer) ==
  LET k == LookupDecision(f, asset)
  IN  IF k = NoKey THEN "none"
      ELSE DecisionApplyAction(st, decision[k], link[k][f], k \in newer)

\* upsert_decision_link: a new row, or the same row linked again.
UpsertDecisionLink(k, f, version) ==
  [link EXCEPT ![k][f] = [state |-> "linked", version |-> version]]

\* The version a re-link writes.  Mutant: it is reset unless the decision applies.
RelinkVersionReset(act, d, l) == IF act = "apply" THEN d.version ELSE 0
RelinkVersion(act, d, l) == IF act = "apply" THEN d.version ELSE l.version

\* soft_unlink_findings.  Mutant: nothing is unlinked.
SoftUnlinkNothing(gone) == link
SoftUnlinkFindings(gone) ==
  [k \in Keys |-> [f \in Findings |->
     IF f \in gone /\ link[k][f].state = "linked"
     THEN [link[k][f] EXCEPT !.state = "unlinked"] ELSE link[k][f]]]

\* Writing a decision row moves its updated_at past every earlier human edit.
Touch(newerOf, k) == [g \in Findings |-> newerOf[g] \ {k}]

(***************************************************************************)
(* resolve_and_apply_decision on a row whose status, triage columns and    *)
(* newer-edit set are st, tr and newer.  Every match writes last_applied_at*)
(* on the decision, and updated_at is an onupdate column: a match alone    *)
(* moves it, whether or not the decision was applied.                      *)
(***************************************************************************)
ResolveAndApplyDecision(f, asset, st, tr, newer) ==
  LET k   == LookupDecision(f, asset)
      act == RelinkAction(f, asset, st, newer)
      d   == decision[k]
  IN  /\ status' = [status EXCEPT ![f] = IF act = "apply" THEN d.status ELSE st]
      /\ triage' = [triage EXCEPT ![f] =
           IF act = "apply"
           THEN [tr EXCEPT !.rationale = d.rationale, !.attestation = d.attestation]
           ELSE tr]
      /\ link' = IF k = NoKey THEN link
                 ELSE UpsertDecisionLink(k, f, RelinkVersion(act, d, link[k][f]))
      /\ humanNewer' = Touch([humanNewer EXCEPT ![f] = newer], k)
      /\ UNCHANGED ledgerVars

(***************************************************************************)
(* record_decision_from_finding on a row with status st and triage columns *)
(* tr; newer is the finding's newer-edit set before the record.            *)
(***************************************************************************)

Recordable(st, tr) ==
  /\ st \in RECORDABLE_STATUSES
  /\ tr.rationale \/ tr.attestation # 0 \/ st \in SELF_EXPLANATORY

\* Mutant: an update of an existing decision keeps its version.
NextVersionOnCreate(k) == IF k \in Recorded THEN decision[k].version ELSE 1
NextVersion(k) == decision[k].version + 1

RecordDecision(f, st, tr, newer) ==
  LET k   == PrimaryKey(f, canonical[image[f]])
      src == SourceKey(f, canonical[image[f]])
      d   == [status |-> st, rationale |-> tr.rationale,
              attestation |-> tr.attestation, version |-> NextVersion(k)]
  IN  IF Recordable(st, tr)
      THEN /\ decision' = [decision EXCEPT ![k] = d]
           /\ revisions' = [revisions EXCEPT ![k] = Append(@, d)]
           /\ link' = UpsertDecisionLink(k, f, d.version)
           /\ subjectAlias' = IF IssueOf[f] # NoIssue /\ subjectAlias[src] = NoKey
                              THEN [subjectAlias EXCEPT ![src] = k]
                              ELSE subjectAlias
           /\ humanNewer' = Touch([humanNewer EXCEPT ![f] = newer], k)
      ELSE /\ humanNewer' = [humanNewer EXCEPT ![f] = newer]
           /\ UNCHANGED <<decision, revisions, link, subjectAlias>>

\* Bound: reviewers may give f's decision n more versions; the last is expiry's.
RoomFor(f, n) ==
  decision[PrimaryKey(f, canonical[image[f]])].version + n < MaxVersion

(***************************************************************************)
(* Scanner imports.                                                        *)
(***************************************************************************)

\* The rows that carry the source issue of f.
Twins(f) == {g \in Live : IssueOf[g] = IssueOf[f] /\ IssueOf[f] # NoIssue}

\* ingest_finding, no row with this fingerprint: create it, then re-link.  A payload
\* whose issue the newest of its rows carries on the same asset is merged into that
\* row instead, which ImportMerge does.
ImportCreate(f, asset, st) ==
  /\ Free /\ image[f] = NoAsset
  /\ Twins(f) = {} \/ \E g \in Twins(f) : image[g] # canonical[asset]
  /\ image' = [image EXCEPT ![f] = canonical[asset]]
  /\ ResolveAndApplyDecision(f, canonical[asset], st, NewTriage, {})
  /\ UNCHANGED <<canonical, today, job>>

\* The status an existing row takes from the payload's status.
ImportedStatus(f, st) ==
  IF st \in SOURCE_SYNCED THEN st
  ELSE IF st = "Open" /\ status[f] = "Resolved" THEN "Reopened"
  ELSE status[f]

\* ingest_finding, existing row: status sync or regression, then re-link.
ImportMerge(f, st) ==
  /\ Free /\ f \in Live
  /\ ResolveAndApplyDecision(f, image[f], ImportedStatus(f, st), triage[f],
                             humanNewer[f])
  /\ UNCHANGED <<image, canonical, today, job>>

\* Aikido issue.closed webhook: the row is Resolved, the ledger is not consulted.
IssueClosed(f) ==
  /\ Free /\ f \in Live
  /\ status' = [status EXCEPT ![f] = "Resolved"]
  /\ UNCHANGED <<image, triage, canonical, ledgerVars, link, humanNewer, today, job>>

(***************************************************************************)
(* Reviewer operations.                                                    *)
(***************************************************************************)

ChangeStatus(f, st, tr) ==
  IF st # status[f] THEN [tr EXCEPT !.previous = status[f]] ELSE tr

\* update_finding: new status and triage columns, audit entry, ledger record.
UpdateFinding(f, st, rationale, attestation) ==
  LET tr == [ChangeStatus(f, st, triage[f])
               EXCEPT !.rationale = rationale, !.attestation = attestation]
  IN  /\ Free /\ f \in Live /\ RoomFor(f, 1)
      /\ status' = [status EXCEPT ![f] = st]
      /\ triage' = [triage EXCEPT ![f] = tr]
      /\ RecordDecision(f, st, tr, Recorded)
      /\ UNCHANGED <<image, canonical, today, job>>

\* Mutant: a finding that has no previous status is reverted too.
RevertFindingUnguarded(f) ==
  /\ Free /\ f \in Live
  /\ status' = [status EXCEPT ![f] = triage[f].previous]
  /\ triage' = [triage EXCEPT ![f].previous = status[f]]
  /\ humanNewer' = [humanNewer EXCEPT ![f] = Recorded]
  /\ UNCHANGED <<image, canonical, ledgerVars, link, today, job>>

\* revert_finding: swap status and previous status; the ledger is not written.
RevertFinding(f) ==
  /\ Free /\ f \in Live /\ triage[f].previous # "none"
  /\ status' = [status EXCEPT ![f] = triage[f].previous]
  /\ triage' = [triage EXCEPT ![f].previous = status[f]]
  /\ humanNewer' = [humanNewer EXCEPT ![f] = Recorded]
  /\ UNCHANGED <<image, canonical, ledgerVars, link, today, job>>

\* archive, unarchive, fingerprint override: only a human audit entry matters here.
AnnotateFinding(f) ==
  /\ Free /\ f \in Live
  /\ humanNewer' = [humanNewer EXCEPT ![f] = Recorded]
  /\ UNCHANGED <<findingVars, canonical, ledgerVars, link, today, job>>

\* bulk_update_findings: the same change for every finding, one commit.
BulkStart(ids, st, justified) ==
  /\ job.kind = "idle" /\ ids # {} /\ ids \subseteq Live
  /\ \A f \in ids : RoomFor(f, Cardinality(ids))
  /\ job' = [kind |-> "bulk", todo |-> ids, status |-> st, rationale |-> justified]
  /\ UNCHANGED <<findingVars, canonical, ledgerVars, link, humanNewer, today>>

\* The loop has handled f; after its last finding the handler commits.
Done(f) == IF job.todo = {f} THEN NoJob ELSE [job EXCEPT !.todo = @ \ {f}]

BulkStep(f) ==
  LET tr == [ChangeStatus(f, job.status, triage[f])
               EXCEPT !.rationale = job.rationale \/ @]
  IN  /\ job.kind = "bulk" /\ f \in job.todo
      /\ status' = [status EXCEPT ![f] = job.status]
      /\ triage' = [triage EXCEPT ![f] = tr]
      /\ RecordDecision(f, job.status, tr, Recorded)
      /\ job' = Done(f)
      /\ UNCHANGED <<image, canonical, today>>

(***************************************************************************)
(* Maintenance.                                                            *)
(***************************************************************************)

\* What a query with a limit and no order may return of the rows it selects.
Pages(rows) ==
  {page \in SUBSET rows : \/ Cardinality(page) = PageLimit
                          \/ Cardinality(rows) <= PageLimit /\ page = rows}

\* backfill_decisions_from_findings: only subjects without a decision.
BackfillStart ==
  LET ids == {f \in Live : status[f] \in RECORDABLE_STATUSES}
  IN  /\ job.kind = "idle" /\ ids # {}
      /\ \E page \in Pages(ids) :
           job' = [NoJob EXCEPT !.kind = "backfill", !.todo = page]
      /\ UNCHANGED <<findingVars, canonical, ledgerVars, link, humanNewer, today>>

BackfillStep(f) ==
  /\ job.kind = "backfill" /\ f \in job.todo
  /\ IF PrimaryKey(f, canonical[image[f]]) \in Recorded
     THEN UNCHANGED <<ledgerVars, link, humanNewer>>
     ELSE RecordDecision(f, status[f], triage[f], humanNewer[f])
  /\ job' = Done(f)
  /\ UNCHANGED <<findingVars, canonical, today>>

\* Mutant: only findings without an active link are re-linked.
ReconcileStartUnlinked ==
  LET ids == {f \in Live : ~\E k \in Keys : link[k][f].state = "linked"}
  IN  /\ job.kind = "idle" /\ ids # {}
      /\ job' = [NoJob EXCEPT !.kind = "reconcile", !.todo = ids]
      /\ UNCHANGED <<findingVars, canonical, ledgerVars, link, humanNewer, today>>

\* reconcile_decision_links: re-link a page of findings, all of them if they fit.
ReconcileStart ==
  /\ job.kind = "idle" /\ Live # {}
  /\ \E page \in Pages(Live) :
       job' = [NoJob EXCEPT !.kind = "reconcile", !.todo = page]
  /\ UNCHANGED <<findingVars, canonical, ledgerVars, link, humanNewer, today>>

ReconcileStep(f) ==
  /\ job.kind = "reconcile" /\ f \in job.todo
  /\ ResolveAndApplyDecision(f, image[f], status[f], triage[f], humanNewer[f])
  /\ job' = Done(f)
  /\ UNCHANGED <<image, canonical, today>>

(***************************************************************************)
(* expire_decision_waivers: every expired Risk Accepted decision becomes   *)
(* Open, and so does every Risk Accepted finding it is linked to.  A       *)
(* finding linked to two of them is reopened by the one met first (first). *)
(***************************************************************************)

\* Mutant: decisions that are Open already expire again.
ExpiredDecisionsAnyStatus == {k \in Recorded : IsWaiverExpired(decision[k].attestation)}
ExpiredDecisions ==
  {k \in Recorded : /\ decision[k].status = "RiskAccepted"
                    /\ IsWaiverExpired(decision[k].attestation)}

ExpireDecisionWaivers ==
  LET linked(f) == {k \in ExpiredDecisions : link[k][f].state = "linked"}
      reopened  == {f \in Live : status[f] = "RiskAccepted" /\ linked(f) # {}}
      next(k)   == [decision[k] EXCEPT !.status = "Open", !.version = @ + 1]
  IN  /\ job.kind = "idle"
      /\ decision' = [k \in Keys |-> IF k \in ExpiredDecisions THEN next(k)
                                     ELSE decision[k]]
      /\ revisions' = [k \in Keys |-> IF k \in ExpiredDecisions
                                      THEN Append(revisions[k], next(k))
                                      ELSE revisions[k]]
      /\ status' = [f \in Findings |-> IF f \in reopened THEN "Open" ELSE status[f]]
      /\ triage' = [f \in Findings |->
                     IF f \in reopened THEN [triage[f] EXCEPT !.previous = "RiskAccepted"]
                     ELSE triage[f]]
      /\ \E first \in [Findings -> Keys] :
           /\ \A f \in reopened : first[f] \in linked(f)
           /\ link' = [k \in Keys |-> [f \in Findings |->
                        IF f \in reopened /\ k = first[f]
                        THEN [link[k][f] EXCEPT !.version = next(k).version]
                        ELSE link[k][f]]]
      /\ humanNewer' = [f \in Findings |-> humanNewer[f] \ ExpiredDecisions]
      /\ job' = [NoJob EXCEPT !.kind = "expiry"]
      /\ UNCHANGED <<image, canonical, subjectAlias, today>>

\* Mutant: a finding the ledger knows is left to the ledger.
EnforceWaiverExpiryUnlinked ==
  /\ job.kind = "expiry"
  /\ status' = [f \in Findings |->
                 IF /\ f \in Live /\ status[f] = "RiskAccepted"
                    /\ IsWaiverExpired(triage[f].attestation)
                    /\ \A k \in Keys : link[k][f].state # "linked"
                 THEN "Open" ELSE status[f]]
  /\ job' = NoJob
  /\ UNCHANGED <<image, triage, canonical, ledgerVars, link, humanNewer, today>>

\* _enforce_waiver_expiry_on_findings, after the ledger's commit.
EnforceWaiverExpiryOnFindings ==
  /\ job.kind = "expiry"
  /\ status' = [f \in Findings |->
                 IF /\ f \in Live /\ status[f] = "RiskAccepted"
                    /\ IsWaiverExpired(triage[f].attestation)
                 THEN "Open" ELSE status[f]]
  /\ job' = NoJob
  /\ UNCHANGED <<image, triage, canonical, ledgerVars, link, humanNewer, today>>

\* The worker dies between the two commits.
ExpiryWorkerDies ==
  /\ job.kind = "expiry"
  /\ job' = NoJob
  /\ UNCHANGED <<findingVars, canonical, ledgerVars, link, humanNewer, today>>

\* _delete_asset_owned_data: the finding rows go, their links are soft-unlinked.
DeleteFindings(gone) ==
  LET Reset(fn, v) == [f \in Findings |-> IF f \in gone THEN v ELSE fn[f]]
  IN  /\ image' = Reset(image, NoAsset)
      /\ status' = Reset(status, "Open")
      /\ triage' = Reset(triage, NewTriage)
      /\ humanNewer' = Reset(humanNewer, {})
      /\ link' = SoftUnlinkFindings(gone)
      /\ UNCHANGED <<ledgerVars, today, job>>

DeleteAsset(a) ==
  LET gone == {f \in Findings : image[f] = a}
  IN  Free /\ gone # {} /\ DeleteFindings(gone) /\ UNCHANGED canonical

NextDay ==
  /\ Free /\ today <= MaxDay
  /\ today' = today + 1
  /\ UNCHANGED <<findingVars, canonical, ledgerVars, link, humanNewer, job>>

\* Every operation that leaves the assets alone.
Operation ==
  \/ \E f \in Findings, a \in Assets, st \in ScannerStatuses \cup {"Open"} :
       ImportCreate(f, a, st)
  \/ \E f \in Findings, st \in ScannerStatuses \cup {"Open"} : ImportMerge(f, st)
  \/ \E f \in Findings : IssueClosed(f)
  \/ \E f \in Findings, st \in HumanStatuses, r \in Rationales, d \in Attestations :
       UpdateFinding(f, st, r, d)
  \/ \E f \in Findings : RevertFinding(f)
  \/ \E f \in Findings : AnnotateFinding(f)
  \/ \E ids \in SUBSET Findings, st \in HumanStatuses, r \in Rationales :
       BulkStart(ids, st, r)
  \/ \E f \in Findings : BulkStep(f)
  \/ BackfillStart
  \/ \E f \in Findings : BackfillStep(f)
  \/ ReconcileStart
  \/ \E f \in Findings : ReconcileStep(f)
  \/ ExpireDecisionWaivers
  \/ EnforceWaiverExpiryOnFindings
  \/ ExpiryWorkerDies
  \/ NextDay

Next == Operation \/ \E a \in Assets : DeleteAsset(a)

Spec == Init /\ [][Next]_vars

(***************************************************************************)
(* Fairness.  A handler that has started its loop finishes it.  Celery     *)
(* Beat starts the reconciliation every night, whatever reviewers do in    *)
(* between; it starts the expiry job only if the task name on the schedule *)
(* is one a worker has registered.                                         *)
(***************************************************************************)
BeatSchedule == [waiver_expiry |-> "maintenance_tasks.enforce_waiver_expiry_task",
                 reconcile     |-> "maintenance_tasks.reconcile_decisions"]
RegisteredTasks == {"maintenance_tasks.enforce_waiver_expiry",
                    "maintenance_tasks.reconcile_decisions"}

ScheduledReconcile == BeatSchedule.reconcile \in RegisteredTasks /\ ReconcileStart
ScheduledExpiry ==
  BeatSchedule.waiver_expiry \in RegisteredTasks /\ ExpireDecisionWaivers

LoopStep == \E f \in Findings : BulkStep(f) \/ BackfillStep(f) \/ ReconcileStep(f)

Fairness ==
  /\ WF_vars(LoopStep)
  /\ SF_vars(EnforceWaiverExpiryOnFindings)
  /\ SF_vars(ScheduledReconcile)
  /\ SF_vars(ScheduledExpiry)

FairSpec == Spec /\ Fairness

(***************************************************************************)
(* The abstract specification the ledger implements.                       *)
(***************************************************************************)
Register == INSTANCE DecisionRegister WITH
              Subjects <- Keys, RecordStatus <- RECORDABLE_STATUSES,
              Waivers <- Attestations, NoEntry <- NoDecision,
              log <- revisions, current <- decision

(***************************************************************************)
(* Properties.                                                             *)
(***************************************************************************)

\* The history table tells the truth: every decision row equals the latest of
\* its revisions, and revision n is the snapshot of version n, however record,
\* bulk, backfill and expiry interleave.
LedgerHistory ==
  \A k \in Keys :
    /\ Len(revisions[k]) = decision[k].version
    /\ \A n \in 1..Len(revisions[k]) : revisions[k][n].version = n
    /\ k \in Recorded => revisions[k][decision[k].version] = decision[k]

\* Readers of the decision and revision tables see an append-only register:
\* imports, re-links, reconciliation and deletions write no decision, and expiry
\* and record never skip, reorder or rewrite a revision.
ImplementsRegister == Register!Spec

\* An active link joins a finding row that exists to a decision that exists and
\* never claims a version the decision has not reached: deleting an asset
\* unlinks, and a re-import links again.
LinksSound ==
  \A k \in Keys, f \in Findings :
    /\ link[k][f].version <= decision[k].version
    /\ link[k][f].state = "linked" => f \in Live /\ k \in Recorded

\* A finding's link never goes back to an older version of its decision: not by
\* a skipped or conflicting re-link, an unlink, or a re-import.
AppliedVersionMonotone ==
  [][\A k \in Keys, f \in Findings :
       link'[k][f].version >= link[k][f].version]_vars

\* Approved and Rejected are reviewer judgements: neither an import over an
\* existing finding nor reconciliation ever gives them to a finding.
JudgementsNotProjected ==
  [][\A f \in Findings :
       /\ ReconcileStep(f) \/ \E st \in ScannerStatuses \cup {"Open"} : ImportMerge(f, st)
       /\ status'[f] \in REVIEW_REQUIRED_STATUSES
       => status'[f] = status[f]]_vars

\* A decision outlives its findings: after an asset is deleted and scanned
\* again, the new row takes the terminal decision recorded for its subject,
\* whatever status the scanner reports.
DecisionSurvivesReimport ==
  [][\A f \in Findings, a \in Assets, st \in ScannerStatuses \cup {"Open"} :
       LET k == LookupDecision(f, canonical[a])
       IN  ImportCreate(f, a, st) /\ k # NoKey =>
             /\ link'[k][f].state = "linked"
             /\ decision[k].status \in TERMINAL_DECISION_STATUSES
                  => status'[f] = decision[k].status]_vars

\* A decision follows its source issue: a new row whose own subject has no
\* decision takes the status on which all recorded decisions of its issue agree.
DecisionFollowsIssue ==
  [][\A f \in Findings, a \in Assets, st \in ScannerStatuses \cup {"Open"}, s \in TERMINAL_DECISION_STATUSES :
       LET Same(g) == IssueOf[g] = IssueOf[f]
           recorded == {k \in Recorded : \E g \in Findings : Same(g) /\ k = PrimaryKey(g, canonical[a])}
       IN  /\ ImportCreate(f, a, st) /\ IssueOf[f] # NoIssue /\ recorded # {}
           /\ \A k \in recorded :
                /\ k # PrimaryKey(f, canonical[a]) /\ decision[k].status = s
                /\ \A g \in Findings : k = PrimaryKey(g, canonical[a]) => Same(g)
           => status'[f] = s]_vars

\* Drift is repaired: a finding left undecided although a terminal decision
\* matches it does not stay so, since reconciliation runs every night; unless there
\* are more findings than it reads, of which the database may leave out the same
\* ones every night.
DriftRepaired ==
  \A f \in Findings :
    LET drifted == /\ f \in Live /\ status[f] \in PRE_DECISION_STATUSES
                   /\ RelinkAction(f, image[f], status[f], humanNewer[f]) = "apply"
    IN  drifted ~> ~drifted \/ Cardinality(Live) > PageLimit

(***************************************************************************)
(* What the documentation says and the code does not do.                   *)
(***************************************************************************)

\* The workflow document: an expired waiver is auto-reopened.  The application runs
\* the expiry job when it starts, and the schedule names a task nobody registered.
ExpiredWaiverReopened ==
  \A f \in Findings :
    LET expired == /\ status[f] = "RiskAccepted"
                   /\ IsWaiverExpired(triage[f].attestation)
    IN  expired ~> ~expired

\* Design: a decision is not projected onto a finding a human edited after it.
HumanEditsStand ==
  [][\A f \in Findings :
       ReconcileStep(f) /\ LookupDecision(f, image[f]) \in humanNewer[f]
         => status'[f] = status[f]]_vars
=============================================================================
