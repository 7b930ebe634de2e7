------------------------ MODULE DecisionLedgerProofs ------------------------
(***************************************************************************)
(* Proofs about the decision ledger, alone (Spec) and with asset merges    *)
(* (MergeSpec), for every set of findings, assets and issues and every     *)
(* bound.  The inductive invariant is TypeOK, LedgerHistory and LinksSound *)
(* together with JobSound: a loop over findings only ever holds findings   *)
(* that exist, because nothing deletes rows while it runs.                 *)
(***************************************************************************)
EXTENDS LedgerMerge, TLAPS, NaturalsInduction, WellFoundedInduction

\* A loop's findings exist, and only a loop has findings left to handle.
JobSound ==
  /\ job.todo \subseteq Live
  /\ Free => job.todo = {}

IInv == TypeOK /\ JobSound /\ LedgerHistory /\ LinksSound

(***************************************************************************)
(* The helper operators.                                                   *)
(***************************************************************************)

\* The primary key of a finding on an asset is a subject key.
LEMMA PrimaryKeyInKeys ==
  ASSUME NEW f \in Findings, NEW a \in Assets
  PROVE  PrimaryKey(f, a) \in Keys
BY LedgerAssumption DEF PrimaryKey, Keys

\* The source key of a finding that has an issue is a subject key.
LEMMA SourceKeyInKeys ==
  ASSUME NEW f \in Findings, NEW a \in Assets, IssueOf[f] # NoIssue
  PROVE  SourceKey(f, a) \in Keys
BY LedgerAssumption DEF SourceKey, Keys

\* lookup_decision returns a decision that exists, or none.
LEMMA LookupRecorded ==
  ASSUME TypeOK, NEW f \in Findings, NEW a \in Assets
  PROVE  LookupDecision(f, a) \in Recorded \cup {NoKey}
<1>1. canonical[a] \in Assets
  BY DEF TypeOK
<1>2. \A k : DecisionFor(k) \in Recorded \cup {NoKey}
  BY DEF DecisionFor
<1>3. QED
  BY <1>1, <1>2 DEF LookupDecision

\* The row of a live finding names an asset.
LEMMA LiveImage ==
  ASSUME TypeOK, NEW f \in Live
  PROVE  f \in Findings /\ image[f] \in Assets /\ canonical[image[f]] \in Assets
BY DEF TypeOK, Live

\* The statuses of a recordable decision are statuses of a finding.
LEMMA StatusFacts ==
  /\ RECORDABLE_STATUSES \subseteq Statuses
  /\ "Open" \in Statuses /\ "Reopened" \in Statuses /\ "Resolved" \in Statuses
  /\ "RiskAccepted" \in Statuses
BY DEF Statuses, RECORDABLE_STATUSES, PRE_DECISION_STATUSES, TERMINAL_DECISION_STATUSES

\* What an import leaves in an existing row is a status.
LEMMA ImportedStatusType ==
  ASSUME TypeOK, NEW f \in Findings, NEW st \in Statuses
  PROVE  ImportedStatus(f, st) \in Statuses
BY StatusFacts DEF ImportedStatus, TypeOK

\* ChangeStatus keeps the triage columns well typed.
LEMMA ChangeStatusType ==
  ASSUME TypeOK, NEW f \in Findings, NEW st \in Statuses, NEW tr \in Triage
  PROVE  ChangeStatus(f, st, tr) \in Triage
BY DEF ChangeStatus, TypeOK, Triage

\* The initial rows are well typed.
LEMMA NewRowTypes ==
  /\ NewTriage \in Triage
  /\ NoDecision \in Decision
  /\ NoLink \in Link
  /\ NoJob \in Jobs
BY LedgerAssumption, StatusFacts
   DEF NewTriage, Triage, NoDecision, Decision, NoLink, Link, NoJob, Jobs, Attestations

(***************************************************************************)
(* Recording: decision k, the finding's primary key, gets one new version, *)
(* its snapshot is appended, and the finding is linked at that version.    *)
(***************************************************************************)

\* Subjects in S get their next version and its snapshot; the others keep theirs.
Entered(S) ==
  \A k \in Keys :
    IF k \in S
    THEN /\ decision'[k].version = decision[k].version + 1
         /\ revisions'[k] = Append(revisions[k], decision'[k])
    ELSE decision'[k] = decision[k] /\ revisions'[k] = revisions[k]

LedgerTypes ==
  /\ decision \in [Keys -> Decision]
  /\ revisions \in [Keys -> Seq(Decision)]
  /\ link \in [Keys -> [Findings -> Link]]
  /\ subjectAlias \in [Keys -> Keys \cup {NoKey}]
  /\ humanNewer \in [Findings -> SUBSET Keys]

\* record_decision_from_finding writes well-typed rows, enters at most the
\* primary key, and links no other finding.
LEMMA RecordEffect ==
  ASSUME TypeOK, NEW f \in Live, NEW st \in Statuses, NEW tr \in Triage,
         NEW newer \in SUBSET Keys, RecordDecision(f, st, tr, newer)
  PROVE  /\ LedgerTypes'
         /\ \E S \in SUBSET {PrimaryKey(f, canonical[image[f]])} : Entered(S)
         /\ \A k \in Keys, g \in Findings :
              \/ link'[k][g] = link[k][g]
              \/ /\ g = f /\ k = PrimaryKey(f, canonical[image[f]])
                 /\ link'[k][g].version = decision'[k].version
                 /\ decision'[k].version > 0
                 /\ decision'[k].version > decision[k].version
<1> DEFINE key == PrimaryKey(f, canonical[image[f]])
           src == SourceKey(f, canonical[image[f]])
           d   == [status |-> st, rationale |-> tr.rationale,
                   attestation |-> tr.attestation, version |-> decision[key].version + 1]
<1>1. key \in Keys
  BY LiveImage, PrimaryKeyInKeys
<1>2. LedgerTypes
  BY DEF TypeOK, LedgerTypes
<1>3. CASE Recordable(st, tr)
  <2>1. d \in Decision
    BY <1>1 DEF Decision, Triage, TypeOK
  <2>2. /\ decision' = [decision EXCEPT ![key] = d]
        /\ revisions' = [revisions EXCEPT ![key] = Append(@, d)]
        /\ link' = [link EXCEPT ![key][f] = [state |-> "linked", version |-> d.version]]
        /\ subjectAlias' = IF IssueOf[f] # NoIssue /\ subjectAlias[src] = NoKey
                           THEN [subjectAlias EXCEPT ![src] = key]
                           ELSE subjectAlias
        /\ humanNewer' = Touch([humanNewer EXCEPT ![f] = newer], key)
    BY <1>3 DEF RecordDecision, NextVersion, UpsertDecisionLink
  <2>3. d.version \in Nat /\ d.version = decision[key].version + 1
    BY <1>1, <1>2 DEF LedgerTypes, Decision
  <2> HIDE DEF d, key, src
  <2>4. decision' \in [Keys -> Decision] /\ revisions' \in [Keys -> Seq(Decision)]
    BY <1>1, <1>2, <2>1, <2>2 DEF LedgerTypes
  <2>5. link' \in [Keys -> [Findings -> Link]]
    BY <1>1, <1>2, <2>2, <2>3, LiveImage DEF LedgerTypes, Link
  <2>6. subjectAlias' \in [Keys -> Keys \cup {NoKey}]
    BY <1>1, <1>2, <2>2 DEF LedgerTypes
  <2>7. humanNewer' \in [Findings -> SUBSET Keys]
    BY <1>2, <2>2, LiveImage DEF LedgerTypes, Touch
  <2>8. Entered({key})
    BY <1>1, <1>2, <2>2, <2>3 DEF Entered, LedgerTypes
  <2>9. ASSUME NEW k \in Keys, NEW g \in Findings
        PROVE  \/ link'[k][g] = link[k][g]
               \/ /\ g = f /\ k = key
                  /\ link'[k][g].version = decision'[k].version
                  /\ decision'[k].version > 0
                  /\ decision'[k].version > decision[k].version
    <3>1. CASE g = f /\ k = key
      BY <3>1, <1>1, <1>2, <2>2, <2>3, LiveImage DEF LedgerTypes, Decision
    <3>2. CASE ~(g = f /\ k = key)
      BY <3>2, <1>1, <1>2, <2>2, LiveImage DEF LedgerTypes
    <3>3. QED
      BY <3>1, <3>2
  <2>10. QED
    BY <2>4, <2>5, <2>6, <2>7, <2>8, <2>9 DEF LedgerTypes, key
<1>4. CASE ~Recordable(st, tr)
  <2>1. /\ humanNewer' = [humanNewer EXCEPT ![f] = newer]
        /\ UNCHANGED <<decision, revisions, link, subjectAlias>>
    BY <1>4 DEF RecordDecision
  <2>2. Entered({})
    BY <2>1 DEF Entered
  <2>3. LedgerTypes'
    BY <1>2, <2>1, LiveImage DEF LedgerTypes
  <2>4. QED
    BY <2>1, <2>2, <2>3
<1>5. QED
  BY <1>3, <1>4

(***************************************************************************)
(* Re-linking writes no decision; it links the finding to a recorded       *)
(* decision, and a link only ever moves to the decision's current version. *)
(***************************************************************************)

\* resolve_and_apply_decision leaves the register alone and keeps types.
LEMMA RelinkEffect ==
  ASSUME TypeOK, NEW f \in Findings, NEW a \in Assets, NEW st \in Statuses,
         NEW tr \in Triage, NEW newer \in SUBSET Keys,
         ResolveAndApplyDecision(f, a, st, tr, newer)
  PROVE  /\ status' \in [Findings -> Statuses]
         /\ triage' \in [Findings -> Triage]
         /\ LedgerTypes'
         /\ Entered({})
         /\ \A k \in Keys, g \in Findings :
              \/ link'[k][g] = link[k][g]
              \/ /\ g = f /\ k \in Recorded
                 /\ link'[k][g].version \in {link[k][g].version, decision[k].version}
<1> DEFINE key == LookupDecision(f, a)
           act == RelinkAction(f, a, st, newer)
<1>1. key \in Recorded \cup {NoKey} /\ Recorded \subseteq Keys
  BY LookupRecorded DEF Recorded
<1>2. LedgerTypes
  BY DEF TypeOK, LedgerTypes
<1>3. /\ status' = [status EXCEPT ![f] = IF act = "apply" THEN decision[key].status ELSE st]
      /\ triage' = [triage EXCEPT ![f] =
           IF act = "apply"
           THEN [tr EXCEPT !.rationale = decision[key].rationale,
                           !.attestation = decision[key].attestation]
           ELSE tr]
      /\ link' = IF key = NoKey THEN link
                 ELSE [link EXCEPT ![key][f] =
                        [state |-> "linked",
                         version |-> IF act = "apply" THEN decision[key].version
                                     ELSE link[key][f].version]]
      /\ humanNewer' = Touch([humanNewer EXCEPT ![f] = newer], key)
      /\ UNCHANGED <<decision, revisions, subjectAlias>>
  BY DEF ResolveAndApplyDecision, RelinkVersion, UpsertDecisionLink, ledgerVars
<1>4. act = "apply" => key \in Recorded
  BY <1>1 DEF RelinkAction
<1> HIDE DEF key, act
<1>5. status' \in [Findings -> Statuses]
  BY <1>1, <1>3, <1>4 DEF TypeOK, Decision
<1>6. triage' \in [Findings -> Triage]
  <2>1. ASSUME act = "apply"
        PROVE  [tr EXCEPT !.rationale = decision[key].rationale,
                          !.attestation = decision[key].attestation] \in Triage
    BY <1>1, <1>4, <2>1 DEF TypeOK, Decision, Triage
  <2>2. QED
    BY <1>3, <2>1 DEF TypeOK
<1>7. link' \in [Keys -> [Findings -> Link]]
  BY <1>1, <1>2, <1>3 DEF LedgerTypes, Link, Decision
<1>8. humanNewer' \in [Findings -> SUBSET Keys]
  BY <1>2, <1>3 DEF LedgerTypes, Touch
<1>9. LedgerTypes'
  BY <1>2, <1>3, <1>7, <1>8 DEF LedgerTypes
<1>10. Entered({})
  BY <1>3 DEF Entered
<1>11. ASSUME NEW k \in Keys, NEW g \in Findings
       PROVE  \/ link'[k][g] = link[k][g]
              \/ /\ g = f /\ k \in Recorded
                 /\ link'[k][g].version \in {link[k][g].version, decision[k].version}
  <2>1. CASE g = f /\ k = key /\ key # NoKey
    BY <2>1, <1>1, <1>2, <1>3 DEF LedgerTypes
  <2>2. CASE ~(g = f /\ k = key /\ key # NoKey)
    BY <2>2, <1>2, <1>3 DEF LedgerTypes
  <2>3. QED
    BY <2>1, <2>2
<1>12. QED
  BY <1>5, <1>6, <1>9, <1>10, <1>11

(***************************************************************************)
(* What every step does, seen by the ledger tables.                        *)
(***************************************************************************)

\* A step keeps the register except for the subjects it enters, and a link
\* changes to an unlinked row of the same version, to a row for a decision
\* that existed, or to a row at the version just written.
LinkStep ==
  \A k \in Keys, g \in Findings :
    \/ link'[k][g] = link[k][g] /\ (g \in Live => g \in Live')
    \/ link'[k][g].state # "linked" /\ link'[k][g].version = link[k][g].version
    \/ /\ g \in Live' /\ k \in Recorded
       /\ link'[k][g].version \in {link[k][g].version, decision[k].version}
    \/ /\ g \in Live' /\ decision'[k].version > 0
       /\ link'[k][g].version = decision'[k].version

\* The decisions entered are those of one subject, or of subjects that expired.
LedgerStep == LedgerTypes' /\ LinkStep /\ \E S \in SUBSET Keys : Entered(S)

\* Entering subjects keeps each decision equal to the last of its revisions.
LEMMA EnteredKeepsHistory ==
  ASSUME TypeOK, LedgerTypes', LedgerHistory, NEW S \in SUBSET Keys, Entered(S)
  PROVE  LedgerHistory'
<1> SUFFICES ASSUME NEW k \in Keys
             PROVE  /\ Len(revisions'[k]) = decision'[k].version
                    /\ \A n \in 1..Len(revisions'[k]) : revisions'[k][n].version = n
                    /\ decision'[k].version > 0 =>
                         revisions'[k][decision'[k].version] = decision'[k]
  BY DEF LedgerHistory, Recorded
<1>1. /\ decision[k] \in Decision /\ revisions[k] \in Seq(Decision)
      /\ decision'[k] \in Decision /\ revisions'[k] \in Seq(Decision)
  BY DEF TypeOK, LedgerTypes
<1>2. /\ Len(revisions[k]) = decision[k].version
      /\ \A n \in 1..Len(revisions[k]) : revisions[k][n].version = n
      /\ decision[k].version > 0 => revisions[k][decision[k].version] = decision[k]
  BY DEF LedgerHistory, Recorded
<1>3. decision[k].version \in Nat /\ decision'[k].version \in Nat
  BY <1>1 DEF Decision
<1>4. CASE k \in S
  <2>1. /\ decision'[k].version = decision[k].version + 1
        /\ revisions'[k] = Append(revisions[k], decision'[k])
    BY <1>4 DEF Entered
  <2>2. /\ Len(revisions'[k]) = Len(revisions[k]) + 1
        /\ \A n \in 1..Len(revisions[k]) : revisions'[k][n] = revisions[k][n]
        /\ revisions'[k][Len(revisions[k]) + 1] = decision'[k]
    BY <1>1, <2>1
  <2>3. QED
    BY <1>1, <1>2, <1>3, <2>1, <2>2
<1>5. CASE k \notin S
  BY <1>2, <1>5 DEF Entered
<1>6. QED
  BY <1>4, <1>5

\* A step of the ledger tables keeps links sound.
LEMMA LedgerStepKeepsLinks ==
  ASSUME TypeOK, LedgerStep, LinksSound
  PROVE  LinksSound'
<1> SUFFICES ASSUME NEW k \in Keys, NEW g \in Findings
             PROVE  /\ link'[k][g].version <= decision'[k].version
                    /\ link'[k][g].state = "linked" =>
                         g \in Live' /\ decision'[k].version > 0
  BY DEF LinksSound, Recorded
<1>1. /\ decision[k].version \in Nat /\ decision'[k].version \in Nat
      /\ link[k][g].version \in Nat /\ link'[k][g].version \in Nat
  BY DEF TypeOK, LedgerStep, LedgerTypes, Decision, Link
<1>2. decision'[k].version >= decision[k].version
  BY <1>1 DEF LedgerStep, Entered
<1>3. /\ link[k][g].version <= decision[k].version
      /\ link[k][g].state = "linked" => g \in Live /\ decision[k].version > 0
  BY DEF LinksSound, Recorded
<1>4. k \in Recorded => decision[k].version > 0
  BY DEF Recorded
<1>5. QED
  BY <1>1, <1>2, <1>3, <1>4 DEF LedgerStep, LinkStep

\* A step of the ledger tables never takes a link to an older version.
LEMMA LedgerStepMonotone ==
  ASSUME TypeOK, LedgerStep, LinksSound
  PROVE  \A k \in Keys, g \in Findings : link'[k][g].version >= link[k][g].version
<1> SUFFICES ASSUME NEW k \in Keys, NEW g \in Findings
             PROVE  link'[k][g].version >= link[k][g].version
  OBVIOUS
<1>1. /\ decision[k].version \in Nat /\ decision'[k].version \in Nat
      /\ link[k][g].version \in Nat /\ link'[k][g].version \in Nat
  BY DEF TypeOK, LedgerStep, LedgerTypes, Decision, Link
<1>2. decision'[k].version >= decision[k].version
  BY <1>1 DEF LedgerStep, Entered
<1>3. link[k][g].version <= decision[k].version
  BY DEF LinksSound
<1>4. QED
  BY <1>1, <1>2, <1>3 DEF LedgerStep, LinkStep

(***************************************************************************)
(* One lemma per family of actions: types, the loop, the ledger tables.    *)
(***************************************************************************)
StepOK == TypeOK' /\ JobSound' /\ LedgerStep

\* Steps that leave the ledger tables alone and no finding row disappears.
LEMMA QuietStep ==
  ASSUME TypeOK, TypeOK', Live \subseteq Live',
         UNCHANGED <<decision, revisions, link>>
  PROVE  LedgerStep
<1>1. LedgerTypes'
  BY DEF TypeOK, LedgerTypes
<1>2. LinkStep
  BY DEF LinkStep
<1>3. Entered({})
  BY DEF Entered
<1>4. QED
  BY <1>1, <1>2, <1>3 DEF LedgerStep

\* Done removes one finding from the loop, and ends the loop with the last one.
LEMMA DoneKeepsJob ==
  ASSUME TypeOK, JobSound, NEW f \in job.todo, job' = Done(f), image' = image
  PROVE  job' \in Jobs /\ JobSound'
<1>1. job \in Jobs /\ job.todo \subseteq Live
  BY DEF TypeOK, JobSound
<1>2. CASE job.todo = {f}
  <2>1. job' = NoJob
    BY <1>2 DEF Done
  <2>2. QED
    BY <2>1, NewRowTypes DEF JobSound, NoJob, Free
<1>3. CASE job.todo # {f}
  <2>1. job' = [job EXCEPT !.todo = job.todo \ {f}]
    BY <1>3 DEF Done
  <2>2. job' \in Jobs /\ job'.todo \subseteq job.todo /\ job'.kind = job.kind
    BY <1>1, <2>1 DEF Jobs
  <2>3. ~(job.kind \in {"idle", "expiry"})
    BY DEF JobSound, Free
  <2>4. QED
    BY <1>1, <2>2, <2>3 DEF JobSound, Free, Live
<1>4. QED
  BY <1>2, <1>3

\* Imports: the finding exists afterwards, re-linked to its subject's decision.
LEMMA ImportStep ==
  ASSUME IInv, NEW f \in Findings, NEW st \in ScannerStatuses \cup {"Open"},
         \/ \E a \in Assets : ImportCreate(f, a, st)
         \/ ImportMerge(f, st)
  PROVE  StepOK
<1>0. TypeOK /\ JobSound /\ st \in Statuses
  BY LedgerAssumption, StatusFacts DEF IInv
<1>1. CASE \E a \in Assets : ImportCreate(f, a, st)
  <2>1. PICK a \in Assets : ImportCreate(f, a, st)
    BY <1>1
  <2>2. /\ Free /\ image' = [image EXCEPT ![f] = canonical[a]]
        /\ ResolveAndApplyDecision(f, canonical[a], st, NewTriage, {})
        /\ UNCHANGED <<canonical, today, job>>
    BY <2>1 DEF ImportCreate
  <2>3. canonical[a] \in Assets
    BY <1>0 DEF TypeOK
  <2>4. /\ status' \in [Findings -> Statuses] /\ triage' \in [Findings -> Triage]
        /\ LedgerTypes' /\ Entered({})
        /\ \A k \in Keys, g \in Findings :
             \/ link'[k][g] = link[k][g]
             \/ /\ g = f /\ k \in Recorded
                /\ link'[k][g].version \in {link[k][g].version, decision[k].version}
    BY <1>0, <2>2, <2>3, NewRowTypes, RelinkEffect
  <2>5. image' \in [Findings -> Assets \cup {NoAsset}]
        /\ Live' = Live \cup {f}
    BY <1>0, <2>2, <2>3, LedgerAssumption DEF TypeOK, Live
  <2>6. TypeOK'
    BY <1>0, <2>2, <2>4, <2>5 DEF TypeOK, LedgerTypes
  <2>7. JobSound'
    BY <1>0, <2>2, <2>5 DEF JobSound, Free
  <2>8. LinkStep
    BY <2>4, <2>5 DEF LinkStep
  <2>9. QED
    BY <2>4, <2>6, <2>7, <2>8 DEF StepOK, LedgerStep
<1>2. CASE ImportMerge(f, st)
  <2>1. /\ Free /\ f \in Live
        /\ ResolveAndApplyDecision(f, image[f], ImportedStatus(f, st), triage[f],
                                   humanNewer[f])
        /\ UNCHANGED <<image, canonical, today, job>>
    BY <1>2 DEF ImportMerge
  <2>2. /\ image[f] \in Assets /\ ImportedStatus(f, st) \in Statuses
        /\ triage[f] \in Triage /\ humanNewer[f] \in SUBSET Keys
    BY <1>0, <2>1, LiveImage, ImportedStatusType DEF TypeOK
  <2>3. /\ status' \in [Findings -> Statuses] /\ triage' \in [Findings -> Triage]
        /\ LedgerTypes' /\ Entered({})
        /\ \A k \in Keys, g \in Findings :
             \/ link'[k][g] = link[k][g]
             \/ /\ g = f /\ k \in Recorded
                /\ link'[k][g].version \in {link[k][g].version, decision[k].version}
    BY <1>0, <2>1, <2>2, RelinkEffect
  <2>4. Live' = Live
    BY <2>1 DEF Live
  <2>5. TypeOK'
    BY <1>0, <2>1, <2>3 DEF TypeOK, LedgerTypes
  <2>6. JobSound'
    BY <1>0, <2>1, <2>4 DEF JobSound, Free
  <2>7. LinkStep
    BY <2>1, <2>3, <2>4 DEF LinkStep
  <2>8. QED
    BY <2>3, <2>5, <2>6, <2>7 DEF StepOK, LedgerStep
<1>3. QED
  BY <1>1, <1>2

\* A record on a live finding, whatever the row's new status and columns are.
LEMMA RecordStep ==
  ASSUME TypeOK, NEW f \in Live, NEW st \in Statuses, NEW tr \in Triage,
         NEW newer \in SUBSET Keys, RecordDecision(f, st, tr, newer), image' = image
  PROVE  LedgerStep
<1> DEFINE key == PrimaryKey(f, canonical[image[f]])
<1>1. Live' = Live /\ key \in Keys
  BY LiveImage, PrimaryKeyInKeys DEF Live
<1>2. /\ LedgerTypes'
      /\ \E S \in SUBSET {key} : Entered(S)
      /\ \A k \in Keys, g \in Findings :
           \/ link'[k][g] = link[k][g]
           \/ /\ g = f /\ k = key
              /\ link'[k][g].version = decision'[k].version
              /\ decision'[k].version > 0
  BY RecordEffect
<1>3. LinkStep
  BY <1>1, <1>2 DEF LinkStep
<1>4. QED
  BY <1>1, <1>2, <1>3 DEF LedgerStep

\* A reviewer's update: the row, then the record of its decision.
LEMMA ReviewStep ==
  ASSUME IInv, NEW f \in Findings, NEW st \in HumanStatuses,
         NEW r \in Rationales, NEW d \in Attestations, UpdateFinding(f, st, r, d)
  PROVE  StepOK
<1> DEFINE tr == [ChangeStatus(f, st, triage[f])
                    EXCEPT !.rationale = r, !.attestation = d]
<1>0. /\ TypeOK /\ JobSound /\ st \in Statuses /\ r \in BOOLEAN
      /\ Recorded \in SUBSET Keys
  BY LedgerAssumption DEF IInv, Recorded
<1>1. /\ f \in Live
      /\ status' = [status EXCEPT ![f] = st]
      /\ triage' = [triage EXCEPT ![f] = tr]
      /\ RecordDecision(f, st, tr, Recorded)
      /\ UNCHANGED <<image, canonical, today, job>>
  BY DEF UpdateFinding
<1>2. tr \in Triage
  <2>1. ChangeStatus(f, st, triage[f]) \in Triage
    BY <1>0, ChangeStatusType DEF TypeOK
  <2>2. QED
    BY <1>0, <2>1 DEF Triage
<1> HIDE DEF tr
<1>3. LedgerStep
  BY <1>0, <1>1, <1>2, RecordStep
<1>4. TypeOK'
  BY <1>0, <1>1, <1>2, <1>3 DEF TypeOK, LedgerStep, LedgerTypes
<1>5. JobSound'
  BY <1>0, <1>1 DEF JobSound, Free, Live
<1>6. QED
  BY <1>3, <1>4, <1>5 DEF StepOK

\* Operations on one finding row that do not consult the ledger.
LEMMA RowStep ==
  ASSUME IInv, NEW f \in Findings,
         RevertFinding(f) \/ AnnotateFinding(f) \/ IssueClosed(f)
  PROVE  StepOK
<1>0. TypeOK /\ JobSound /\ Recorded \in SUBSET Keys
  BY DEF IInv, Recorded
<1>1. UNCHANGED <<image, canonical, decision, revisions, subjectAlias, link, today, job>>
  BY DEF RevertFinding, AnnotateFinding, IssueClosed, findingVars, ledgerVars
<1>2. humanNewer' \in [Findings -> SUBSET Keys]
  BY <1>0 DEF RevertFinding, AnnotateFinding, IssueClosed, TypeOK
<1>3. status' \in [Findings -> Statuses]
  BY <1>0, StatusFacts
     DEF RevertFinding, AnnotateFinding, IssueClosed, findingVars, TypeOK, Triage
<1>4. triage' \in [Findings -> Triage]
  <2>1. CASE RevertFinding(f)
    BY <1>0, <2>1 DEF RevertFinding, TypeOK, Triage
  <2>2. CASE AnnotateFinding(f) \/ IssueClosed(f)
    BY <1>0, <2>2 DEF AnnotateFinding, IssueClosed, findingVars, TypeOK
  <2>3. QED
    BY <2>1, <2>2
<1>5. TypeOK'
  BY <1>0, <1>1, <1>2, <1>3, <1>4 DEF TypeOK
<1>6. LedgerStep
  BY <1>0, <1>1, <1>5, QuietStep DEF Live
<1>7. JobSound'
  BY <1>0, <1>1 DEF JobSound, Free, Live
<1>8. QED
  BY <1>5, <1>6, <1>7 DEF StepOK

\* A loop starts: only `job` changes, and the findings it will handle exist.
LEMMA StartStep ==
  ASSUME IInv,
         \/ BackfillStart
         \/ ReconcileStart
         \/ \E ids \in SUBSET Findings, st \in HumanStatuses, r \in Rationales :
              BulkStart(ids, st, r)
  PROVE  StepOK
<1>0. TypeOK /\ JobSound
  BY DEF IInv
<1>1. UNCHANGED <<image, status, triage, canonical, decision, revisions,
                  subjectAlias, link, humanNewer, today>>
  BY DEF BackfillStart, ReconcileStart, BulkStart, findingVars, ledgerVars
<1>2. job' \in Jobs /\ job'.todo \subseteq Live /\ job'.kind \notin {"idle", "expiry"}
  <2>1. CASE BackfillStart
    <3>1. PICK page \in SUBSET Live :
            job' = [NoJob EXCEPT !.kind = "backfill", !.todo = page]
      BY <2>1 DEF BackfillStart, Pages, Live
    <3>2. QED
      BY <3>1, StatusFacts DEF NoJob, Jobs, Live
  <2>2. CASE ReconcileStart
    <3>1. PICK page \in SUBSET Live :
            job' = [NoJob EXCEPT !.kind = "reconcile", !.todo = page]
      BY <2>2 DEF ReconcileStart, Pages
    <3>2. QED
      BY <3>1, StatusFacts DEF NoJob, Jobs, Live
  <2>3. CASE \E ids \in SUBSET Findings, st \in HumanStatuses, r \in Rationales :
               BulkStart(ids, st, r)
    BY <2>3, LedgerAssumption DEF BulkStart, Jobs
  <2>4. QED
    BY <2>1, <2>2, <2>3
<1>3. TypeOK'
  BY <1>0, <1>1, <1>2 DEF TypeOK
<1>4. LedgerStep
  BY <1>0, <1>1, <1>3, QuietStep DEF Live
<1>5. JobSound'
  BY <1>1, <1>2 DEF JobSound, Free, Live
<1>6. QED
  BY <1>3, <1>4, <1>5 DEF StepOK

\* One finding of a loop.
LEMMA LoopStepOK ==
  ASSUME IInv, NEW f \in Findings,
         BulkStep(f) \/ BackfillStep(f) \/ ReconcileStep(f)
  PROVE  StepOK
<1>0. /\ TypeOK /\ JobSound /\ f \in job.todo /\ job' = Done(f)
      /\ UNCHANGED <<image, canonical, today>>
  BY DEF IInv, BulkStep, BackfillStep, ReconcileStep, findingVars
<1>1. /\ f \in Live /\ image[f] \in Assets /\ Live' = Live
      /\ job.status \in Statuses /\ job.rationale \in BOOLEAN
      /\ triage[f] \in Triage /\ humanNewer[f] \in SUBSET Keys
      /\ status[f] \in Statuses /\ Recorded \in SUBSET Keys
  BY <1>0, LiveImage DEF JobSound, TypeOK, Jobs, Live, Recorded
<1>2. job' \in Jobs /\ JobSound'
  BY <1>0, DoneKeepsJob
<1>3. CASE BulkStep(f)
  <2> DEFINE tr == [ChangeStatus(f, job.status, triage[f])
                      EXCEPT !.rationale = job.rationale \/ @]
  <2>1. /\ status' = [status EXCEPT ![f] = job.status]
        /\ triage' = [triage EXCEPT ![f] = tr]
        /\ RecordDecision(f, job.status, tr, Recorded)
    BY <1>3 DEF BulkStep
  <2>2. tr \in Triage
    <3>1. ChangeStatus(f, job.status, triage[f]) \in Triage
      BY <1>0, <1>1, ChangeStatusType
    <3>2. QED
      BY <1>1, <3>1 DEF Triage
  <2> HIDE DEF tr
  <2>3. LedgerStep
    BY <1>0, <1>1, <2>1, <2>2, RecordStep
  <2>4. TypeOK'
    BY <1>0, <1>1, <1>2, <2>1, <2>2, <2>3 DEF TypeOK, LedgerStep, LedgerTypes
  <2>5. QED
    BY <1>2, <2>3, <2>4 DEF StepOK
<1>4. CASE BackfillStep(f)
  <2>1. UNCHANGED <<status, triage>>
    BY <1>4 DEF BackfillStep, findingVars
  <2>2. CASE PrimaryKey(f, canonical[image[f]]) \in Recorded
    <3>1. UNCHANGED <<decision, revisions, subjectAlias, link, humanNewer>>
      BY <1>4, <2>2 DEF BackfillStep, ledgerVars
    <3>2. TypeOK'
      BY <1>0, <1>2, <2>1, <3>1 DEF TypeOK
    <3>3. LedgerStep
      BY <1>0, <1>1, <3>1, <3>2, QuietStep
    <3>4. QED
      BY <1>2, <3>2, <3>3 DEF StepOK
  <2>3. CASE PrimaryKey(f, canonical[image[f]]) \notin Recorded
    <3>1. RecordDecision(f, status[f], triage[f], humanNewer[f])
      BY <1>4, <2>3 DEF BackfillStep
    <3>2. LedgerStep
      BY <1>0, <1>1, <3>1, RecordStep
    <3>3. TypeOK'
      BY <1>0, <1>2, <2>1, <3>2 DEF TypeOK, LedgerStep, LedgerTypes
    <3>4. QED
      BY <1>2, <3>2, <3>3 DEF StepOK
  <2>4. QED
    BY <2>2, <2>3
<1>5. CASE ReconcileStep(f)
  <2>1. ResolveAndApplyDecision(f, image[f], status[f], triage[f], humanNewer[f])
    BY <1>5 DEF ReconcileStep
  <2>2. /\ status' \in [Findings -> Statuses] /\ triage' \in [Findings -> Triage]
        /\ LedgerTypes' /\ Entered({})
        /\ \A k \in Keys, g \in Findings :
             \/ link'[k][g] = link[k][g]
             \/ /\ g = f /\ k \in Recorded
                /\ link'[k][g].version \in {link[k][g].version, decision[k].version}
    BY <1>0, <1>1, <2>1, RelinkEffect
  <2>3. TypeOK'
    BY <1>0, <1>2, <2>2 DEF TypeOK, LedgerTypes
  <2>4. LinkStep
    BY <1>1, <2>2 DEF LinkStep
  <2>5. QED
    BY <1>2, <2>2, <2>3, <2>4 DEF StepOK, LedgerStep
<1>6. QED
  BY <1>3, <1>4, <1>5

\* Rewriting one column of a link row.
LEMMA LinkColumns ==
  ASSUME NEW l \in Link, NEW n \in Nat
  PROVE  /\ [l EXCEPT !.version = n] \in Link
         /\ [l EXCEPT !.version = n].version = n
         /\ [l EXCEPT !.state = "unlinked"] \in Link
         /\ [l EXCEPT !.state = "unlinked"].state = "unlinked"
         /\ [l EXCEPT !.state = "unlinked"].version = l.version
BY DEF Link

\* The decision row an expiry writes.
LEMMA ExpiredRow ==
  ASSUME NEW d \in Decision
  PROVE  /\ [d EXCEPT !.status = "Open", !.version = @ + 1] \in Decision
         /\ [d EXCEPT !.status = "Open", !.version = @ + 1].version = d.version + 1
         /\ d.version \in Nat
<1> DEFINE e == [d EXCEPT !.status = "Open", !.version = d.version + 1]
<1>1. d.version \in Nat /\ d.rationale \in BOOLEAN /\ d.attestation \in Attestations
  BY DEF Decision
<1>2. e.version = d.version + 1
  BY DEF Decision
<1>3. e \in Decision
  <2>1. [d EXCEPT !.status = "Open"] \in Decision
    BY StatusFacts DEF Decision
  <2>2. \A c \in Decision, n \in Nat : [c EXCEPT !.version = n] \in Decision
    BY DEF Decision
  <2>3. e = [[d EXCEPT !.status = "Open"] EXCEPT !.version = d.version + 1]
    OBVIOUS
  <2>4. d.version + 1 \in Nat
    BY <1>1
  <2>5. QED
    BY <2>1, <2>2, <2>3, <2>4
<1>4. QED
  BY <1>1, <1>2, <1>3

\* The expiry job's first transaction enters exactly the expired decisions.
LEMMA ExpireStep ==
  ASSUME IInv, ExpireDecisionWaivers
  PROVE  StepOK
<1> DEFINE linked(f) == {k \in ExpiredDecisions : link[k][f].state = "linked"}
           reopened  == {f \in Live : status[f] = "RiskAccepted" /\ linked(f) # {}}
           next(k)   == [decision[k] EXCEPT !.status = "Open", !.version = @ + 1]
<1>0. TypeOK /\ JobSound /\ ExpiredDecisions \in SUBSET Keys
  BY DEF IInv, ExpiredDecisions, Recorded
<1>1. PICK first \in [Findings -> Keys] :
        /\ \A f \in reopened : first[f] \in linked(f)
        /\ link' = [k \in Keys |-> [f \in Findings |->
                     IF f \in reopened /\ k = first[f]
                     THEN [link[k][f] EXCEPT !.version = next(k).version]
                     ELSE link[k][f]]]
  BY DEF ExpireDecisionWaivers
<1>2. /\ decision' = [k \in Keys |-> IF k \in ExpiredDecisions THEN next(k)
                                     ELSE decision[k]]
      /\ revisions' = [k \in Keys |-> IF k \in ExpiredDecisions
                                      THEN Append(revisions[k], next(k))
                                      ELSE revisions[k]]
      /\ status' = [f \in Findings |-> IF f \in reopened THEN "Open" ELSE status[f]]
      /\ triage' = [f \in Findings |->
                     IF f \in reopened THEN [triage[f] EXCEPT !.previous = "RiskAccepted"]
                     ELSE triage[f]]
      /\ humanNewer' = [f \in Findings |-> humanNewer[f] \ ExpiredDecisions]
      /\ job' = [NoJob EXCEPT !.kind = "expiry"]
      /\ UNCHANGED <<image, canonical, subjectAlias, today>>
  BY DEF ExpireDecisionWaivers
<1>3. \A k \in Keys : next(k) \in Decision /\ next(k).version = decision[k].version + 1
  BY <1>0, ExpiredRow DEF TypeOK
<1>4. \A k \in Keys : decision[k].version \in Nat
  BY <1>0, ExpiredRow DEF TypeOK
<1>5. reopened \subseteq Live /\ \A f \in reopened : linked(f) \subseteq ExpiredDecisions
  OBVIOUS
<1> HIDE DEF next, linked, reopened
<1>6. status' \in [Findings -> Statuses] /\ triage' \in [Findings -> Triage]
  BY <1>0, <1>2, StatusFacts DEF TypeOK, Triage
<1>7. job' \in Jobs /\ job'.todo = {}
  BY <1>2, StatusFacts DEF NoJob, Jobs
<1>8. LedgerTypes'
  <2>1. decision' \in [Keys -> Decision] /\ revisions' \in [Keys -> Seq(Decision)]
    BY <1>0, <1>2, <1>3 DEF TypeOK
  <2>2. \A k \in Keys, f \in Findings :
          link[k][f] \in Link /\ [link[k][f] EXCEPT !.version = next(k).version] \in Link
    <3> SUFFICES ASSUME NEW k \in Keys, NEW f \in Findings
                 PROVE  /\ link[k][f] \in Link
                        /\ [link[k][f] EXCEPT !.version = next(k).version] \in Link
      OBVIOUS
    <3>1. link[k][f] \in Link /\ next(k).version \in Nat
      <4>1. link \in [Keys -> [Findings -> Link]]
        BY <1>0 DEF TypeOK
      <4>2. next(k).version \in Nat
        <5>1. next(k).version = decision[k].version + 1 /\ decision[k].version \in Nat
          BY <1>3, <1>4
        <5>2. QED
          BY <5>1
      <4>3. QED
        BY <4>1, <4>2
    <3>2. QED
      BY <3>1, LinkColumns
  <2>3. link' \in [Keys -> [Findings -> Link]]
    BY <1>1, <2>2
  <2>4. QED
    BY <1>0, <1>2, <2>1, <2>3 DEF TypeOK, LedgerTypes
<1>9. Entered(ExpiredDecisions)
  BY <1>0, <1>2, <1>3 DEF Entered
<1>10. LinkStep
  <2> SUFFICES ASSUME NEW k \in Keys, NEW g \in Findings
               PROVE  \/ link'[k][g] = link[k][g] /\ (g \in Live => g \in Live')
                      \/ /\ g \in Live' /\ decision'[k].version > 0
                         /\ link'[k][g].version = decision'[k].version
    BY DEF LinkStep
  <2>1. Live' = Live
    BY <1>2 DEF Live
  <2>2. CASE g \in reopened /\ k = first[g]
    <3>1. g \in Live /\ k \in ExpiredDecisions
      BY <1>1, <1>5, <2>2
    <3>2. link'[k][g] = [link[k][g] EXCEPT !.version = next(k).version]
      BY <1>1, <2>2
    <3>3. link'[k][g].version = next(k).version
      BY <1>0, <3>2 DEF TypeOK, Link
    <3>4. QED
      BY <1>2, <1>3, <1>4, <2>1, <3>1, <3>3
  <2>3. CASE ~(g \in reopened /\ k = first[g])
    BY <1>1, <2>1, <2>3
  <2>4. QED
    BY <2>2, <2>3
<1>11. TypeOK'
  BY <1>0, <1>2, <1>6, <1>7, <1>8 DEF TypeOK, LedgerTypes
<1>12. JobSound'
  BY <1>7 DEF JobSound, Free
<1>13. QED
  BY <1>0, <1>8, <1>9, <1>10, <1>11, <1>12 DEF StepOK, LedgerStep

\* Deleting finding rows soft-unlinks them and leaves every decision alone.
LEMMA DeletionStep ==
  ASSUME IInv, NEW gone \in SUBSET Findings, Free, DeleteFindings(gone),
         canonical' \in [Assets -> Assets]
  PROVE  StepOK
<1>0. TypeOK /\ JobSound
  BY DEF IInv
<1>2. /\ image' = [f \in Findings |-> IF f \in gone THEN NoAsset ELSE image[f]]
      /\ status' = [f \in Findings |-> IF f \in gone THEN "Open" ELSE status[f]]
      /\ triage' = [f \in Findings |-> IF f \in gone THEN NewTriage ELSE triage[f]]
      /\ humanNewer' = [f \in Findings |-> IF f \in gone THEN {} ELSE humanNewer[f]]
      /\ link' = [k \in Keys |-> [f \in Findings |->
                   IF f \in gone /\ link[k][f].state = "linked"
                   THEN [link[k][f] EXCEPT !.state = "unlinked"] ELSE link[k][f]]]
      /\ UNCHANGED <<decision, revisions, subjectAlias, today, job>>
  BY DEF DeleteFindings, SoftUnlinkFindings, ledgerVars
<1>3. Live' = Live \ gone
  BY <1>0, <1>2, LedgerAssumption DEF Live, TypeOK
<1>4. \A k \in Keys, f \in Findings :
        /\ link[k][f] \in Link
        /\ [link[k][f] EXCEPT !.state = "unlinked"] \in Link
        /\ [link[k][f] EXCEPT !.state = "unlinked"].state = "unlinked"
        /\ [link[k][f] EXCEPT !.state = "unlinked"].version = link[k][f].version
  <2> SUFFICES ASSUME NEW k \in Keys, NEW f \in Findings, link[k][f] \in Link
               PROVE  /\ [link[k][f] EXCEPT !.state = "unlinked"] \in Link
                      /\ [link[k][f] EXCEPT !.state = "unlinked"].state = "unlinked"
                      /\ [link[k][f] EXCEPT !.state = "unlinked"].version
                           = link[k][f].version
    BY <1>0 DEF TypeOK
  <2>1. QED
    BY LinkColumns
<1>5. link' \in [Keys -> [Findings -> Link]]
  BY <1>2, <1>4
<1>6. TypeOK'
  BY <1>0, <1>2, <1>5, StatusFacts, NewRowTypes DEF TypeOK
<1>7. LinkStep
  <2> SUFFICES ASSUME NEW k \in Keys, NEW g \in Findings
               PROVE  \/ link'[k][g] = link[k][g] /\ (g \in Live => g \in Live')
                      \/ link'[k][g].state # "linked"
                         /\ link'[k][g].version = link[k][g].version
    BY DEF LinkStep
  <2>1. CASE g \in gone /\ link[k][g].state = "linked"
    BY <1>2, <1>4, <2>1
  <2>2. CASE g \in gone /\ link[k][g].state # "linked"
    BY <1>2, <2>2
  <2>3. CASE g \notin gone
    BY <1>2, <1>3, <2>3
  <2>4. QED
    BY <2>1, <2>2, <2>3
<1>8. Entered({}) /\ LedgerTypes'
  BY <1>2, <1>6 DEF Entered, TypeOK, LedgerTypes
<1>9. JobSound'
  BY <1>0, <1>2 DEF JobSound, Free
<1>10. QED
  BY <1>6, <1>7, <1>8, <1>9 DEF StepOK, LedgerStep

\* The rest of the expiry job, asset deletion and the passing of days.
LEMMA OtherStep ==
  ASSUME IInv,
         \/ EnforceWaiverExpiryOnFindings
         \/ ExpiryWorkerDies
         \/ NextDay
         \/ \E a \in Assets : DeleteAsset(a)
  PROVE  StepOK
<1>0. TypeOK /\ JobSound
  BY DEF IInv
<1>1. CASE EnforceWaiverExpiryOnFindings
  <2>1. /\ status' \in [Findings -> Statuses] /\ job' = NoJob
        /\ UNCHANGED <<image, triage, canonical, decision, revisions, subjectAlias,
                       link, humanNewer, today>>
    BY <1>0, <1>1, StatusFacts DEF EnforceWaiverExpiryOnFindings, ledgerVars, TypeOK
  <2>2. TypeOK'
    BY <1>0, <2>1, NewRowTypes DEF TypeOK
  <2>3. LedgerStep
    BY <1>0, <2>1, <2>2, QuietStep DEF Live
  <2>4. JobSound'
    BY <2>1 DEF JobSound, NoJob
  <2>5. QED
    BY <2>2, <2>3, <2>4 DEF StepOK
<1>2. CASE ExpiryWorkerDies
  <2>1. /\ job' = NoJob
        /\ UNCHANGED <<image, status, triage, canonical, decision, revisions,
                       subjectAlias, link, humanNewer, today>>
    BY <1>2 DEF ExpiryWorkerDies, findingVars, ledgerVars
  <2>2. TypeOK'
    BY <1>0, <2>1, NewRowTypes DEF TypeOK
  <2>3. LedgerStep
    BY <1>0, <2>1, <2>2, QuietStep DEF Live
  <2>4. JobSound'
    BY <2>1 DEF JobSound, NoJob
  <2>5. QED
    BY <2>2, <2>3, <2>4 DEF StepOK
<1>3. CASE NextDay
  <2>1. /\ today' = today + 1
        /\ UNCHANGED <<image, status, triage, canonical, decision, revisions,
                       subjectAlias, link, humanNewer, job>>
    BY <1>3 DEF NextDay, findingVars, ledgerVars
  <2>2. TypeOK'
    BY <1>0, <2>1 DEF TypeOK
  <2>3. LedgerStep
    BY <1>0, <2>1, <2>2, QuietStep DEF Live
  <2>4. JobSound'
    BY <1>0, <2>1 DEF JobSound, Free, Live
  <2>5. QED
    BY <2>2, <2>3, <2>4 DEF StepOK
<1>4. CASE \E a \in Assets : DeleteAsset(a)
  <2>1. PICK a \in Assets : DeleteAsset(a)
    BY <1>4
  <2>2. /\ Free /\ DeleteFindings({f \in Findings : image[f] = a})
        /\ canonical' \in [Assets -> Assets]
    BY <1>0, <2>1 DEF DeleteAsset, TypeOK
  <2>3. QED
    BY <2>2, DeletionStep
<1>5. QED
  BY <1>1, <1>2, <1>3, <1>4

(***************************************************************************)
(* The theorems.                                                           *)
(***************************************************************************)

\* Every step of the ledger.
LEMMA EveryStep ==
  ASSUME IInv, Next
  PROVE  StepOK
<1>1. CASE \E f \in Findings, a \in Assets, st \in ScannerStatuses \cup {"Open"} :
             ImportCreate(f, a, st)
  BY <1>1, ImportStep
<1>2. CASE \E f \in Findings, st \in ScannerStatuses \cup {"Open"} : ImportMerge(f, st)
  BY <1>2, ImportStep
<1>3. CASE \E f \in Findings, st \in HumanStatuses, r \in Rationales, d \in Attestations :
             UpdateFinding(f, st, r, d)
  BY <1>3, ReviewStep
<1>4. CASE \E f \in Findings : IssueClosed(f) \/ RevertFinding(f) \/ AnnotateFinding(f)
  BY <1>4, RowStep
<1>5. CASE \/ BackfillStart \/ ReconcileStart
           \/ \E ids \in SUBSET Findings, st \in HumanStatuses, r \in Rationales :
                BulkStart(ids, st, r)
  BY <1>5, StartStep
<1>6. CASE \E f \in Findings : BulkStep(f) \/ BackfillStep(f) \/ ReconcileStep(f)
  BY <1>6, LoopStepOK
<1>7. CASE ExpireDecisionWaivers
  BY <1>7, ExpireStep
<1>8. CASE \/ EnforceWaiverExpiryOnFindings \/ ExpiryWorkerDies \/ NextDay
           \/ \E a \in Assets : DeleteAsset(a)
  BY <1>8, OtherStep
<1>9. QED
  BY <1>1, <1>2, <1>3, <1>4, <1>5, <1>6, <1>7, <1>8 DEF Next, Operation

\* The invariant holds initially.
LEMMA InitIInv == Init => IInv
<1> SUFFICES ASSUME Init PROVE IInv
  OBVIOUS
<1>1. TypeOK
  BY LedgerAssumption, StatusFacts, NewRowTypes DEF Init, TypeOK
<1>2. JobSound
  BY DEF Init, JobSound, NoJob
<1>3. LedgerHistory
  BY DEF Init, LedgerHistory, Recorded, NoDecision
<1>4. LinksSound
  BY DEF Init, LinksSound, NoLink, NoDecision
<1>5. QED
  BY <1>1, <1>2, <1>3, <1>4 DEF IInv

\* The invariant is preserved.
LEMMA NextIInv == IInv /\ [Next]_vars => IInv'
<1> SUFFICES ASSUME IInv, [Next]_vars PROVE IInv'
  OBVIOUS
<1>1. CASE Next
  <2>1. TypeOK' /\ JobSound' /\ LedgerStep
    BY <1>1, EveryStep DEF StepOK
  <2>2. LedgerHistory'
    BY <2>1, EnteredKeepsHistory DEF IInv, LedgerStep
  <2>3. LinksSound'
    BY <2>1, LedgerStepKeepsLinks DEF IInv
  <2>4. QED
    BY <2>1, <2>2, <2>3 DEF IInv
<1>2. CASE UNCHANGED vars
  BY <1>2 DEF vars, IInv, TypeOK, JobSound, LedgerHistory, LinksSound, Free, Live, Recorded
<1>3. QED
  BY <1>1, <1>2

\* The inductive invariant holds in every behaviour.
THEOREM LedgerInvariant == Spec => []IInv
BY InitIInv, NextIInv, PTL DEF Spec

\* Type correctness of all ledger and finding tables.
THEOREM LedgerTypeOK == Spec => []TypeOK
<1>1. IInv => TypeOK
  BY DEF IInv
<1>2. QED
  BY <1>1, LedgerInvariant, PTL

\* Every decision equals the last of its revisions, numbered 1, 2, 3, ...,
\* whatever record, bulk, backfill and expiry do.
THEOREM HistoryTruthful == Spec => []LedgerHistory
<1>1. IInv => LedgerHistory
  BY DEF IInv
<1>2. QED
  BY <1>1, LedgerInvariant, PTL

\* Links join live findings to recorded decisions and claim no future version.
THEOREM LinksAlwaysSound == Spec => []LinksSound
<1>1. IInv => LinksSound
  BY DEF IInv
<1>2. QED
  BY <1>1, LedgerInvariant, PTL

\* No step takes a link back to an older version of its decision.
THEOREM AppliedVersionNeverFalls == Spec => AppliedVersionMonotone
<1> DEFINE Rise == \A k \in Keys, f \in Findings :
                     link'[k][f].version >= link[k][f].version
<1>1. IInv /\ [Next]_vars => [Rise]_vars
  <2> SUFFICES ASSUME IInv, Next PROVE Rise
    OBVIOUS
  <2>1. LedgerStep
    BY EveryStep DEF StepOK
  <2>2. QED
    BY <2>1, LedgerStepMonotone DEF IInv
<1>2. QED
  BY <1>1, LedgerInvariant, PTL DEF Spec, AppliedVersionMonotone

(***************************************************************************)
(* The ledger implements the register: recording is Record, the expiry     *)
(* job's first transaction is Expire, and every other step is a stutter.   *)
(***************************************************************************)
RegisterStep == Register!Next \/ UNCHANGED <<revisions, decision>>

\* A record on a live finding enters one subject of the register.
LEMMA RecordRefines ==
  ASSUME IInv, NEW f \in Live, NEW st \in Statuses, NEW tr \in Triage,
         NEW newer \in SUBSET Keys, RecordDecision(f, st, tr, newer)
  PROVE  RegisterStep
<1> DEFINE key == PrimaryKey(f, canonical[image[f]])
           d   == [status |-> st, rationale |-> tr.rationale,
                   attestation |-> tr.attestation, version |-> decision[key].version + 1]
<1>1. key \in Keys
  BY LiveImage, PrimaryKeyInKeys DEF IInv
<1>2. CASE Recordable(st, tr)
  <2>1. /\ decision' = [decision EXCEPT ![key] = d]
        /\ revisions' = [revisions EXCEPT ![key] = Append(@, d)]
    BY <1>2 DEF RecordDecision, NextVersion
  <2>2. st \in RECORDABLE_STATUSES /\ tr.rationale \in BOOLEAN
        /\ tr.attestation \in Attestations
    BY <1>2 DEF Recordable, Triage
  <2>3. decision[key].version = Len(revisions[key])
    BY <1>1 DEF IInv, LedgerHistory
  <2> HIDE DEF key
  <2>4. decision' = [s \in Keys |-> IF s \in {key} THEN d ELSE decision[s]]
    BY <1>1, <2>1 DEF IInv, TypeOK
  <2>5. revisions' = [s \in Keys |-> IF s \in {key} THEN Append(revisions[s], d)
                                     ELSE revisions[s]]
    BY <1>1, <2>1 DEF IInv, TypeOK
  <2>6. Register!Record(key, st, tr.rationale, tr.attestation)
    BY <2>3, <2>4, <2>5 DEF Register!Record, Register!Enter
  <2>7. QED
    BY <1>1, <2>2, <2>6 DEF RegisterStep, Register!Next
<1>3. CASE ~Recordable(st, tr)
  BY <1>3 DEF RecordDecision, RegisterStep
<1>4. QED
  BY <1>2, <1>3

\* The expiry job's first transaction is the register's Expire.
LEMMA ExpireRefines ==
  ASSUME IInv, ExpireDecisionWaivers
  PROVE  RegisterStep
<1> DEFINE next(k) == [decision[k] EXCEPT !.status = "Open", !.version = @ + 1]
           e == [k \in ExpiredDecisions |-> next(k)]
<1>1. ExpiredDecisions \in SUBSET Keys
  BY DEF ExpiredDecisions, Recorded
<1>2. /\ decision' = [k \in Keys |-> IF k \in ExpiredDecisions THEN next(k)
                                     ELSE decision[k]]
      /\ revisions' = [k \in Keys |-> IF k \in ExpiredDecisions
                                      THEN Append(revisions[k], next(k))
                                      ELSE revisions[k]]
  BY DEF ExpireDecisionWaivers
<1>3. \A k \in ExpiredDecisions : next(k).version = Len(revisions[k]) + 1
  BY <1>1, ExpiredRow DEF IInv, TypeOK, LedgerHistory
<1>4. \A k \in ExpiredDecisions :
        decision[k].status = "RiskAccepted" /\ decision[k].attestation # 0
  BY DEF ExpiredDecisions, IsWaiverExpired
<1>5. Register!Enter(ExpiredDecisions, e)
  <2> HIDE DEF next
  <2>1. \A k \in ExpiredDecisions : e[k] = next(k)
    OBVIOUS
  <2>2. /\ decision' = [k \in Keys |-> IF k \in ExpiredDecisions THEN e[k] ELSE decision[k]]
        /\ revisions' = [k \in Keys |-> IF k \in ExpiredDecisions
                                        THEN Append(revisions[k], e[k]) ELSE revisions[k]]
    BY <1>2, <2>1
  <2>3. \A k \in ExpiredDecisions : e[k].version = Len(revisions[k]) + 1
    BY <1>3, <2>1
  <2> HIDE DEF e
  <2>4. QED
    BY <2>2, <2>3 DEF Register!Enter
<1>6. Register!Expire(ExpiredDecisions)
  BY <1>4, <1>5 DEF Register!Expire
<1>7. QED
  BY <1>1, <1>6 DEF RegisterStep, Register!Next

\* Who writes the ledger tables: a record, the expiry job, or nobody.
StepKind ==
  \/ UNCHANGED <<decision, revisions, subjectAlias>>
  \/ ExpireDecisionWaivers
  \/ \E f \in Live, st \in Statuses, tr \in Triage, newer \in SUBSET Keys :
       RecordDecision(f, st, tr, newer)

\* A record is one of the kinds of step a ledger operation can be.
LEMMA RecordKind ==
  ASSUME NEW f \in Live, NEW st \in Statuses, NEW tr \in Triage,
         NEW newer \in SUBSET Keys, RecordDecision(f, st, tr, newer)
  PROVE  StepKind
BY DEF StepKind

\* Every step of the ledger is of one of these kinds.
LEMMA StepKinds ==
  ASSUME IInv, [Next]_vars
  PROVE  StepKind
<1>0. /\ TypeOK /\ JobSound /\ Recorded \in SUBSET Keys
      /\ job.status \in Statuses /\ job.rationale \in BOOLEAN
      /\ status \in [Findings -> Statuses] /\ triage \in [Findings -> Triage]
      /\ humanNewer \in [Findings -> SUBSET Keys]
  BY DEF IInv, Recorded, TypeOK, Jobs
<1>1. ASSUME NEW f \in Findings, NEW st \in HumanStatuses, NEW r \in Rationales,
             NEW d \in Attestations, UpdateFinding(f, st, r, d)
      PROVE  StepKind
  <2> DEFINE tr == [ChangeStatus(f, st, triage[f])
                      EXCEPT !.rationale = r, !.attestation = d]
  <2>1. f \in Live /\ RecordDecision(f, st, tr, Recorded)
    BY <1>1 DEF UpdateFinding
  <2>2. st \in Statuses /\ r \in BOOLEAN
    BY LedgerAssumption
  <2>3. tr \in Triage
    <3>1. ChangeStatus(f, st, triage[f]) \in Triage
      BY <1>0, <2>2, ChangeStatusType
    <3>2. QED
      BY <2>2, <3>1 DEF Triage
  <2> HIDE DEF tr
  <2>4. QED
    BY <1>0, <2>1, <2>2, <2>3, RecordKind
<1>2. ASSUME NEW f \in Findings, BulkStep(f)
      PROVE  StepKind
  <2> DEFINE tr == [ChangeStatus(f, job.status, triage[f])
                      EXCEPT !.rationale = job.rationale \/ @]
  <2>1. f \in Live /\ RecordDecision(f, job.status, tr, Recorded)
    BY <1>0, <1>2 DEF BulkStep, JobSound
  <2>2. tr \in Triage
    <3>1. ChangeStatus(f, job.status, triage[f]) \in Triage
      BY <1>0, ChangeStatusType
    <3>2. QED
      BY <1>0, <3>1 DEF Triage
  <2> HIDE DEF tr
  <2>3. QED
    BY <1>0, <2>1, <2>2, RecordKind
<1>3. ASSUME NEW f \in Findings, BackfillStep(f)
      PROVE  StepKind
  <2>1. f \in Live
    BY <1>0, <1>3 DEF BackfillStep, JobSound
  <2>2. CASE PrimaryKey(f, canonical[image[f]]) \in Recorded
    BY <1>3, <2>2 DEF BackfillStep, StepKind, ledgerVars
  <2>3. CASE PrimaryKey(f, canonical[image[f]]) \notin Recorded
    <3>1. RecordDecision(f, status[f], triage[f], humanNewer[f])
      BY <1>3, <2>3 DEF BackfillStep
    <3>2. QED
      BY <1>0, <2>1, <3>1, RecordKind
  <2>4. QED
    BY <2>2, <2>3
<1>4. CASE ExpireDecisionWaivers
  BY <1>4 DEF StepKind
<1>5. CASE \E f \in Findings, a \in Assets, st \in ScannerStatuses \cup {"Open"} :
             ImportCreate(f, a, st)
  BY <1>5 DEF ImportCreate, ResolveAndApplyDecision, ledgerVars, StepKind
<1>6. CASE \E f \in Findings : ReconcileStep(f)
  BY <1>6 DEF ReconcileStep, ResolveAndApplyDecision, ledgerVars, StepKind
<1>7. CASE \E f \in Findings : IssueClosed(f) \/ RevertFinding(f) \/ AnnotateFinding(f)
  BY <1>7 DEF IssueClosed, RevertFinding, AnnotateFinding, ledgerVars, StepKind
<1>8. CASE \/ BackfillStart \/ ReconcileStart
           \/ \E ids \in SUBSET Findings, st \in HumanStatuses, r \in Rationales :
                BulkStart(ids, st, r)
  BY <1>8 DEF BackfillStart, ReconcileStart, BulkStart, ledgerVars, StepKind
<1>9. CASE \/ EnforceWaiverExpiryOnFindings \/ ExpiryWorkerDies \/ NextDay
           \/ \E a \in Assets : DeleteAsset(a)
  BY <1>9 DEF EnforceWaiverExpiryOnFindings, ExpiryWorkerDies, NextDay, DeleteAsset, DeleteFindings,
              ledgerVars, StepKind
<1>10. CASE UNCHANGED vars
  BY <1>10 DEF vars, StepKind
<1>11. CASE \E f \in Findings, st \in ScannerStatuses \cup {"Open"} : ImportMerge(f, st)
  BY <1>11 DEF ImportMerge, ResolveAndApplyDecision, ledgerVars, StepKind
<1>12. QED
  BY <1>1, <1>2, <1>3, <1>4, <1>5, <1>6, <1>7, <1>8, <1>9, <1>10, <1>11 DEF Next, Operation

\* Every step of the ledger is a step of the register or a stutter.
LEMMA StepRefines ==
  ASSUME IInv, [Next]_vars
  PROVE  RegisterStep
<1>1. CASE UNCHANGED <<decision, revisions, subjectAlias>>
  BY <1>1 DEF RegisterStep
<1>2. QED
  BY <1>1, StepKinds, ExpireRefines, RecordRefines DEF StepKind

\* Readers of triage_decisions and triage_decision_revisions see the register:
\* one append-only log per subject whose last entry is the current decision.
THEOREM LedgerImplementsRegister == Spec => ImplementsRegister
<1>1. Init => Register!Init
  BY DEF Init, Register!Init
<1>2. IInv /\ [Next]_vars => [Register!Next]_<<revisions, decision>>
  BY StepRefines DEF RegisterStep
<1>3. QED
  BY <1>1, <1>2, LedgerInvariant, PTL DEF Spec, ImplementsRegister, Register!Spec

(***************************************************************************)
(* Reviewer judgements are not projected.                                  *)
(***************************************************************************)

\* Re-linking gives a finding a judgement only if its row already had it.
LEMMA RelinkNoJudgement ==
  ASSUME TypeOK, NEW f \in Findings, NEW a \in Assets, NEW st \in Statuses,
         NEW tr \in Triage, NEW newer \in SUBSET Keys,
         ResolveAndApplyDecision(f, a, st, tr, newer),
         status'[f] \in REVIEW_REQUIRED_STATUSES
  PROVE  status'[f] = st
<1> DEFINE key == LookupDecision(f, a)
           act == RelinkAction(f, a, st, newer)
<1>1. status'[f] = IF act = "apply" THEN decision[key].status ELSE st
  BY DEF ResolveAndApplyDecision, TypeOK
<1>2. act = "apply" => decision[key].status \in TERMINAL_DECISION_STATUSES
  BY DEF RelinkAction, DecisionApplyAction
<1>3. QED
  BY <1>1, <1>2 DEF TERMINAL_DECISION_STATUSES, REVIEW_REQUIRED_STATUSES

\* Neither reconciliation nor an import over an existing finding makes it
\* Approved or Rejected.
JudgementsKept ==
  \A f \in Findings :
    /\ ReconcileStep(f) \/ \E st \in ScannerStatuses \cup {"Open"} : ImportMerge(f, st)
    /\ status'[f] \in REVIEW_REQUIRED_STATUSES
    => status'[f] = status[f]

\* After reconciliation or an import, a finding has a reviewer's judgement only if it had it.
LEMMA NoJudgementProjected ==
  ASSUME IInv
  PROVE  JudgementsKept
<1>1. TypeOK
  BY DEF IInv
<1>2. ASSUME NEW f \in Findings, ReconcileStep(f),
             status'[f] \in REVIEW_REQUIRED_STATUSES
      PROVE  status'[f] = status[f]
  <2>1. /\ ResolveAndApplyDecision(f, image[f], status[f], triage[f], humanNewer[f])
        /\ f \in Live
    BY <1>2 DEF ReconcileStep, IInv, JobSound
  <2>2. /\ image[f] \in Assets /\ status[f] \in Statuses /\ triage[f] \in Triage
        /\ humanNewer[f] \in SUBSET Keys
    BY <1>1, <2>1, LiveImage DEF TypeOK
  <2>3. QED
    BY <1>1, <1>2, <2>1, <2>2, RelinkNoJudgement
<1>3. ASSUME NEW f \in Findings, NEW st \in ScannerStatuses \cup {"Open"},
             ImportMerge(f, st), status'[f] \in REVIEW_REQUIRED_STATUSES
      PROVE  status'[f] = status[f]
  <2>1. /\ ResolveAndApplyDecision(f, image[f], ImportedStatus(f, st), triage[f],
                                   humanNewer[f])
        /\ f \in Live /\ st \in Statuses
    BY <1>3, LedgerAssumption, StatusFacts DEF ImportMerge
  <2>2. /\ image[f] \in Assets /\ ImportedStatus(f, st) \in Statuses
        /\ triage[f] \in Triage /\ humanNewer[f] \in SUBSET Keys
    BY <1>1, <2>1, LiveImage, ImportedStatusType DEF TypeOK
  <2>3. status'[f] = ImportedStatus(f, st)
    BY <1>1, <1>3, <2>1, <2>2, RelinkNoJudgement
  <2>4. ImportedStatus(f, st) \in SOURCE_SYNCED \cup {"Reopened", status[f]}
    BY DEF ImportedStatus
  <2>5. QED
    BY <1>3, <2>3, <2>4 DEF SOURCE_SYNCED, REVIEW_REQUIRED_STATUSES
<1>4. QED
  BY <1>2, <1>3 DEF JudgementsKept

\* Neither reconciliation nor an import gives a finding a reviewer's judgement.
THEOREM JudgementsStayWithReviewers == Spec => JudgementsNotProjected
<1>1. IInv => JudgementsKept
  BY NoJudgementProjected
<1>2. QED
  BY <1>1, LedgerInvariant, PTL DEF Spec, JudgementsNotProjected, JudgementsKept

(***************************************************************************)
(* A decision outlives its findings, and follows its source issue.         *)
(***************************************************************************)

\* A new row takes the terminal decision found for it, whatever the scanner
\* reports, and is linked to whatever decision is found.
LEMMA NewRowTakesDecision ==
  ASSUME TypeOK, NEW f \in Findings, NEW a \in Assets, NEW st \in Statuses,
         ImportCreate(f, a, st), LookupDecision(f, canonical[a]) # NoKey
  PROVE  LET k == LookupDecision(f, canonical[a])
         IN  /\ link'[k][f].state = "linked"
             /\ decision[k].status \in TERMINAL_DECISION_STATUSES
                  => status'[f] = decision[k].status
<1> DEFINE k   == LookupDecision(f, canonical[a])
           act == RelinkAction(f, canonical[a], st, {})
<1>1. canonical[a] \in Assets
  BY DEF TypeOK
<1>2. k \in Keys
  BY <1>1, LookupRecorded DEF Recorded
<1>3. /\ status'[f] = IF act = "apply" THEN decision[k].status ELSE st
      /\ link'[k][f].state = "linked"
  BY <1>2 DEF ImportCreate, ResolveAndApplyDecision, UpsertDecisionLink, TypeOK
<1>4. ASSUME decision[k].status \in TERMINAL_DECISION_STATUSES
      PROVE  act = "apply" \/ st = decision[k].status
  <2>1. decision[k].status \notin REVIEW_REQUIRED_STATUSES
    BY <1>4 DEF TERMINAL_DECISION_STATUSES, REVIEW_REQUIRED_STATUSES
  <2>2. QED
    BY <1>4, <2>1 DEF RelinkAction, DecisionApplyAction
<1>5. QED
  BY <1>3, <1>4

(***************************************************************************)
(* The ledger with asset merges: MergeSpec.  Merges rewrite the canonical  *)
(* assets, the aliases of decisions and the rows of findings, never a      *)
(* decision, a revision or a link, so each keeps the ledger's invariant;   *)
(* what has to be shown is that resolution through any alias table, cyclic *)
(* or longer than MaxDepth, still ends at an asset.                        *)
(***************************************************************************)

\* From an asset with a row, some walk of at least one link stops.
LEMMA SomeWalkStops ==
  ASSUME NEW t \in Aliases!AliasTable, NEW a \in Assets, t[a] \notin {NoAsset, a}
  PROVE  \E n \in 1..MaxDepth : \E p \in [0..n -> Assets] :
           p[0] = a /\ Aliases!Walk(t, p, n) /\ Aliases!Stops(t, p, n)
<1> USE DepthAssumption
<1> DEFINE Walks(n) == \E p \in [0..n -> Assets] : p[0] = a /\ Aliases!Walk(t, p, n)
           Spare == {k \in Nat : MaxDepth - k \in 1..MaxDepth /\ Walks(MaxDepth - k)}
<1>1. Walks(1)
  <2> DEFINE p == [i \in 0..1 |-> IF i = 0 THEN a ELSE t[a]]
  <2>1. p \in [0..1 -> Assets] /\ p[0] = a /\ p[1] = t[a]
    BY DEF Aliases!AliasTable
  <2>2. Aliases!Walk(t, p, 1)
    BY <2>1 DEF Aliases!Walk
  <2>3. QED
    BY <2>1, <2>2
<1>2. MaxDepth - 1 \in Spare
  <2>1. MaxDepth - (MaxDepth - 1) = 1 /\ MaxDepth - 1 \in Nat /\ 1 \in 1..MaxDepth
    OBVIOUS
  <2> HIDE DEF Walks
  <2>2. QED
    BY <1>1, <2>1
<1>3. PICK k \in Spare : \A j \in Spare : ~ (<<j, k>> \in OpToRel(<, Nat))
  <2>1. Spare \subseteq Nat /\ Spare # {}
    BY <1>2
  <2> HIDE DEF Spare
  <2>2. QED
    BY <2>1, NatLessThanWellFounded, WFMin, Zenon
<1> DEFINE n == MaxDepth - k
<1>4. k \in Nat /\ n \in 1..MaxDepth /\ Walks(n) /\ k = MaxDepth - n
  OBVIOUS
<1> HIDE DEF n
<1>5. PICK p \in [0..n -> Assets] : p[0] = a /\ Aliases!Walk(t, p, n)
  BY <1>4
<1>6. Aliases!Stops(t, p, n)
  <2> SUFFICES ASSUME ~ Aliases!Stops(t, p, n) PROVE FALSE
    OBVIOUS
  <2>1. /\ n # MaxDepth /\ t[p[n]] \notin {NoAsset, p[n]}
        /\ \A m \in 0..(n - 1) : p[m] # p[n]
    BY DEF Aliases!Stops
  <2> DEFINE q == [i \in 0..(n + 1) |-> IF i <= n THEN p[i] ELSE t[p[n]]]
  <2>2. n \in Nat /\ n + 1 \in 1..MaxDepth /\ p[n] \in Assets /\ t[p[n]] \in Assets
    BY <1>4, <2>1 DEF Aliases!AliasTable
  <2>3. \A i \in 0..n : q[i] = p[i]
    BY <2>2
  <2>4. q[n + 1] = t[p[n]] /\ q \in [0..(n + 1) -> Assets] /\ q[0] = a
    BY <1>5, <2>2
  <2> HIDE DEF q
  <2>5. Aliases!Walk(t, q, n + 1)
    <3> SUFFICES ASSUME NEW i \in 0..n
                 PROVE  /\ t[q[i]] \notin {NoAsset, q[i]}
                        /\ q[i + 1] = t[q[i]]
                        /\ \A j \in 0..(i - 1) : q[j] # q[i]
      BY <2>2 DEF Aliases!Walk
    <3>1. CASE i = n
      BY <2>1, <2>2, <2>3, <2>4, <3>1
    <3>2. CASE i # n
      <4>1. i \in 0..(n - 1) /\ i + 1 \in 0..n /\ \A j \in 0..(i - 1) : j \in 0..n
        BY <2>2, <3>2
      <4>2. /\ t[p[i]] \notin {NoAsset, p[i]} /\ p[i + 1] = t[p[i]]
            /\ \A j \in 0..(i - 1) : p[j] # p[i]
        BY <1>5, <4>1 DEF Aliases!Walk
      <4>3. QED
        BY <2>3, <4>1, <4>2
    <3>3. QED
      BY <3>1, <3>2
  <2>6. Walks(n + 1)
    BY <2>4, <2>5
  <2>7. k - 1 \in Nat /\ MaxDepth - (k - 1) = n + 1 /\ k - 1 < k
    BY <1>4, <2>1, <2>2
  <2> HIDE DEF Walks
  <2>8. k - 1 \in Spare
    BY <2>2, <2>6, <2>7
  <2> HIDE DEF Spare
  <2>9. <<k - 1, k>> \in OpToRel(<, Nat)
    BY <1>4, <2>7 DEF OpToRel
  <2>10. QED
    BY <1>3, <2>8, <2>9, Zenon
<1>7. QED
  BY <1>4, <1>5, <1>6

\* resolve_canonical_asset_id ends at an asset, whatever the table.
LEMMA CanonicalTyped ==
  ASSUME NEW t \in Aliases!AliasTable
  PROVE  CanonicalIn(t) \in [Assets -> Assets]
<1> SUFFICES ASSUME NEW a \in Assets PROVE Aliases!ResolveCanonicalAssetId(t, a) \in Assets
  BY DEF CanonicalIn
<1>1. CASE t[a] \in {NoAsset, a}
  BY <1>1 DEF Aliases!ResolveCanonicalAssetId
<1>2. CASE t[a] \notin {NoAsset, a}
  <2> DEFINE Ends(b) == \E n \in 1..MaxDepth : \E p \in [0..n -> Assets] :
                          /\ p[0] = a /\ p[n] = b
                          /\ Aliases!Walk(t, p, n) /\ Aliases!Stops(t, p, n)
  <2>1. \E b \in Assets : Ends(b)
    <3>1. PICK n \in 1..MaxDepth : \E p \in [0..n -> Assets] :
                 p[0] = a /\ Aliases!Walk(t, p, n) /\ Aliases!Stops(t, p, n)
      BY <1>2, SomeWalkStops
    <3>2. PICK p \in [0..n -> Assets] :
                 p[0] = a /\ Aliases!Walk(t, p, n) /\ Aliases!Stops(t, p, n)
      BY <3>1
    <3>3. p[n] \in Assets
      BY DepthAssumption
    <3>4. QED
      BY <3>2, <3>3
  <2>2. Aliases!ResolveCanonicalAssetId(t, a) = CHOOSE b \in Assets : Ends(b)
    BY <1>2 DEF Aliases!ResolveCanonicalAssetId
  <2> HIDE DEF Ends
  <2>3. QED
    BY <2>1, <2>2
<1>3. QED
  BY <1>1, <1>2

\* The invariant of the ledger with merges.
MergeIInv == IInv /\ alias \in Aliases!AliasTable

\* A merge moves rows to an asset and rewrites keys; no ledger row changes.
LEMMA MergeStep ==
  ASSUME MergeIInv, NEW source \in Assets, NEW target \in Assets,
         NEW consolidate \in BOOLEAN, MergeAssets(source, target, consolidate)
  PROVE  StepOK /\ alias' \in Aliases!AliasTable
<1> DEFINE moved == {f \in Findings : image[f] = source}
           img   == [f \in Findings |-> IF f \in moved THEN target ELSE image[f]]
           dup   == {f \in moved : /\ consolidate
                                   /\ \E g \in Findings \ {f} :
                                        img[g] = target /\ GroupKeyOf[g] = GroupKeyOf[f]}
<1>0. TypeOK /\ JobSound /\ alias \in Aliases!AliasTable
  BY DEF MergeIInv, IInv
<1>1. /\ Free /\ canonical' = CanonicalIn(alias')
      /\ alias' = Aliases!RepointAliases(
                    Aliases!UpsertAssetAlias(alias, source, target), source, target)
      /\ subjectAlias' = IF alias[source] = target THEN subjectAlias
                         ELSE RegisterDecisionAliases(source, target)
      /\ image' = img
      /\ status' = [f \in Findings |-> IF f \in dup THEN "Duplicate" ELSE status[f]]
      /\ UNCHANGED <<triage, decision, revisions, link, humanNewer, today, job>>
  BY DEF MergeAssets
<1>2. image' \in [Findings -> Assets \cup {NoAsset}] /\ Live' = Live
  <2>1. image' \in [Findings -> Assets \cup {NoAsset}]
    BY <1>0, <1>1 DEF TypeOK
  <2>2. \A f \in Findings : image'[f] # NoAsset <=> image[f] # NoAsset
    BY <1>0, <1>1, LedgerAssumption DEF TypeOK
  <2>3. QED
    BY <2>1, <2>2 DEF Live
<1>3. status' \in [Findings -> Statuses]
  <2> HIDE DEF dup
  <2>1. "Duplicate" \in Statuses
    BY DEF Statuses, RECORDABLE_STATUSES, TERMINAL_DECISION_STATUSES
  <2>2. QED
    BY <1>0, <1>1, <2>1 DEF TypeOK
<1> HIDE DEF moved, img, dup
<1>4. alias' \in Aliases!AliasTable
  <2>1. Aliases!UpsertAssetAlias(alias, source, target) \in Aliases!AliasTable
    BY <1>0 DEF Aliases!UpsertAssetAlias, Aliases!AliasTable
  <2>2. QED
    BY <1>1, <2>1 DEF Aliases!RepointAliases, Aliases!AliasTable
<1>5. canonical' \in [Assets -> Assets]
  BY <1>1, <1>4, CanonicalTyped
<1>6. subjectAlias' \in [Keys -> Keys \cup {NoKey}]
  <2>1. RegisterDecisionAliases(source, target) \in [Keys -> Keys \cup {NoKey}]
    BY <1>0 DEF RegisterDecisionAliases, Recorded, TypeOK
  <2>2. QED
    BY <1>0, <1>1, <2>1 DEF TypeOK
<1>7. TypeOK'
  BY <1>0, <1>1, <1>2, <1>3, <1>5, <1>6 DEF TypeOK
<1>8. LedgerStep
  BY <1>0, <1>1, <1>2, <1>7, QuietStep
<1>9. JobSound'
  BY <1>0, <1>1, <1>2 DEF JobSound, Free
<1>10. QED
  BY <1>4, <1>7, <1>8, <1>9 DEF StepOK

\* Deleting an asset also drops its rows of the alias table.
LEMMA DeleteRowsStep ==
  ASSUME MergeIInv, NEW a \in Assets, DeleteAssetRows(a)
  PROVE  StepOK /\ alias' \in Aliases!AliasTable
<1> DEFINE gone == {f \in Findings : image[f] = a}
<1>1. Free /\ DeleteFindings(gone) /\ canonical' = CanonicalIn(alias')
  BY DEF DeleteAssetRows
<1>2. alias' \in Aliases!AliasTable
  BY DEF DeleteAssetRows, MergeIInv, Aliases!AliasTable
<1>3. canonical' \in [Assets -> Assets]
  BY <1>1, <1>2, CanonicalTyped
<1>4. QED
  BY <1>1, <1>2, <1>3, DeletionStep DEF MergeIInv

\* Every step of the ledger with merges: a step that enters at most new
\* versions, and a step of the register or a stutter.
LEMMA EveryMergeStep ==
  ASSUME MergeIInv, MergeNext
  PROVE  StepOK /\ alias' \in Aliases!AliasTable /\ RegisterStep
<1>0. IInv /\ TypeOK
  BY DEF MergeIInv, IInv
<1>1. CASE Operation /\ UNCHANGED alias
  BY <1>0, <1>1, EveryStep, StepRefines DEF MergeIInv, Next
<1>2. CASE \E a, b \in Assets : Group(a, b) \/ AutoMerge(a, b)
  <2>1. PICK a, b \in Assets : Group(a, b) \/ AutoMerge(a, b)
    BY <1>2
  <2>2. canonical[a] \in Assets /\ canonical[b] \in Assets
    BY <1>0 DEF TypeOK
  <2>3. PICK s, t \in Assets : MergeAssets(s, t, TRUE) \/ MergeAssets(s, t, FALSE)
    BY <2>1, <2>2 DEF Group, AutoMerge
  <2>4. UNCHANGED <<revisions, decision>>
    BY <2>3 DEF MergeAssets
  <2>5. StepOK /\ alias' \in Aliases!AliasTable
    BY <2>3, MergeStep
  <2>6. QED
    BY <2>4, <2>5 DEF RegisterStep
<1>3. CASE \E a \in Assets : DeleteAssetRows(a)
  <2>1. PICK a \in Assets : DeleteAssetRows(a)
    BY <1>3
  <2>2. UNCHANGED <<revisions, decision>>
    BY <2>1 DEF DeleteAssetRows, DeleteFindings, ledgerVars
  <2>3. QED
    BY <2>1, <2>2, DeleteRowsStep DEF RegisterStep
<1>4. QED
  BY <1>1, <1>2, <1>3 DEF MergeNext

\* The invariant holds initially and is preserved.
LEMMA MergeInitIInv == MergeInit => MergeIInv
BY InitIInv DEF MergeInit, MergeIInv, Aliases!NoAliases, Aliases!AliasTable

\* Every step keeps the ledger's invariant with merges among the operations.
LEMMA MergeNextIInv == MergeIInv /\ [MergeNext]_mergeVars => MergeIInv'
<1> SUFFICES ASSUME MergeIInv, [MergeNext]_mergeVars PROVE MergeIInv'
  OBVIOUS
<1>1. CASE MergeNext
  <2>1. TypeOK' /\ JobSound' /\ LedgerStep /\ alias' \in Aliases!AliasTable
    BY <1>1, EveryMergeStep DEF StepOK
  <2>2. LedgerHistory'
    BY <2>1, EnteredKeepsHistory DEF MergeIInv, IInv, LedgerStep
  <2>3. LinksSound'
    BY <2>1, LedgerStepKeepsLinks DEF MergeIInv, IInv
  <2>4. QED
    BY <2>1, <2>2, <2>3 DEF MergeIInv, IInv
<1>2. CASE UNCHANGED mergeVars
  <2>1. UNCHANGED vars /\ UNCHANGED alias
    BY <1>2 DEF mergeVars
  <2>2. IInv'
    BY <2>1, NextIInv DEF MergeIInv
  <2>3. QED
    BY <2>1, <2>2 DEF MergeIInv
<1>3. QED
  BY <1>1, <1>2

\* The inductive invariant holds in every behaviour with merges.
THEOREM MergeInvariant == MergeSpec => []MergeIInv
BY MergeInitIInv, MergeNextIInv, PTL DEF MergeSpec

\* Merging and deleting assets, in any order with everything else, leaves the
\* tables well typed, the history truthful and the links sound.
THEOREM MergeKeepsLedgerSound ==
  MergeSpec => [](TypeOK /\ LedgerHistory /\ LinksSound)
<1>1. MergeIInv => TypeOK /\ LedgerHistory /\ LinksSound
  BY DEF MergeIInv, IInv
<1>2. QED
  BY <1>1, MergeInvariant, PTL

\* With merges too, no step takes a link back to an older version.
THEOREM MergeNeverLowersVersion == MergeSpec => AppliedVersionMonotone
<1> DEFINE Rise == \A k \in Keys, f \in Findings :
                     link'[k][f].version >= link[k][f].version
<1>1. MergeIInv /\ [MergeNext]_mergeVars => [Rise]_vars
  <2>1. ASSUME MergeIInv, MergeNext PROVE Rise
    BY <2>1, EveryMergeStep, LedgerStepMonotone DEF StepOK, MergeIInv, IInv
  <2> HIDE DEF Rise
  <2>2. QED
    BY <2>1 DEF mergeVars
<1>2. QED
  BY <1>1, MergeInvariant, PTL DEF MergeSpec, AppliedVersionMonotone

\* With merges too, readers see an append-only register of decisions.
THEOREM MergeImplementsRegister == MergeSpec => ImplementsRegister
<1>1. MergeInit => Register!Init
  BY DEF MergeInit, Init, Register!Init
<1>2. MergeIInv /\ [MergeNext]_mergeVars => [Register!Next]_<<revisions, decision>>
  <2>1. ASSUME MergeIInv, MergeNext PROVE RegisterStep
    BY <2>1, EveryMergeStep
  <2>2. QED
    BY <2>1 DEF mergeVars, vars, RegisterStep
<1>3. QED
  BY <1>1, <1>2, MergeInvariant, PTL DEF MergeSpec, ImplementsRegister, Register!Spec

\* With merges too, judgements stay with reviewers.
THEOREM MergeProjectsNoJudgement == MergeSpec => JudgementsNotProjected
<1>1. MergeIInv => JudgementsKept
  BY NoJudgementProjected DEF MergeIInv
<1>2. QED
  BY <1>1, MergeInvariant, PTL DEF MergeSpec, JudgementsNotProjected, JudgementsKept

\* A re-import is of a finding, an asset and a status.
SurvivesReimport ==
  \A f \in Findings, a \in Assets, st \in ScannerStatuses \cup {"Open"} :
    LET k == LookupDecision(f, canonical[a])
    IN  ImportCreate(f, a, st) /\ k # NoKey =>
          /\ link'[k][f].state = "linked"
          /\ decision[k].status \in TERMINAL_DECISION_STATUSES
               => status'[f] = decision[k].status

\* An import that creates a row takes the decision of its subject.
LEMMA ReimportTakesDecision == IInv => SurvivesReimport
<1> SUFFICES ASSUME IInv PROVE SurvivesReimport
  OBVIOUS
<1>1. TypeOK /\ ScannerStatuses \cup {"Open"} \subseteq Statuses
  BY LedgerAssumption, StatusFacts DEF IInv
<1>2. QED
  BY <1>1, NewRowTakesDecision DEF SurvivesReimport

\* A finding that is scanned again after its asset was deleted takes the
\* decision recorded for its subject.
THEOREM DecisionsSurviveReimport == Spec => DecisionSurvivesReimport
BY ReimportTakesDecision, LedgerInvariant, PTL
   DEF Spec, DecisionSurvivesReimport, SurvivesReimport

\* So it does when assets are merged and alias rows dropped in between.
THEOREM MergeSurvivesReimport == MergeSpec => DecisionSurvivesReimport
<1>1. MergeIInv => SurvivesReimport
  BY ReimportTakesDecision DEF MergeIInv
<1>2. QED
  BY <1>1, MergeInvariant, PTL DEF MergeSpec, DecisionSurvivesReimport, SurvivesReimport

(***************************************************************************)
(* A decision follows its source issue, as long as no asset is merged.  An *)
(* alias is written once, by the first record of its issue, so the         *)
(* invariant says who may have written it and that it was written.         *)
(***************************************************************************)
SubjectInv ==
  /\ canonical = [a \in Assets |-> a]
  \* Only merges alias a primary key.
  /\ \A f \in Findings, a \in Assets : subjectAlias[PrimaryKey(f, a)] = NoKey
  \* An issue's alias leads to a decision recorded for a finding of that issue.
  /\ \A f \in Findings, a \in Assets :
       IssueOf[f] # NoIssue =>
         \/ subjectAlias[SourceKey(f, a)] = NoKey
         \/ \E g \in Findings : /\ IssueOf[g] = IssueOf[f]
                                /\ subjectAlias[SourceKey(f, a)] = PrimaryKey(g, a)
                                /\ PrimaryKey(g, a) \in Recorded
  \* Every decision was recorded for a finding, whose issue has its alias.
  /\ \A k \in Recorded :
       \E g \in Findings, a \in Assets :
         /\ k = PrimaryKey(g, a)
         /\ IssueOf[g] # NoIssue => subjectAlias[SourceKey(g, a)] # NoKey

\* Keys of different kinds, assets, vulnerabilities or issues differ.
LEMMA KeysDiffer ==
  ASSUME NEW f \in Findings, NEW g \in Findings, NEW a \in Assets, NEW b \in Assets
  PROVE  /\ PrimaryKey(f, a) # SourceKey(g, b)
         /\ PrimaryKey(f, a) = PrimaryKey(g, b) => a = b
         /\ SourceKey(f, a) = SourceKey(g, b) <=> a = b /\ IssueOf[f] = IssueOf[g]
BY DEF PrimaryKey, SourceKey

\* A record of a finding's decision keeps the subjects' invariant.
LEMMA RecordKeepsSubjects ==
  ASSUME IInv, SubjectInv, canonical' = canonical,
         NEW f \in Live, NEW st \in Statuses, NEW tr \in Triage,
         NEW newer \in SUBSET Keys, RecordDecision(f, st, tr, newer)
  PROVE  SubjectInv'
<1> DEFINE c   == image[f]
           key == PrimaryKey(f, c)
           src == SourceKey(f, c)
<1>0. TypeOK /\ f \in Findings /\ c \in Assets /\ canonical[c] = c
  BY LiveImage DEF IInv, SubjectInv
<1>1. key \in Keys /\ NoKey \notin Keys
  BY <1>0, PrimaryKeyInKeys, LedgerAssumption
<1>2. CASE ~Recordable(st, tr)
  BY <1>2 DEF RecordDecision, SubjectInv, Recorded
<1>3. CASE Recordable(st, tr)
  <2>1. /\ \A k \in Keys : k # key => decision'[k] = decision[k]
        /\ decision'[key].version > 0
        /\ subjectAlias' = IF IssueOf[f] # NoIssue /\ subjectAlias[src] = NoKey
                           THEN [subjectAlias EXCEPT ![src] = key]
                           ELSE subjectAlias
    <3>1. decision[key].version \in Nat
      BY <1>0, <1>1 DEF TypeOK, Decision
    <3>2. \E d : /\ d.version = decision[key].version + 1
                 /\ decision' = [decision EXCEPT ![key] = d]
      BY <1>0, <1>3 DEF RecordDecision, NextVersion
    <3>3. /\ \A k \in Keys : k # key => decision'[k] = decision[k]
          /\ decision'[key].version > 0
      BY <1>0, <1>1, <3>1, <3>2 DEF TypeOK
    <3>4. QED
      BY <1>0, <1>3, <3>3 DEF RecordDecision
  <2> HIDE DEF key, src, c
  <2>2. Recorded' = Recorded \cup {key}
    BY <1>1, <2>1 DEF Recorded
  <2>3. IssueOf[f] # NoIssue => src \in Keys
    BY <1>0, SourceKeyInKeys DEF src
  <2>4. subjectAlias \in [Keys -> Keys \cup {NoKey}]
    BY <1>0 DEF TypeOK
  <2>5. ASSUME NEW g \in Findings, NEW a \in Assets
        PROVE  subjectAlias'[PrimaryKey(g, a)] = NoKey
    <3>1. PrimaryKey(g, a) # src /\ subjectAlias[PrimaryKey(g, a)] = NoKey
      BY <1>0, KeysDiffer DEF src, SubjectInv
    <3>2. QED
      BY <2>1, <2>3, <2>4, <3>1, PrimaryKeyInKeys
  <2>6. ASSUME NEW g \in Findings, NEW a \in Assets, IssueOf[g] # NoIssue
        PROVE  \/ subjectAlias'[SourceKey(g, a)] = NoKey
               \/ \E h \in Findings : /\ IssueOf[h] = IssueOf[g]
                                      /\ subjectAlias'[SourceKey(g, a)] = PrimaryKey(h, a)
                                      /\ PrimaryKey(h, a) \in Recorded'
    <3>1. SourceKey(g, a) \in Keys
      BY <2>6, SourceKeyInKeys
    <3>2. CASE subjectAlias'[SourceKey(g, a)] = subjectAlias[SourceKey(g, a)]
      BY <2>2, <2>6, <3>2 DEF SubjectInv
    <3>3. CASE subjectAlias'[SourceKey(g, a)] # subjectAlias[SourceKey(g, a)]
      <4>1. SourceKey(g, a) = src /\ subjectAlias'[SourceKey(g, a)] = key
        BY <2>1, <2>3, <2>4, <3>1, <3>3
      <4>2. a = c /\ IssueOf[f] = IssueOf[g]
        BY <1>0, <4>1, KeysDiffer DEF src
      <4>3. QED
        BY <1>0, <2>2, <4>1, <4>2 DEF key
    <3>4. QED
      BY <3>2, <3>3
  <2>7. ASSUME NEW k \in Recorded'
        PROVE  \E g \in Findings, a \in Assets :
                 /\ k = PrimaryKey(g, a)
                 /\ IssueOf[g] # NoIssue => subjectAlias'[SourceKey(g, a)] # NoKey
    <3>1. CASE k = key
      <4>1. IssueOf[f] # NoIssue => subjectAlias'[src] # NoKey
        BY <1>1, <2>1, <2>3, <2>4
      <4>2. QED
        BY <1>0, <3>1, <4>1 DEF key, src
    <3>2. CASE k # key
      <4>1. k \in Recorded
        BY <2>2, <3>2
      <4>2. PICK g \in Findings, a \in Assets :
              /\ k = PrimaryKey(g, a)
              /\ IssueOf[g] # NoIssue => subjectAlias[SourceKey(g, a)] # NoKey
        BY <4>1 DEF SubjectInv
      <4>3. IssueOf[g] # NoIssue => subjectAlias'[SourceKey(g, a)] # NoKey
        BY <1>1, <2>1, <2>3, <2>4, <4>2
      <4>4. QED
        BY <4>2, <4>3
    <3>3. QED
      BY <3>1, <3>2
  <2>8. QED
    BY <2>5, <2>6, <2>7 DEF SubjectInv
<1>4. QED
  BY <1>2, <1>3

\* Outside merges nothing changes the canonical assets.
LEMMA CanonicalStays ==
  ASSUME [Next]_vars
  PROVE  canonical' = canonical
BY DEF Next, Operation, vars, findingVars, ledgerVars, ImportCreate, ImportMerge,
       IssueClosed, UpdateFinding, RevertFinding, AnnotateFinding, BulkStart, BulkStep,
       BackfillStart, BackfillStep, ReconcileStart, ReconcileStep,
       ExpireDecisionWaivers, EnforceWaiverExpiryOnFindings, ExpiryWorkerDies,
       NextDay, DeleteAsset

\* The subjects' invariant is kept by every step.
LEMMA SubjectsKept ==
  ASSUME IInv, SubjectInv, [Next]_vars
  PROVE  SubjectInv'
<1>1. canonical' = canonical
  BY CanonicalStays
<1>2. CASE UNCHANGED <<decision, revisions, subjectAlias>>
  BY <1>1, <1>2 DEF SubjectInv, Recorded
<1>3. CASE ExpireDecisionWaivers
  <2>1. /\ UNCHANGED subjectAlias
        /\ decision' = [k \in Keys |->
                         IF k \in ExpiredDecisions
                         THEN [decision[k] EXCEPT !.status = "Open", !.version = @ + 1]
                         ELSE decision[k]]
    BY <1>3 DEF ExpireDecisionWaivers
  <2>2. \A k \in Keys : decision[k] \in Decision
    BY DEF IInv, TypeOK
  <2>3. \A k \in Keys : decision'[k].version > 0 <=> decision[k].version > 0
    <3> SUFFICES ASSUME NEW k \in Keys
                 PROVE  decision'[k].version > 0 <=> decision[k].version > 0
      OBVIOUS
    <3>1. CASE k \in ExpiredDecisions
      <4>1. decision[k].version > 0
        BY <3>1 DEF ExpiredDecisions, Recorded
      <4>2. decision'[k].version = decision[k].version + 1 /\ decision[k].version \in Nat
        BY <2>1, <2>2, <3>1, ExpiredRow
      <4>3. QED
        BY <4>1, <4>2
    <3>2. CASE k \notin ExpiredDecisions
      BY <2>1, <3>2
    <3>3. QED
      BY <3>1, <3>2
  <2>4. Recorded' = Recorded
    BY <2>3 DEF Recorded
  <2>5. QED
    BY <1>1, <2>1, <2>4 DEF SubjectInv
<1>4. CASE \E f \in Live, st \in Statuses, tr \in Triage, newer \in SUBSET Keys :
             RecordDecision(f, st, tr, newer)
  BY <1>1, <1>4, RecordKeepsSubjects
<1>5. QED
  BY <1>2, <1>3, <1>4, StepKinds DEF StepKind

\* The subjects' invariant holds in every behaviour.
LEMMA SubjectsAlways == Spec => []SubjectInv
<1>1. Init => SubjectInv
  <2> SUFFICES ASSUME Init PROVE SubjectInv
    OBVIOUS
  <2>1. Recorded = {}
    BY DEF Init, Recorded, NoDecision
  <2>2. \A f \in Findings, a \in Assets : subjectAlias[PrimaryKey(f, a)] = NoKey
    BY PrimaryKeyInKeys DEF Init
  <2>3. \A f \in Findings, a \in Assets :
          IssueOf[f] # NoIssue => subjectAlias[SourceKey(f, a)] = NoKey
    BY SourceKeyInKeys DEF Init
  <2>4. QED
    BY <2>1, <2>2, <2>3 DEF SubjectInv, Init
<1>2. IInv /\ SubjectInv /\ [Next]_vars => SubjectInv'
  BY SubjectsKept
<1>3. QED
  BY <1>1, <1>2, LedgerInvariant, PTL DEF Spec

\* The new row of a finding whose own subject has no decision takes the status
\* on which the decisions of its issue agree.
FollowsIssue ==
  \A f \in Findings, a \in Assets, st \in ScannerStatuses \cup {"Open"}, s \in TERMINAL_DECISION_STATUSES :
    LET Same(g) == IssueOf[g] = IssueOf[f]
        recorded == {k \in Recorded : \E g \in Findings : Same(g) /\ k = PrimaryKey(g, canonical[a])}
    IN  /\ ImportCreate(f, a, st) /\ IssueOf[f] # NoIssue /\ recorded # {}
        /\ \A k \in recorded :
             /\ k # PrimaryKey(f, canonical[a]) /\ decision[k].status = s
             /\ \A g \in Findings : k = PrimaryKey(g, canonical[a]) => Same(g)
        => status'[f] = s

\* A new row whose own subject has no decision takes the status on which the decisions
\* of its issue agree.
LEMMA NewRowFollowsIssue ==
  ASSUME IInv, SubjectInv
  PROVE  FollowsIssue
<1> SUFFICES ASSUME NEW f \in Findings, NEW a \in Assets,
                    NEW st \in ScannerStatuses \cup {"Open"},
                    NEW s \in TERMINAL_DECISION_STATUSES
             PROVE  LET Same(g) == IssueOf[g] = IssueOf[f]
                        recorded == {k \in Recorded : \E g \in Findings :
                                       Same(g) /\ k = PrimaryKey(g, canonical[a])}
                    IN  /\ ImportCreate(f, a, st) /\ IssueOf[f] # NoIssue /\ recorded # {}
                        /\ \A k \in recorded :
                             /\ k # PrimaryKey(f, canonical[a]) /\ decision[k].status = s
                             /\ \A g \in Findings :
                                  k = PrimaryKey(g, canonical[a]) => Same(g)
                        => status'[f] = s
  BY Zenon DEF FollowsIssue
<1> DEFINE recorded == {k \in Recorded : \E g \in Findings :
                          IssueOf[g] = IssueOf[f] /\ k = PrimaryKey(g, canonical[a])}
<1> SUFFICES ASSUME ImportCreate(f, a, st), IssueOf[f] # NoIssue, recorded # {},
                    \A k \in recorded :
                      /\ k # PrimaryKey(f, canonical[a]) /\ decision[k].status = s
                      /\ \A g \in Findings :
                           k = PrimaryKey(g, canonical[a]) => IssueOf[g] = IssueOf[f]
             PROVE  status'[f] = s
  OBVIOUS
<1>1. canonical[a] = a /\ TypeOK /\ st \in Statuses
  BY LedgerAssumption, StatusFacts DEF SubjectInv, IInv
<1>2. PrimaryKey(f, a) \notin Recorded
  BY <1>1
<1>3. SourceKey(f, a) \notin Recorded
  BY KeysDiffer DEF SubjectInv
<1>4. subjectAlias[SourceKey(f, a)] # NoKey
  <2>1. PICK k \in recorded : TRUE
    OBVIOUS
  <2>2. PICK g \in Findings, b \in Assets :
          /\ k = PrimaryKey(g, b)
          /\ IssueOf[g] # NoIssue => subjectAlias[SourceKey(g, b)] # NoKey
    BY <2>1 DEF SubjectInv
  <2>3. b = a
    BY <1>1, <2>1, <2>2, KeysDiffer
  <2>4. IssueOf[g] = IssueOf[f]
    BY <1>1, <2>1, <2>2, <2>3
  <2>5. QED
    BY <2>2, <2>3, <2>4 DEF SourceKey
<1>5. PICK g \in Findings : /\ IssueOf[g] = IssueOf[f]
                            /\ subjectAlias[SourceKey(f, a)] = PrimaryKey(g, a)
                            /\ PrimaryKey(g, a) \in Recorded
  BY <1>4 DEF SubjectInv
<1>6. decision[PrimaryKey(g, a)].status = s
  BY <1>1, <1>5
<1>7. NoKey \notin Recorded /\ subjectAlias[PrimaryKey(f, a)] = NoKey
  BY LedgerAssumption DEF Recorded, SubjectInv
<1>8. LookupDecision(f, a) = PrimaryKey(g, a)
  BY <1>1, <1>2, <1>3, <1>5, <1>7 DEF LookupDecision, DecisionFor
<1>9. PrimaryKey(g, a) # NoKey
  BY <1>5, <1>7
<1>10. QED
  BY <1>1, <1>6, <1>8, <1>9, NewRowTakesDecision

\* Without merges, a decision follows its source issue to findings whose own
\* subject has none.
THEOREM DecisionsFollowIssues == Spec => DecisionFollowsIssue
<1>1. IInv /\ SubjectInv => FollowsIssue
  BY NewRowFollowsIssue
<1>2. QED
  BY <1>1, SubjectsAlways, LedgerInvariant, PTL
     DEF Spec, DecisionFollowsIssue, FollowsIssue

(***************************************************************************)
(* A decision follows merges, as long as nobody merges the target of a     *)
(* merge: then an asset's decisions are looked up under the asset itself   *)
(* or under the one asset it was merged into, which merges have aliased.   *)
(***************************************************************************)

\* Nobody merges an asset that others were merged into.
TargetsStay == [][\A b \in Assets : alias[b] # NoAsset => alias'[alias[b]] = NoAsset]_alias

\* A lookup under the primary key of v on asset a finds something.
Found(a, v) ==
  \/ <<"primary", a, v>> \in Recorded
  \/ subjectAlias[<<"primary", a, v>>] \in Recorded

FollowInv ==
  /\ Aliases!Flat(alias)
  /\ canonical = CanonicalIn(alias)
  /\ \A a \in Assets, v \in Vulns : <<"primary", a, v>> \in Recorded => Found(canonical[a], v)

\* Resolution in a flat table follows at most one link.
LEMMA ResolveFlat ==
  ASSUME NEW t \in Aliases!AliasTable, Aliases!Flat(t), NEW a \in Assets
  PROVE  CanonicalIn(t)[a] = IF t[a] = NoAsset THEN a ELSE t[a]
<1> USE LedgerAssumption, DepthAssumption
<1>0. CanonicalIn(t)[a] = Aliases!ResolveCanonicalAssetId(t, a)
  BY DEF CanonicalIn
<1>1. CASE t[a] = NoAsset
  BY <1>0, <1>1 DEF Aliases!ResolveCanonicalAssetId
<1>2. CASE t[a] # NoAsset
  <2> DEFINE b == t[a]
             Ends(c) == \E n \in 1..MaxDepth : \E p \in [0..n -> Assets] :
                          p[0] = a /\ p[n] = c /\ Aliases!Walk(t, p, n) /\ Aliases!Stops(t, p, n)
  <2>1. b \in Assets /\ t[b] = NoAsset /\ b # a
    BY <1>2 DEF Aliases!AliasTable, Aliases!Flat
  <2>2. Ends(b)
    <3> DEFINE p == [i \in 0..1 |-> IF i = 0 THEN a ELSE b]
    <3>1. p \in [0..1 -> Assets] /\ p[0] = a /\ p[1] = b
      BY <2>1
    <3>2. Aliases!Walk(t, p, 1)
      BY <2>1, <3>1 DEF Aliases!Walk
    <3>3. Aliases!Stops(t, p, 1)
      BY <2>1, <3>1 DEF Aliases!Stops
    <3>4. 1 \in 1..MaxDepth
      OBVIOUS
    <3>5. QED
      BY <3>1, <3>2, <3>3, <3>4
  <2>3. ASSUME NEW c \in Assets, Ends(c) PROVE c = b
    <3>1. PICK n \in 1..MaxDepth : \E p \in [0..n -> Assets] :
                 p[0] = a /\ p[n] = c /\ Aliases!Walk(t, p, n) /\ Aliases!Stops(t, p, n)
      BY <2>3
    <3>2. PICK p \in [0..n -> Assets] :
                 p[0] = a /\ p[n] = c /\ Aliases!Walk(t, p, n) /\ Aliases!Stops(t, p, n)
      BY <3>1
    <3>3. n \in Nat /\ n >= 1
      OBVIOUS
    <3>4. p[1] = b
      BY <3>2, <3>3 DEF Aliases!Walk
    <3>5. n = 1
      <4>1. SUFFICES ASSUME n >= 2 PROVE FALSE
        BY <3>3
      <4>2. 1 \in 0..(n - 1)
        BY <3>3, <4>1
      <4>3. t[p[1]] # NoAsset
        BY <3>2, <4>2 DEF Aliases!Walk
      <4>4. QED
        BY <2>1, <3>4, <4>3
    <3>6. QED
      BY <3>2, <3>4, <3>5
  <2>4. Aliases!ResolveCanonicalAssetId(t, a) = CHOOSE c \in Assets : Ends(c)
    BY <1>2, <2>1 DEF Aliases!ResolveCanonicalAssetId
  <2> HIDE DEF Ends, b
  <2>5. \A c \in Assets : Ends(c) => c = b
    BY <2>3
  <2>6. (CHOOSE c \in Assets : Ends(c)) = b
    BY <2>1, <2>2, <2>5
  <2>7. QED
    BY <1>0, <1>2, <2>4, <2>6 DEF b
<1>3. QED
  BY <1>1, <1>2

\* The expiry job records no new subject.
LEMMA ExpireRecordsNone ==
  ASSUME TypeOK, ExpireDecisionWaivers
  PROVE  UNCHANGED subjectAlias /\ Recorded' = Recorded
<1>1. /\ UNCHANGED subjectAlias
      /\ decision' = [k \in Keys |->
                       IF k \in ExpiredDecisions
                       THEN [decision[k] EXCEPT !.status = "Open", !.version = @ + 1]
                       ELSE decision[k]]
  BY DEF ExpireDecisionWaivers
<1>2. \A k \in Keys : decision[k] \in Decision
  BY DEF TypeOK
<1>3. ASSUME NEW k \in Keys PROVE decision'[k].version > 0 <=> decision[k].version > 0
  <2>1. CASE k \in ExpiredDecisions
    <3>1. decision[k].version > 0
      BY <2>1 DEF ExpiredDecisions, Recorded
    <3>2. decision'[k].version = decision[k].version + 1 /\ decision[k].version \in Nat
      BY <1>1, <1>2, <2>1, ExpiredRow
    <3>3. QED
      BY <3>1, <3>2
  <2>2. CASE k \notin ExpiredDecisions
    BY <1>1, <2>2
  <2>3. QED
    BY <2>1, <2>2
<1>4. QED
  BY <1>1, <1>3 DEF Recorded

\* A record is of a canonical asset's subject and aliases no primary key.
LEMMA RecordFinds ==
  ASSUME TypeOK, NEW f \in Live, NEW st \in Statuses, NEW tr \in Triage,
         NEW newer \in SUBSET Keys, RecordDecision(f, st, tr, newer)
  PROVE  /\ Recorded \subseteq Recorded'
         /\ Recorded' \subseteq Recorded \cup {PrimaryKey(f, canonical[image[f]])}
         /\ \A a \in Assets, v \in Vulns :
              subjectAlias'[<<"primary", a, v>>] = subjectAlias[<<"primary", a, v>>]
<1> DEFINE c   == canonical[image[f]]
           key == PrimaryKey(f, c)
           src == SourceKey(f, c)
<1>0. f \in Findings /\ c \in Assets
  BY LiveImage
<1>1. key \in Keys
  BY <1>0, PrimaryKeyInKeys
<1>2. CASE ~Recordable(st, tr)
  BY <1>2 DEF RecordDecision, Recorded
<1>3. CASE Recordable(st, tr)
  <2>1. /\ \A k \in Keys : k # key => decision'[k] = decision[k]
        /\ decision'[key].version > 0
        /\ subjectAlias' = IF IssueOf[f] # NoIssue /\ subjectAlias[src] = NoKey
                           THEN [subjectAlias EXCEPT ![src] = key]
                           ELSE subjectAlias
    <3>1. decision[key].version \in Nat
      BY <1>1 DEF TypeOK, Decision
    <3>2. \E d : /\ d.version = decision[key].version + 1
                 /\ decision' = [decision EXCEPT ![key] = d]
      BY <1>3 DEF RecordDecision, NextVersion
    <3>3. /\ \A k \in Keys : k # key => decision'[k] = decision[k]
          /\ decision'[key].version > 0
      BY <1>1, <3>1, <3>2 DEF TypeOK
    <3>4. QED
      BY <1>3, <3>3 DEF RecordDecision
  <2>2. ASSUME NEW a \in Assets, NEW v \in Vulns
        PROVE  subjectAlias'[<<"primary", a, v>>] = subjectAlias[<<"primary", a, v>>]
    <3>1. <<"primary", a, v>> # src /\ <<"primary", a, v>> \in Keys
      BY DEF SourceKey, Keys
    <3> HIDE DEF src, key
    <3>2. QED
      BY <2>1, <3>1 DEF TypeOK
  <2> HIDE DEF key, src, c
  <2>3. Recorded' = Recorded \cup {key}
    BY <1>1, <2>1 DEF Recorded
  <2>4. QED
    BY <2>2, <2>3 DEF key, c
<1>4. QED
  BY <1>2, <1>3

\* The ledger's own steps record subjects of canonical assets only.
LEMMA LedgerFollows ==
  ASSUME IInv, alias \in Aliases!AliasTable, FollowInv, [Next]_vars, alias' = alias
  PROVE  FollowInv'
<1>1. canonical' = canonical
  BY CanonicalStays
<1>2. CASE UNCHANGED <<decision, revisions, subjectAlias>>
  BY <1>1, <1>2 DEF FollowInv, Found, Recorded
<1>3. CASE ExpireDecisionWaivers
  <2>1. UNCHANGED subjectAlias /\ Recorded' = Recorded
    BY <1>3, ExpireRecordsNone DEF IInv
  <2>2. QED
    BY <1>1, <2>1 DEF FollowInv, Found
<1>4. ASSUME NEW f \in Live, NEW st \in Statuses, NEW tr \in Triage,
             NEW newer \in SUBSET Keys, RecordDecision(f, st, tr, newer)
      PROVE  FollowInv'
  <2>1. /\ Recorded \subseteq Recorded'
        /\ Recorded' \subseteq Recorded \cup {PrimaryKey(f, canonical[image[f]])}
        /\ \A a \in Assets, v \in Vulns :
             subjectAlias'[<<"primary", a, v>>] = subjectAlias[<<"primary", a, v>>]
    BY <1>4, RecordFinds DEF IInv
  <2>2. image[f] \in Assets /\ canonical \in [Assets -> Assets]
    BY LiveImage DEF IInv, TypeOK
  <2>3. ASSUME NEW a \in Assets, NEW v \in Vulns, <<"primary", a, v>> \in Recorded'
        PROVE  Found(canonical[a], v)'
    <3>1. CASE <<"primary", a, v>> \in Recorded
      <4>1. Found(canonical[a], v) /\ canonical[a] \in Assets
        BY <2>2, <3>1 DEF FollowInv
      <4>2. QED
        BY <1>1, <2>1, <4>1 DEF Found
    <3>2. CASE <<"primary", a, v>> \notin Recorded
      <4>1. <<"primary", a, v>> = PrimaryKey(f, canonical[image[f]])
        BY <2>1, <2>3, <3>2
      <4>2. a = canonical[image[f]]
        BY <4>1 DEF PrimaryKey
      <4>3. canonical[a] = a
        <5>1. /\ canonical[image[f]] = IF alias[image[f]] = NoAsset THEN image[f] ELSE alias[image[f]]
              /\ canonical[a] = IF alias[a] = NoAsset THEN a ELSE alias[a]
          BY <2>2, ResolveFlat DEF FollowInv
        <5>2. alias[a] = NoAsset
          BY <2>2, <4>2, <5>1 DEF FollowInv, Aliases!Flat
        <5>3. QED
          BY <5>1, <5>2
      <4>4. QED
        BY <1>1, <2>3, <4>3 DEF Found
    <3>3. QED
      BY <3>1, <3>2
  <2>4. QED
    BY <1>1, <2>3 DEF FollowInv
<1>5. QED
  BY <1>2, <1>3, <1>4, StepKinds DEF StepKind

\* A merge into a canonical asset aliases the subjects of the source, and the
\* source is the only asset that is looked up elsewhere from then on.
LEMMA MergeFollows ==
  ASSUME MergeIInv, FollowInv, NEW s \in Assets, NEW t \in Assets, alias[t] = NoAsset,
         NEW consolidate \in BOOLEAN, MergeAssets(s, t, consolidate),
         \A b \in Assets : alias[b] # s
  PROVE  FollowInv'
<1>1. /\ s # t /\ canonical' = CanonicalIn(alias')
      /\ alias' = Aliases!RepointAliases(Aliases!UpsertAssetAlias(alias, s, t), s, t)
      /\ subjectAlias' = IF alias[s] = t THEN subjectAlias ELSE RegisterDecisionAliases(s, t)
      /\ Recorded' = Recorded
  BY DEF MergeAssets, Recorded
<1>2. alias \in Aliases!AliasTable /\ Aliases!Flat(alias) /\ TypeOK
  BY DEF MergeIInv, FollowInv, IInv
<1>3. alias' \in Aliases!AliasTable /\ \A a \in Assets : alias'[a] = IF a = s THEN t ELSE alias[a]
  BY <1>1, <1>2 DEF Aliases!RepointAliases, Aliases!UpsertAssetAlias, Aliases!AliasTable
<1>4. Aliases!Flat(alias')
  BY <1>1, <1>2, <1>3, LedgerAssumption DEF Aliases!Flat, Aliases!AliasTable
<1>5. \A a \in Assets : canonical'[a] = IF a = s THEN t ELSE canonical[a]
  <2>1. ASSUME NEW a \in Assets
        PROVE  /\ canonical[a] = IF alias[a] = NoAsset THEN a ELSE alias[a]
               /\ canonical'[a] = IF alias'[a] = NoAsset THEN a ELSE alias'[a]
    <3>1. canonical[a] = IF alias[a] = NoAsset THEN a ELSE alias[a]
      BY <1>2, ResolveFlat DEF FollowInv
    <3>2. CanonicalIn(alias')[a] = IF alias'[a] = NoAsset THEN a ELSE alias'[a]
      BY <1>3, <1>4, ResolveFlat
    <3>3. QED
      BY <1>1, <3>1, <3>2
  <2>2. QED
    BY <1>3, <2>1, LedgerAssumption
<1>6. ASSUME NEW a \in Assets, NEW v \in Vulns
      PROVE  subjectAlias'[<<"primary", a, v>>] = subjectAlias[<<"primary", a, v>>]
             \/ subjectAlias'[<<"primary", a, v>>] \in Recorded
  <2>1. <<"primary", a, v>> \in Keys
    BY DEF Keys
  <2>2. QED
    BY <1>1, <2>1 DEF RegisterDecisionAliases
<1>7. ASSUME NEW a \in Assets, NEW v \in Vulns, Found(a, v)
      PROVE  \/ <<"primary", a, v>> \in Recorded
             \/ subjectAlias'[<<"primary", a, v>>] \in Recorded
  BY <1>6, <1>7 DEF Found
<1>8. ASSUME NEW a \in Assets, NEW v \in Vulns, <<"primary", a, v>> \in Recorded
      PROVE  \/ <<"primary", canonical'[a], v>> \in Recorded
             \/ subjectAlias'[<<"primary", canonical'[a], v>>] \in Recorded
  <2>1. CASE a = s /\ alias[s] # t
    <3>1. <<"primary", t, v>> \in Keys
      BY DEF Keys
    <3>2. subjectAlias'[<<"primary", t, v>>] = <<"primary", s, v>>
      BY <1>1, <1>8, <2>1, <3>1 DEF RegisterDecisionAliases
    <3>3. QED
      BY <1>5, <1>8, <2>1, <3>2
  <2>2. CASE a = s /\ alias[s] = t
    <3>1. canonical[a] = t /\ Found(canonical[a], v)
      BY <1>2, <1>8, <2>2, ResolveFlat, LedgerAssumption DEF FollowInv
    <3>2. QED
      BY <1>5, <1>7, <2>2, <3>1
  <2>3. CASE a # s
    <3>1. canonical'[a] = canonical[a] /\ canonical[a] \in Assets /\ Found(canonical[a], v)
      BY <1>2, <1>5, <1>8, <2>3 DEF FollowInv, TypeOK
    <3>2. QED
      BY <1>7, <3>1
  <2>4. QED
    BY <2>1, <2>2, <2>3
<1>9. QED
  BY <1>1, <1>4, <1>8 DEF FollowInv, Found

\* A deletion gives assets back to themselves.
LEMMA DeletionFollows ==
  ASSUME MergeIInv, FollowInv, NEW d \in Assets, DeleteAssetRows(d)
  PROVE  FollowInv'
<1> DEFINE rows == {b \in Assets : alias[b] # NoAsset /\ d \in {b, alias[b]}}
<1>1. /\ alias' = [b \in Assets |-> IF b \in rows THEN NoAsset ELSE alias[b]]
      /\ canonical' = CanonicalIn(alias') /\ subjectAlias' = subjectAlias /\ Recorded' = Recorded
  BY DEF DeleteAssetRows, DeleteFindings, ledgerVars, Recorded
<1>2. alias \in Aliases!AliasTable /\ Aliases!Flat(alias)
  BY DEF MergeIInv, FollowInv
<1>3. alias' \in Aliases!AliasTable /\ \A a \in Assets : alias'[a] \in {alias[a], NoAsset}
  BY <1>1, <1>2 DEF Aliases!AliasTable
<1> HIDE DEF rows
<1>4. Aliases!Flat(alias')
  BY <1>2, <1>3, LedgerAssumption DEF Aliases!Flat, Aliases!AliasTable
<1>5. ASSUME NEW a \in Assets PROVE canonical'[a] \in {a, canonical[a]}
  <2>1. canonical[a] = IF alias[a] = NoAsset THEN a ELSE alias[a]
    BY <1>2, ResolveFlat DEF FollowInv
  <2>2. CanonicalIn(alias')[a] = IF alias'[a] = NoAsset THEN a ELSE alias'[a]
    BY <1>3, <1>4, ResolveFlat
  <2>3. QED
    BY <1>1, <1>3, <2>1, <2>2
<1>6. QED
  BY <1>1, <1>4, <1>5 DEF FollowInv, Found

\* Each step keeps it, if it leaves the targets of merges alone.
LEMMA StepFollows ==
  ASSUME MergeIInv, FollowInv, [MergeNext]_mergeVars,
         [\A b \in Assets : alias[b] # NoAsset => alias'[alias[b]] = NoAsset]_alias
  PROVE  FollowInv'
<1>1. /\ IInv /\ alias \in Aliases!AliasTable /\ Aliases!Flat(alias)
      /\ canonical \in [Assets -> Assets]
  BY DEF MergeIInv, FollowInv, IInv, TypeOK
<1>2. CASE UNCHANGED mergeVars
  BY <1>1, <1>2, LedgerFollows DEF mergeVars
<1>3. CASE Operation /\ UNCHANGED alias
  BY <1>1, <1>3, LedgerFollows DEF Next
<1>4. ASSUME NEW s \in Assets, NEW a \in Assets, NEW consolidate \in BOOLEAN,
             MergeAssets(s, canonical[a], consolidate)
      PROVE  FollowInv'
  <2> DEFINE t == canonical[a]
  <2>1. t \in Assets /\ alias[t] = NoAsset /\ s # t
    <3>1. t = IF alias[a] = NoAsset THEN a ELSE alias[a]
      BY <1>1, ResolveFlat DEF FollowInv
    <3>2. QED
      BY <1>1, <1>4, <3>1 DEF Aliases!Flat, MergeAssets
  <2>2. alias'[s] = t
    BY <1>1, <1>4, <2>1
       DEF MergeAssets, Aliases!RepointAliases, Aliases!UpsertAssetAlias, Aliases!AliasTable
  <2>3. ASSUME NEW b \in Assets, alias[b] = s PROVE FALSE
    <3>1. alias[b] # NoAsset /\ NoAsset \notin Assets
      BY <2>3, LedgerAssumption
    <3>2. CASE alias'[alias[b]] = NoAsset
      BY <2>1, <2>2, <2>3, <3>1, <3>2
    <3>3. CASE alias' = alias
      BY <1>1, <2>1, <2>2, <2>3, <3>1, <3>3 DEF Aliases!Flat
    <3>4. QED
      BY <3>1, <3>2, <3>3
  <2> HIDE DEF t
  <2>4. MergeAssets(s, t, consolidate)
    BY <1>4 DEF t
  <2>5. QED
    BY <2>1, <2>3, <2>4, MergeFollows
<1>5. ASSUME NEW a \in Assets, NEW b \in Assets, Group(a, b) \/ AutoMerge(a, b)
      PROVE  FollowInv'
  <2>1. MergeAssets(a, canonical[b], TRUE) \/ MergeAssets(canonical[a], canonical[b], FALSE)
    BY <1>5 DEF Group, AutoMerge
  <2>2. canonical[a] \in Assets
    BY <1>1
  <2>3. QED
    BY <1>4, <2>1, <2>2
<1>6. QED
  BY <1>2, <1>3, <1>5, DeletionFollows DEF MergeNext

\* A decision follows merges, although its finding is looked up under another asset
\* from then on, as long as no asset is merged that others were merged into.
THEOREM DecisionsFollowMerges == MergeSpec /\ TargetsStay => []DecisionFollowsMerge
<1>1. MergeInit => FollowInv
  <2> SUFFICES ASSUME MergeInit PROVE FollowInv
    OBVIOUS
  <2>1. Recorded = {} /\ alias = [a \in Assets |-> NoAsset] /\ canonical = [a \in Assets |-> a]
    BY DEF MergeInit, Init, Recorded, NoDecision, Aliases!NoAliases
  <2>2. CanonicalIn(alias) = [a \in Assets |-> a]
    BY <2>1 DEF CanonicalIn, Aliases!ResolveCanonicalAssetId
  <2>3. Aliases!Flat(alias)
    BY <2>1 DEF Aliases!Flat
  <2>4. QED
    BY <2>1, <2>2, <2>3 DEF FollowInv
<1>2. MergeIInv /\ FollowInv => DecisionFollowsMerge
  <2> SUFFICES ASSUME MergeIInv, FollowInv, NEW f \in Findings, NEW a \in Assets,
                      PrimaryKey(f, a) \in Recorded
               PROVE  LookupDecision(f, a) # NoKey
    BY DEF DecisionFollowsMerge
  <2>1. Found(canonical[a], VulnOf[f]) /\ NoKey \notin Recorded
    BY LedgerAssumption DEF FollowInv, PrimaryKey, Recorded
  <2>2. DecisionFor(PrimaryKey(f, canonical[a])) # NoKey
    BY <2>1 DEF Found, DecisionFor, PrimaryKey
  <2>3. QED
    BY <2>2 DEF LookupDecision
<1> DEFINE Stay == \A b \in Assets : alias[b] # NoAsset => alias'[alias[b]] = NoAsset
<1>3. MergeIInv /\ FollowInv /\ [MergeNext]_mergeVars /\ [Stay]_alias => FollowInv'
  BY StepFollows
<1>4. TargetsStay <=> [][Stay]_alias
  BY DEF TargetsStay
<1> HIDE DEF Stay
<1>5. QED
  BY <1>1, <1>2, <1>3, <1>4, MergeInvariant, PTL DEF MergeSpec
=============================================================================
