----------------------------- MODULE ScanState -----------------------------
(***************************************************************************)
(* The scanner's incremental lanes: runtime images of a node, the image    *)
(* inventory of a cluster, its Kubernetes objects, and the node itself.    *)
(* A pass scans what has changed since the checkpoint in the lane's state  *)
(* file, sends the reports to VAT and checkpoints what went through; now   *)
(* and then it is a full rescan.  Each lane has a process and a file of    *)
(* its own, so one lane, chosen at first, runs here.                       *)
(***************************************************************************)
EXTENDS Naturals, FiniteSets

CONSTANTS
  Items,        \* images, or objects, of the lane
  Place,        \* the listing of the node's runtimes that has an image
  Versions,     \* signatures an item may have
  NoVersion,
  FirstVersion,
  MaxChanges,   \* bound on changes of items and on assets deleted in VAT
  MaxFaults     \* bound on failed scans and calls, on crashes and lost keys

\* What VatScan assumes of the constants.
ScanStateAssumption ==
  /\ IsFiniteSet(Items) /\ DOMAIN Place = Items /\ NoVersion \notin Versions /\ FirstVersion \in Versions
  /\ MaxChanges \in Nat /\ MaxFaults \in Nat

Lanes == {"runtime", "inventory", "k8s", "node"}

\* What crictl and docker list of a node; an image shows up in one of them.
Containerd == {"containers", "images"}
Docker     == {"docker containers", "docker images"}

VARIABLES
  lane,     \* which command runs
  strict,   \* --fail-on-error
  rescans,  \* a full-rescan interval is set
  current,  \* the signature of each item in the cluster
  file,     \* the state file: checkpoints and lastFullScanAt
  pass,     \* the running pass
  key,      \* the ingest key in the scanner's cache
  vat,      \* versions of an item VAT has all reports of
  knows,    \* items VAT has any data for
  excused,  \* versions that were checkpointed though a scanner gave nothing
  ever,     \* versions VAT once had all reports of
  changes, faults

vars == <<lane, strict, rescans, current, file, pass, key, vat, knows, excused, ever, changes, faults>>
setup == <<lane, strict, rescans>>

Fault == faults < MaxFaults /\ faults' = faults + 1

\* _load_scan_state of a file that is missing or cannot be parsed.
NewFile == [sig |-> [i \in Items |-> NoVersion], full |-> "unset"]
Idle    == [pc |-> "idle", todo |-> {}, seen |-> [i \in Items |-> NoVersion], full |-> FALSE,
            failed |-> FALSE, got |-> {}, silent |-> {}, hidden |-> {}]

\* The runtime lane takes an interval of 0 for a day.
Init ==
  /\ lane \in Lanes /\ strict \in BOOLEAN /\ rescans \in BOOLEAN
  /\ lane = "runtime" => rescans
  /\ current = [i \in Items |-> FirstVersion]
  /\ file = NewFile /\ pass = Idle /\ key = "good"
  /\ vat = [i \in Items |-> {}] /\ knows = {} /\ ever = vat /\ excused = vat
  /\ changes = 0 /\ faults = 0

----------------------------------------------------------------------------
(* Surroundings: the cluster, VAT's users, other scanners and the clock.   *)

Changes == changes < MaxChanges /\ changes' = changes + 1

ChangeItem(i) ==
  /\ Changes
  /\ \E v \in Versions \ {current[i]} : current' = [current EXCEPT ![i] = v]
  /\ UNCHANGED <<setup, file, pass, key, vat, knows, excused, ever, faults>>

DeleteAsset(i) ==
  /\ i \in knows /\ Changes
  /\ vat' = [vat EXCEPT ![i] = {}] /\ knows' = knows \ {i}
  /\ UNCHANGED <<setup, current, file, pass, key, excused, ever, faults>>

\* The source's key is regenerated by a scanner with another cache, or the
\* volume of the cache is lost.
LoseKey ==
  /\ Fault /\ key' \in {"stale", "missing"}
  /\ UNCHANGED <<setup, current, file, pass, vat, knows, excused, ever, changes>>

\* A run with --reset-keys.
ResetKeys ==
  /\ key # "good" /\ key' = "good"
  /\ UNCHANGED <<setup, current, file, pass, vat, knows, excused, ever, changes, faults>>

\* The interval since lastFullScanAt passes.
Age ==
  /\ file.full = "recent" /\ rescans
  /\ file' = [file EXCEPT !.full = "old"]
  /\ UNCHANGED <<setup, current, pass, key, vat, knows, excused, ever, changes, faults>>

----------------------------------------------------------------------------
(* A pass.                                                                 *)

\* _ensure_parser_ingest_key: the source has a key, so VAT returns none, and the
\* cached one is used; without one only the runtime lane goes on.
HasKey == key # "missing" \/ lane = "runtime"

FullRescanDue == rescans /\ file.full = "old"

\* What VAT still has: the inventory lane asks, and trusts its file when the
\* call fails; the other lanes do not ask.
StillKnown ==
  {Items} \cup (IF lane = "inventory" /\ key = "good" THEN {knows} ELSE {})

\* A node's images come from four listings.  Without the containers there is no
\* pass; when another one fails the pass goes on without what it would have had.
Hidden(failing) == IF lane = "runtime" THEN {i \in Items : Place[i] \in failing} ELSE {}

MayFail == IF lane = "runtime" THEN (Containerd \cup Docker) \ {"containers"} ELSE {}

ToScan(full, known) == {i \in Items : full \/ i \notin known \/ file.sig[i] # current[i]}

\* Items keep the state they had in the inventory; the ones that are skipped
\* are left out at once, as nothing else changes the file.
StartPass ==
  /\ pass.pc = "idle" /\ HasKey
  /\ \E known \in StillKnown, failing \in {{}} \cup {{l} : l \in MayFail} :
       /\ IF failing # {} \/ (lane = "inventory" /\ key = "good" /\ known # knows)
          THEN Fault ELSE UNCHANGED faults
       /\ pass' = [Idle EXCEPT !.pc = "run", !.seen = current, !.full = FullRescanDue,
                               !.hidden = Hidden(failing),
                               !.todo = ToScan(FullRescanDue, known) \ Hidden(failing)]
  /\ UNCHANGED <<setup, current, file, key, vat, knows, excused, ever, changes>>

\* What a scan of an item comes to, when not all that matters gave a report.
\* What matters are Trivy's findings and SBOM, and OpenSCAP in the runtime lane;
\* the other scanners are best effort and count only with --fail-on-error.
\*   no_report    a scanner failed; the others' reports, if any, were ingested
\*   best_effort  a best-effort scanner failed
\*   silent       the scanner gave nothing and the lane takes it for an answer
\*   empty        the inventory lists an object without its manifest
BestEffort    == IF strict THEN {"best_effort"} ELSE {}
RuntimeScan   == {"no_report"} \cup BestEffort
InventoryScan == {"no_report"} \cup BestEffort
K8sScan       == {"no_report", "empty"}           \* no output file: no results, ingested
                   \cup (IF key = "good" THEN {"silent"} ELSE {})
NodeScan      == {"no_report", "silent"}          \* no content for this host

\* And the ingest of its reports, which may fail after all its retries.
Outcomes ==
  {"not_ingested"} \cup (IF key = "good" THEN {"ok"} ELSE {})
                   \cup CASE lane = "runtime"   -> RuntimeScan
                          [] lane = "inventory" -> InventoryScan
                          [] lane = "k8s"       -> K8sScan
                          [] OTHER              -> NodeScan

\* Mutant: a failed scan does not make the pass fail.
CountsIngestOnly(o) == o = "not_ingested"

\* failures
Counts(o) == o \in {"no_report", "not_ingested"}

\* Mutant: every lane forgives a scan without a report.
CheckpointsAny(o) == lane # "node" /\ o \in {"ok", "silent", "no_report"}

\* target_failures = 0, where the runtime lane leaves scanner failures out; the
\* node lane has no state file.
RuntimeKeeps   == {"ok", "no_report"}
InventoryKeeps == {"ok"}
K8sKeeps       == {"ok", "silent"}

Checkpoints(o) ==
  \/ lane = "runtime" /\ o \in RuntimeKeeps
  \/ lane = "inventory" /\ o \in InventoryKeeps
  \/ lane = "k8s" /\ o \in K8sKeeps

\* With --fail-on-error the first failure ends the pass, before the checkpoint.
Stops(o) == strict /\ (Counts(o) \/ o = "best_effort")

ScanItem ==
  /\ pass.pc = "run" /\ pass.todo # {}
  /\ \E o \in Outcomes :
       LET i == CHOOSE j \in pass.todo : TRUE
           v == pass.seen[i]
           stop == Stops(o)
       IN /\ IF o = "ok" \/ (o = "not_ingested" /\ key # "good") THEN UNCHANGED faults ELSE Fault
          /\ IF o = "ok"
             THEN vat' = [vat EXCEPT ![i] = @ \cup {v}] /\ ever' = [ever EXCEPT ![i] = @ \cup {v}]
             ELSE UNCHANGED <<vat, ever>>
          /\ knows' \in IF o = "ok" THEN {knows \cup {i}}
                        ELSE IF key # "good" THEN {knows} ELSE {knows, knows \cup {i}}
          /\ pass' = IF stop THEN Idle
                     ELSE [pass EXCEPT !.todo = @ \ {i}, !.failed = @ \/ Counts(o),
                                       !.got = IF o = "ok" THEN @ \cup {i} ELSE @,
                                       !.silent = IF o \in {"silent", "empty"} THEN @ \cup {i} ELSE @]
          /\ IF Checkpoints(o) /\ ~stop
             THEN /\ file' = [file EXCEPT !.sig[i] = v]
                  /\ excused' = IF o # "ok" /\ lane # "inventory"
                                THEN [excused EXCEPT ![i] = @ \cup {v}] ELSE excused
             ELSE UNCHANGED <<file, excused>>
  /\ UNCHANGED <<setup, current, key, changes>>

\* Mutant: the first pass is not noted.
NotedWhenFull == ~pass.failed /\ pass.full /\ lane # "node"

\* A full rescan, or the first pass ever, that saw no failure is noted.
Noted == ~pass.failed /\ (pass.full \/ file.full = "unset") /\ lane # "node"

EndPass ==
  /\ pass.pc = "run" /\ pass.todo = {}
  /\ pass' = Idle
  /\ file' = IF Noted THEN [file EXCEPT !.full = "recent"] ELSE file
  /\ UNCHANGED <<setup, current, key, vat, knows, excused, ever, changes, faults>>

\* The process dies, perhaps while it writes the file, which is not atomic; or
\* of a post whose connection is cut, which no lane catches.  Reports of the item
\* it was at may have been ingested.
Crash ==
  /\ pass.pc = "run" /\ Fault
  /\ pass' = Idle /\ file' \in {file} \cup (IF lane = "node" THEN {} ELSE {NewFile})
  /\ knows' \in {knows} \cup {knows \cup {i} : i \in IF key = "good" THEN pass.todo ELSE {}}
  /\ UNCHANGED <<setup, current, key, vat, excused, ever, changes>>

Next ==
  \/ \E i \in Items : ChangeItem(i) \/ DeleteAsset(i)
  \/ LoseKey \/ ResetKeys \/ Age \/ Crash
  \/ StartPass \/ ScanItem \/ EndPass

Spec == Init /\ [][Next]_vars

\* The deployments run pass after pass, and time passes.
FairSpec == Spec /\ WF_vars(StartPass \/ ScanItem \/ EndPass) /\ WF_vars(Age)

----------------------------------------------------------------------------
StateFile == [sig : [Items -> Versions \cup {NoVersion}], full : {"unset", "recent", "old"}]
Pass == [pc : {"idle", "run"}, todo : SUBSET Items, seen : [Items -> Versions \cup {NoVersion}],
         full : BOOLEAN, failed : BOOLEAN,
         got : SUBSET Items, silent : SUBSET Items, hidden : SUBSET Items]

TypeOK ==
  /\ lane \in Lanes /\ strict \in BOOLEAN /\ rescans \in BOOLEAN
  /\ current \in [Items -> Versions]
  /\ file \in StateFile /\ pass \in Pass
  /\ pass.pc = "run" => pass.seen \in [Items -> Versions]
  /\ pass.got \cup pass.silent \cup pass.hidden \subseteq Items \ pass.todo
  /\ key \in {"good", "stale", "missing"}
  /\ vat \in [Items -> SUBSET Versions] /\ ever \in [Items -> SUBSET Versions]
  /\ excused \in [Items -> SUBSET Versions] /\ knows \subseteq Items
  /\ file.full = "old" => rescans
  /\ changes \in 0..MaxChanges /\ faults \in 0..MaxFaults

\* A checkpoint makes later passes skip a version, so it means that VAT has had
\* all its reports: in every crash and failure, always in the inventory lane,
\* and elsewhere but for a version whose scanner gave nothing.
CheckpointSound ==
  \A i \in Items : file.sig[i] \in {NoVersion} \cup ever[i] \cup
                                   (IF lane = "inventory" THEN {} ELSE excused[i])

\* The next full rescan is put off by an interval only when this one brought
\* VAT the reports of every item, whichever of them failed in between; the exceptions
\* are images a failed listing of the runtime hid, and objects that came without
\* a manifest or that Trivy was silent on.
FullRescanComplete ==
  [][file.full = "old" /\ file'.full = "recent"
       => Items \ pass.got \subseteq pass.silent \cup pass.hidden]_vars

\* Every item's current version reaches VAT, and does so again after its asset
\* is deleted there, whatever failed or was checkpointed in vain, by a full
\* rescan at the latest; where there are none the inventory lane still sees that
\* VAT has some data of it.  The excuse is a key that is lost for good.
EveryItemScanned ==
  \A i \in Items : []<>(\/ current[i] \in vat[i] \/ key # "good"
                        \/ ~rescans /\ (lane = "inventory" => i \in knows) /\ lane # "node")
=============================================================================
